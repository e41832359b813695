--------------------------- MODULE ProxyCoreProofs ---------------------------
(***************************************************************************)
(* Proofs about the proxies, for every set of objects, any number of       *)
(* transactions and proxies, and any verification results: types, and that *)
(* all parties that meet at a version of an object use one Notify, so that *)
(* conflicting tasks run one after the other, in order.  Then what the     *)
(* order of the tasks means for the data: no copy of an object goes back   *)
(* to an older version or differs between proxies, and together the        *)
(* proxies implement the serial database; and what it means for the        *)
(* controllers: when all is done, only the entries of the last versions    *)
(* are left.                                                               *)
(***************************************************************************)
EXTENDS ProxyCore, VersionAssignmentProofs, TLAPS

-----------------------------------------------------------------------------
(* Vocabulary.                                                             *)

Produced(t) == NextVersion(assigned[t])

\* How far the task of t has got.
Started(t) == stage[t] # "none"
Registered(t) == stage[t] \notin {"none", "spawned"}
Past(t) == stage[t] \in {"execute", "notify", "reported", "done"}
Through(t) == stage[t] \in {"reported", "done"}

\* t reads version v of o.
Reads(t, o, v) == t \in Txns /\ o \in Objects(t) /\ assigned[t][o] = v

\* Another proxy produces what t reads of o.
Fetches(t, o) == forwarded[t].owner[o] # NoProxy

\* The Notify that a controller, that of p, holds for version v of o.
HandleIn(map, o, v) == <<o, v, map[<<o, v>>]>>

Handle(p, o, v) == HandleIn(obj_task_map[p], o, v)

Held(p, h) == h = Handle(p, h[1], h[2]) /\ h[3] # NoTask

\* All that touched o before t are through.
Settled(t, o) == \A i \in 1..(t - 1) : o \in Objects(i) => Through(i)

-----------------------------------------------------------------------------
(* Types, routes and stages.                                               *)

Stage == {"none", "spawned", "await", "execute", "notify", "reported", "done"}

\* What the variables are, as far as the steps themselves show it.
Shapes ==
    /\ VAInv
    /\ invalid \subseteq MayFail
    /\ forwarded = [t \in TxnId |-> forwarded[t]]
    /\ stage \in [TxnId -> Stage]
    /\ awaiting = [t \in TxnId |-> awaiting[t]]
    /\ signals = [t \in TxnId |-> signals[t]]
    /\ outcome \in [TxnId -> {"pending", "success", "skipped"}]
    /\ reads = [t \in TxnId |-> reads[t]]
    /\ obj_task_map \in [Proxy -> [Object \X Version -> {NoTask} \cup Creator]]
    /\ permits = [p \in Proxy |-> permits[p]]
    /\ listening \subseteq Proxy /\ up \subseteq Proxy

\* The previous owner a message names is where the predecessor was sent.
RoutedRight ==
    \A t \in TxnId : IsForwarded(t) =>
        /\ t \in Txns /\ ProxyOf(t) \in Proxy
        /\ \A i \in 1..(t - 1) : Conflicts(i, t) => IsForwarded(i)
        /\ \A o \in Objects(t) :
              /\ NoneBetween(0, t, o) => ~ Fetches(t, o)
              /\ \A i \in 1..(t - 1) : Predecessor(i, t, o) =>
                    forwarded[t].owner[o] = IF ProxyOf(i) = ProxyOf(t) THEN NoProxy ELSE ProxyOf(i)

\* What a task holds at each of its stages.
StageOK(t) ==
    /\ Started(t) => IsForwarded(t)
    /\ awaiting[t] # {} => stage[t] = "await"
    /\ signals[t] # {} => stage[t] \in {"await", "execute", "notify"}
    /\ outcome[t] = "pending" <=> stage[t] \in {"none", "spawned", "await", "execute"}
    /\ stage[t] = "done" /\ ProxyOf(t) \in up => outcome[t] = "success"

StagesOK == \A t \in TxnId : StageOK(t)

Base == Shapes /\ RoutedRight /\ StagesOK

\* What the constants are, for the provers.
LEMMA Constants ==
    /\ MaxTxns \in Nat /\ TxnId = 1..MaxTxns /\ 0 \notin TxnId
    /\ Proxy = 0..(NumProxies - 1) /\ NoProxy \notin Proxy /\ 0 \in Proxy
    /\ Version = 2..(2 + MaxTxns) /\ InitialVersion = 2 /\ 2 \in Version
BY MaxTxnsAssumption, NumProxiesAssumption
   DEF TxnId, Proxy, NoProxy, Version, InitialVersion

\* The order that consensus fixed, in the terms used here.
LEMMA Order ==
    ASSUME VAInv
    PROVE  /\ Txns \subseteq TxnId /\ Txns = 1..Len(assigned) /\ Len(assigned) \in Nat
           /\ \A t \in Txns :
                 /\ t \in Nat
                 /\ assigned[t] \in RequiredVersions
                 /\ Objects(t) \subseteq Object /\ Objects(t) # {}
                 /\ Produced(t) \in Version /\ Produced(t) > 2
                 /\ \A o \in Objects(t) : assigned[t][o] \in Version /\ assigned[t][o] < Produced(t)
           /\ \A i, j \in Txns : \A o \in Objects(i) \cap Objects(j) :
                 i < j => Produced(i) <= assigned[j][o]
BY OrderFacts, Constants DEF Produced

\* A version of an object is read by one transaction ...
LEMMA OneReader ==
    ASSUME VAInv, NEW o, NEW v, NEW t, NEW u, Reads(t, o, v), Reads(u, o, v) PROVE t = u
<1>1. t \in Txns /\ u \in Txns /\ o \in Objects(t) \cap Objects(u) /\ t \in Nat /\ u \in Nat
      /\ assigned[t][o] = assigned[u][o] /\ assigned[t][o] \in Version
  BY Order DEF Reads
<1>2. ~ (t < u) /\ ~ (u < t)
  BY <1>1, Constants DEF VAInv, VersionsIncrease
<1>3. QED
  BY <1>1, <1>2

\* ... and produced by one.
LEMMA OneProducer ==
    ASSUME VAInv, NEW i \in Txns, NEW j \in Txns, NEW o \in Objects(i) \cap Objects(j),
           Produced(i) = Produced(j)
    PROVE  i = j
<1>1. /\ i \in Nat /\ j \in Nat /\ Produced(i) \in Nat
      /\ assigned[i][o] \in Nat /\ assigned[i][o] < Produced(i)
      /\ assigned[j][o] \in Nat /\ assigned[j][o] < Produced(j)
  BY Order, Constants
<1>2. ~ (i < j) /\ ~ (j < i)
  BY <1>1, Order
<1>3. QED
  BY <1>1, <1>2

\* Who reads a version follows its producer on the object.
LEMMA ReaderFollows ==
    ASSUME VAInv, NEW i \in Txns, NEW o \in Objects(i), NEW t, Reads(t, o, Produced(i))
    PROVE  Predecessor(i, t, o)
<1>1. /\ i \in Nat /\ t \in Nat /\ t \in Txns /\ o \in Objects(t)
      /\ Produced(i) \in Nat /\ Produced(t) \in Nat
      /\ assigned[i][o] \in Nat /\ assigned[i][o] < Produced(i)
      /\ assigned[t][o] = Produced(i) /\ assigned[t][o] < Produced(t)
  BY Order, Constants DEF Reads
<1>2. ~ (t < i) /\ t # i
  BY <1>1, Order
<1>3. i \in 1..(t - 1)
  BY <1>1, <1>2, Order
<1>4. ASSUME NEW k \in (i + 1)..(t - 1), o \in Objects(k) PROVE FALSE
  <2>1. k \in Txns /\ k \in Nat /\ i < k /\ k < t
    BY <1>1, <1>3, Order
  <2>2. /\ Produced(i) <= assigned[k][o] /\ Produced(k) <= assigned[t][o]
        /\ assigned[k][o] \in Nat /\ Produced(k) \in Nat /\ assigned[k][o] < Produced(k)
    BY <1>1, <1>4, <2>1, Order, Constants
  <2>3. QED
    BY <1>1, <2>2
<1>5. QED
  BY <1>1, <1>3, <1>4 DEF Predecessor, NoneBetween

\* What a transaction reads is what its predecessor produces, or the initial version.
LEMMA ReadsProduced ==
    ASSUME VAInv, NEW t \in Txns, NEW o \in Objects(t)
    PROVE  /\ NoneBetween(0, t, o) => assigned[t][o] = 2
           /\ ~ NoneBetween(0, t, o) => \E i \in 1..(t - 1) : Predecessor(i, t, o)
           /\ \A i \in 1..(t - 1) : Predecessor(i, t, o) =>
                 /\ i \in Txns /\ o \in Objects(i)
                 /\ assigned[t][o] = Produced(i) /\ assigned[t][o] > 2
<1>1. t \in Nat \ {0}
  BY Order
<1>2. ~ NoneBetween(0, t, o) => \E i \in 1..(t - 1) : Predecessor(i, t, o)
  BY <1>1, PredecessorExists
<1>3. NoneBetween(0, t, o) => assigned[t][o] = 2
  BY Constants DEF VAInv, VersionChain
<1>4. ASSUME NEW i \in 1..(t - 1), Predecessor(i, t, o)
      PROVE  /\ i \in Txns /\ o \in Objects(i)
             /\ assigned[t][o] = Produced(i) /\ assigned[t][o] > 2
  <2>1. i \in Txns /\ o \in Objects(i)
    BY <1>1, <1>4, Order DEF Predecessor
  <2>2. assigned[t][o] = Produced(i)
    BY <1>4 DEF VAInv, VersionChain, Produced
  <2>3. QED
    BY <2>1, <2>2, Order
<1>5. QED
  BY <1>2, <1>3, <1>4

-----------------------------------------------------------------------------
(* What the calls of the dependency controllers do.                        *)

AllKeys == Object \X Version

Controller == [AllKeys -> {NoTask} \cup Creator]

\* No Notify has been created by nobody.
LEMMA CreatorsExist ==
    /\ NoTask \notin Creator
    /\ \A t \in TxnId : <<"txn", t>> \in Creator
    /\ \A o \in Object, v \in Version :
          <<"request", o, v>> \in Creator /\ <<"reply", o, v>> \in Creator
<1>1. \A t : <<"txn", t>> # NoTask
  BY DEF NoTask
<1>2. \A k, o, v : <<k, o, v>> # NoTask
  BY DEF NoTask
<1>3. QED
  BY <1>1, <1>2 DEF Creator

\* The entries of some keys have been made where there were none.
Enters(map, after, K) ==
    /\ after \in Controller
    /\ \A k \in AllKeys : map[k] # NoTask \/ k \notin K => after[k] = map[k]
    /\ \A k \in K : after[k] # NoTask

\* entry_helper keeps every entry and makes those that are missing.
LEMMA EntriesMade ==
    ASSUME NEW map \in Controller, NEW task \in Creator, NEW K \in SUBSET AllKeys
    PROVE  Enters(map, entry_helper(map, K, task), K)
<1>1. DOMAIN map = AllKeys /\ \A k \in AllKeys : map[k] \in {NoTask} \cup Creator
  BY DEF Controller
<1>2. task # NoTask
  BY CreatorsExist
<1> DEFINE after == [k \in AllKeys |-> IF k \in K /\ map[k] = NoTask THEN task ELSE map[k]]
<1>3. entry_helper(map, K, task) = after
  BY <1>1 DEF entry_helper
<1>4. after \in Controller
  BY <1>1 DEF Controller
<1>5. \A k \in AllKeys : map[k] # NoTask \/ k \notin K => after[k] = map[k]
  OBVIOUS
<1>6. \A k \in K : after[k] # NoTask
  BY <1>2
<1> HIDE DEF after
<1>7. QED
  BY <1>3, <1>4, <1>5, <1>6 DEF Enters

\* remove_dependency drops the entries of its keys.
LEMMA EntriesDropped ==
    ASSUME NEW map \in Controller, NEW required
    PROVE  /\ remove_dependency(map, required) \in Controller
           /\ \A k \in AllKeys : remove_dependency(map, required)[k] =
                 IF k \in Keys(required) THEN NoTask ELSE map[k]
BY DEF Controller, remove_dependency

(***************************************************************************)
(* The controller recomputes the version that was assigned; the proxies    *)
(* rely on that as the forwarder does.                                     *)
(***************************************************************************)
LEMMA NextVersionsAgree ==
    ASSUME NEW required \in RequiredVersions
    PROVE  calculate_next_version(required) = NextVersion(required)
<1> DEFINE R == Range(required)
           T == {InitialVersion} \cup R
           B == InitialVersion + MaxTxns
<1>1. R # {} /\ \A v \in R : v \in Version
  BY DEF RequiredVersions, Range
<1>2. B \in Nat /\ R \subseteq 0..B /\ T \subseteq 0..B /\ T # {} /\ R \subseteq T
      /\ InitialVersion \in Nat /\ \A v \in R : InitialVersion <= v
  BY <1>1, MaxTxnsAssumption DEF Version, InitialVersion
<1>3. \A x \in T : x = InitialVersion \/ x \in R
  OBVIOUS
<1>4. NextVersion(required) = Max(T) + 1 /\ calculate_next_version(required) = Max(R) + 1
  BY DEF NextVersion, calculate_next_version
<1> HIDE DEF R, T, B
<1>5. PICK m \in R : m = Max(R) /\ \A x \in R : x <= m
  BY <1>1, <1>2, MaxIsGreatest
<1>6. PICK n \in T : n = Max(T) /\ \A x \in T : x <= n
  BY <1>2, MaxIsGreatest
<1>7. m \in Nat /\ n \in Nat /\ m <= n /\ n <= m
  BY <1>2, <1>3, <1>5, <1>6
<1>8. QED
  BY <1>4, <1>5, <1>6, <1>7

\* The keys a transaction waits on and signals.
LEMMA TxnKeys ==
    ASSUME VAInv, NEW t \in Txns
    PROVE  /\ PriorKeys(assigned[t]) \in SUBSET AllKeys /\ NextKeys(assigned[t]) \in SUBSET AllKeys
           /\ \A k : k \in PriorKeys(assigned[t]) <=>
                 \E o \in Objects(t) : k = <<o, assigned[t][o]>> /\ assigned[t][o] > 2
           /\ \A k : k \in NextKeys(assigned[t]) <=>
                 \E o \in Objects(t) : k = <<o, Produced(t)>>
           /\ \A k : k \in Keys(assigned[t]) <=>
                 \E o \in Objects(t) : k = <<o, assigned[t][o]>>
<1>1. /\ assigned[t] \in RequiredVersions /\ Objects(t) \subseteq Object
      /\ Produced(t) \in Version /\ \A o \in Objects(t) : assigned[t][o] \in Version
  BY Order
<1>2. calculate_next_version(assigned[t]) = Produced(t)
  BY <1>1, NextVersionsAgree DEF Produced
<1>3. \A k : k \in Keys(assigned[t]) <=> \E o \in Objects(t) : k = <<o, assigned[t][o]>>
  BY DEF Keys, Objects
<1>4. \A k : k \in PriorKeys(assigned[t]) <=>
                 \E o \in Objects(t) : k = <<o, assigned[t][o]>> /\ assigned[t][o] > 2
  BY <1>3 DEF PriorKeys, initial_version
<1>5. \A k : k \in NextKeys(assigned[t]) <=> \E o \in Objects(t) : k = <<o, Produced(t)>>
  BY <1>2 DEF NextKeys, Objects
<1>6. PriorKeys(assigned[t]) \in SUBSET AllKeys
  BY <1>1, <1>4 DEF AllKeys
<1>7. NextKeys(assigned[t]) \in SUBSET AllKeys
  BY <1>1, <1>5 DEF AllKeys
<1>8. QED
  BY <1>3, <1>4, <1>5, <1>6, <1>7

\* The keys of a list with one object.
LEMMA SingleKeys ==
    ASSUME NEW o, NEW v \in Nat
    PROVE  /\ Keys(Single(o, v)) = {<<o, v>>}
           /\ v > 2 => PriorKeys(Single(o, v)) = {<<o, v>>}
           /\ NextKeys(Single(o, v)) = {<<o, v + 1>>}
<1>1. DOMAIN Single(o, v) = {o} /\ Single(o, v)[o] = v
  BY DEF Single
<1>2. Keys(Single(o, v)) = {<<o, v>>}
  BY <1>1 DEF Keys
<1>3. v > 2 => PriorKeys(Single(o, v)) = {<<o, v>>}
  BY <1>2 DEF PriorKeys, initial_version
<1>4. Range(Single(o, v)) = {v}
  BY <1>1 DEF Range
<1>5. Max({v}) = v
  <2>1. {v} \subseteq 0..v /\ {v} # {}
    OBVIOUS
  <2>2. QED
    BY <2>1, MaxIsGreatest
<1>6. calculate_next_version(Single(o, v)) = v + 1
  BY <1>4, <1>5 DEF calculate_next_version
<1>7. NextKeys(Single(o, v)) = {<<o, v + 1>>}
  BY <1>1, <1>6 DEF NextKeys
<1>8. QED
  BY <1>2, <1>3, <1>7

-----------------------------------------------------------------------------
(* The steps, in terms of what they change.                                *)

\* Entries are made in the controller of p.
EnteredAt(p, K) ==
    /\ obj_task_map' \in [Proxy -> Controller]
    /\ \A q \in Proxy : q # p => obj_task_map'[q] = obj_task_map[q]
    /\ Enters(obj_task_map[p], obj_task_map'[p], K)

\* Entries are removed from the controller of p.
DroppedAt(p, K) ==
    /\ obj_task_map' \in [Proxy -> Controller]
    /\ \A q \in Proxy : q # p => obj_task_map'[q] = obj_task_map[q]
    /\ \A k \in AllKeys : obj_task_map'[p][k] = IF k \in K THEN NoTask ELSE obj_task_map[p][k]

\* Nothing about the transactions other than t changes.
OnlyTxn(t) ==
    /\ UNCHANGED inputVars
    /\ \A u \in TxnId : u # t =>
          /\ stage'[u] = stage[u] /\ outcome'[u] = outcome[u] /\ reads'[u] = reads[u]
          /\ awaiting'[u] = awaiting[u] /\ signals'[u] = signals[u]

NextStage(t, s) == stage' = [stage EXCEPT ![t] = s]

\* A task that has started is of a transaction that was sent to its proxy.
LEMMA StartedFacts ==
    ASSUME Base, NEW t \in TxnId, Started(t)
    PROVE  IsForwarded(t) /\ t \in Txns /\ ProxyOf(t) \in Proxy
BY DEF Base, StagesOK, StageOK, RoutedRight

\* The Notifys that a controller holds for one version of each object of a set.
KeysOf(K, S, f) == \A k : k \in K <=> \E o \in S : k = <<o, f[o]>>

HandlesAre(H, map, S, f) == \A h : h \in H <=> \E o \in S : h = HandleIn(map, o, f[o])

\* The Notifys taken from a map for a set of keys are its entries at those keys.
LEMMA HandlesOf ==
    ASSUME NEW map, NEW K, NEW S, NEW f, KeysOf(K, S, f)
    PROVE  HandlesAre(Handles(map, K), map, S, f)
<1>1. \A h : h \in Handles(map, K) <=> \E k \in K : h = <<k[1], k[2], map[k]>>
  BY DEF Handles
<1>2. ASSUME NEW h, NEW k \in K, h = <<k[1], k[2], map[k]>>
      PROVE  \E o \in S : h = HandleIn(map, o, f[o])
  <2>1. PICK o \in S : k = <<o, f[o]>>
    BY <1>2 DEF KeysOf
  <2>2. QED
    BY <1>2, <2>1 DEF HandleIn
<1>3. ASSUME NEW o \in S PROVE HandleIn(map, o, f[o]) \in Handles(map, K)
  <2>1. <<o, f[o]>> \in K
    BY <1>3 DEF KeysOf
  <2>2. QED
    BY <1>1, <2>1 DEF HandleIn
<1>4. QED
  BY <1>1, <1>2, <1>3 DEF HandlesAre

\* A transaction asks the controller for its Notifys.
GotDependencies(t) ==
    /\ stage[t] = "spawned" /\ NextStage(t, "await")
    /\ EnteredAt(ProxyOf(t), PriorKeys(assigned[t]) \cup NextKeys(assigned[t]))
    /\ awaiting' = [awaiting EXCEPT ![t] = awaiting'[t]]
    /\ signals' = [signals EXCEPT ![t] = signals'[t]]
    /\ \A h : h \in awaiting'[t] <=>
          \E o \in Objects(t) : /\ assigned[t][o] > 2
                                /\ h = HandleIn(obj_task_map'[ProxyOf(t)], o, assigned[t][o])
    /\ \A h : h \in signals'[t] <=>
          \E o \in Objects(t) : h = HandleIn(obj_task_map'[ProxyOf(t)], o, Produced(t))

\* GetDependencies in these terms.
LEMMA GetFacts ==
    ASSUME Base, NEW t \in TxnId, GetDependencies(t)
    PROVE  GotDependencies(t)
<1>1. PICK p : p = ProxyOf(t)
  OBVIOUS
<1>2. stage[t] = "spawned" /\ Started(t)
  BY DEF GetDependencies, Started
<1>3. t \in Txns /\ p \in Proxy
  BY <1>1, <1>2, StartedFacts
<1>4. PICK map : map = obj_task_map[p]
  OBVIOUS
<1>5. map \in Controller
  BY <1>3, <1>4 DEF Base, Shapes, Controller, AllKeys
<1> DEFINE prior == PriorKeys(assigned[t])
           next == NextKeys(assigned[t])
           after == entry_helper(map, prior \cup next, <<"txn", t>>)
<1>6. prior \in SUBSET AllKeys /\ next \in SUBSET AllKeys /\ prior \cup next \in SUBSET AllKeys
  BY <1>3, TxnKeys DEF Base, Shapes
<1>7. Enters(map, after, prior \cup next)
  BY <1>5, <1>6, EntriesMade, CreatorsExist
<1>8. /\ obj_task_map' = [obj_task_map EXCEPT ![p] = after]
      /\ awaiting' = [awaiting EXCEPT ![t] = Handles(after, prior)]
      /\ signals' = [signals EXCEPT ![t] = Handles(after, next)]
      /\ NextStage(t, "await")
  BY <1>1, <1>4 DEF GetDependencies, get_prior_dependency_and_update, NextStage
<1>9. \A h : h \in Handles(after, prior) <=>
          \E o \in {o \in Objects(t) : assigned[t][o] > 2} : h = HandleIn(after, o, assigned[t][o])
  <2>1. \A k : k \in prior <=>
            \E o \in {o \in Objects(t) : assigned[t][o] > 2} : k = <<o, assigned[t][o]>>
    BY <1>3, TxnKeys DEF Base, Shapes
  <2>2. KeysOf(prior, {o \in Objects(t) : assigned[t][o] > 2}, assigned[t])
    BY <2>1 DEF KeysOf
  <2>3. HandlesAre(Handles(after, prior), after, {o \in Objects(t) : assigned[t][o] > 2}, assigned[t])
    BY <2>2, HandlesOf
  <2>4. QED
    BY <2>3 DEF HandlesAre
<1>10. \A h : h \in Handles(after, next) <=> \E o \in Objects(t) : h = HandleIn(after, o, Produced(t))
  <2> DEFINE f == [o \in Objects(t) |-> Produced(t)]
  <2>1. \A k : k \in next <=> \E o \in Objects(t) : k = <<o, Produced(t)>>
    BY <1>3, TxnKeys DEF Base, Shapes
  <2>2. \A o \in Objects(t) : f[o] = Produced(t)
    OBVIOUS
  <2> HIDE DEF f, next
  <2>3. KeysOf(next, Objects(t), f)
    BY <2>1, <2>2 DEF KeysOf
  <2>4. HandlesAre(Handles(after, next), after, Objects(t), f)
    BY <2>3, HandlesOf
  <2>5. QED
    BY <2>2, <2>4 DEF HandlesAre
<1> HIDE DEF prior, next, after
<1>11. obj_task_map' \in [Proxy -> Controller] /\ obj_task_map'[p] = after
       /\ \A q \in Proxy : q # p => obj_task_map'[q] = obj_task_map[q]
  BY <1>3, <1>7, <1>8 DEF Base, Shapes, Controller, AllKeys, Enters
<1>12. EnteredAt(p, prior \cup next)
  BY <1>4, <1>7, <1>11 DEF EnteredAt
<1>13. awaiting'[t] = Handles(after, prior) /\ signals'[t] = Handles(after, next)
  BY <1>8 DEF Base, Shapes
<1>14. EnteredAt(ProxyOf(t), PriorKeys(assigned[t]) \cup NextKeys(assigned[t]))
  BY <1>1, <1>12 DEF prior, next
<1>15. /\ awaiting' = [awaiting EXCEPT ![t] = awaiting'[t]]
       /\ signals' = [signals EXCEPT ![t] = signals'[t]]
  BY <1>8, <1>13
<1>16. QED
  BY <1>1, <1>2, <1>8, <1>9, <1>10, <1>11, <1>13, <1>14, <1>15 DEF GotDependencies

-----------------------------------------------------------------------------
(* Objects on the move, and the order the Notifys enforce.                 *)

\* t needs o from another proxy and has sent for it.
SentFor(t, o) == Started(t) /\ o \in Objects(t) /\ Fetches(t, o)

\* What is under way for t and o: a request, ...
RequestFor(m, t, o) ==
    /\ SentFor(t, o)
    /\ m.kind = "request" /\ m.from = ProxyOf(t) /\ m.to = forwarded[t].owner[o]
    /\ m.object_id = o /\ m.version = assigned[t][o]

\* ... a task at the producer's proxy, which waits until the producer is through, ...
ServingFor(s, t, o) ==
    /\ SentFor(t, o)
    /\ s = [at |-> forwarded[t].owner[o], from |-> ProxyOf(t), object_id |-> o,
            version |-> assigned[t][o], awaiting |-> s.awaiting]
    /\ \A h \in s.awaiting : h[1] = o /\ h[2] = s.version
    /\ s.awaiting = {} => Settled(t, o)

\* ... a reply with the object, ...
ReplyFor(m, t, o) ==
    /\ SentFor(t, o) /\ Settled(t, o)
    /\ m.kind = "reply" /\ m.from = forwarded[t].owner[o] /\ m.to = ProxyOf(t)
    /\ m.object_id = o /\ m.object \in Copy /\ m.object.version = assigned[t][o]

\* ... or a task that installs it.
InstallFor(i, t, o) ==
    /\ SentFor(t, o) /\ Settled(t, o)
    /\ i = [at |-> ProxyOf(t), object_id |-> o, object |-> i.object,
            signals |-> i.signals, committed |-> i.committed]
    /\ i.object \in Copy /\ i.object.version = assigned[t][o] /\ i.committed \in BOOLEAN
    /\ \A h \in i.signals : h[1] = o /\ h[2] = assigned[t][o]

EmptyReply(m) ==
    m.kind = "reply" /\ m.from \in Proxy /\ m.to \in Proxy /\ m.object = NoObject

Moves ==
    /\ \A m \in network :
          \/ \E t \in TxnId, o \in Object : RequestFor(m, t, o)
          \/ \E t \in TxnId, o \in Object : ReplyFor(m, t, o)
          \/ EmptyReply(m)
    /\ \A s \in serving : \E t \in TxnId, o \in Object : ServingFor(s, t, o)
    /\ \A i \in installing : \E t \in TxnId, o \in Object : InstallFor(i, t, o)

\* Version v of o is on the move, in one of these four forms.
IsMoving(o, v, k, x) ==
    \/ k = "request" /\ x \in network /\ x.kind = "request" /\ x.object_id = o /\ x.version = v
    \/ k = "serving" /\ x \in serving /\ x.object_id = o /\ x.version = v
    \/ k = "reply" /\ x \in network /\ x.kind = "reply" /\ x.object_id = o /\ x.object.version = v
    \/ k = "installing" /\ x \in installing /\ x.object_id = o /\ x.object.version = v

\* It is so in one form at a time.
OneMove ==
    \A o \in Object, v \in Version : \A k, l, x, y :
        IsMoving(o, v, k, x) /\ IsMoving(o, v, l, y) => k = l /\ x = y

NoMove(o, v) == \A k, x : ~ IsMoving(o, v, k, x)

Ready(t, o) == Settled(t, o) /\ NoMove(o, assigned[t][o])

\* A transaction gets past its waits when all before it are through and all has arrived.
WaitsOut(t) ==
    /\ Past(t) => \A o \in Objects(t) : Ready(t, o)
    /\ stage[t] = "await" => \A o \in Objects(t) :
          Ready(t, o) \/ \E h \in awaiting[t] : h[1] = o /\ h[2] = assigned[t][o]

InOrder == \A t \in TxnId : WaitsOut(t)

\* A task waits for what it reads and signals what it produces.
KnowsOwn(t) ==
    /\ \A h \in awaiting[t] : Reads(t, h[1], h[2])
    /\ \A h \in signals[t] : h[1] \in Objects(t) /\ h[2] = Produced(t)

OwnKeys == \A t \in TxnId : KnowsOwn(t)

\* Somebody at p has the Notify h.
HoldsAt(p, h) ==
    \/ \E t \in TxnId : ProxyOf(t) = p /\ (h \in awaiting[t] \/ h \in signals[t])
    \/ \E s \in serving : s.at = p /\ h \in s.awaiting
    \/ \E i \in installing : i.at = p /\ h \in i.signals
    \/ h \in permits[p]

\* Whoever has a Notify has the one in the controller.
AllHeld ==
    \A p \in Proxy : \A h : HoldsAt(p, h) => Held(p, h) /\ <<h[1], h[2]>> \in AllKeys

(***************************************************************************)
(* A permit says that the producer is through; it was given at its proxy   *)
(* or at the reader's, ...                                                 *)
(***************************************************************************)
Given(p, h) ==
    \E i \in Txns :
        /\ Through(i) /\ h[1] \in Objects(i) /\ h[2] = Produced(i)
        /\ \/ ProxyOf(i) = p
           \/ \E t \in TxnId : Reads(t, h[1], h[2]) /\ ProxyOf(t) = p /\ Started(t)

\* ... and whoever reads the version there ...
Untaken(p, h, t) ==
    Reads(t, h[1], h[2]) /\ ProxyOf(t) = p =>
        ~ Past(t) /\ (stage[t] = "await" => h \in awaiting[t]) /\ NoMove(h[1], h[2])

\* ... has yet to take it.
Unserved(p, h, s) ==
    s.at = p /\ s.object_id = h[1] /\ s.version = h[2] => h \in s.awaiting

Due(p, h) ==
    /\ Given(p, h)
    /\ \A t \in TxnId : Untaken(p, h, t)
    /\ \A s \in serving : Unserved(p, h, s)

PermitsDue == \A p \in Proxy : \A h \in permits[p] : Due(p, h)

\* The stores hold copies, and what was read was in one.
StoreTyped ==
    /\ store \in [Proxy -> [Object -> Copy]]
    /\ \A t \in TxnId : outcome[t] = "success" => reads[t] \in [Objects(t) -> {0} \cup TxnId]

NotifyInv ==
    Base /\ StoreTyped /\ Moves /\ OneMove /\ InOrder /\ OwnKeys /\ AllHeld /\ PermitsDue

\* A state that is sent for is at the predecessor's proxy, which is another one.
LEMMA FetchFacts ==
    ASSUME Base, NEW t \in TxnId, IsForwarded(t), NEW o \in Objects(t), Fetches(t, o)
    PROVE  /\ t \in Txns /\ o \in Object /\ ProxyOf(t) \in Proxy
           /\ forwarded[t].owner[o] \in Proxy /\ forwarded[t].owner[o] # ProxyOf(t)
           /\ assigned[t][o] \in Version /\ assigned[t][o] > 2
           /\ Reads(t, o, assigned[t][o])
           /\ \E i \in 1..(t - 1) :
                 /\ Predecessor(i, t, o) /\ i \in Txns /\ o \in Objects(i)
                 /\ assigned[t][o] = Produced(i) /\ forwarded[t].owner[o] = ProxyOf(i)
<1>1. VAInv /\ t \in Txns /\ ProxyOf(t) \in Proxy /\ o \in Object
  BY Order DEF Base, Shapes, RoutedRight
<1>2. ~ NoneBetween(0, t, o)
  BY DEF Base, RoutedRight
<1>3. PICK i \in 1..(t - 1) : Predecessor(i, t, o)
  BY <1>1, <1>2, ReadsProduced
<1>4. /\ i \in Txns /\ o \in Objects(i) /\ i \in TxnId
      /\ assigned[t][o] = Produced(i) /\ assigned[t][o] > 2 /\ assigned[t][o] \in Version
  BY <1>1, <1>3, ReadsProduced, Order
<1>5. Conflicts(i, t)
  BY <1>4 DEF Conflicts
<1>6. IsForwarded(i)
  BY <1>3, <1>5 DEF Base, RoutedRight
<1>7. ProxyOf(i) \in Proxy
  BY <1>4, <1>6 DEF Base, RoutedRight
<1>8. forwarded[t].owner[o] = IF ProxyOf(i) = ProxyOf(t) THEN NoProxy ELSE ProxyOf(i)
  BY <1>3 DEF Base, RoutedRight
<1>9. QED
  BY <1>1, <1>3, <1>4, <1>7, <1>8 DEF Fetches, Reads

\* The same, for what is under way.
LEMMA SentFacts ==
    ASSUME Base, NEW t \in TxnId, NEW o, SentFor(t, o)
    PROVE  /\ t \in Txns /\ o \in Object /\ ProxyOf(t) \in Proxy /\ o \in Objects(t)
           /\ forwarded[t].owner[o] \in Proxy /\ forwarded[t].owner[o] # ProxyOf(t)
           /\ assigned[t][o] \in Version /\ assigned[t][o] > 2
           /\ Reads(t, o, assigned[t][o])
           /\ \E i \in 1..(t - 1) :
                 /\ Predecessor(i, t, o) /\ i \in Txns /\ o \in Objects(i)
                 /\ assigned[t][o] = Produced(i) /\ forwarded[t].owner[o] = ProxyOf(i)
BY FetchFacts, StartedFacts DEF SentFor

\* What moves is moving for whoever reads it.
LEMMA MoverReads ==
    ASSUME Base, Moves, NEW o \in Object, NEW v \in Version, NEW k, NEW x, IsMoving(o, v, k, x),
           NEW t \in TxnId, Reads(t, o, v)
    PROVE  /\ SentFor(t, o)
           /\ k = "request" => RequestFor(x, t, o)
           /\ k = "serving" => ServingFor(x, t, o)
           /\ k = "reply" => ReplyFor(x, t, o)
           /\ k = "installing" => InstallFor(x, t, o)
<1>0. VAInv
  BY DEF Base, Shapes
<1>1. ASSUME NEW u \in TxnId, NEW r \in Object, SentFor(u, r), r = o, assigned[u][r] = v
      PROVE  u = t
  <2>1. Reads(u, o, v)
    BY <1>1, SentFacts
  <2>2. QED
    BY <1>0, <2>1, OneReader
<1>2. CASE k = "request"
  <2>1. x \in network /\ x.kind = "request" /\ x.object_id = o /\ x.version = v
    BY <1>2 DEF IsMoving
  <2>2. PICK u \in TxnId, r \in Object : RequestFor(x, u, r)
    BY <2>1 DEF Moves, ReplyFor, EmptyReply
  <2>3. QED
    BY <1>1, <1>2, <2>1, <2>2 DEF RequestFor
<1>3. CASE k = "serving"
  <2>1. x \in serving /\ x.object_id = o /\ x.version = v
    BY <1>3 DEF IsMoving
  <2>2. PICK u \in TxnId, r \in Object : ServingFor(x, u, r)
    BY <2>1 DEF Moves
  <2>3. x.object_id = r /\ x.version = assigned[u][r] /\ SentFor(u, r)
    BY <2>2 DEF ServingFor
  <2>4. QED
    BY <1>1, <1>3, <2>1, <2>2, <2>3
<1>4. CASE k = "reply"
  <2>1. x \in network /\ x.kind = "reply" /\ x.object_id = o /\ x.object.version = v
    BY <1>4 DEF IsMoving
  <2>2. x.object # NoObject
    BY <2>1, Constants DEF NoObject
  <2>3. PICK u \in TxnId, r \in Object : ReplyFor(x, u, r)
    BY <2>1, <2>2 DEF Moves, RequestFor, EmptyReply
  <2>4. QED
    BY <1>1, <1>4, <2>1, <2>3 DEF ReplyFor
<1>5. CASE k = "installing"
  <2>1. x \in installing /\ x.object_id = o /\ x.object.version = v
    BY <1>5 DEF IsMoving
  <2>2. PICK u \in TxnId, r \in Object : InstallFor(x, u, r)
    BY <2>1 DEF Moves
  <2>3. x.object_id = r /\ x.object.version = assigned[u][r] /\ SentFor(u, r)
    BY <2>2 DEF InstallFor
  <2>4. QED
    BY <1>1, <1>5, <2>1, <2>2, <2>3
<1>6. QED
  BY <1>2, <1>3, <1>4, <1>5 DEF IsMoving

\* When the predecessor is through, so are all before it.
LEMMA SettledBy ==
    ASSUME VAInv, InOrder, NEW t \in Txns, NEW o \in Objects(t), NEW i, Predecessor(i, t, o), Through(i)
    PROVE  Settled(t, o)
<1>1. i \in 1..(t - 1) /\ i \in TxnId /\ o \in Objects(i) /\ t \in Nat
  BY Order, Constants DEF Predecessor
<1>2. Past(i)
  BY <1>1 DEF Through, Past
<1>3. Settled(i, o)
  BY <1>1, <1>2 DEF InOrder, WaitsOut, Ready
<1>4. ASSUME NEW k \in 1..(t - 1), o \in Objects(k) PROVE Through(k)
  <2>1. k <= i
    BY <1>1, <1>4 DEF Predecessor, NoneBetween
  <2>2. QED
    BY <1>1, <1>3, <1>4, <2>1 DEF Settled
<1>5. QED
  BY <1>4 DEF Settled

-----------------------------------------------------------------------------
(* What the steps have in common.                                          *)

\* No task goes back, and the primary rests.
Onward ==
    /\ UNCHANGED inputVars
    /\ \A t \in TxnId : /\ Started(t) => Started(t)'
                        /\ Past(t) => Past(t)'
                        /\ Through(t) => Through(t)'

\* Nothing starts to move but for t.
Quiet(t) == \A o \in Object, v \in Version : NoMove(o, v) /\ ~ Reads(t, o, v) => NoMove(o, v)'

\* What stays when the primary rests.
LEMMA InputsKept ==
    ASSUME Base, UNCHANGED inputVars
    PROVE  /\ assigned' = assigned /\ forwarded' = forwarded /\ invalid' = invalid
           /\ Txns' = Txns /\ VAInv /\ VAInv' /\ RoutedRight'
           /\ \A t : Objects(t)' = Objects(t) /\ Produced(t)' = Produced(t)
                     /\ ProxyOf(t)' = ProxyOf(t) /\ (IsForwarded(t)' <=> IsForwarded(t))
           /\ \A t, o, v : Reads(t, o, v)' <=> Reads(t, o, v)
<1>1. assigned' = assigned /\ forwarded' = forwarded /\ invalid' = invalid /\ UNCHANGED vaVars
  BY DEF inputVars, orVars, vaVars
<1>2. VAInv /\ VAInv'
  BY <1>1, VAUnchanged DEF Base, Shapes
<1>3. Txns' = Txns
  BY <1>1 DEF Txns
<1>4. \A t : Objects(t)' = Objects(t) /\ Produced(t)' = Produced(t)
             /\ ProxyOf(t)' = ProxyOf(t) /\ (IsForwarded(t)' <=> IsForwarded(t))
  BY <1>1 DEF Objects, Produced, ProxyOf, IsForwarded
<1>5. \A t, o, v : Reads(t, o, v)' <=> Reads(t, o, v)
  BY <1>1, <1>3, <1>4 DEF Reads
<1>6. RoutedRight'
  BY <1>1 DEF Base, RoutedRight, Txns, Objects, ProxyOf, IsForwarded, Conflicts, NoneBetween,
              Predecessor, Fetches
<1>7. QED
  BY <1>1, <1>2, <1>3, <1>4, <1>5, <1>6

\* What is settled stays so, and so does all that moves.
LEMMA SettledKept ==
    ASSUME Base, Onward, NEW t \in Txns, NEW o, Settled(t, o)
    PROVE  Settled(t, o)'
<1>1. t \in TxnId /\ \A i \in 1..(t - 1) : i \in TxnId
  BY Order, Constants DEF Base, Shapes
<1>2. QED
  BY <1>1, InputsKept DEF Onward, Settled

\* A request once sent stays sent, and what is settled stays settled.
LEMMA SentKept ==
    ASSUME Base, Onward, NEW t \in TxnId, NEW o, SentFor(t, o)
    PROVE  SentFor(t, o)' /\ (Settled(t, o) => Settled(t, o)')
<1>1. SentFor(t, o)'
  BY InputsKept DEF Onward, SentFor, Fetches
<1>2. t \in Txns
  BY SentFacts
<1>3. QED
  BY <1>1, <1>2, SettledKept

\* Each thing on the move stays in order.
LEMMA ItemsKept ==
    ASSUME Base, Onward, NEW t \in TxnId, NEW o
    PROVE  \A x : /\ RequestFor(x, t, o) => RequestFor(x, t, o)'
                  /\ ServingFor(x, t, o) => ServingFor(x, t, o)'
                  /\ ReplyFor(x, t, o) => ReplyFor(x, t, o)'
                  /\ InstallFor(x, t, o) => InstallFor(x, t, o)'
<1>1. assigned' = assigned /\ forwarded' = forwarded /\ ProxyOf(t)' = ProxyOf(t)
  BY InputsKept DEF Onward
<1>2. ASSUME NEW x, RequestFor(x, t, o) PROVE RequestFor(x, t, o)'
  BY <1>1, <1>2, SentKept DEF RequestFor
<1>3. ASSUME NEW x, ServingFor(x, t, o) PROVE ServingFor(x, t, o)'
  BY <1>1, <1>3, SentKept DEF ServingFor
<1>4. ASSUME NEW x, ReplyFor(x, t, o) PROVE ReplyFor(x, t, o)'
  BY <1>1, <1>4, SentKept DEF ReplyFor
<1>5. ASSUME NEW x, InstallFor(x, t, o) PROVE InstallFor(x, t, o)'
  BY <1>1, <1>5, SentKept DEF InstallFor
<1>6. QED
  BY <1>2, <1>3, <1>4, <1>5

\* Whatever is new on the move is in order.
NewMoves ==
    /\ \A m \in network' : \/ m \in network
                           \/ \E t \in TxnId, o \in Object : RequestFor(m, t, o)'
                           \/ \E t \in TxnId, o \in Object : ReplyFor(m, t, o)'
                           \/ EmptyReply(m)
    /\ \A s \in serving' : s \in serving \/ \E t \in TxnId, o \in Object : ServingFor(s, t, o)'
    /\ \A i \in installing' : i \in installing \/ \E t \in TxnId, o \in Object : InstallFor(i, t, o)'

\* A step that only adds well-formed requests, replies and installations keeps Moves.
LEMMA MovesKept ==
    ASSUME Base, Moves, Onward, NewMoves
    PROVE  Moves'
<1>1. ASSUME NEW m \in network'
      PROVE  \/ \E t \in TxnId, o \in Object : RequestFor(m, t, o)'
             \/ \E t \in TxnId, o \in Object : ReplyFor(m, t, o)'
             \/ EmptyReply(m)
  <2>1. CASE m \in network
    BY <2>1, ItemsKept DEF Moves
  <2>2. QED
    BY <2>1 DEF NewMoves
<1>2. ASSUME NEW s \in serving' PROVE \E t \in TxnId, o \in Object : ServingFor(s, t, o)'
  BY ItemsKept DEF Moves, NewMoves
<1>3. ASSUME NEW i \in installing' PROVE \E t \in TxnId, o \in Object : InstallFor(i, t, o)'
  BY ItemsKept DEF Moves, NewMoves
<1>4. \A m : EmptyReply(m)' <=> EmptyReply(m)
  BY DEF EmptyReply, NoObject
<1>5. QED
  BY <1>1, <1>2, <1>3, <1>4 DEF Moves

(***************************************************************************)
(* One thing on the move, x in the form k, becomes another one, y in the   *)
(* form l, or comes to rest.                                               *)
(***************************************************************************)
Passes(k, x, l, y) ==
    \A o \in Object, v \in Version : \A j, z : IsMoving(o, v, j, z)' =>
        \/ IsMoving(o, v, j, z) /\ ~ (j = k /\ z = x)
        \/ j = l /\ z = y /\ IsMoving(o, v, k, x)

\* A step that hands a migration from one stage to the next keeps it unique.
LEMMA MovePasses ==
    ASSUME OneMove, NEW k, NEW x, NEW l, NEW y, Passes(k, x, l, y)
    PROVE  OneMove' /\ \A t : Quiet(t)
<1>1. ASSUME NEW o \in Object, NEW v \in Version, NEW i, NEW j, NEW w, NEW z,
             IsMoving(o, v, i, w)', IsMoving(o, v, j, z)'
      PROVE  i = j /\ w = z
  <2>1. /\ \/ IsMoving(o, v, i, w) /\ ~ (i = k /\ w = x)
           \/ i = l /\ w = y /\ IsMoving(o, v, k, x)
        /\ \/ IsMoving(o, v, j, z) /\ ~ (j = k /\ z = x)
           \/ j = l /\ z = y /\ IsMoving(o, v, k, x)
    BY <1>1, Zenon DEF Passes
  <2>2. QED
    BY <2>1, Zenon DEF OneMove
<1>2. \A t : Quiet(t)
  BY Zenon DEF Quiet, NoMove, Passes
<1>3. OneMove'
  BY <1>1, Zenon DEF OneMove
<1>4. QED
  BY <1>2, <1>3

\* Nothing moves when nothing is sent, served or installed.
LEMMA NothingMoves ==
    ASSUME UNCHANGED migrationVars
    PROVE  (OneMove => OneMove') /\ \A t : Quiet(t)
<1>1. \A o, v, k, x : IsMoving(o, v, k, x)' <=> IsMoving(o, v, k, x)
  BY DEF migrationVars, IsMoving
<1>2. OneMove => OneMove'
  BY <1>1, Zenon DEF OneMove
<1>3. \A t : Quiet(t)
  BY <1>1, Zenon DEF Quiet, NoMove
<1>4. QED
  BY <1>2, <1>3

\* What is ready stays so, except that a transaction sends for what it needs.
LEMMA ReadyKept ==
    ASSUME Base, Onward, NEW t, Quiet(t), NEW u \in Txns, u # t, NEW o \in Objects(u), Ready(u, o)
    PROVE  Ready(u, o)'
<1>1. assigned[u][o] \in Version /\ o \in Object /\ VAInv
  BY Order DEF Base, Shapes
<1>2. ~ Reads(t, o, assigned[u][o])
  BY <1>1, OneReader DEF Reads
<1>3. NoMove(o, assigned[u][o])'
  BY <1>1, <1>2, InputsKept DEF Quiet, Ready, Onward
<1>4. QED
  BY <1>3, SettledKept, InputsKept DEF Ready, Onward

\* The others keep their places.
LEMMA InOrderKept ==
    ASSUME Base, InOrder, Onward, NEW t, OnlyTxn(t), Quiet(t), t \in TxnId => WaitsOut(t)'
    PROVE  InOrder'
<1>1. ASSUME NEW u \in TxnId, u # t PROVE WaitsOut(u)'
  <2>1. stage'[u] = stage[u] /\ awaiting'[u] = awaiting[u] /\ assigned' = assigned
        /\ Objects(u)' = Objects(u)
    BY <1>1, InputsKept DEF OnlyTxn
  <2>2. CASE Past(u) \/ stage[u] = "await"
    <3>1. u \in Txns
      BY <2>2, StartedFacts DEF Started, Past
    <3>2. \A o \in Objects(u) : Ready(u, o) => Ready(u, o)'
      BY <1>1, <3>1, ReadyKept
    <3>3. QED
      BY <2>1, <3>2 DEF InOrder, WaitsOut, Past
  <2>3. QED
    BY <2>1, <2>2 DEF WaitsOut, Past
<1>2. QED
  BY <1>1 DEF InOrder

\* A step of one task leaves the Notifys of the others about their own keys.
LEMMA OwnKeysKept ==
    ASSUME Base, OwnKeys, NEW t, OnlyTxn(t), t \in TxnId => KnowsOwn(t)'
    PROVE  OwnKeys'
<1>1. ASSUME NEW u \in TxnId, u # t PROVE KnowsOwn(u)'
  <2>1. signals'[u] = signals[u] /\ awaiting'[u] = awaiting[u]
    BY <1>1 DEF OnlyTxn
  <2>2. QED
    BY <2>1, InputsKept DEF OwnKeys, KnowsOwn, OnlyTxn
<1>2. QED
  BY <1>1 DEF OwnKeys

\* The controllers lose no entry ...
KeepsEntries ==
    \A p \in Proxy, k \in AllKeys :
        obj_task_map[p][k] # NoTask => obj_task_map'[p][k] = obj_task_map[p][k]

\* Entering keys overwrites no entry.
LEMMA EnteredKeeps ==
    ASSUME NEW p \in Proxy, NEW K, EnteredAt(p, K)
    PROVE  KeepsEntries
BY DEF EnteredAt, Enters, KeepsEntries

\* ... and whoever comes to hold a Notify has it from there, ...
NewHolders ==
    \A p \in Proxy : \A h :
        HoldsAt(p, h)' => HoldsAt(p, h) \/ (Held(p, h)' /\ <<h[1], h[2]>> \in AllKeys)

\* While no entry is dropped, whoever holds a Notify holds the one in the map.
LEMMA HeldKept ==
    ASSUME AllHeld, KeepsEntries, NewHolders
    PROVE  AllHeld'
<1>1. ASSUME NEW p \in Proxy, NEW h, HoldsAt(p, h)'
      PROVE  Held(p, h)' /\ <<h[1], h[2]>> \in AllKeys
  <2>1. CASE HoldsAt(p, h)
    <3>1. Held(p, h) /\ <<h[1], h[2]>> \in AllKeys
      BY <2>1 DEF AllHeld
    <3>2. h = <<h[1], h[2], obj_task_map[p][<<h[1], h[2]>>]>> /\ h[3] # NoTask
      BY <3>1 DEF Held, Handle, HandleIn
    <3>3. obj_task_map[p][<<h[1], h[2]>>] # NoTask
      BY <3>2
    <3>4. obj_task_map'[p][<<h[1], h[2]>>] = obj_task_map[p][<<h[1], h[2]>>]
      BY <3>1, <3>3 DEF KeepsEntries
    <3>5. QED
      BY <3>1, <3>2, <3>4 DEF Held, Handle, HandleIn
  <2>2. QED
    BY <1>1, <2>1 DEF NewHolders
<1>2. AllKeys' = AllKeys
  BY DEF AllKeys
<1>3. QED
  BY <1>1, <1>2 DEF AllHeld

\* ... or entries go whose Notifys nobody holds.
OldHolders(p, K) ==
    \A q \in Proxy : \A h :
        HoldsAt(q, h)' => HoldsAt(q, h) /\ ~ (q = p /\ <<h[1], h[2]>> \in K)

\* So it is when entries are dropped that nobody holds.
LEMMA HeldDropped ==
    ASSUME AllHeld, NEW p \in Proxy, NEW K, DroppedAt(p, K), OldHolders(p, K)
    PROVE  AllHeld'
<1>1. ASSUME NEW q \in Proxy, NEW h, HoldsAt(q, h)'
      PROVE  Held(q, h)' /\ <<h[1], h[2]>> \in AllKeys
  <2>1. HoldsAt(q, h) /\ ~ (q = p /\ <<h[1], h[2]>> \in K)
    BY <1>1 DEF OldHolders
  <2>2. Held(q, h) /\ <<h[1], h[2]>> \in AllKeys
    BY <2>1 DEF AllHeld
  <2>3. obj_task_map'[q][<<h[1], h[2]>>] = obj_task_map[q][<<h[1], h[2]>>]
    BY <2>1, <2>2 DEF DroppedAt
  <2>4. QED
    BY <2>2, <2>3 DEF Held, Handle, HandleIn
<1>2. AllKeys' = AllKeys
  BY DEF AllKeys
<1>3. QED
  BY <1>1, <1>2 DEF AllHeld

\* Two holders of Notifys for one version at one proxy hold the same one.
LEMMA OneNotify ==
    ASSUME AllHeld, NEW p \in Proxy, NEW g, NEW h, HoldsAt(p, g), HoldsAt(p, h), g[1] = h[1], g[2] = h[2]
    PROVE  g = h
<1>1. /\ g = <<g[1], g[2], obj_task_map[p][<<g[1], g[2]>>]>>
      /\ h = <<h[1], h[2], obj_task_map[p][<<h[1], h[2]>>]>>
  BY DEF AllHeld, Held, Handle, HandleIn
<1>2. QED
  BY <1>1

\* A permit stays due when those concerned leave it.
ServesNew(p, h) == \A s \in serving' : s \in serving \/ Unserved(p, h, s)

\* A permit stays due across a step of t that neither takes it nor answers its request.
LEMMA PermitKept ==
    ASSUME Base, Onward, NEW t, OnlyTxn(t), Quiet(t), NEW p \in Proxy, NEW h, Due(p, h),
           t \in TxnId => Untaken(p, h, t)', ServesNew(p, h)
    PROVE  Due(p, h)'
<1>1. UNCHANGED inputVars
  BY DEF Onward
<1>2. Given(p, h)'
  <2>1. Txns \subseteq TxnId
    BY Order DEF Base, Shapes
  <2>2. PICK i \in Txns :
            /\ Through(i) /\ h[1] \in Objects(i) /\ h[2] = Produced(i)
            /\ \/ ProxyOf(i) = p
               \/ \E u \in TxnId : Reads(u, h[1], h[2]) /\ ProxyOf(u) = p /\ Started(u)
    BY DEF Due, Given
  <2>3. i \in Txns' /\ Through(i)' /\ h[1] \in Objects(i)' /\ h[2] = Produced(i)'
    BY <1>1, <2>1, <2>2, InputsKept DEF Onward
  <2>4. \/ ProxyOf(i)' = p
        \/ \E u \in TxnId : Reads(u, h[1], h[2])' /\ ProxyOf(u)' = p /\ Started(u)'
    BY <1>1, <2>2, InputsKept DEF Onward
  <2>5. QED
    BY <2>3, <2>4 DEF Given
<1>3. ASSUME NEW u \in TxnId PROVE Untaken(p, h, u)'
  <2>1. CASE u = t
    BY <2>1
  <2>2. CASE u # t /\ Reads(u, h[1], h[2]) /\ ProxyOf(u) = p
    <3>1. ~ Past(u) /\ (stage[u] = "await" => h \in awaiting[u]) /\ NoMove(h[1], h[2])
      BY <2>2 DEF Due, Untaken
    <3>2. h[1] \in Object /\ h[2] \in Version /\ VAInv
      BY <2>2, Order DEF Base, Shapes, Reads
    <3>3. ~ Reads(t, h[1], h[2])
      BY <2>2, <3>2, OneReader
    <3>4. NoMove(h[1], h[2])'
      BY <3>1, <3>2, <3>3 DEF Quiet
    <3>5. stage'[u] = stage[u] /\ awaiting'[u] = awaiting[u]
      BY <2>2 DEF OnlyTxn
    <3>6. QED
      BY <3>1, <3>4, <3>5 DEF Untaken, Past
  <2>3. QED
    BY <1>1, <2>1, <2>2, InputsKept DEF Untaken
<1>4. \A s \in serving' : Unserved(p, h, s)
  BY DEF Due, ServesNew
<1>5. QED
  BY <1>2, <1>3, <1>4 DEF Due, Unserved

\* The part of Base that is about single tasks.
LEMMA BaseKept ==
    ASSUME Base, Shapes', NEW t, OnlyTxn(t), up' \subseteq up, t \in TxnId => StageOK(t)'
    PROVE  Base'
<1>1. RoutedRight'
  BY InputsKept DEF OnlyTxn
<1>2. ASSUME NEW u \in TxnId, u # t PROVE StageOK(u)'
  <2>1. /\ stage'[u] = stage[u] /\ outcome'[u] = outcome[u]
        /\ awaiting'[u] = awaiting[u] /\ signals'[u] = signals[u]
        /\ ProxyOf(u)' = ProxyOf(u) /\ (IsForwarded(u)' <=> IsForwarded(u))
    BY <1>2, InputsKept DEF OnlyTxn
  <2>2. StageOK(u)
    BY DEF Base, StagesOK
  <2>3. QED
    BY <2>1, <2>2 DEF StageOK, Started
<1>3. QED
  BY <1>1, <1>2 DEF Base, StagesOK

\* No permit is given.
NoPermitGiven == \A p \in Proxy : permits'[p] \subseteq permits[p]

\* The permits that are left concern t as they should.
LeftFor(t) == \A p \in Proxy : \A h \in permits'[p] : Untaken(p, h, t)'

\* The tasks that serve requests leave the permits alone.
ServesOld == \A p \in Proxy : \A h \in permits'[p] : ServesNew(p, h)

\* All permits stay due across a step of t that gives none.
LEMMA PermitsStay ==
    ASSUME Base, PermitsDue, Onward, NEW t, OnlyTxn(t), Quiet(t), NoPermitGiven, ServesOld,
           t \in TxnId => LeftFor(t)
    PROVE  PermitsDue'
<1>1. ASSUME NEW p \in Proxy, NEW h \in permits'[p] PROVE Due(p, h)'
  <2>1. Due(p, h) /\ ServesNew(p, h)
    BY DEF NoPermitGiven, PermitsDue, ServesOld
  <2>2. t \in TxnId => Untaken(p, h, t)'
    BY DEF LeftFor
  <2>3. QED
    BY <2>1, <2>2, PermitKept
<1>2. QED
  BY <1>1 DEF PermitsDue

-----------------------------------------------------------------------------
(* The steps of a transaction's task.                                      *)

\* What remains to be shown of a step of the task of t.
LEMMA TxnStepKeeps ==
    ASSUME NotifyInv, NEW t \in TxnId, OnlyTxn(t), Onward, UNCHANGED migrationVars,
           Base', StoreTyped', WaitsOut(t)', KnowsOwn(t)', AllHeld', PermitsDue'
    PROVE  NotifyInv'
<1>1. Quiet(t) /\ OneMove'
  BY NothingMoves DEF NotifyInv
<1>2. NewMoves
  BY DEF migrationVars, NewMoves
<1>3. Moves'
  BY <1>2, MovesKept DEF NotifyInv
<1>4. InOrder'
  BY <1>1, InOrderKept DEF NotifyInv
<1>5. OwnKeys'
  BY OwnKeysKept DEF NotifyInv
<1>6. QED
  BY <1>1, <1>3, <1>4, <1>5 DEF NotifyInv

\* Nobody comes to hold or drops a Notify.
LEMMA HoldersStay ==
    ASSUME AllHeld, UNCHANGED <<forwarded, awaiting, signals, permits, obj_task_map, serving, installing>>
    PROVE  AllHeld'
<1>1. KeepsEntries
  BY DEF KeepsEntries
<1>2. \A p, h : HoldsAt(p, h)' <=> HoldsAt(p, h)
  BY DEF HoldsAt, ProxyOf
<1>3. NewHolders
  BY <1>2 DEF NewHolders
<1>4. QED
  BY <1>1, <1>3, HeldKept

\* Copies are installed in the store of p.
LEMMA CommitFacts ==
    ASSUME store \in [Proxy -> [Object -> Copy]], NEW p \in Proxy, NEW new_state,
           \A o \in DOMAIN new_state : new_state[o] \in Copy, store' = commit_objects(p, new_state)
    PROVE  /\ store' \in [Proxy -> [Object -> Copy]]
           /\ \A q \in Proxy, o \in Object :
                 store'[q][o] = IF q = p /\ o \in DOMAIN new_state THEN new_state[o] ELSE store[q][o]
BY DEF commit_objects

\* Execution touches no Notify.
LEMMA ExecuteKeeps ==
    ASSUME NotifyInv, NEW t \in TxnId, ExecuteTxn(t)
    PROVE  NotifyInv'
<1>1. /\ stage[t] = "execute" /\ stage' = [stage EXCEPT ![t] = "notify"]
      /\ reads' = [reads EXCEPT ![t] = [o \in Objects(t) |-> store[ProxyOf(t)][o].writer]]
      /\ store' = commit_objects(ProxyOf(t), [o \in Objects(t) |-> Written(t)])
      /\ outcome' = [outcome EXCEPT ![t] = "success"]
  BY DEF ExecuteTxn
<1>2. /\ UNCHANGED <<inputVars, awaiting, signals, migrationVars, permits, obj_task_map, listening, up>>
      /\ UNCHANGED <<forwarded, serving, installing, invalid>>
  BY DEF ExecuteTxn, controllerVars, healthVars, migrationVars, inputVars, orVars
<1>3. Base /\ Shapes /\ t \in Txns /\ ProxyOf(t) \in Proxy /\ VAInv /\ VAInv' /\ StageOK(t)
  BY <1>1, <1>2, StartedFacts, InputsKept DEF NotifyInv, Base, Started, StagesOK
<1>4. OnlyTxn(t) /\ Onward
  BY <1>1, <1>2, <1>3 DEF OnlyTxn, Onward, Shapes, Started, Past, Through
<1>5. Base'
  <2>1. Shapes'
    BY <1>1, <1>2, <1>3 DEF Shapes, Stage
  <2>2. StageOK(t)'
    BY <1>1, <1>2, <1>3, InputsKept DEF StageOK, Shapes, Started
  <2>3. QED
    BY <1>2, <1>3, <1>4, <2>1, <2>2, BaseKept
<1>6. StoreTyped'
  <2>1. Objects(t) \subseteq Object /\ Written(t) \in Copy
    BY <1>3, Order DEF Copy, Written, Produced
  <2>2. store' \in [Proxy -> [Object -> Copy]]
    BY <1>1, <1>3, <2>1, CommitFacts DEF NotifyInv, StoreTyped
  <2>3. reads'[t] \in [Objects(t) -> {0} \cup TxnId]
    BY <1>1, <1>3, <2>1 DEF NotifyInv, StoreTyped, Shapes, Copy
  <2>4. ASSUME NEW u \in TxnId, outcome'[u] = "success"
        PROVE  reads'[u] \in [Objects(u) -> {0} \cup TxnId]
    BY <1>4, <2>3, <2>4 DEF OnlyTxn, NotifyInv, StoreTyped
  <2>5. QED
    BY <1>2, <1>3, <2>2, <2>4, InputsKept DEF StoreTyped
<1>7. WaitsOut(t)'
  <2>1. Quiet(0) /\ t # 0
    BY <1>2, NothingMoves, Constants DEF NotifyInv
  <2>2. \A o \in Objects(t) : Ready(t, o)
    BY <1>1 DEF NotifyInv, InOrder, WaitsOut, Past
  <2>3. \A o \in Objects(t) : Ready(t, o)'
    BY <1>3, <1>4, <2>1, <2>2, ReadyKept
  <2>4. stage'[t] = "notify"
    BY <1>1, <1>3 DEF Shapes
  <2>5. QED
    BY <1>2, <1>3, <2>3, <2>4, InputsKept DEF WaitsOut
<1>8. KnowsOwn(t)'
  BY <1>2, <1>3, InputsKept DEF KnowsOwn, NotifyInv, OwnKeys
<1>9. AllHeld'
  BY <1>2, HoldersStay DEF NotifyInv
<1>10. PermitsDue'
  <2>1. Past(t)
    BY <1>1 DEF Past
  <2>2. LeftFor(t)
    BY <1>2, <1>3, <2>1, InputsKept DEF LeftFor, NotifyInv, PermitsDue, Due, Untaken
  <2>3. NoPermitGiven /\ ServesOld
    BY <1>2 DEF NoPermitGiven, ServesOld, ServesNew
  <2>4. Quiet(t)
    BY <1>2, NothingMoves
  <2>5. QED
    BY <1>3, <1>4, <2>2, <2>3, <2>4, PermitsStay DEF NotifyInv
<1>11. QED
  BY <1>2, <1>4, <1>5, <1>6, <1>7, <1>8, <1>9, <1>10, TxnStepKeeps

\* One that is past its waits neither waits again nor is owed a permit.
LEMMA PastStays ==
    ASSUME NotifyInv, NEW t \in TxnId, Past(t), OnlyTxn(t), Onward, UNCHANGED migrationVars
    PROVE  /\ WaitsOut(t)'
           /\ \A p \in Proxy : \A h \in permits[p] : Due(p, h)'
<1>1. Base /\ t \in Txns /\ t # 0 /\ Quiet(0) /\ Quiet(t) /\ UNCHANGED inputVars
  BY NothingMoves, Constants, StartedFacts DEF NotifyInv, Past, Started, Onward
<1>2. \A o \in Objects(t) : Ready(t, o)
  BY DEF NotifyInv, InOrder, WaitsOut
<1>3. \A o \in Objects(t) : Ready(t, o)'
  BY <1>1, <1>2, ReadyKept
<1>4. Past(t)' /\ stage'[t] # "await"
  BY DEF Onward, Past
<1>5. WaitsOut(t)'
  BY <1>1, <1>3, <1>4, InputsKept DEF WaitsOut
<1>6. ASSUME NEW p \in Proxy, NEW h \in permits[p] PROVE Due(p, h)'
  <2>1. Due(p, h)
    BY DEF NotifyInv, PermitsDue
  <2>2. Untaken(p, h, t)'
    BY <1>1, <2>1, InputsKept DEF Due, Untaken
  <2>3. ServesNew(p, h)
    BY DEF ServesNew, migrationVars
  <2>4. QED
    BY <1>1, <2>1, <2>2, <2>3, PermitKept
<1>7. QED
  BY <1>5, <1>6

\* Nor does the collection of a result, even one that ends the process.
LEMMA CollectKeeps ==
    ASSUME NotifyInv, NEW t \in TxnId, CollectResult(t)
    PROVE  NotifyInv'
<1>1. /\ stage[t] = "reported" /\ stage' = [stage EXCEPT ![t] = "done"]
      /\ up' = IF outcome[t] = "success" THEN up ELSE up \ {ProxyOf(t)}
  BY DEF CollectResult
<1>2. /\ UNCHANGED <<inputVars, awaiting, signals, outcome, reads, store, permits, obj_task_map,
                     migrationVars, listening>>
      /\ UNCHANGED <<forwarded, serving, installing, invalid>>
  BY DEF CollectResult, controllerVars, migrationVars, inputVars, orVars
<1>3. Base /\ Shapes /\ t \in Txns /\ ProxyOf(t) \in Proxy /\ VAInv /\ VAInv' /\ StageOK(t)
  BY <1>1, <1>2, StartedFacts, InputsKept DEF NotifyInv, Base, Started, StagesOK
<1>4. OnlyTxn(t) /\ Onward /\ Past(t)
  BY <1>1, <1>2, <1>3 DEF OnlyTxn, Onward, Shapes, Started, Past, Through
<1>5. Base'
  <2>1. Shapes'
    BY <1>1, <1>2, <1>3 DEF Shapes, Stage
  <2>2. StageOK(t)'
    BY <1>1, <1>2, <1>3, InputsKept DEF StageOK, Shapes, Started
  <2>3. up' \subseteq up
    BY <1>1
  <2>4. QED
    BY <1>3, <1>4, <2>1, <2>2, <2>3, BaseKept
<1>6. StoreTyped'
  BY <1>2, <1>3, InputsKept DEF StoreTyped, NotifyInv
<1>7. KnowsOwn(t)'
  BY <1>2, <1>3, InputsKept DEF KnowsOwn, NotifyInv, OwnKeys
<1>8. AllHeld'
  BY <1>2, HoldersStay DEF NotifyInv
<1>9. WaitsOut(t)' /\ PermitsDue'
  BY <1>2, <1>4, PastStays DEF PermitsDue
<1>10. QED
  BY <1>2, <1>4, <1>5, <1>6, <1>7, <1>8, <1>9, TxnStepKeeps

\* What remove_dependency does to a proxy's controller.
LEMMA DropFacts ==
    ASSUME Base, NEW p \in Proxy, NEW required,
           obj_task_map' = [obj_task_map EXCEPT ![p] = remove_dependency(@, required)]
    PROVE  DroppedAt(p, Keys(required))
<1>1. obj_task_map \in [Proxy -> Controller]
  BY DEF Base, Shapes, Controller, AllKeys
<1>2. PICK map \in Controller : map = obj_task_map[p]
  BY <1>1
<1>3. PICK after : after = remove_dependency(map, required)
  OBVIOUS
<1>4. /\ after \in Controller
      /\ \A k \in AllKeys : after[k] = IF k \in Keys(required) THEN NoTask ELSE map[k]
  BY <1>3, EntriesDropped
<1>5. obj_task_map' = [obj_task_map EXCEPT ![p] = after]
  BY <1>2, <1>3
<1>6. QED
  BY <1>1, <1>2, <1>4, <1>5 DEF DroppedAt

(***************************************************************************)
(* Once a transaction has all it waits for, nobody at its proxy holds a    *)
(* Notify of a version it reads: the entries can go.                       *)
(***************************************************************************)
LEMMA NobodyHolds ==
    ASSUME NotifyInv, NEW t \in TxnId, stage[t] = "await", awaiting[t] = {}, NEW o \in Objects(t),
           NEW h, h[1] = o, h[2] = assigned[t][o], HoldsAt(ProxyOf(t), h)
    PROVE  FALSE
<1>1. Base /\ VAInv /\ t \in Txns /\ t \in Nat /\ ProxyOf(t) \in Proxy /\ Reads(t, o, h[2])
  BY StartedFacts, Order DEF NotifyInv, Base, Shapes, Started, Reads
<1>2. Settled(t, o) /\ NoMove(o, h[2])
  BY DEF NotifyInv, InOrder, WaitsOut, Ready
<1>3. ASSUME NEW u \in TxnId, h \in awaiting[u] PROVE FALSE
  <2>1. Reads(u, o, h[2])
    BY <1>3 DEF NotifyInv, OwnKeys, KnowsOwn
  <2>2. QED
    BY <1>1, <1>3, <2>1, OneReader
<1>4. ASSUME NEW u \in TxnId, h \in signals[u] PROVE FALSE
  <2>1. u \in Txns /\ ~ Through(u)
    BY <1>1, <1>4, StartedFacts DEF Base, StagesOK, StageOK, Started, Through
  <2>2. o \in Objects(u) /\ h[2] = Produced(u)
    BY <1>4 DEF NotifyInv, OwnKeys, KnowsOwn
  <2>3. Predecessor(u, t, o)
    BY <1>1, <2>1, <2>2, ReaderFollows
  <2>4. QED
    BY <1>2, <2>1, <2>2, <2>3 DEF Settled, Predecessor
<1>5. ASSUME NEW s \in serving, h \in s.awaiting PROVE FALSE
  <2>1. PICK u \in TxnId, r \in Object : ServingFor(s, u, r)
    BY <1>5 DEF NotifyInv, Moves
  <2>2. s.object_id = o /\ s.version = h[2]
    BY <1>5, <2>1 DEF ServingFor
  <2>3. IsMoving(o, h[2], "serving", s)
    BY <2>2 DEF IsMoving
  <2>4. QED
    BY <1>2, <2>3 DEF NoMove
<1>6. ASSUME NEW i \in installing, h \in i.signals PROVE FALSE
  <2>1. PICK u \in TxnId, r \in Object : InstallFor(i, u, r)
    BY <1>6 DEF NotifyInv, Moves
  <2>2. i.object_id = o /\ i.object.version = h[2]
    BY <1>6, <2>1 DEF InstallFor
  <2>3. IsMoving(o, h[2], "installing", i)
    BY <2>2 DEF IsMoving
  <2>4. QED
    BY <1>2, <2>3 DEF NoMove
<1>7. h \notin permits[ProxyOf(t)]
  BY <1>1 DEF NotifyInv, PermitsDue, Due, Untaken
<1>8. QED
  BY <1>3, <1>4, <1>5, <1>6, <1>7 DEF HoldsAt

\* The version check removes the entries of versions read: all their holders are through.
LEMMA CheckKeeps ==
    ASSUME NotifyInv, NEW t \in TxnId, CheckTxn(t)
    PROVE  NotifyInv'
<1>1. /\ stage[t] = "await" /\ awaiting[t] = {}
      /\ obj_task_map' = [obj_task_map EXCEPT ![ProxyOf(t)] = remove_dependency(@, assigned[t])]
      /\ \/ stage' = [stage EXCEPT ![t] = "execute"] /\ UNCHANGED outcome
         \/ /\ stage' = [stage EXCEPT ![t] = "notify"]
            /\ outcome' = [outcome EXCEPT ![t] = "skipped"]
  BY DEF CheckTxn
<1>2. /\ UNCHANGED <<inputVars, awaiting, signals, reads, store, permits, migrationVars, listening, up>>
      /\ UNCHANGED <<forwarded, serving, installing, invalid>>
  BY DEF CheckTxn, migrationVars, inputVars, orVars, healthVars
<1>3. Base /\ Shapes /\ t \in Txns /\ ProxyOf(t) \in Proxy /\ VAInv /\ VAInv' /\ StageOK(t)
  BY <1>1, <1>2, StartedFacts, InputsKept DEF NotifyInv, Base, Started, StagesOK
<1>4. OnlyTxn(t) /\ Onward
  BY <1>1, <1>2, <1>3 DEF OnlyTxn, Onward, Shapes, Started, Past, Through
<1>5. DroppedAt(ProxyOf(t), Keys(assigned[t]))
  BY <1>1, <1>3, DropFacts
<1>6. Base'
  <2>1. obj_task_map' \in [Proxy -> [Object \X Version -> {NoTask} \cup Creator]]
    BY <1>5 DEF DroppedAt, Controller, AllKeys
  <2>2. Creator' = Creator
    BY DEF Creator
  <2>3. Shapes'
    BY <1>1, <1>2, <1>3, <2>1, <2>2 DEF Shapes, Stage
  <2>4. StageOK(t)'
    BY <1>1, <1>2, <1>3, InputsKept DEF StageOK, Shapes, Started
  <2>5. QED
    BY <1>2, <1>3, <1>4, <2>3, <2>4, BaseKept
<1>7. StoreTyped'
  <2>1. \A u \in TxnId : outcome'[u] = "success" => outcome[u] = "success"
    BY <1>1, <1>3 DEF Shapes
  <2>2. QED
    BY <1>2, <1>3, <2>1, InputsKept DEF StoreTyped, NotifyInv
<1>8. Quiet(0) /\ Quiet(t) /\ t # 0
  BY <1>2, NothingMoves, Constants
<1>9. WaitsOut(t)'
  <2>1. \A o \in Objects(t) : Ready(t, o)
    BY <1>1 DEF NotifyInv, InOrder, WaitsOut
  <2>2. \A o \in Objects(t) : Ready(t, o)'
    BY <1>3, <1>4, <1>8, <2>1, ReadyKept
  <2>3. stage'[t] # "await"
    BY <1>1, <1>3 DEF Shapes
  <2>4. QED
    BY <1>2, <1>3, <2>2, <2>3, InputsKept DEF WaitsOut
<1>10. KnowsOwn(t)'
  BY <1>2, <1>3, InputsKept DEF KnowsOwn, NotifyInv, OwnKeys
<1>11. AllHeld'
  <2>1. \A p, h : HoldsAt(p, h)' <=> HoldsAt(p, h)
    BY <1>2 DEF HoldsAt, ProxyOf
  <2>2. ASSUME NEW h, <<h[1], h[2]>> \in Keys(assigned[t]) PROVE ~ HoldsAt(ProxyOf(t), h)
    <3>1. PICK o \in Objects(t) : <<h[1], h[2]>> = <<o, assigned[t][o]>>
      BY <2>2 DEF Keys, Objects
    <3>2. h[1] = o /\ h[2] = assigned[t][o]
      BY <3>1
    <3>3. QED
      BY <1>1, <3>2, NobodyHolds
  <2>3. OldHolders(ProxyOf(t), Keys(assigned[t]))
    BY <2>1, <2>2 DEF OldHolders
  <2>4. QED
    BY <1>3, <1>5, <2>3, HeldDropped DEF NotifyInv
<1>12. PermitsDue'
  <2>1. LeftFor(t)
    BY <1>1, <1>2, <1>3, InputsKept DEF LeftFor, NotifyInv, PermitsDue, Due, Untaken
  <2>2. NoPermitGiven /\ ServesOld
    BY <1>2 DEF NoPermitGiven, ServesOld, ServesNew
  <2>3. QED
    BY <1>3, <1>4, <1>8, <2>1, <2>2, PermitsStay DEF NotifyInv
<1>13. QED
  BY <1>2, <1>4, <1>6, <1>7, <1>9, <1>10, <1>11, <1>12, TxnStepKeeps

\* The Notifys that t signals are due to the readers of what it produced.
LEMMA NotifyKeeps ==
    ASSUME NotifyInv, NEW t \in TxnId, NotifyAndReport(t)
    PROVE  NotifyInv'
<1>0. PICK p : p = ProxyOf(t)
  OBVIOUS
<1>1. /\ stage[t] = "notify" /\ stage' = [stage EXCEPT ![t] = "reported"]
      /\ permits' = [permits EXCEPT ![p] = @ \cup signals[t]]
      /\ signals' = [signals EXCEPT ![t] = {}]
  BY <1>0 DEF NotifyAndReport
<1>2. /\ UNCHANGED <<inputVars, awaiting, outcome, reads, store, obj_task_map, migrationVars,
                     listening, up>>
      /\ UNCHANGED <<forwarded, serving, installing, invalid>>
  BY DEF NotifyAndReport, healthVars, migrationVars, inputVars, orVars
<1>3. Base /\ Shapes /\ t \in Txns /\ p \in Proxy /\ VAInv /\ VAInv' /\ StageOK(t)
  BY <1>0, <1>1, <1>2, StartedFacts, InputsKept DEF NotifyInv, Base, Started, StagesOK
<1>4. OnlyTxn(t) /\ Onward /\ Past(t)
  BY <1>1, <1>2, <1>3 DEF OnlyTxn, Onward, Shapes, Started, Past, Through
<1>5. Base'
  <2>1. Shapes'
    BY <1>1, <1>2, <1>3 DEF Shapes, Stage
  <2>2. StageOK(t)'
    BY <1>1, <1>2, <1>3, InputsKept DEF StageOK, Shapes, Started
  <2>3. QED
    BY <1>2, <1>3, <1>4, <2>1, <2>2, BaseKept
<1>6. StoreTyped'
  BY <1>2, <1>3, InputsKept DEF StoreTyped, NotifyInv
<1>7. KnowsOwn(t)'
  BY <1>1, <1>2, <1>3, InputsKept DEF KnowsOwn, NotifyInv, OwnKeys, Shapes
<1>8. /\ permits'[p] = permits[p] \cup signals[t]
      /\ \A q \in Proxy : q # p => permits'[q] = permits[q]
      /\ signals'[t] = {} /\ \A u \in TxnId : signals'[u] \subseteq signals[u]
  BY <1>1, <1>3 DEF Shapes
<1>9. AllHeld'
  <2>1. ASSUME NEW q \in Proxy, NEW h, HoldsAt(q, h)' PROVE HoldsAt(q, h)
    <3>1. CASE q = p /\ h \in signals[t]
      BY <1>0, <3>1 DEF HoldsAt
    <3>2. CASE h \in permits[q]
      BY <3>2 DEF HoldsAt
    <3>3. CASE h \notin permits'[q]
      BY <1>2, <1>8, <2>1, <3>3 DEF HoldsAt, ProxyOf
    <3>4. QED
      BY <1>3, <1>8, <3>1, <3>2, <3>3
  <2>2. NewHolders
    BY <2>1 DEF NewHolders
  <2>3. KeepsEntries
    BY <1>2 DEF KeepsEntries
  <2>4. QED
    BY <2>2, <2>3, HeldKept DEF NotifyInv
<1>10. ASSUME NEW h \in signals[t] PROVE Due(p, h)'
  <2>1. PICK o, v : o = h[1] /\ v = h[2]
    OBVIOUS
  <2>2. o \in Objects(t) /\ v = Produced(t) /\ HoldsAt(p, h) /\ o \in Object /\ v \in Version
    BY <1>0, <1>3, <2>1, Order DEF NotifyInv, OwnKeys, KnowsOwn, HoldsAt
  <2>3. Given(p, h)'
    <3>1. Through(t)'
      BY <1>1, <1>3 DEF Through, Shapes
    <3>2. QED
      BY <1>0, <1>2, <1>3, <2>1, <2>2, <3>1, InputsKept DEF Given
  <2>4. ASSUME NEW u \in TxnId, Reads(u, o, v) PROVE Predecessor(t, u, o) /\ ~ Settled(u, o) /\ u # t
    <3>1. Predecessor(t, u, o) /\ u \in Nat
      BY <1>3, <2>2, <2>4, ReaderFollows, Constants
    <3>2. ~ Through(t)
      BY <1>1 DEF Through
    <3>3. QED
      BY <3>1, <3>2 DEF Settled, Predecessor
  <2>5. ASSUME NEW u \in TxnId, Reads(u, o, v), ProxyOf(u) = p
        PROVE  ~ Past(u) /\ (stage[u] = "await" => h \in awaiting[u]) /\ NoMove(o, v)
    <3>1. Predecessor(t, u, o) /\ ~ Settled(u, o) /\ o \in Objects(u) /\ v = assigned[u][o]
      BY <2>4, <2>5 DEF Reads
    <3>2. ~ Past(u)
      BY <3>1 DEF NotifyInv, InOrder, WaitsOut, Ready
    <3>3. ASSUME stage[u] = "await" PROVE h \in awaiting[u]
      <4>1. PICK g \in awaiting[u] : g[1] = o /\ g[2] = v
        BY <3>1, <3>3 DEF NotifyInv, InOrder, WaitsOut, Ready
      <4>2. HoldsAt(p, g)
        BY <2>5, <4>1 DEF HoldsAt
      <4>3. QED
        BY <1>3, <2>1, <2>2, <4>1, <4>2, OneNotify DEF NotifyInv
    <3>4. ASSUME NEW k, NEW x, IsMoving(o, v, k, x) PROVE FALSE
      <4>1. SentFor(u, o)
        BY <2>2, <2>5, <3>4, MoverReads DEF NotifyInv
      <4>2. PICK i \in 1..(u - 1) : Predecessor(i, u, o) /\ forwarded[u].owner[o] = ProxyOf(i)
        BY <1>3, <4>1, SentFacts
      <4>3. u \in Nat
        BY Constants
      <4>4. i = t
        BY <3>1, <4>2, <4>3, PredecessorUnique
      <4>5. forwarded[u].owner[o] # ProxyOf(u)
        BY <1>3, <4>1, SentFacts
      <4>6. QED
        BY <1>0, <2>5, <4>2, <4>4, <4>5
    <3>5. QED
      BY <3>2, <3>3, <3>4 DEF NoMove
  <2>6. Quiet(0) /\ ~ Reads(0, o, v)
    BY <1>2, <1>3, NothingMoves, Order, Constants DEF Reads
  <2>7. ASSUME NEW u \in TxnId PROVE Untaken(p, h, u)'
    <3>1. CASE Reads(u, o, v) /\ ProxyOf(u) = p
      <4>1. u # t
        BY <2>4, <3>1
      <4>2. stage'[u] = stage[u] /\ awaiting'[u] = awaiting[u]
        BY <1>4, <4>1 DEF OnlyTxn
      <4>3. NoMove(o, v)'
        BY <2>2, <2>5, <2>6, <3>1 DEF Quiet
      <4>4. QED
        BY <2>1, <2>5, <3>1, <4>2, <4>3 DEF Untaken, Past
    <3>2. QED
      BY <1>2, <1>3, <2>1, <3>1, InputsKept DEF Untaken
  <2>8. ASSUME NEW s \in serving, s.at = p, s.object_id = o, s.version = v PROVE h \in s.awaiting
    <3>1. PICK u \in TxnId, r \in Object : ServingFor(s, u, r)
      BY DEF NotifyInv, Moves
    <3>2. s.object_id = r /\ s.version = assigned[u][r] /\ SentFor(u, r)
      BY <3>1 DEF ServingFor
    <3>3. Reads(u, o, v)
      BY <1>3, <2>8, <3>2, SentFacts
    <3>4. ~ Settled(u, o)
      BY <2>4, <3>3
    <3>5. PICK g \in s.awaiting : g[1] = o /\ g[2] = v
      BY <2>8, <3>1, <3>2, <3>4 DEF ServingFor
    <3>6. HoldsAt(p, g)
      BY <2>8, <3>5 DEF HoldsAt
    <3>7. QED
      BY <1>3, <2>1, <2>2, <3>5, <3>6, OneNotify DEF NotifyInv
  <2>9. \A s \in serving' : Unserved(p, h, s)
    BY <1>2, <2>1, <2>8 DEF Unserved
  <2>10. QED
    BY <2>3, <2>7, <2>9 DEF Due, Unserved
<1>11. WaitsOut(t)' /\ \A q \in Proxy : \A h \in permits[q] : Due(q, h)'
  BY <1>2, <1>4, PastStays
<1>12. PermitsDue'
  BY <1>3, <1>8, <1>10, <1>11 DEF PermitsDue
<1>13. QED
  BY <1>2, <1>4, <1>5, <1>6, <1>7, <1>9, <1>11, <1>12, TxnStepKeeps

\* A transaction that reads an initial version needs to wait for nobody.
LEMMA InitialReady ==
    ASSUME Base, Moves, NEW t \in Txns, NEW o \in Objects(t), ~ (assigned[t][o] > 2)
    PROVE  Ready(t, o)
<1>1. VAInv /\ t \in TxnId /\ t \in Nat /\ o \in Object /\ assigned[t][o] \in Version
  BY Order DEF Base, Shapes
<1>2. NoneBetween(0, t, o)
  BY <1>1, ReadsProduced
<1>3. Settled(t, o)
  BY <1>1, <1>2 DEF Settled, NoneBetween
<1>4. Reads(t, o, assigned[t][o])
  BY DEF Reads
<1>5. ASSUME NEW k, NEW x, IsMoving(o, assigned[t][o], k, x) PROVE FALSE
  <2>1. SentFor(t, o)
    BY <1>1, <1>4, <1>5, MoverReads
  <2>2. QED
    BY <1>1, <2>1, SentFacts
<1>6. QED
  BY <1>3, <1>5 DEF Ready, NoMove

\* A task that registers finds the Notifys of its peers or creates theirs.
LEMMA GetKeeps ==
    ASSUME NotifyInv, NEW t \in TxnId, GetDependencies(t)
    PROVE  NotifyInv'
<1>0. PICK p : p = ProxyOf(t)
  OBVIOUS
<1>1. /\ stage[t] = "spawned" /\ stage' = [stage EXCEPT ![t] = "await"]
      /\ EnteredAt(p, PriorKeys(assigned[t]) \cup NextKeys(assigned[t]))
      /\ awaiting' = [awaiting EXCEPT ![t] = awaiting'[t]]
      /\ signals' = [signals EXCEPT ![t] = signals'[t]]
      /\ \A h : h \in awaiting'[t] <=>
            \E o \in Objects(t) : assigned[t][o] > 2 /\ h = HandleIn(obj_task_map'[p], o, assigned[t][o])
      /\ \A h : h \in signals'[t] <=>
            \E o \in Objects(t) : h = HandleIn(obj_task_map'[p], o, Produced(t))
  BY <1>0, GetFacts DEF GotDependencies, NotifyInv, NextStage
<1>2. /\ UNCHANGED <<inputVars, outcome, reads, store, permits, migrationVars, listening, up>>
      /\ UNCHANGED <<forwarded, serving, installing, invalid>>
  BY DEF GetDependencies, healthVars, migrationVars, inputVars, orVars
<1>3. Base /\ Shapes /\ t \in Txns /\ p \in Proxy /\ VAInv /\ VAInv' /\ StageOK(t)
  BY <1>0, <1>1, <1>2, StartedFacts, InputsKept DEF NotifyInv, Base, Started, StagesOK
<1>4. OnlyTxn(t) /\ Onward
  BY <1>1, <1>2, <1>3 DEF OnlyTxn, Onward, Shapes, Started, Past, Through
<1>5. Base'
  <2>1. obj_task_map' \in [Proxy -> [Object \X Version -> {NoTask} \cup Creator]]
    BY <1>1 DEF EnteredAt, Controller, AllKeys
  <2>2. Creator' = Creator
    BY DEF Creator
  <2>3. awaiting' = [u \in TxnId |-> awaiting'[u]] /\ signals' = [u \in TxnId |-> signals'[u]]
    BY <1>1, <1>3 DEF Shapes
  <2>4. Shapes'
    BY <1>1, <1>2, <1>3, <2>1, <2>2, <2>3 DEF Shapes, Stage
  <2>5. StageOK(t)'
    BY <1>1, <1>2, <1>3, InputsKept DEF StageOK, Shapes, Started
  <2>6. QED
    BY <1>2, <1>3, <1>4, <2>4, <2>5, BaseKept
<1>6. StoreTyped'
  BY <1>2, <1>3, InputsKept DEF StoreTyped, NotifyInv
<1>7. \A o, v : HandleIn(obj_task_map'[p], o, v)[1] = o /\ HandleIn(obj_task_map'[p], o, v)[2] = v
                /\ HandleIn(obj_task_map'[p], o, v)[3] = obj_task_map'[p][<<o, v>>]
  BY DEF HandleIn
<1>8. KnowsOwn(t)'
  <2>1. ASSUME NEW h \in awaiting'[t] PROVE Reads(t, h[1], h[2])
    BY <1>1, <1>3, <1>7, <2>1 DEF Reads
  <2>2. ASSUME NEW h \in signals'[t] PROVE h[1] \in Objects(t) /\ h[2] = Produced(t)
    BY <1>1, <1>7, <2>2
  <2>3. QED
    BY <1>2, <1>3, <2>1, <2>2, InputsKept DEF KnowsOwn
<1>9. AllHeld'
  <2>1. ASSUME NEW o, NEW v, <<o, v>> \in PriorKeys(assigned[t]) \cup NextKeys(assigned[t]),
               NEW h, h = HandleIn(obj_task_map'[p], o, v)
        PROVE  Held(p, h)' /\ <<h[1], h[2]>> \in AllKeys
    <3>1. <<o, v>> \in AllKeys
      BY <1>3, <2>1, TxnKeys
    <3>2. obj_task_map'[p][<<o, v>>] # NoTask
      BY <1>1, <2>1 DEF EnteredAt, Enters
    <3>3. h[1] = o /\ h[2] = v /\ h[3] = obj_task_map'[p][<<o, v>>]
      BY <1>7, <2>1
    <3>4. QED
      BY <2>1, <3>1, <3>2, <3>3 DEF Held, Handle
  <2>2. ASSUME NEW h, h \in awaiting'[t] \/ h \in signals'[t]
        PROVE  Held(p, h)' /\ <<h[1], h[2]>> \in AllKeys
    <3>1. CASE h \in awaiting'[t]
      <4>1. PICK o \in Objects(t) : assigned[t][o] > 2 /\ h = HandleIn(obj_task_map'[p], o, assigned[t][o])
        BY <1>1, <3>1
      <4>2. <<o, assigned[t][o]>> \in PriorKeys(assigned[t])
        BY <1>3, <4>1, TxnKeys
      <4>3. QED
        BY <2>1, <4>1, <4>2
    <3>2. CASE h \in signals'[t]
      <4>1. PICK o \in Objects(t) : h = HandleIn(obj_task_map'[p], o, Produced(t))
        BY <1>1, <3>2
      <4>2. <<o, Produced(t)>> \in NextKeys(assigned[t])
        BY <1>3, <4>1, TxnKeys
      <4>3. QED
        BY <2>1, <4>1, <4>2
    <3>3. QED
      BY <2>2, <3>1, <3>2
  <2>3. ASSUME NEW q \in Proxy, NEW h, HoldsAt(q, h)'
        PROVE  HoldsAt(q, h) \/ (q = p /\ (h \in awaiting'[t] \/ h \in signals'[t]))
    <3>1. \A u \in TxnId : u # t => awaiting'[u] = awaiting[u] /\ signals'[u] = signals[u]
      BY <1>4 DEF OnlyTxn
    <3>2. QED
      BY <1>0, <1>2, <2>3, <3>1 DEF HoldsAt, ProxyOf
  <2>4. NewHolders
    BY <2>2, <2>3 DEF NewHolders
  <2>5. KeepsEntries
    BY <1>1, <1>3, EnteredKeeps
  <2>6. QED
    BY <2>4, <2>5, HeldKept DEF NotifyInv
<1>10. Quiet(0) /\ Quiet(t) /\ t # 0
  BY <1>2, NothingMoves, Constants
<1>11. WaitsOut(t)'
  <2>1. ASSUME NEW o \in Objects(t)
        PROVE  Ready(t, o)' \/ \E h \in awaiting'[t] : h[1] = o /\ h[2] = assigned[t][o]
    <3>1. CASE assigned[t][o] > 2
      <4>1. HandleIn(obj_task_map'[p], o, assigned[t][o]) \in awaiting'[t]
        BY <1>1, <3>1
      <4>2. QED
        BY <1>7, <4>1
    <3>2. CASE ~ (assigned[t][o] > 2)
      <4>1. Ready(t, o)
        BY <1>3, <3>2, InitialReady DEF NotifyInv
      <4>2. QED
        BY <1>3, <1>4, <1>10, <4>1, ReadyKept
    <3>3. QED
      BY <3>1, <3>2
  <2>2. stage'[t] = "await"
    BY <1>1, <1>3 DEF Shapes
  <2>3. QED
    BY <1>2, <1>3, <2>1, <2>2, InputsKept DEF WaitsOut, Past
<1>12. PermitsDue'
  <2>1. ASSUME NEW q \in Proxy, NEW h \in permits[q] PROVE Untaken(q, h, t)'
    <3>1. SUFFICES ASSUME Reads(t, h[1], h[2]), q = p PROVE Untaken(q, h, t)'
      BY <1>0, <1>2, <1>3, InputsKept DEF Untaken
    <3>2. stage'[t] = "await"
      BY <1>1, <1>3 DEF Shapes
    <3>3. Due(p, h)
      BY <2>1, <3>1 DEF NotifyInv, PermitsDue
    <3>4. PICK i \in Txns : h[2] = Produced(i)
      BY <3>3 DEF Due, Given
    <3>5. h[2] > 2 /\ h[1] \in Objects(t) /\ assigned[t][h[1]] = h[2]
      BY <1>3, <3>1, <3>4, Order DEF Reads
    <3>6. HoldsAt(p, h)'
      BY <1>2, <2>1, <3>1 DEF HoldsAt
    <3>7. h = HandleIn(obj_task_map'[p], h[1], h[2])
      BY <1>3, <1>9, <3>6 DEF AllHeld, Held, Handle
    <3>8. h \in awaiting'[t]
      BY <1>1, <3>5, <3>7
    <3>9. NoMove(h[1], h[2])
      BY <1>0, <3>1, <3>3 DEF Due, Untaken
    <3>10. NoMove(h[1], h[2])'
      BY <1>3, <1>10, <3>1, <3>9, Order, Constants DEF Quiet, Reads
    <3>11. QED
      BY <3>2, <3>8, <3>10 DEF Untaken, Past
  <2>2. LeftFor(t)
    BY <1>2, <2>1 DEF LeftFor
  <2>3. NoPermitGiven /\ ServesOld
    BY <1>2 DEF NoPermitGiven, ServesOld, ServesNew
  <2>4. QED
    BY <1>3, <1>4, <1>10, <2>2, <2>3, PermitsStay DEF NotifyInv
<1>13. QED
  BY <1>2, <1>4, <1>5, <1>6, <1>8, <1>9, <1>11, <1>12, TxnStepKeeps

\* A permit that t takes was given by the producer of what t reads, so all before t are through.
LEMMA AwaitKeeps ==
    ASSUME NotifyInv, NEW t \in TxnId, AwaitPrior(t)
    PROVE  NotifyInv'
<1>0. PICK p, f : p = ProxyOf(t) /\ f = FirstHandle(awaiting[t])
  OBVIOUS
<1>1. /\ stage[t] = "await" /\ f \in permits[p]
      /\ permits' = [permits EXCEPT ![p] = @ \ {f}]
      /\ awaiting' = [awaiting EXCEPT ![t] = @ \ {f}]
  BY <1>0 DEF AwaitPrior
<1>2. /\ UNCHANGED <<inputVars, stage, signals, outcome, reads, store, obj_task_map, migrationVars,
                     listening, up>>
      /\ UNCHANGED <<forwarded, serving, installing, invalid>>
  BY DEF AwaitPrior, healthVars, migrationVars, inputVars, orVars
<1>3. Base /\ Shapes /\ t \in Txns /\ p \in Proxy /\ VAInv /\ VAInv' /\ StageOK(t)
  BY <1>0, <1>1, <1>2, StartedFacts, InputsKept DEF NotifyInv, Base, Started, StagesOK
<1>4. OnlyTxn(t) /\ Onward
  BY <1>1, <1>2, <1>3 DEF OnlyTxn, Onward, Shapes, Started, Past, Through
<1>5. /\ awaiting'[t] = awaiting[t] \ {f} /\ permits'[p] = permits[p] \ {f}
      /\ \A q \in Proxy : permits'[q] \subseteq permits[q]
      /\ \A u \in TxnId : awaiting'[u] \subseteq awaiting[u]
  BY <1>1, <1>3 DEF Shapes
<1>6. Base'
  <2>1. Shapes'
    BY <1>1, <1>2, <1>3 DEF Shapes, Stage
  <2>2. StageOK(t)'
    BY <1>1, <1>2, <1>3, <1>5, InputsKept DEF StageOK, Shapes, Started
  <2>3. QED
    BY <1>2, <1>3, <1>4, <2>1, <2>2, BaseKept
<1>7. StoreTyped'
  BY <1>2, <1>3, InputsKept DEF StoreTyped, NotifyInv
<1>8. KnowsOwn(t)'
  BY <1>2, <1>3, <1>5, InputsKept DEF KnowsOwn, NotifyInv, OwnKeys
<1>9. AllHeld'
  <2>1. ASSUME NEW q \in Proxy, NEW h, HoldsAt(q, h)' PROVE HoldsAt(q, h)
    BY <1>2, <1>5, <2>1 DEF HoldsAt, ProxyOf
  <2>2. NewHolders
    BY <2>1 DEF NewHolders
  <2>3. KeepsEntries
    BY <1>2 DEF KeepsEntries
  <2>4. QED
    BY <2>2, <2>3, HeldKept DEF NotifyInv
<1>10. Quiet(0) /\ Quiet(t) /\ t # 0
  BY <1>2, NothingMoves, Constants
<1>11. \A o \in Objects(t) : Ready(t, o) => Ready(t, o)'
  BY <1>3, <1>4, <1>10, ReadyKept
<1>12. WaitsOut(t)'
  <2>1. ASSUME NEW o \in Objects(t)
        PROVE  Ready(t, o)' \/ \E h \in awaiting'[t] : h[1] = o /\ h[2] = assigned[t][o]
    <3>1. CASE Ready(t, o)
      BY <1>11, <3>1
    <3>2. CASE \E h \in awaiting[t] : h[1] = o /\ h[2] = assigned[t][o] /\ h # f
      BY <1>5, <3>2
    <3>3. CASE f \in awaiting[t] /\ f[1] = o /\ f[2] = assigned[t][o]
      <4>1. Due(p, f) /\ Reads(t, o, f[2])
        BY <1>1, <1>3, <3>3 DEF NotifyInv, PermitsDue, Reads
      <4>2. PICK i \in Txns : Through(i) /\ o \in Objects(i) /\ f[2] = Produced(i)
        BY <3>3, <4>1 DEF Due, Given
      <4>3. Predecessor(i, t, o)
        BY <1>3, <4>1, <4>2, ReaderFollows
      <4>4. Settled(t, o)
        BY <1>3, <4>2, <4>3, SettledBy DEF NotifyInv
      <4>5. NoMove(o, assigned[t][o])
        BY <1>0, <3>3, <4>1 DEF Due, Untaken
      <4>6. QED
        BY <1>11, <4>4, <4>5 DEF Ready
    <3>4. QED
      BY <1>1, <3>1, <3>2, <3>3 DEF NotifyInv, InOrder, WaitsOut
  <2>2. QED
    BY <1>1, <1>2, <1>3, <2>1, InputsKept DEF WaitsOut, Past
<1>13. PermitsDue'
  <2>1. ASSUME NEW q \in Proxy, NEW h \in permits'[q] PROVE Untaken(q, h, t)'
    <3>1. SUFFICES ASSUME Reads(t, h[1], h[2]), q = p PROVE Untaken(q, h, t)'
      BY <1>0, <1>2, <1>3, InputsKept DEF Untaken
    <3>2. h \in permits[p] /\ h # f
      BY <1>5, <2>1, <3>1
    <3>3. Due(p, h)
      BY <1>3, <3>2 DEF NotifyInv, PermitsDue
    <3>4. h \in awaiting[t] /\ NoMove(h[1], h[2])
      BY <1>0, <1>1, <3>1, <3>3 DEF Due, Untaken
    <3>5. NoMove(h[1], h[2])'
      BY <1>3, <1>10, <3>1, <3>4, Order, Constants DEF Quiet, Reads
    <3>6. QED
      BY <1>1, <1>2, <1>5, <3>2, <3>4, <3>5 DEF Untaken, Past
  <2>2. LeftFor(t)
    BY <2>1 DEF LeftFor
  <2>3. NoPermitGiven /\ ServesOld
    BY <1>2, <1>5 DEF NoPermitGiven, ServesOld, ServesNew
  <2>4. QED
    BY <1>3, <1>4, <1>10, <2>2, <2>3, PermitsStay DEF NotifyInv
<1>14. QED
  BY <1>2, <1>4, <1>6, <1>7, <1>8, <1>9, <1>12, <1>13, TxnStepKeeps

\* The requests a transaction sends are for the versions it reads.
LEMMA RequestsSent ==
    ASSUME Base, NEW t \in TxnId, IsForwarded(t), NEW m \in StatefulRequests(t)
    PROVE  \E o \in Objects(t) :
              /\ Fetches(t, o) /\ m.kind = "request" /\ m.from = ProxyOf(t)
              /\ m.to = forwarded[t].owner[o] /\ m.object_id = o /\ m.version = assigned[t][o]
              /\ Reads(t, o, m.version)
<1>1. PICK o \in Objects(t) :
          /\ forwarded[t].owner[o] # NoProxy
          /\ m = [kind |-> "request", from |-> ProxyOf(t), to |-> forwarded[t].owner[o],
                  object_id |-> o, version |-> assigned[t][o]]
  BY DEF StatefulRequests
<1>2. t \in Txns
  BY DEF Base, RoutedRight
<1>3. QED
  BY <1>1, <1>2 DEF Fetches, Reads

\* The requests that t sends on arrival are the only ones for what it misses.
LEMMA HandlePrimaryKeeps ==
    ASSUME NotifyInv, NEW t \in TxnId, HandlePrimaryMessage(t)
    PROVE  NotifyInv'
<1>0. PICK p : p = ProxyOf(t)
  OBVIOUS
<1>1. /\ IsForwarded(t) /\ stage[t] = "none" /\ stage' = [stage EXCEPT ![t] = "spawned"]
      /\ network' = network \cup StatefulRequests(t)
  BY DEF HandlePrimaryMessage, send_msg_to_proxy
<1>2. /\ UNCHANGED <<inputVars, awaiting, signals, outcome, reads, store, obj_task_map, permits, serving,
                     installing, listening, up>>
      /\ UNCHANGED <<forwarded, invalid>>
  BY DEF HandlePrimaryMessage, healthVars, controllerVars, inputVars, orVars
<1>3. Base /\ Shapes /\ t \in Txns /\ p \in Proxy /\ VAInv /\ VAInv' /\ StageOK(t)
  BY <1>0, <1>1, <1>2, InputsKept DEF NotifyInv, Base, RoutedRight, StagesOK
<1>4. OnlyTxn(t) /\ Onward
  BY <1>1, <1>2, <1>3 DEF OnlyTxn, Onward, Shapes, Started, Past, Through
<1>5. Base'
  <2>1. Shapes'
    BY <1>1, <1>2, <1>3 DEF Shapes, Stage
  <2>2. StageOK(t)'
    BY <1>1, <1>2, <1>3, InputsKept DEF StageOK, Shapes, Started
  <2>3. QED
    BY <1>2, <1>3, <1>4, <2>1, <2>2, BaseKept
<1>6. StoreTyped'
  BY <1>2, <1>3, InputsKept DEF StoreTyped, NotifyInv
<1>7. KnowsOwn(t)'
  BY <1>2, <1>3, InputsKept DEF KnowsOwn, NotifyInv, OwnKeys
<1>8. AllHeld'
  BY <1>2, HoldersStay DEF NotifyInv
<1>9. stage'[t] = "spawned" /\ Started(t)' /\ ~ Started(t)
  BY <1>1, <1>3 DEF Shapes, Started
<1>10. WaitsOut(t)'
  BY <1>9 DEF WaitsOut, Past
<1>11. Moves'
  <2>1. ASSUME NEW m \in StatefulRequests(t) PROVE \E o \in Object : RequestFor(m, t, o)'
    <3>1. PICK o \in Objects(t) :
              /\ Fetches(t, o) /\ m.kind = "request" /\ m.from = ProxyOf(t)
              /\ m.to = forwarded[t].owner[o] /\ m.object_id = o /\ m.version = assigned[t][o]
      BY <1>1, <1>3, RequestsSent
    <3>2. o \in Object
      BY <1>3, Order
    <3>3. RequestFor(m, t, o)'
      BY <1>2, <1>3, <1>9, <3>1, InputsKept DEF RequestFor, SentFor, Fetches
    <3>4. QED
      BY <3>2, <3>3
  <2>2. NewMoves
    BY <1>1, <1>2, <2>1 DEF NewMoves
  <2>3. QED
    BY <1>3, <1>4, <2>2, MovesKept DEF NotifyInv
<1>12. ASSUME NEW o \in Object, NEW v \in Version, NEW k, NEW x, IsMoving(o, v, k, x)'
       PROVE  \/ IsMoving(o, v, k, x) /\ ~ Reads(t, o, v)
              \/ /\ k = "request" /\ x \in StatefulRequests(t)
                 /\ x.object_id = o /\ x.version = v /\ Reads(t, o, v)
  <2>1. CASE IsMoving(o, v, k, x)
    <3>1. ~ Reads(t, o, v)
      BY <1>9, <2>1, MoverReads DEF NotifyInv, SentFor
    <3>2. QED
      BY <2>1, <3>1
  <2>2. CASE ~ IsMoving(o, v, k, x)
    <3>1. ASSUME NEW m \in StatefulRequests(t)
          PROVE  m.kind = "request" /\ Reads(t, m.object_id, m.version)
      BY <1>1, <1>3, RequestsSent
    <3>2. CASE k = "request" /\ x \in StatefulRequests(t) /\ x.object_id = o /\ x.version = v
      BY <3>1, <3>2
    <3>3. QED
      BY <1>1, <1>2, <1>12, <2>2, <3>1, <3>2 DEF IsMoving
  <2>3. QED
    BY <2>1, <2>2
<1>13. OneMove'
  <2>1. ASSUME NEW o \in Object, NEW v \in Version, NEW k, NEW l, NEW x, NEW y,
               IsMoving(o, v, k, x)', IsMoving(o, v, l, y)'
        PROVE  k = l /\ x = y
    <3>1. CASE ~ Reads(t, o, v)
      <4>1. IsMoving(o, v, k, x) /\ IsMoving(o, v, l, y)
        BY <1>12, <2>1, <3>1
      <4>2. QED
        BY <4>1, Zenon DEF NotifyInv, OneMove
    <3>2. CASE Reads(t, o, v)
      <4>1. /\ k = "request" /\ x \in StatefulRequests(t) /\ x.object_id = o
            /\ l = "request" /\ y \in StatefulRequests(t) /\ y.object_id = o
        BY <1>12, <2>1, <3>2
      <4>2. x = y
        BY <4>1 DEF StatefulRequests
      <4>3. QED
        BY <4>1, <4>2
    <3>3. QED
      BY <3>1, <3>2
  <2>2. QED
    BY <2>1, Zenon DEF OneMove
<1>14. Quiet(t)
  BY <1>12 DEF Quiet, NoMove
<1>15. InOrder'
  BY <1>3, <1>4, <1>10, <1>14, InOrderKept DEF NotifyInv
<1>16. OwnKeys'
  BY <1>3, <1>4, <1>7, OwnKeysKept DEF NotifyInv
<1>17. PermitsDue'
  <2>1. ASSUME NEW q \in Proxy, NEW h \in permits[q] PROVE Untaken(q, h, t)'
    <3>1. SUFFICES ASSUME Reads(t, h[1], h[2]), q = p PROVE Untaken(q, h, t)'
      BY <1>0, <1>2, <1>3, InputsKept DEF Untaken
    <3>2. Due(p, h)
      BY <2>1, <3>1 DEF NotifyInv, PermitsDue
    <3>3. PICK i \in Txns :
              /\ h[1] \in Objects(i) /\ h[2] = Produced(i)
              /\ \/ ProxyOf(i) = p
                 \/ \E u \in TxnId : Reads(u, h[1], h[2]) /\ ProxyOf(u) = p /\ Started(u)
      BY <3>2 DEF Due, Given
    <3>4. \A u \in TxnId : Reads(u, h[1], h[2]) => u = t
      BY <1>3, <3>1, OneReader
    <3>5. ProxyOf(i) = p
      BY <1>9, <3>3, <3>4
    <3>6. Predecessor(i, t, h[1]) /\ h[1] \in Objects(t) /\ i \in 1..(t - 1)
      BY <1>3, <3>1, <3>3, ReaderFollows DEF Reads, Predecessor
    <3>7. ~ Fetches(t, h[1])
      BY <1>0, <1>1, <1>3, <3>5, <3>6 DEF Base, RoutedRight, Fetches
    <3>8. h[1] \in Object /\ h[2] \in Version
      BY <1>3, <3>1, Order DEF Reads
    <3>9. ASSUME NEW k, NEW x, IsMoving(h[1], h[2], k, x)' PROVE FALSE
      <4>1. x \in StatefulRequests(t) /\ x.object_id = h[1]
        BY <1>12, <3>1, <3>8, <3>9
      <4>2. QED
        BY <1>1, <1>3, <3>7, <4>1, RequestsSent
    <3>10. NoMove(h[1], h[2])'
      BY <3>9 DEF NoMove
    <3>11. QED
      BY <1>9, <3>10 DEF Untaken, Past
  <2>2. LeftFor(t)
    BY <1>2, <2>1 DEF LeftFor
  <2>3. NoPermitGiven /\ ServesOld
    BY <1>2 DEF NoPermitGiven, ServesOld, ServesNew
  <2>4. QED
    BY <1>3, <1>4, <1>14, <2>2, <2>3, PermitsStay DEF NotifyInv
<1>18. QED
  BY <1>5, <1>6, <1>8, <1>11, <1>13, <1>15, <1>16, <1>17 DEF NotifyInv

-----------------------------------------------------------------------------
(* The steps that move objects.                                            *)

\* Such a step leaves the transactions alone.
LEMMA TxnsRest ==
    ASSUME Base, UNCHANGED <<inputVars, txnVars>>
    PROVE  /\ OnlyTxn(0) /\ Onward /\ 0 \notin TxnId
           /\ stage' = stage /\ awaiting' = awaiting /\ signals' = signals
           /\ outcome' = outcome /\ reads' = reads
<1>1. /\ UNCHANGED inputVars
      /\ stage' = stage /\ awaiting' = awaiting /\ signals' = signals
      /\ outcome' = outcome /\ reads' = reads
  BY DEF txnVars
<1>2. QED
  BY <1>1, Constants DEF OnlyTxn, Onward, Started, Past, Through

\* A step of the migration leaves the tasks as they are.
LEMMA BaseRests ==
    ASSUME Base, UNCHANGED <<inputVars, txnVars, up>>, listening' \subseteq listening,
           permits' = [p \in Proxy |-> permits'[p]], obj_task_map' \in [Proxy -> Controller]
    PROVE  Base'
<1>1. OnlyTxn(0) /\ 0 \notin TxnId /\ stage' = stage /\ awaiting' = awaiting /\ signals' = signals
      /\ outcome' = outcome /\ reads' = reads
  BY TxnsRest
<1>2. Creator' = Creator
  BY DEF Creator
<1>3. VAInv' /\ invalid' = invalid /\ forwarded' = forwarded
  BY InputsKept
<1>4. Shapes'
  BY <1>1, <1>2, <1>3 DEF Base, Shapes, Controller, AllKeys
<1>5. QED
  BY <1>1, <1>4, BaseKept

\* What remains to be shown of such a step.
LEMMA MigrationKeeps ==
    ASSUME NotifyInv, UNCHANGED <<inputVars, txnVars>>, Base', StoreTyped', NewMoves, OneMove', Quiet(0),
           AllHeld', PermitsDue'
    PROVE  NotifyInv'
<1>1. OnlyTxn(0) /\ Onward /\ 0 \notin TxnId
  BY TxnsRest DEF NotifyInv
<1>2. Moves' /\ InOrder' /\ OwnKeys'
  BY <1>1, MovesKept, InOrderKept, OwnKeysKept DEF NotifyInv
<1>3. QED
  BY <1>2 DEF NotifyInv

\* Nothing is asked of the store.
LEMMA StoreRests ==
    ASSUME Base, StoreTyped, UNCHANGED <<inputVars, txnVars, store>>
    PROVE  StoreTyped'
BY TxnsRest, InputsKept DEF StoreTyped

\* What get_prior_dependency_and_update does to a proxy's controller, for one key.
EntersKey(p, task, o, v, after) ==
    /\ after = entry_helper(obj_task_map[p], {<<o, v>>}, task)
    /\ obj_task_map' = [obj_task_map EXCEPT ![p] = after]

KeyEntered(p, o, v, after) ==
    /\ EnteredAt(p, {<<o, v>>}) /\ obj_task_map'[p] = after
    /\ Handles(after, {<<o, v>>}) = {HandleIn(obj_task_map'[p], o, v)}

\* What entering a single key does to a controller.
LEMMA EnterFacts ==
    ASSUME Base, NEW p \in Proxy, NEW task \in Creator, NEW o \in Object, NEW v \in Version,
           NEW after, EntersKey(p, task, o, v, after)
    PROVE  KeyEntered(p, o, v, after)
<1>1. obj_task_map \in [Proxy -> Controller]
  BY DEF Base, Shapes, Controller, AllKeys
<1>2. PICK map \in Controller : map = obj_task_map[p]
  BY <1>1
<1>3. {<<o, v>>} \in SUBSET AllKeys
  BY DEF AllKeys
<1>4. Enters(map, after, {<<o, v>>})
  BY <1>2, <1>3, EntriesMade DEF EntersKey
<1>5. after \in Controller /\ after[<<o, v>>] # NoTask
  BY <1>4 DEF Enters
<1>6. /\ obj_task_map' \in [Proxy -> Controller] /\ obj_task_map'[p] = after
      /\ \A q \in Proxy : q # p => obj_task_map'[q] = obj_task_map[q]
  BY <1>1, <1>5 DEF EntersKey
<1>7. EnteredAt(p, {<<o, v>>})
  BY <1>2, <1>4, <1>6 DEF EnteredAt
<1>8. Handles(after, {<<o, v>>}) = {HandleIn(obj_task_map'[p], o, v)}
  BY <1>6 DEF Handles, HandleIn
<1>9. QED
  BY <1>6, <1>7, <1>8 DEF KeyEntered

\* A request taken up waits on the Notify of the version it asks for.
LEMMA HandleRequestKeeps ==
    ASSUME NotifyInv, NEW m \in network, HandleStatefulRequest(m)
    PROVE  NotifyInv'
<1>1. m.kind = "request"
  BY DEF HandleStatefulRequest
<1>2. PICK t \in TxnId, o \in Object : RequestFor(m, t, o)
  BY <1>1 DEF NotifyInv, Moves, ReplyFor, EmptyReply
<1>3. PICK p, v, f : p = m.to /\ v = m.version /\ f = m.from
  OBVIOUS
<1>4. /\ SentFor(t, o) /\ m.object_id = o /\ v = assigned[t][o]
      /\ p = forwarded[t].owner[o] /\ f = ProxyOf(t)
  BY <1>2, <1>3 DEF RequestFor
<1>5. Base /\ p \in Proxy /\ v \in Version /\ v > 2 /\ v \in Nat
  BY <1>4, SentFacts, Constants DEF NotifyInv
<1>6. PICK task, after :
          task = <<"request", o, v>> /\ after = entry_helper(obj_task_map[p], {<<o, v>>}, task)
  OBVIOUS
<1>7. PriorKeys(Single(o, v)) \cup {} = {<<o, v>>} /\ PriorKeys(Single(o, v)) = {<<o, v>>}
  BY <1>5, SingleKeys
<1>8. /\ obj_task_map' = [obj_task_map EXCEPT ![p] = after]
      /\ serving' = serving \cup {[at |-> p, from |-> f, object_id |-> o, version |-> v,
                                   awaiting |-> Handles(after, {<<o, v>>})]}
      /\ network' = network \ {m}
  BY <1>3, <1>4, <1>6, <1>7 DEF HandleStatefulRequest, get_prior_dependency_and_update
<1>9. /\ UNCHANGED <<inputVars, txnVars>> /\ UNCHANGED <<store, permits, installing, listening, up>>
      /\ forwarded' = forwarded
  BY DEF HandleStatefulRequest, healthVars, inputVars, orVars
<1>10. PICK h : h = HandleIn(obj_task_map'[p], o, v)
  OBVIOUS
<1>11. task \in Creator
  BY <1>5, <1>6, CreatorsExist
<1>12. EnteredAt(p, {<<o, v>>}) /\ Handles(after, {<<o, v>>}) = {h}
  <2>1. EntersKey(p, task, o, v, after)
    BY <1>6, <1>8 DEF EntersKey
  <2>2. KeyEntered(p, o, v, after)
    BY <1>5, <1>11, <2>1, EnterFacts
  <2>3. QED
    BY <1>10, <2>2 DEF KeyEntered
<1>13. h[1] = o /\ h[2] = v /\ h[3] = obj_task_map'[p][<<o, v>>]
       /\ h = HandleIn(obj_task_map'[p], h[1], h[2]) /\ <<o, v>> \in AllKeys
  BY <1>5, <1>10 DEF HandleIn, AllKeys
<1>14. Held(p, h)'
  <2>1. obj_task_map'[p][<<o, v>>] # NoTask
    BY <1>12 DEF EnteredAt, Enters
  <2>2. QED
    BY <1>13, <2>1 DEF Held, Handle
<1>15. PICK s : s = [at |-> p, from |-> f, object_id |-> o, version |-> v, awaiting |-> {h}]
  OBVIOUS
<1>16. serving' = serving \cup {s} /\ s.at = p /\ s.object_id = o /\ s.version = v /\ s.awaiting = {h}
  BY <1>8, <1>12, <1>15
<1>17. OnlyTxn(0) /\ Onward /\ 0 \notin TxnId /\ awaiting' = awaiting /\ signals' = signals
  BY <1>5, <1>9, TxnsRest
<1>18. Base'
  <2>1. obj_task_map' \in [Proxy -> Controller] /\ permits' = [q \in Proxy |-> permits'[q]]
    BY <1>5, <1>9, <1>12 DEF EnteredAt, Base, Shapes
  <2>2. QED
    BY <1>5, <1>9, <2>1, BaseRests
<1>19. StoreTyped'
  BY <1>5, <1>9, StoreRests DEF NotifyInv
<1>20. NewMoves
  <2>1. SentFor(t, o)' /\ assigned' = assigned /\ ProxyOf(t)' = ProxyOf(t)
    BY <1>4, <1>5, <1>9, <1>17, SentKept, InputsKept
  <2>2. ServingFor(s, t, o)'
    BY <1>4, <1>9, <1>13, <1>15, <1>16, <2>1 DEF ServingFor
  <2>3. QED
    BY <1>8, <1>9, <1>16, <2>2 DEF NewMoves
<1>21. Passes("request", m, "serving", s)
  <2>1. ASSUME NEW q \in Object, NEW w \in Version, NEW j, NEW z, IsMoving(q, w, j, z)'
        PROVE  \/ IsMoving(q, w, j, z) /\ ~ (j = "request" /\ z = m)
               \/ j = "serving" /\ z = s /\ IsMoving(q, w, "request", m)
    BY <1>1, <1>3, <1>4, <1>8, <1>9, <1>16, <2>1 DEF IsMoving
  <2>2. QED
    BY <2>1 DEF Passes
<1>22. OneMove' /\ Quiet(0)
  BY <1>21, MovePasses DEF NotifyInv
<1>23. AllHeld'
  <2>1. ASSUME NEW q \in Proxy, NEW g, HoldsAt(q, g)' PROVE HoldsAt(q, g) \/ (q = p /\ g = h)
    BY <1>9, <1>16, <1>17, <2>1 DEF HoldsAt, ProxyOf
  <2>2. NewHolders
    BY <1>13, <1>14, <2>1 DEF NewHolders
  <2>3. KeepsEntries
    BY <1>5, <1>12, EnteredKeeps
  <2>4. QED
    BY <2>2, <2>3, HeldKept DEF NotifyInv
<1>24. PermitsDue'
  <2>1. ASSUME NEW q \in Proxy, NEW g \in permits[q] PROVE Unserved(q, g, s)
    <3>1. SUFFICES ASSUME q = p, g[1] = o, g[2] = v PROVE g = h
      BY <1>16 DEF Unserved
    <3>2. HoldsAt(p, g)'
      BY <1>9, <2>1, <3>1 DEF HoldsAt
    <3>3. g = HandleIn(obj_task_map'[p], g[1], g[2])
      BY <1>5, <1>23, <3>2 DEF AllHeld, Held, Handle
    <3>4. QED
      BY <1>10, <3>1, <3>3
  <2>2. NoPermitGiven /\ ServesOld
    BY <1>9, <1>16, <2>1 DEF NoPermitGiven, ServesOld, ServesNew
  <2>3. QED
    BY <1>5, <1>17, <1>22, <2>2, PermitsStay DEF NotifyInv
<1>25. QED
  BY <1>9, <1>18, <1>19, <1>20, <1>22, <1>23, <1>24, MigrationKeeps

\* A request that takes a permit knows that the producer is through.
LEMMA AwaitProducerKeeps ==
    ASSUME NotifyInv, NEW s \in serving, AwaitProducer(s)
    PROVE  NotifyInv'
<1>1. PICK t \in TxnId, o \in Object : ServingFor(s, t, o)
  BY DEF NotifyInv, Moves
<1>2. PICK p, v : p = s.at /\ v = s.version
  OBVIOUS
<1>3. /\ SentFor(t, o) /\ p = forwarded[t].owner[o] /\ v = assigned[t][o]
      /\ s = [at |-> p, from |-> ProxyOf(t), object_id |-> o, version |-> v, awaiting |-> s.awaiting]
      /\ \A h \in s.awaiting : h[1] = o /\ h[2] = v
  BY <1>1, <1>2 DEF ServingFor
<1>4. Base /\ VAInv /\ p \in Proxy /\ t \in Txns /\ o \in Objects(t) /\ Reads(t, o, v)
  BY <1>3, SentFacts DEF NotifyInv, Base, Shapes
<1>5. PICK r : r = [at |-> p, from |-> ProxyOf(t), object_id |-> o, version |-> v, awaiting |-> {}]
  OBVIOUS
<1>6. [s EXCEPT !.awaiting = {}] = r
  BY <1>3, <1>5
<1>7. /\ s.awaiting # {} /\ s.awaiting \subseteq permits[p]
      /\ permits' = [permits EXCEPT ![p] = @ \ s.awaiting]
      /\ serving' = (serving \ {s}) \cup {r}
  BY <1>2, <1>6 DEF AwaitProducer
<1>8. /\ UNCHANGED <<inputVars, txnVars>> /\ UNCHANGED <<store, obj_task_map, network, installing, listening, up>>
      /\ forwarded' = forwarded
  BY DEF AwaitProducer, healthVars, inputVars, orVars
<1>9. /\ r.at = p /\ r.from = ProxyOf(t) /\ r.object_id = o /\ r.version = v /\ r.awaiting = {}
      /\ s.at = p /\ s.object_id = o /\ s.version = v
  BY <1>3, <1>5
<1>10. OnlyTxn(0) /\ Onward /\ 0 \notin TxnId /\ awaiting' = awaiting /\ signals' = signals
  BY <1>4, <1>8, TxnsRest
<1>11. /\ permits'[p] = permits[p] \ s.awaiting /\ \A q \in Proxy : permits'[q] \subseteq permits[q]
       /\ permits' = [q \in Proxy |-> permits'[q]]
  BY <1>4, <1>7 DEF Base, Shapes
<1>12. Base'
  BY <1>4, <1>8, <1>11, BaseRests DEF Base, Shapes, Controller, AllKeys
<1>13. StoreTyped'
  BY <1>4, <1>8, StoreRests DEF NotifyInv
<1>14. Settled(t, o)
  <2>1. PICK h \in s.awaiting : h \in permits[p]
    BY <1>7
  <2>2. h[1] = o /\ h[2] = v /\ Due(p, h)
    BY <1>3, <1>4, <2>1 DEF NotifyInv, PermitsDue
  <2>3. PICK i \in Txns : Through(i) /\ o \in Objects(i) /\ v = Produced(i)
    BY <2>2 DEF Due, Given
  <2>4. Predecessor(i, t, o)
    BY <1>4, <2>3, ReaderFollows
  <2>5. QED
    BY <1>4, <2>3, <2>4, SettledBy DEF NotifyInv
<1>15. NewMoves
  <2>1. SentFor(t, o)' /\ Settled(t, o)' /\ assigned' = assigned /\ ProxyOf(t)' = ProxyOf(t)
    BY <1>3, <1>4, <1>8, <1>10, <1>14, SentKept, InputsKept
  <2>2. ServingFor(r, t, o)'
    BY <1>3, <1>5, <1>8, <1>9, <2>1 DEF ServingFor
  <2>3. QED
    BY <1>7, <1>8, <2>2 DEF NewMoves
<1>16. Passes("serving", s, "serving", r)
  <2>1. ASSUME NEW q \in Object, NEW w \in Version, NEW j, NEW z, IsMoving(q, w, j, z)'
        PROVE  \/ IsMoving(q, w, j, z) /\ ~ (j = "serving" /\ z = s)
               \/ j = "serving" /\ z = r /\ IsMoving(q, w, "serving", s)
    BY <1>7, <1>8, <1>9, <2>1 DEF IsMoving
  <2>2. QED
    BY <2>1 DEF Passes
<1>17. OneMove' /\ Quiet(0)
  BY <1>16, MovePasses DEF NotifyInv
<1>18. AllHeld'
  <2>1. ASSUME NEW q \in Proxy, NEW g, HoldsAt(q, g)' PROVE HoldsAt(q, g)
    BY <1>7, <1>8, <1>9, <1>10, <1>11, <2>1 DEF HoldsAt, ProxyOf
  <2>2. NewHolders
    BY <2>1 DEF NewHolders
  <2>3. KeepsEntries
    BY <1>8 DEF KeepsEntries
  <2>4. QED
    BY <2>2, <2>3, HeldKept DEF NotifyInv
<1>19. PermitsDue'
  <2>1. ASSUME NEW q \in Proxy, NEW g \in permits'[q] PROVE Unserved(q, g, r)
    <3>1. SUFFICES ASSUME q = p, g[1] = o, g[2] = v PROVE FALSE
      BY <1>9 DEF Unserved
    <3>2. g \in permits[p] /\ g \notin s.awaiting
      BY <1>11, <2>1, <3>1
    <3>3. Unserved(p, g, s)
      BY <1>4, <3>2 DEF NotifyInv, PermitsDue, Due
    <3>4. QED
      BY <1>9, <3>1, <3>2, <3>3 DEF Unserved
  <2>2. NoPermitGiven /\ ServesOld
    BY <1>7, <1>11, <2>1 DEF NoPermitGiven, ServesOld, ServesNew
  <2>3. QED
    BY <1>4, <1>10, <1>17, <2>2, PermitsStay DEF NotifyInv
<1>20. QED
  BY <1>8, <1>12, <1>13, <1>15, <1>17, <1>18, <1>19, MigrationKeeps

(***************************************************************************)
(* When the producer is through and the object goes out, nobody at the     *)
(* producer's proxy holds the version's Notify any more.                   *)
(***************************************************************************)
LEMMA NobodyHoldsServed ==
    ASSUME NotifyInv, NEW t \in TxnId, NEW o \in Object, NEW s \in serving, ServingFor(s, t, o),
           s.awaiting = {}, NEW h, h[1] = o, h[2] = s.version
    PROVE  /\ \A u \in TxnId : ProxyOf(u) = s.at => h \notin awaiting[u]
           /\ \A u \in TxnId : h \notin signals[u]
           /\ \A r \in serving : r # s => h \notin r.awaiting
           /\ \A i \in installing : h \notin i.signals
           /\ h \notin permits[s.at]
<1>1. /\ SentFor(t, o) /\ s.at = forwarded[t].owner[o] /\ s.version = assigned[t][o] /\ s.object_id = o
      /\ Settled(t, o)
  BY DEF ServingFor
<1>2. Base /\ t \in Txns /\ s.at \in Proxy /\ s.at # ProxyOf(t) /\ Reads(t, o, h[2])
      /\ h[2] \in Version
  BY <1>1, SentFacts DEF NotifyInv
<1>3. VAInv
  BY <1>2 DEF Base, Shapes
<1>4. IsMoving(o, h[2], "serving", s)
  BY <1>1 DEF IsMoving
<1>5. ASSUME NEW u \in TxnId, ProxyOf(u) = s.at, h \in awaiting[u] PROVE FALSE
  <2>1. Reads(u, o, h[2])
    BY <1>5 DEF NotifyInv, OwnKeys, KnowsOwn
  <2>2. QED
    BY <1>2, <1>3, <1>5, <2>1, OneReader
<1>6. ASSUME NEW u \in TxnId, h \in signals[u] PROVE FALSE
  <2>1. u \in Txns /\ ~ Through(u)
    BY <1>2, <1>6, StartedFacts DEF Base, StagesOK, StageOK, Started, Through
  <2>2. o \in Objects(u) /\ h[2] = Produced(u)
    BY <1>6 DEF NotifyInv, OwnKeys, KnowsOwn
  <2>3. Predecessor(u, t, o)
    BY <1>2, <1>3, <2>1, <2>2, ReaderFollows
  <2>4. QED
    BY <1>1, <2>1, <2>2, <2>3 DEF Settled, Predecessor
<1>7. ASSUME NEW r \in serving, r # s, h \in r.awaiting PROVE FALSE
  <2>1. PICK u \in TxnId, q \in Object : ServingFor(r, u, q)
    BY <1>7 DEF NotifyInv, Moves
  <2>2. r.object_id = o /\ r.version = h[2]
    BY <1>7, <2>1 DEF ServingFor
  <2>3. IsMoving(o, h[2], "serving", r)
    BY <2>2 DEF IsMoving
  <2>4. QED
    BY <1>2, <1>4, <1>7, <2>3, Zenon DEF NotifyInv, OneMove
<1>8. ASSUME NEW i \in installing, h \in i.signals PROVE FALSE
  <2>1. PICK u \in TxnId, q \in Object : InstallFor(i, u, q)
    BY <1>8 DEF NotifyInv, Moves
  <2>2. i.object_id = o /\ i.object.version = h[2]
    BY <1>8, <2>1 DEF InstallFor
  <2>3. IsMoving(o, h[2], "installing", i)
    BY <2>2 DEF IsMoving
  <2>4. "installing" = "serving"
    BY <1>2, <1>4, <2>3, Zenon DEF NotifyInv, OneMove
  <2>5. QED
    BY <2>4
<1>9. h \notin permits[s.at]
  BY <1>1, <1>2 DEF NotifyInv, PermitsDue, Due, Unserved
<1>10. QED
  BY <1>5, <1>6, <1>7, <1>8, <1>9

\* A reply drops the entry at the previous owner, where nobody else needs it.
LEMMA ReplyKeeps ==
    ASSUME NotifyInv, NEW s \in serving, ReplyStateful(s)
    PROVE  NotifyInv'
<1>1. PICK t \in TxnId, o \in Object : ServingFor(s, t, o)
  BY DEF NotifyInv, Moves
<1>2. PICK p, v, f, copy : p = s.at /\ v = s.version /\ f = s.from /\ copy = store[p][o]
  OBVIOUS
<1>3. s.awaiting = {}
  BY DEF ReplyStateful
<1>4. /\ SentFor(t, o) /\ p = forwarded[t].owner[o] /\ v = assigned[t][o] /\ f = ProxyOf(t)
      /\ s.object_id = o /\ Settled(t, o)
  BY <1>1, <1>2, <1>3 DEF ServingFor
<1>5. Base /\ p \in Proxy /\ f \in Proxy /\ t \in Txns /\ o \in Objects(t) /\ v \in Version
      /\ v \in Nat
  BY <1>4, SentFacts, Constants DEF NotifyInv
<1>6. PICK r : r = [kind |-> "reply", from |-> p, to |-> f, object_id |-> o,
                    object |-> IF copy.version = v THEN copy ELSE NoObject]
  OBVIOUS
<1>7. /\ obj_task_map' = [obj_task_map EXCEPT ![p] = remove_dependency(@, Single(o, v))]
      /\ network' = network \cup {r} /\ serving' = serving \ {s}
  BY <1>2, <1>4, <1>6 DEF ReplyStateful, send_msg_to_proxy
<1>8. /\ UNCHANGED <<inputVars, txnVars>> /\ UNCHANGED <<store, permits, installing, listening, up>>
      /\ forwarded' = forwarded
  BY DEF ReplyStateful, healthVars, inputVars, orVars
<1>9. /\ r.kind = "reply" /\ r.from = p /\ r.to = f /\ r.object_id = o
      /\ r.object = IF copy.version = v THEN copy ELSE NoObject
  BY <1>6
<1>10. OnlyTxn(0) /\ Onward /\ 0 \notin TxnId /\ awaiting' = awaiting /\ signals' = signals
  BY <1>5, <1>8, TxnsRest
<1>11. DroppedAt(p, {<<o, v>>})
  <2>1. PICK required : required = Single(o, v)
    OBVIOUS
  <2>2. DroppedAt(p, Keys(required))
    BY <1>5, <1>7, <2>1, DropFacts
  <2>3. Keys(required) = {<<o, v>>}
    BY <1>5, <2>1, SingleKeys
  <2>4. QED
    BY <2>2, <2>3
<1>12. Base'
  <2>1. obj_task_map' \in [Proxy -> Controller] /\ permits' = [q \in Proxy |-> permits'[q]]
    BY <1>5, <1>8, <1>11 DEF DroppedAt, Base, Shapes
  <2>2. QED
    BY <1>5, <1>8, <2>1, BaseRests
<1>13. StoreTyped'
  BY <1>5, <1>8, StoreRests DEF NotifyInv
<1>14. NewMoves
  <2>1. SentFor(t, o)' /\ Settled(t, o)' /\ assigned' = assigned /\ ProxyOf(t)' = ProxyOf(t)
    BY <1>4, <1>5, <1>8, <1>10, SentKept, InputsKept
  <2>2. copy \in Copy
    BY <1>2, <1>5 DEF NotifyInv, StoreTyped
  <2>3. ReplyFor(r, t, o)' \/ EmptyReply(r)
    <3>1. CASE copy.version = v
      <4>1. ReplyFor(r, t, o)'
        BY <1>4, <1>8, <1>9, <2>1, <2>2, <3>1 DEF ReplyFor, Copy
      <4>2. QED
        BY <4>1
    <3>2. CASE copy.version # v
      BY <1>5, <1>9, <3>2 DEF EmptyReply
    <3>3. QED
      BY <3>1, <3>2
  <2>4. QED
    BY <1>7, <1>8, <2>3 DEF NewMoves
<1>15. Passes("serving", s, "reply", r)
  <2>1. ASSUME NEW q \in Object, NEW w \in Version, NEW j, NEW z, IsMoving(q, w, j, z)'
        PROVE  \/ IsMoving(q, w, j, z) /\ ~ (j = "serving" /\ z = s)
               \/ j = "reply" /\ z = r /\ IsMoving(q, w, "serving", s)
    <3>1. CASE j = "reply" /\ z = r /\ r.object_id = q /\ r.object.version = w
      <4>1. w # 0 /\ NoObject.version = 0
        BY Constants DEF NoObject
      <4>2. copy.version = v /\ w = v /\ q = o
        BY <1>9, <3>1, <4>1
      <4>3. QED
        BY <1>2, <1>4, <3>1, <4>2 DEF IsMoving
    <3>2. QED
      BY <1>7, <1>8, <1>9, <2>1, <3>1 DEF IsMoving
  <2>2. QED
    BY <2>1 DEF Passes
<1>16. OneMove' /\ Quiet(0)
  BY <1>15, MovePasses DEF NotifyInv
<1>17. AllHeld'
  <2>1. ASSUME NEW q \in Proxy, NEW h, HoldsAt(q, h)'
        PROVE  HoldsAt(q, h) /\ ~ (q = p /\ <<h[1], h[2]>> \in {<<o, v>>})
    <3>1. HoldsAt(q, h)
      BY <1>7, <1>8, <1>10, <2>1 DEF HoldsAt, ProxyOf
    <3>2. ASSUME q = p, h[1] = o, h[2] = v PROVE FALSE
      <4>1. /\ \A u \in TxnId : ProxyOf(u) = p => h \notin awaiting[u]
            /\ \A u \in TxnId : h \notin signals[u]
            /\ \A x \in serving : x # s => h \notin x.awaiting
            /\ \A i \in installing : h \notin i.signals
            /\ h \notin permits[p]
        BY <1>1, <1>2, <1>3, <3>2, NobodyHoldsServed
      <4>2. QED
        BY <1>7, <1>8, <1>10, <2>1, <3>2, <4>1 DEF HoldsAt, ProxyOf
    <3>3. QED
      BY <3>1, <3>2
  <2>2. OldHolders(p, {<<o, v>>})
    BY <2>1 DEF OldHolders
  <2>3. QED
    BY <1>5, <1>11, <2>2, HeldDropped DEF NotifyInv
<1>18. PermitsDue'
  <2>1. NoPermitGiven /\ ServesOld
    BY <1>7, <1>8 DEF NoPermitGiven, ServesOld, ServesNew
  <2>2. QED
    BY <1>5, <1>10, <1>16, <2>1, PermitsStay DEF NotifyInv
<1>19. QED
  BY <1>8, <1>12, <1>13, <1>14, <1>16, <1>17, <1>18, MigrationKeeps

\* A reply taken up will signal the Notify of the version it brings; an empty one is dropped.
LEMMA HandleReplyKeeps ==
    ASSUME NotifyInv, NEW m \in network, HandleStatefulReply(m)
    PROVE  NotifyInv'
<1>1. m.kind = "reply" /\ network' = network \ {m}
  BY DEF HandleStatefulReply
<1>2. /\ UNCHANGED <<inputVars, txnVars>> /\ UNCHANGED <<store, permits, serving, up>>
      /\ forwarded' = forwarded
  BY DEF HandleStatefulReply, inputVars, orVars
<1>3. Base /\ OnlyTxn(0) /\ Onward /\ 0 \notin TxnId /\ awaiting' = awaiting /\ signals' = signals
  BY <1>2, TxnsRest DEF NotifyInv
<1>4. StoreTyped' /\ permits' = [q \in Proxy |-> permits'[q]]
  BY <1>2, <1>3, StoreRests DEF NotifyInv, Base, Shapes
<1>5. CASE m.object = NoObject
  <2>1. listening' = listening \ {m.to} /\ UNCHANGED <<obj_task_map, installing>>
    BY <1>5 DEF HandleStatefulReply
  <2>2. Base'
    BY <1>2, <1>3, <1>4, <2>1, BaseRests DEF Base, Shapes, Controller, AllKeys
  <2>3. NewMoves
    BY <1>1, <1>2, <2>1 DEF NewMoves
  <2>4. Passes("reply", m, "reply", m)
    BY <1>1, <1>2, <2>1 DEF Passes, IsMoving
  <2>5. OneMove' /\ Quiet(0)
    BY <2>4, MovePasses DEF NotifyInv
  <2>6. AllHeld'
    BY <1>2, <1>3, <2>1, HoldersStay DEF NotifyInv
  <2>7. NoPermitGiven /\ ServesOld
    BY <1>2 DEF NoPermitGiven, ServesOld, ServesNew
  <2>8. PermitsDue'
    BY <1>3, <2>5, <2>7, PermitsStay DEF NotifyInv
  <2>9. QED
    BY <1>2, <1>4, <2>2, <2>3, <2>5, <2>6, <2>8, MigrationKeeps
<1>6. CASE m.object # NoObject
  <2>1. PICK t \in TxnId, o \in Object : ReplyFor(m, t, o)
    BY <1>1, <1>6 DEF NotifyInv, Moves, RequestFor, EmptyReply
  <2>2. PICK p, v, c : p = m.to /\ v = m.object.version /\ c = m.object
    OBVIOUS
  <2>3. /\ SentFor(t, o) /\ Settled(t, o) /\ p = ProxyOf(t) /\ m.object_id = o
        /\ c \in Copy /\ v = assigned[t][o] /\ c.version = v
    BY <2>1, <2>2 DEF ReplyFor
  <2>4. p \in Proxy /\ v \in Version /\ v - 1 \in Nat /\ (v - 1) + 1 = v
    BY <1>3, <2>3, SentFacts, Constants
  <2>5. PICK task, after :
            task = <<"reply", o, v>> /\ after = entry_helper(obj_task_map[p], {<<o, v>>}, task)
    OBVIOUS
  <2>6. {} \cup NextKeys(Single(o, v - 1)) = {<<o, v>>} /\ NextKeys(Single(o, v - 1)) = {<<o, v>>}
    BY <2>4, SingleKeys
  <2>7. /\ obj_task_map' = [obj_task_map EXCEPT ![p] = after]
        /\ installing' = installing \cup {[at |-> p, object_id |-> o, object |-> c,
                                           signals |-> Handles(after, {<<o, v>>}), committed |-> FALSE]}
        /\ UNCHANGED listening
    BY <1>6, <2>2, <2>3, <2>5, <2>6 DEF HandleStatefulReply, get_prior_dependency_and_update
  <2>8. PICK h : h = HandleIn(obj_task_map'[p], o, v)
    OBVIOUS
  <2>9. task \in Creator
    BY <2>4, <2>5, CreatorsExist
  <2>10. EnteredAt(p, {<<o, v>>}) /\ Handles(after, {<<o, v>>}) = {h}
    <3>1. EntersKey(p, task, o, v, after)
      BY <2>5, <2>7 DEF EntersKey
    <3>2. KeyEntered(p, o, v, after)
      BY <1>3, <2>4, <2>9, <3>1, EnterFacts
    <3>3. QED
      BY <2>8, <3>2 DEF KeyEntered
  <2>11. h[1] = o /\ h[2] = v /\ h[3] = obj_task_map'[p][<<o, v>>]
         /\ h = HandleIn(obj_task_map'[p], h[1], h[2]) /\ <<o, v>> \in AllKeys
    BY <2>4, <2>8 DEF HandleIn, AllKeys
  <2>12. Held(p, h)'
    <3>1. obj_task_map'[p][<<o, v>>] # NoTask
      BY <2>10 DEF EnteredAt, Enters
    <3>2. QED
      BY <2>11, <3>1 DEF Held, Handle
  <2>13. PICK i : i = [at |-> p, object_id |-> o, object |-> c, signals |-> {h}, committed |-> FALSE]
    OBVIOUS
  <2>14. /\ installing' = installing \cup {i} /\ i.at = p /\ i.object_id = o /\ i.object = c
         /\ i.signals = {h} /\ i.committed \in BOOLEAN
    BY <2>7, <2>10, <2>13
  <2>15. Base'
    <3>1. obj_task_map' \in [Proxy -> Controller]
      BY <2>10 DEF EnteredAt
    <3>2. QED
      BY <1>2, <1>3, <1>4, <2>7, <3>1, BaseRests
  <2>16. NewMoves
    <3>1. SentFor(t, o)' /\ Settled(t, o)' /\ assigned' = assigned /\ ProxyOf(t)' = ProxyOf(t)
      BY <1>2, <1>3, <2>3, SentKept, InputsKept
    <3>2. i = [at |-> ProxyOf(t)', object_id |-> o, object |-> i.object,
               signals |-> i.signals, committed |-> i.committed]
      BY <2>3, <2>13, <3>1
    <3>3. InstallFor(i, t, o)'
      BY <2>3, <2>11, <2>14, <3>1, <3>2 DEF InstallFor
    <3>4. QED
      BY <1>1, <1>2, <2>14, <3>3 DEF NewMoves
  <2>17. Passes("reply", m, "installing", i)
    <3>1. ASSUME NEW q \in Object, NEW w \in Version, NEW j, NEW z, IsMoving(q, w, j, z)'
          PROVE  \/ IsMoving(q, w, j, z) /\ ~ (j = "reply" /\ z = m)
                 \/ j = "installing" /\ z = i /\ IsMoving(q, w, "reply", m)
      BY <1>1, <1>2, <2>2, <2>3, <2>14, <3>1 DEF IsMoving
    <3>2. QED
      BY <3>1 DEF Passes
  <2>18. OneMove' /\ Quiet(0)
    BY <2>17, MovePasses DEF NotifyInv
  <2>19. AllHeld'
    <3>1. ASSUME NEW q \in Proxy, NEW g, HoldsAt(q, g)' PROVE HoldsAt(q, g) \/ (q = p /\ g = h)
      BY <1>2, <1>3, <2>14, <3>1 DEF HoldsAt, ProxyOf
    <3>2. NewHolders
      BY <2>11, <2>12, <3>1 DEF NewHolders
    <3>3. KeepsEntries
      BY <2>4, <2>10, EnteredKeeps
    <3>4. QED
      BY <3>2, <3>3, HeldKept DEF NotifyInv
  <2>20. NoPermitGiven /\ ServesOld
    BY <1>2 DEF NoPermitGiven, ServesOld, ServesNew
  <2>21. PermitsDue'
    BY <1>3, <2>18, <2>20, PermitsStay DEF NotifyInv
  <2>22. QED
    BY <1>2, <1>4, <2>15, <2>16, <2>18, <2>19, <2>21, MigrationKeeps
<1>7. QED
  BY <1>5, <1>6

\* Setting the flag of a task that installs an object.
LEMMA FlagSet ==
    ASSUME NEW p, NEW o, NEW c, NEW G, NEW b, NEW d, NEW i,
           i = [at |-> p, object_id |-> o, object |-> c, signals |-> G, committed |-> b]
    PROVE  [i EXCEPT !.committed = d] =
              [at |-> p, object_id |-> o, object |-> c, signals |-> G, committed |-> d]
OBVIOUS

\* Installing a migrated copy touches no Notify.
LEMMA CommitKeeps ==
    ASSUME NotifyInv, NEW i \in installing, CommitMigrated(i)
    PROVE  NotifyInv'
<1>1. PICK t \in TxnId, o \in Object : InstallFor(i, t, o)
  BY DEF NotifyInv, Moves
<1>2. PICK p, c, G : p = ProxyOf(t) /\ c = i.object /\ G = i.signals
  OBVIOUS
<1>3. /\ SentFor(t, o) /\ Settled(t, o) /\ c \in Copy /\ c.version = assigned[t][o]
      /\ i = [at |-> p, object_id |-> o, object |-> c, signals |-> G, committed |-> i.committed]
      /\ \A h \in G : h[1] = o /\ h[2] = assigned[t][o]
  BY <1>1, <1>2 DEF InstallFor
<1>4. Base /\ p \in Proxy
  BY <1>2, <1>3, SentFacts DEF NotifyInv
<1>5. PICK r : r = [i EXCEPT !.committed = TRUE]
  OBVIOUS
<1>6. r = [at |-> p, object_id |-> o, object |-> c, signals |-> G, committed |-> r.committed]
      /\ r.committed \in BOOLEAN
  <2>1. PICK b : i = [at |-> p, object_id |-> o, object |-> c, signals |-> G, committed |-> b]
    BY <1>3, Zenon
  <2>2. PICK d : d \in BOOLEAN /\ r = [i EXCEPT !.committed = d]
    BY <1>5, Zenon
  <2>3. r = [at |-> p, object_id |-> o, object |-> c, signals |-> G, committed |-> d]
    BY <2>1, <2>2, FlagSet
  <2>4. QED
    BY <2>2, <2>3
<1>7. i.at = p /\ i.object_id = o /\ i.object = c /\ i.signals = G
      /\ r.at = p /\ r.object_id = o /\ r.object = c /\ r.signals = G /\ r.committed \in BOOLEAN
  BY <1>3, <1>6
<1>8. /\ store' = commit_objects(p, Single(o, c)) /\ installing' = (installing \ {i}) \cup {r}
  BY <1>5, <1>7 DEF CommitMigrated
<1>9. /\ UNCHANGED <<inputVars, txnVars>> /\ UNCHANGED <<obj_task_map, permits, network, serving, listening, up>>
      /\ forwarded' = forwarded
  BY DEF CommitMigrated, healthVars, controllerVars, inputVars, orVars
<1>10. OnlyTxn(0) /\ Onward /\ 0 \notin TxnId /\ awaiting' = awaiting /\ signals' = signals
       /\ outcome' = outcome /\ reads' = reads
  BY <1>4, <1>9, TxnsRest
<1>11. Base'
  BY <1>4, <1>9, BaseRests DEF Base, Shapes, Controller, AllKeys
<1>12. StoreTyped'
  <2>1. \A q \in DOMAIN Single(o, c) : Single(o, c)[q] \in Copy
    BY <1>3 DEF Single
  <2>2. store' \in [Proxy -> [Object -> Copy]]
    BY <1>4, <1>8, <2>1, CommitFacts DEF NotifyInv, StoreTyped
  <2>3. QED
    BY <1>4, <1>9, <1>10, <2>2, InputsKept DEF NotifyInv, StoreTyped
<1>13. NewMoves
  <2>1. SentFor(t, o)' /\ Settled(t, o)' /\ assigned' = assigned /\ ProxyOf(t)' = ProxyOf(t)
    BY <1>3, <1>4, <1>9, <1>10, SentKept, InputsKept
  <2>2. r = [at |-> ProxyOf(t)', object_id |-> o, object |-> r.object,
             signals |-> r.signals, committed |-> r.committed]
    BY <1>2, <1>6, <2>1
  <2>3. InstallFor(r, t, o)'
    BY <1>3, <1>7, <2>1, <2>2 DEF InstallFor
  <2>4. QED
    BY <1>8, <1>9, <2>3 DEF NewMoves
<1>14. Passes("installing", i, "installing", r)
  <2>1. ASSUME NEW q \in Object, NEW w \in Version, NEW j, NEW z, IsMoving(q, w, j, z)'
        PROVE  \/ IsMoving(q, w, j, z) /\ ~ (j = "installing" /\ z = i)
               \/ j = "installing" /\ z = r /\ IsMoving(q, w, "installing", i)
    BY <1>7, <1>8, <1>9, <2>1 DEF IsMoving
  <2>2. QED
    BY <2>1 DEF Passes
<1>15. OneMove' /\ Quiet(0)
  BY <1>14, MovePasses DEF NotifyInv
<1>16. AllHeld'
  <2>1. ASSUME NEW q \in Proxy, NEW g, HoldsAt(q, g)' PROVE HoldsAt(q, g)
    BY <1>7, <1>8, <1>9, <1>10, <2>1 DEF HoldsAt, ProxyOf
  <2>2. NewHolders
    BY <2>1 DEF NewHolders
  <2>3. KeepsEntries
    BY <1>9 DEF KeepsEntries
  <2>4. QED
    BY <2>2, <2>3, HeldKept DEF NotifyInv
<1>17. NoPermitGiven /\ ServesOld
  BY <1>9 DEF NoPermitGiven, ServesOld, ServesNew
<1>18. PermitsDue'
  BY <1>4, <1>10, <1>15, <1>17, PermitsStay DEF NotifyInv
<1>19. QED
  BY <1>9, <1>11, <1>12, <1>13, <1>15, <1>16, <1>18, MigrationKeeps

\* The Notify signalled after an installation is due to the one reader of the version.
LEMMA NotifyMigratedKeeps ==
    ASSUME NotifyInv, NEW i \in installing, NotifyMigrated(i)
    PROVE  NotifyInv'
<1>1. PICK t \in TxnId, o \in Object : InstallFor(i, t, o)
  BY DEF NotifyInv, Moves
<1>2. PICK p, v : p = ProxyOf(t) /\ v = assigned[t][o]
  OBVIOUS
<1>3. /\ SentFor(t, o) /\ Settled(t, o) /\ i.object.version = v /\ i.at = p /\ i.object_id = o
      /\ \A h \in i.signals : h[1] = o /\ h[2] = v
  BY <1>1, <1>2 DEF InstallFor
<1>4. Base /\ p \in Proxy /\ v \in Version /\ Reads(t, o, v) /\ t \in Txns /\ Started(t)
  BY <1>2, <1>3, SentFacts DEF NotifyInv, SentFor
<1>5. VAInv /\ Shapes
  BY <1>4 DEF Base, Shapes
<1>6. /\ i.committed /\ permits' = [permits EXCEPT ![p] = @ \cup i.signals]
      /\ installing' = installing \ {i}
  BY <1>3 DEF NotifyMigrated
<1>7. /\ UNCHANGED <<inputVars, txnVars>> /\ UNCHANGED <<store, obj_task_map, network, serving, listening, up>>
      /\ forwarded' = forwarded
  BY DEF NotifyMigrated, healthVars, inputVars, orVars
<1>8. OnlyTxn(0) /\ Onward /\ 0 \notin TxnId /\ awaiting' = awaiting /\ signals' = signals /\ stage' = stage
  BY <1>4, <1>7, TxnsRest
<1>9. /\ permits'[p] = permits[p] \cup i.signals /\ \A q \in Proxy : q # p => permits'[q] = permits[q]
      /\ permits' = [q \in Proxy |-> permits'[q]]
  BY <1>4, <1>5, <1>6 DEF Shapes
<1>10. Base'
  BY <1>4, <1>7, <1>9, BaseRests DEF Base, Shapes, Controller, AllKeys
<1>11. StoreTyped'
  BY <1>4, <1>7, StoreRests DEF NotifyInv
<1>12. NewMoves
  BY <1>6, <1>7 DEF NewMoves
<1>13. Passes("installing", i, "none", i)
  BY <1>6, <1>7 DEF Passes, IsMoving
<1>14. OneMove' /\ Quiet(0)
  BY <1>13, MovePasses DEF NotifyInv
<1>15. IsMoving(o, v, "installing", i)
  BY <1>3 DEF IsMoving
<1>16. \A k, x : IsMoving(o, v, k, x) => k = "installing" /\ x = i
  BY <1>4, <1>15, Zenon DEF NotifyInv, OneMove
<1>17. NoMove(o, v)'
  <2>1. ASSUME NEW k, NEW x, IsMoving(o, v, k, x)' PROVE FALSE
    <3>1. k # "none"
      BY <2>1 DEF IsMoving
    <3>2. QED
      BY <1>4, <1>13, <1>16, <2>1, <3>1 DEF Passes
  <2>2. QED
    BY <2>1 DEF NoMove
<1>18. AllHeld'
  <2>1. ASSUME NEW q \in Proxy, NEW g, HoldsAt(q, g)' PROVE HoldsAt(q, g)
    <3>1. CASE q = p /\ g \in i.signals
      BY <1>3, <3>1 DEF HoldsAt
    <3>2. CASE g \in permits[q]
      BY <3>2 DEF HoldsAt
    <3>3. CASE g \notin permits'[q]
      BY <1>6, <1>7, <1>8, <2>1, <3>3 DEF HoldsAt, ProxyOf
    <3>4. QED
      BY <1>4, <1>9, <3>1, <3>2, <3>3
  <2>2. NewHolders
    BY <2>1 DEF NewHolders
  <2>3. KeepsEntries
    BY <1>7 DEF KeepsEntries
  <2>4. QED
    BY <2>2, <2>3, HeldKept DEF NotifyInv
<1>19. ASSUME NEW h \in i.signals PROVE Due(p, h)'
  <2>1. h[1] = o /\ h[2] = v /\ HoldsAt(p, h)
    BY <1>3, <1>19 DEF HoldsAt
  <2>2. Given(p, h)'
    <3>1. PICK k \in 1..(t - 1) : k \in Txns /\ o \in Objects(k) /\ v = Produced(k)
      BY <1>2, <1>3, <1>4, SentFacts
    <3>2. Through(k)
      BY <1>3, <3>1 DEF Settled
    <3>3. Through(k)' /\ Started(t)'
      BY <1>4, <1>8, <3>2 DEF Through, Started
    <3>4. QED
      BY <1>2, <1>4, <1>7, <2>1, <3>1, <3>3, InputsKept DEF Given
  <2>3. ~ Ready(t, o) /\ o \in Objects(t)
    BY <1>2, <1>4, <1>15 DEF Ready, NoMove, Reads
  <2>4. ~ Past(t) /\ (stage[t] = "await" => h \in awaiting[t])
    <3>1. ~ Past(t)
      BY <2>3 DEF NotifyInv, InOrder, WaitsOut
    <3>2. ASSUME stage[t] = "await" PROVE h \in awaiting[t]
      <4>1. PICK g \in awaiting[t] : g[1] = o /\ g[2] = v
        BY <1>2, <2>3, <3>2 DEF NotifyInv, InOrder, WaitsOut
      <4>2. HoldsAt(p, g)
        BY <1>2, <4>1 DEF HoldsAt
      <4>3. QED
        BY <1>4, <2>1, <4>1, <4>2, OneNotify DEF NotifyInv
    <3>3. QED
      BY <3>1, <3>2
  <2>5. ASSUME NEW u \in TxnId PROVE Untaken(p, h, u)'
    <3>1. CASE Reads(u, o, v)
      <4>1. u = t
        BY <1>4, <1>5, <3>1, OneReader
      <4>2. QED
        BY <1>8, <1>17, <2>1, <2>4, <4>1 DEF Untaken, Past
    <3>2. QED
      BY <1>4, <1>7, <2>1, <3>1, InputsKept DEF Untaken
  <2>6. ASSUME NEW s \in serving PROVE Unserved(p, h, s)
    <3>1. ~ (s.object_id = o /\ s.version = v)
      BY <1>16 DEF IsMoving
    <3>2. QED
      BY <2>1, <3>1 DEF Unserved
  <2>7. QED
    BY <1>7, <2>2, <2>5, <2>6 DEF Due, Unserved
<1>20. ASSUME NEW q \in Proxy, NEW h \in permits[q] PROVE Due(q, h)'
  <2>1. Due(q, h)
    BY DEF NotifyInv, PermitsDue
  <2>2. ServesNew(q, h)
    BY <1>7 DEF ServesNew
  <2>3. QED
    BY <1>4, <1>8, <1>14, <2>1, <2>2, PermitKept
<1>21. PermitsDue'
  BY <1>4, <1>9, <1>19, <1>20 DEF PermitsDue
<1>22. QED
  BY <1>7, <1>10, <1>11, <1>12, <1>14, <1>18, <1>21, MigrationKeeps

-----------------------------------------------------------------------------
(* The steps of the primary.                                               *)

\* The order grows and transactions are forwarded; what was there stays.
InputsGrow ==
    /\ VAInv' /\ RoutedRight'
    /\ \A t \in Txns : t \in Txns' /\ assigned'[t] = assigned[t]
    /\ \A t \in TxnId : /\ IsForwarded(t) => IsForwarded(t)' /\ forwarded'[t] = forwarded[t]
                        /\ t \notin Txns => ProxyOf(t)' \notin Proxy
    /\ forwarded' = [t \in TxnId |-> forwarded'[t]] /\ invalid' = invalid

\* Version assignment appends to what the proxies know.
LEMMA AssignGrows ==
    ASSUME Base, NEW S \in SUBSET Object, AssignSharedObjectVersions(S), UNCHANGED <<forwarded, invalid>>
    PROVE  InputsGrow
<1>1. VAInv /\ VAInv'
  BY VAStepInv DEF Base, Shapes
<1>2. ASSUME NEW t \in Txns PROVE t \in Txns' /\ assigned'[t] = assigned[t]
  <2>1. PICK x : assigned' = Append(assigned, x)
    BY DEF AssignSharedObjectVersions
  <2>2. assigned \in Seq(RequiredVersions)
    BY <1>1 DEF VAInv, VATypeOK
  <2>3. QED
    BY <1>2, <2>1, <2>2 DEF Txns
<1>3. \A t \in TxnId : (IsForwarded(t)' <=> IsForwarded(t)) /\ ProxyOf(t)' = ProxyOf(t)
  BY DEF IsForwarded, ProxyOf
<1>4. \A t \in TxnId : t \notin Txns => ProxyOf(t)' \notin Proxy
  <2>1. ASSUME NEW t \in TxnId, t \notin Txns PROVE forwarded[t] = NotForwarded
    BY <2>1 DEF Base, RoutedRight, IsForwarded
  <2>2. QED
    BY <1>3, <2>1, Constants DEF NotForwarded, ProxyOf
<1>5. ASSUME NEW t \in TxnId, IsForwarded(t)
      PROVE  /\ t \in Txns /\ Objects(t)' = Objects(t)
             /\ \A i \in 1..(t - 1) : i \in Txns /\ Objects(i)' = Objects(i)
  BY <1>1, <1>2, <1>5, Order DEF Base, RoutedRight, Objects
<1>6. RoutedRight'
  <2>1. ASSUME NEW t \in TxnId, IsForwarded(t)
        PROVE  /\ \A i \in 1..(t - 1) : Conflicts(i, t)' <=> Conflicts(i, t)
               /\ \A o : NoneBetween(0, t, o)' <=> NoneBetween(0, t, o)
               /\ \A o : \A i \in 1..(t - 1) : Predecessor(i, t, o)' <=> Predecessor(i, t, o)
    BY <1>5, <2>1 DEF Conflicts, NoneBetween, Predecessor
  <2>2. ASSUME NEW t \in TxnId, IsForwarded(t)
        PROVE  /\ t \in Txns' /\ ProxyOf(t) \in Proxy
               /\ \A i \in 1..(t - 1) : Conflicts(i, t)' => IsForwarded(i)
               /\ \A o \in Objects(t)' :
                     /\ NoneBetween(0, t, o)' => forwarded[t].owner[o] = NoProxy
                     /\ \A i \in 1..(t - 1) : Predecessor(i, t, o)' =>
                           forwarded[t].owner[o] = IF ProxyOf(i) = ProxyOf(t) THEN NoProxy ELSE ProxyOf(i)
    BY <1>2, <1>5, <2>1, <2>2 DEF Base, RoutedRight, Fetches
  <2>3. QED
    BY <2>2 DEF RoutedRight, Fetches, IsForwarded, ProxyOf
<1>7. QED
  BY <1>1, <1>2, <1>3, <1>4, <1>6 DEF InputsGrow, Base, Shapes

\* Forwarding adds a message that names the proxies of the predecessors.
LEMMA ForwardGrows ==
    ASSUME Base, NEW t \in TxnId, NEW p \in Proxy, Forward(t, p), invalid' = invalid
    PROVE  InputsGrow
<1>1. /\ VAInv /\ VAInv' /\ assigned' = assigned /\ t \in Txns /\ t \in Nat
      /\ ~ IsForwarded(t) /\ \A i \in 1..(t - 1) : Conflicts(i, t) => IsForwarded(i)
  BY VAUnchanged, Constants DEF Base, Shapes, Forward, vaVars
<1>2. PICK owner : owner = [o \in Objects(t) |-> PreviousOwner(t, p, o)]
  OBVIOUS
<1>3. /\ forwarded' = [forwarded EXCEPT ![t] = [proxy |-> p, owner |-> owner]]
      /\ forwarded = [u \in TxnId |-> forwarded[u]]
  BY <1>2 DEF Forward, Base, Shapes
<1>4. /\ forwarded'[t] = [proxy |-> p, owner |-> owner] /\ forwarded' = [u \in TxnId |-> forwarded'[u]]
      /\ \A u \in TxnId : u # t => forwarded'[u] = forwarded[u]
  BY <1>3
<1>5. ProxyOf(t)' = p /\ forwarded'[t].owner = owner /\ IsForwarded(t)'
  <2>1. p # NoProxy
    BY Constants
  <2>2. QED
    BY <1>4, <2>1 DEF ProxyOf, IsForwarded, NotForwarded
<1>6. \A u \in TxnId : IsForwarded(u) => IsForwarded(u)' /\ forwarded'[u] = forwarded[u]
  BY <1>1, <1>4 DEF IsForwarded
<1>7. \A u \in TxnId : u \notin Txns => ProxyOf(u)' \notin Proxy
  <2>1. ASSUME NEW u \in TxnId, u \notin Txns PROVE forwarded[u] = NotForwarded /\ u # t
    BY <1>1, <2>1 DEF Base, RoutedRight, IsForwarded
  <2>2. QED
    BY <1>4, <2>1, Constants DEF NotForwarded, ProxyOf
<1>8. \A u \in Txns : u \in Txns' /\ assigned'[u] = assigned[u]
  BY <1>1 DEF Txns
<1>9. /\ \A u, v : Conflicts(u, v)' <=> Conflicts(u, v)
      /\ \A u, o : NoneBetween(0, u, o)' <=> NoneBetween(0, u, o)
      /\ \A i, u, o : Predecessor(i, u, o)' <=> Predecessor(i, u, o)
      /\ \A u : Objects(u)' = Objects(u)
  BY <1>1 DEF Conflicts, NoneBetween, Predecessor, Objects
<1>10. ASSUME NEW u \in TxnId, NEW i \in 1..(u - 1), IsForwarded(i)
       PROVE  IsForwarded(i)' /\ ProxyOf(i)' = ProxyOf(i) /\ i \in TxnId
  BY <1>6, <1>10, Constants DEF ProxyOf
<1>11. ASSUME NEW o \in Objects(t), NEW i \in 1..(t - 1), Predecessor(i, t, o)
       PROVE  IsForwarded(i) /\ owner[o] = IF ProxyOf(i) = p THEN NoProxy ELSE ProxyOf(i)
  <2>1. Conflicts(i, t)
    BY <1>11 DEF Predecessor, Conflicts
  <2>2. IsForwarded(i)
    BY <1>1, <2>1
  <2>3. \A j \in 1..(t - 1) : Predecessor(j, t, o) => j = i
    BY <1>1, <1>11, PredecessorUnique
  <2>4. (CHOOSE j \in 1..(t - 1) : Predecessor(j, t, o)) = i
    BY <1>11, <2>3
  <2>5. PreviousOwner(t, p, o) = IF ProxyOf(i) = p THEN NoProxy ELSE ProxyOf(i)
    BY <1>11, <2>3, <2>4 DEF PreviousOwner, ProxyOf
  <2>6. QED
    BY <1>2, <2>2, <2>5
<1>12. ASSUME NEW o \in Objects(t), NoneBetween(0, t, o) PROVE owner[o] = NoProxy
  <2>1. \A i \in 1..(t - 1) : ~ Predecessor(i, t, o)
    BY <1>12 DEF Predecessor, NoneBetween
  <2>2. QED
    BY <1>2, <2>1 DEF PreviousOwner
<1>13. RoutedRight'
  <2>1. ASSUME NEW u \in TxnId, IsForwarded(u)'
        PROVE  /\ u \in Txns' /\ ProxyOf(u)' \in Proxy
               /\ \A i \in 1..(u - 1) : Conflicts(i, u)' => IsForwarded(i)'
               /\ \A o \in Objects(u)' :
                     /\ NoneBetween(0, u, o)' => ~ Fetches(u, o)'
                     /\ \A i \in 1..(u - 1) : Predecessor(i, u, o)' =>
                           forwarded'[u].owner[o] =
                              IF ProxyOf(i)' = ProxyOf(u)' THEN NoProxy ELSE ProxyOf(i)'
    <3>1. CASE u = t
      <4>1. \A i \in 1..(t - 1) : Conflicts(i, t) => IsForwarded(i)'
        BY <1>1, <1>10
      <4>2. \A o \in Objects(t) : \A i \in 1..(t - 1) : Predecessor(i, t, o) =>
                owner[o] = IF ProxyOf(i)' = p THEN NoProxy ELSE ProxyOf(i)'
        BY <1>10, <1>11
      <4>3. \A o \in Objects(t) : NoneBetween(0, t, o) => ~ Fetches(t, o)'
        BY <1>5, <1>12 DEF Fetches
      <4>4. QED
        BY <1>1, <1>5, <1>8, <1>9, <3>1, <4>1, <4>2, <4>3
    <3>2. CASE u # t
      <4>1. IsForwarded(u) /\ forwarded'[u] = forwarded[u] /\ ProxyOf(u)' = ProxyOf(u)
        BY <1>4, <2>1, <3>2 DEF IsForwarded, ProxyOf
      <4>2. /\ u \in Txns /\ ProxyOf(u) \in Proxy
            /\ \A i \in 1..(u - 1) : Conflicts(i, u) => IsForwarded(i)
            /\ \A o \in Objects(u) :
                  /\ NoneBetween(0, u, o) => ~ Fetches(u, o)
                  /\ \A i \in 1..(u - 1) : Predecessor(i, u, o) =>
                        forwarded[u].owner[o] = IF ProxyOf(i) = ProxyOf(u) THEN NoProxy ELSE ProxyOf(i)
        BY <4>1 DEF Base, RoutedRight
      <4>3. \A o, i : Predecessor(i, u, o) => Conflicts(i, u)
        BY DEF Predecessor, Conflicts
      <4>4. \A i \in 1..(u - 1) : Conflicts(i, u) => IsForwarded(i)' /\ ProxyOf(i)' = ProxyOf(i)
        BY <1>10, <4>2
      <4>5. \A o : Fetches(u, o)' <=> Fetches(u, o)
        BY <4>1 DEF Fetches
      <4>6. QED
        BY <1>8, <1>9, <4>1, <4>2, <4>3, <4>4, <4>5
    <3>3. QED
      BY <3>1, <3>2
  <2>2. QED
    BY <2>1 DEF RoutedRight
<1>14. QED
  BY <1>1, <1>4, <1>6, <1>7, <1>8, <1>13 DEF InputsGrow

\* For a task that has started, nothing changes.
LEMMA StartedStays ==
    ASSUME Base, InputsGrow, UNCHANGED stage, NEW t \in TxnId, Started(t)
    PROVE  /\ t \in Txns /\ t \in Txns' /\ Started(t)' /\ IsForwarded(t)'
           /\ assigned'[t] = assigned[t] /\ forwarded'[t] = forwarded[t]
           /\ Objects(t)' = Objects(t) /\ Produced(t)' = Produced(t) /\ ProxyOf(t)' = ProxyOf(t)
           /\ \A o, v : Reads(t, o, v)' <=> Reads(t, o, v)
           /\ \A o : (SentFor(t, o)' <=> SentFor(t, o)) /\ (Settled(t, o)' <=> Settled(t, o))
<1>1. IsForwarded(t) /\ t \in Txns /\ Txns = 1..Len(assigned) /\ Len(assigned) \in Nat
  BY StartedFacts, Order DEF Base, Shapes
<1>2. t \in Txns' /\ assigned'[t] = assigned[t] /\ forwarded'[t] = forwarded[t] /\ IsForwarded(t)'
  BY <1>1 DEF InputsGrow
<1>3. \A i \in 1..(t - 1) : assigned'[i] = assigned[i]
  BY <1>1 DEF InputsGrow
<1>4. Objects(t)' = Objects(t) /\ Produced(t)' = Produced(t) /\ ProxyOf(t)' = ProxyOf(t)
  BY <1>2 DEF Objects, Produced, ProxyOf
<1>5. \A o, v : Reads(t, o, v)' <=> Reads(t, o, v)
  BY <1>1, <1>2, <1>4 DEF Reads
<1>6. \A o : SentFor(t, o)' <=> SentFor(t, o)
  BY <1>2, <1>4 DEF SentFor, Started, Fetches
<1>7. \A o : Settled(t, o)' <=> Settled(t, o)
  BY <1>3 DEF Settled, Through, Objects
<1>8. Started(t)'
  BY DEF Started
<1>9. QED
  BY <1>1, <1>2, <1>4, <1>5, <1>6, <1>7, <1>8

\* The primary disturbs no task.
LEMMA PrimaryKeeps ==
    ASSUME NotifyInv, Primary
    PROVE  NotifyInv'
<1>1. /\ UNCHANGED <<txnVars, migrationVars>>
      /\ UNCHANGED <<stage, awaiting, signals, outcome, reads, store, obj_task_map, permits, network,
                     serving, installing, listening, up, invalid>>
  BY DEF Primary, txnVars, controllerVars, migrationVars, healthVars
<1>2. Base
  BY DEF NotifyInv
<1>3. InputsGrow
  <2>1. CASE \E S \in SUBSET Object : AssignSharedObjectVersions(S) /\ UNCHANGED forwarded
    BY <1>1, <1>2, <2>1, AssignGrows
  <2>2. CASE \E t \in TxnId, p \in Proxy : Forward(t, p)
    BY <1>1, <1>2, <2>2, ForwardGrows
  <2>3. QED
    BY <2>1, <2>2 DEF Primary, ORNext
<1>4. UNCHANGED stage
  BY <1>1
<1>5. ASSUME NEW t \in TxnId, Started(t)
      PROVE  /\ t \in Txns /\ t \in Txns' /\ Started(t)' /\ IsForwarded(t)'
             /\ assigned'[t] = assigned[t] /\ forwarded'[t] = forwarded[t]
             /\ Objects(t)' = Objects(t) /\ Produced(t)' = Produced(t) /\ ProxyOf(t)' = ProxyOf(t)
             /\ \A o, v : Reads(t, o, v)' <=> Reads(t, o, v)
             /\ \A o : (SentFor(t, o)' <=> SentFor(t, o)) /\ (Settled(t, o)' <=> Settled(t, o))
  BY <1>2, <1>3, <1>4, <1>5, StartedStays
<1>6. ASSUME NEW t \in TxnId PROVE /\ awaiting[t] # {} \/ signals[t] # {} => Started(t)
                                   /\ outcome[t] # "pending" \/ stage[t] = "done" => Started(t)
                                   /\ Past(t) \/ Through(t) \/ stage[t] = "await" => Started(t)
  BY <1>2 DEF Base, StagesOK, StageOK, Started, Past, Through
<1>7. Base'
  <2>1. Creator' = Creator
    BY DEF Creator
  <2>2. Shapes'
    BY <1>1, <1>2, <1>3, <2>1 DEF Base, Shapes, InputsGrow
  <2>3. ASSUME NEW t \in TxnId PROVE StageOK(t)'
    <3>1. StageOK(t)
      BY <1>2 DEF Base, StagesOK
    <3>2. CASE Started(t)
      BY <1>1, <1>5, <3>1, <3>2 DEF StageOK
    <3>3. CASE ~ Started(t)
      BY <1>1, <3>1, <3>3 DEF StageOK, Started
    <3>4. QED
      BY <3>2, <3>3
  <2>4. QED
    BY <1>3, <2>2, <2>3 DEF Base, StagesOK, InputsGrow
<1>8. StoreTyped'
  BY <1>1, <1>5, <1>6 DEF NotifyInv, StoreTyped, Copy
<1>9. \A o, v, k, x : IsMoving(o, v, k, x)' <=> IsMoving(o, v, k, x)
  BY <1>1 DEF IsMoving
<1>10. \A o, v : NoMove(o, v)' <=> NoMove(o, v)
  BY <1>9 DEF NoMove
<1>11. OneMove'
  BY <1>9, Zenon DEF NotifyInv, OneMove
<1>12. Moves'
  <2>1. ASSUME NEW x, NEW t \in TxnId, NEW o
        PROVE  /\ RequestFor(x, t, o) => RequestFor(x, t, o)'
               /\ ServingFor(x, t, o) => ServingFor(x, t, o)'
               /\ ReplyFor(x, t, o) => ReplyFor(x, t, o)'
               /\ InstallFor(x, t, o) => InstallFor(x, t, o)'
    <3>1. CASE SentFor(t, o)
      <4>1. SentFor(t, o)' /\ assigned'[t] = assigned[t] /\ forwarded'[t] = forwarded[t]
            /\ ProxyOf(t)' = ProxyOf(t) /\ (Settled(t, o)' <=> Settled(t, o))
        BY <1>5, <3>1 DEF SentFor
      <4>2. RequestFor(x, t, o) => RequestFor(x, t, o)'
        BY <4>1 DEF RequestFor
      <4>3. ServingFor(x, t, o) => ServingFor(x, t, o)'
        BY <4>1 DEF ServingFor
      <4>4. ReplyFor(x, t, o) => ReplyFor(x, t, o)'
        BY <4>1 DEF ReplyFor, Copy
      <4>5. InstallFor(x, t, o) => InstallFor(x, t, o)'
        BY <4>1 DEF InstallFor, Copy
      <4>6. QED
        BY <4>2, <4>3, <4>4, <4>5
    <3>2. QED
      BY <3>1 DEF RequestFor, ServingFor, ReplyFor, InstallFor
  <2>2. \A m : EmptyReply(m)' <=> EmptyReply(m)
    BY DEF EmptyReply, NoObject
  <2>3. QED
    BY <1>1, <2>1, <2>2 DEF NotifyInv, Moves
<1>13. InOrder'
  <2>1. ASSUME NEW t \in TxnId PROVE WaitsOut(t)'
    <3>1. WaitsOut(t)
      BY DEF NotifyInv, InOrder
    <3>2. CASE Started(t)
      <4>1. assigned'[t] = assigned[t] /\ Objects(t)' = Objects(t)
        BY <1>5, <3>2
      <4>2. \A o : Ready(t, o)' <=> Ready(t, o)
        BY <1>5, <1>10, <3>2, <4>1 DEF Ready
      <4>3. QED
        BY <1>1, <3>1, <4>1, <4>2 DEF WaitsOut, Past
    <3>3. CASE ~ Started(t)
      BY <1>1, <1>6, <3>3 DEF WaitsOut, Past, Started
    <3>4. QED
      BY <3>2, <3>3
  <2>2. QED
    BY <2>1 DEF InOrder
<1>14. OwnKeys'
  BY <1>1, <1>5, <1>6 DEF NotifyInv, OwnKeys, KnowsOwn
<1>15. AllHeld'
  <2>1. \A u \in TxnId : awaiting[u] # {} \/ signals[u] # {} => ProxyOf(u)' = ProxyOf(u)
    BY <1>5, <1>6
  <2>2. ASSUME NEW q \in Proxy, NEW h, HoldsAt(q, h)' PROVE HoldsAt(q, h)
    BY <1>1, <2>1, <2>2 DEF HoldsAt
  <2>3. NewHolders
    BY <2>2 DEF NewHolders
  <2>4. KeepsEntries
    BY <1>1 DEF KeepsEntries
  <2>5. QED
    BY <2>3, <2>4, HeldKept DEF NotifyInv
<1>16. PermitsDue'
  <2>1. ASSUME NEW p \in Proxy, NEW h \in permits[p] PROVE Due(p, h)'
    <3>1. Due(p, h) /\ h[1] \in Object /\ h[2] \in Version
      BY <2>1 DEF NotifyInv, PermitsDue, AllHeld, HoldsAt, AllKeys
    <3>2. Given(p, h)'
      <4>1. PICK i \in Txns :
                /\ Through(i) /\ h[1] \in Objects(i) /\ h[2] = Produced(i)
                /\ \/ ProxyOf(i) = p
                   \/ \E t \in TxnId : Reads(t, h[1], h[2]) /\ ProxyOf(t) = p /\ Started(t)
        BY <3>1 DEF Due, Given
      <4>2. i \in TxnId
        BY <1>2, Order DEF Base, Shapes
      <4>3. /\ i \in Txns' /\ Through(i)' /\ h[1] \in Objects(i)' /\ h[2] = Produced(i)'
            /\ ProxyOf(i)' = ProxyOf(i)
        BY <1>1, <1>5, <1>6, <4>1, <4>2 DEF Through
      <4>4. \A t \in TxnId : Reads(t, h[1], h[2]) /\ ProxyOf(t) = p /\ Started(t) =>
                Reads(t, h[1], h[2])' /\ ProxyOf(t)' = p /\ Started(t)'
        BY <1>5
      <4>5. QED
        BY <4>1, <4>3, <4>4 DEF Given
    <3>3. ASSUME NEW t \in TxnId PROVE Untaken(p, h, t)'
      <4>1. Untaken(p, h, t)
        BY <3>1 DEF Due
      <4>2. CASE Started(t)
        BY <1>1, <1>5, <1>10, <4>1, <4>2 DEF Untaken, Past
      <4>3. CASE ~ Started(t) /\ t \in Txns /\ Reads(t, h[1], h[2])'
        <5>1. Reads(t, h[1], h[2])
          BY <1>3, <4>3 DEF Reads, Objects, InputsGrow
        <5>2. ASSUME NEW k, NEW x, IsMoving(h[1], h[2], k, x) PROVE FALSE
          <6>1. SentFor(t, h[1])
            BY <3>1, <5>1, <5>2, MoverReads DEF NotifyInv
          <6>2. QED
            BY <4>3, <6>1 DEF SentFor
        <5>3. NoMove(h[1], h[2])'
          BY <1>10, <5>2 DEF NoMove
        <5>4. QED
          BY <1>1, <4>3, <5>3 DEF Untaken, Past, Started
      <4>4. CASE t \notin Txns
        BY <1>3, <4>4 DEF Untaken, InputsGrow
      <4>5. QED
        BY <4>2, <4>3, <4>4 DEF Untaken
    <3>4. \A s \in serving' : Unserved(p, h, s)
      BY <1>1, <3>1 DEF Due
    <3>5. QED
      BY <3>2, <3>3, <3>4 DEF Due, Unserved
  <2>2. QED
    BY <1>1, <2>1 DEF PermitsDue
<1>17. QED
  BY <1>7, <1>8, <1>11, <1>12, <1>13, <1>14, <1>15, <1>16 DEF NotifyInv

-----------------------------------------------------------------------------
(* The invariant, and what it says about types and Notifys.                *)

\* The invariant holds at the start.
LEMMA NotifyInit ==
    ASSUME PXInit
    PROVE  NotifyInv
<1>1. VAInv /\ VAInit
  BY VAInitInv DEF PXInit, ORInit
<1>2. Txns = {}
  BY <1>1 DEF VAInit, Txns
<1>3. /\ forwarded = [t \in TxnId |-> NotForwarded]
      /\ invalid \in SUBSET MayFail
      /\ stage = [t \in TxnId |-> "none"]
      /\ awaiting = [t \in TxnId |-> {}]
      /\ signals = [t \in TxnId |-> {}]
      /\ outcome = [t \in TxnId |-> "pending"]
      /\ reads = [t \in TxnId |-> << >>]
      /\ store = [p \in Proxy |-> [o \in Object |-> InitialCopy]]
      /\ obj_task_map = [p \in Proxy |-> NewController(Object, Version)]
      /\ permits = [p \in Proxy |-> {}]
      /\ network = {} /\ serving = {} /\ installing = {}
      /\ listening = Proxy /\ up = Proxy
  BY DEF PXInit, ORInit
<1>4. Shapes
  <2>1. obj_task_map \in [Proxy -> [Object \X Version -> {NoTask} \cup Creator]]
    BY <1>3 DEF NewController
  <2>2. QED
    BY <1>1, <1>3, <2>1 DEF Shapes, Stage
<1>5. RoutedRight
  BY <1>3 DEF RoutedRight, IsForwarded
<1>6. StagesOK
  BY <1>3 DEF StagesOK, StageOK, Started
<1>7. StoreTyped
  <2>1. InitialCopy \in Copy
    BY Constants DEF InitialCopy, Copy
  <2>2. QED
    BY <1>3, <2>1 DEF StoreTyped
<1>8. Moves
  BY <1>3 DEF Moves
<1>9. OneMove
  BY <1>3 DEF OneMove, IsMoving
<1>10. InOrder
  BY <1>3 DEF InOrder, WaitsOut, Past
<1>11. OwnKeys
  BY <1>3 DEF OwnKeys, KnowsOwn
<1>12. AllHeld
  BY <1>3 DEF AllHeld, HoldsAt
<1>13. PermitsDue
  BY <1>3 DEF PermitsDue
<1>14. QED
  BY <1>4, <1>5, <1>6, <1>7, <1>8, <1>9, <1>10, <1>11, <1>12, <1>13 DEF NotifyInv, Base

\* A stuttering step keeps it.
LEMMA NotifyUnchanged ==
    ASSUME NotifyInv, UNCHANGED pxVars
    PROVE  NotifyInv'
<1>1. /\ UNCHANGED <<inputVars, txnVars, migrationVars>>
      /\ UNCHANGED <<store, obj_task_map, permits, serving, installing, listening, up>>
      /\ UNCHANGED <<forwarded, awaiting, signals>>
  BY DEF pxVars, controllerVars, migrationVars, healthVars, inputVars, orVars, txnVars
<1>2. Base /\ OnlyTxn(0) /\ Onward /\ 0 \notin TxnId
  BY <1>1, TxnsRest DEF NotifyInv
<1>3. Base'
  BY <1>1, <1>2, BaseRests DEF Base, Shapes, Controller, AllKeys
<1>4. StoreTyped'
  BY <1>1, <1>2, StoreRests DEF NotifyInv
<1>5. NewMoves
  BY <1>1 DEF NewMoves, migrationVars
<1>6. OneMove' /\ Quiet(0)
  BY <1>1, NothingMoves DEF NotifyInv
<1>7. AllHeld'
  BY <1>1, HoldersStay DEF NotifyInv
<1>8. NoPermitGiven /\ ServesOld
  BY <1>1 DEF NoPermitGiven, ServesOld, ServesNew
<1>9. PermitsDue'
  BY <1>2, <1>6, <1>8, PermitsStay DEF NotifyInv
<1>10. QED
  BY <1>1, <1>3, <1>4, <1>5, <1>6, <1>7, <1>9, MigrationKeeps

\* One step per action.
LEMMA NotifyStep ==
    ASSUME NotifyInv, [PXNext]_pxVars
    PROVE  NotifyInv'
<1>1. CASE Primary
  BY <1>1, PrimaryKeeps
<1>2. ASSUME NEW t \in TxnId, TxnStep(t) PROVE NotifyInv'
  BY <1>2, HandlePrimaryKeeps, GetKeeps, AwaitKeeps, CheckKeeps, ExecuteKeeps, NotifyKeeps,
     CollectKeeps DEF TxnStep
<1>3. CASE MigrationStep
  BY <1>3, HandleRequestKeeps, HandleReplyKeeps, AwaitProducerKeeps, ReplyKeeps, CommitKeeps,
     NotifyMigratedKeeps DEF MigrationStep
<1>4. CASE UNCHANGED pxVars
  BY <1>4, NotifyUnchanged
<1>5. QED
  BY <1>1, <1>2, <1>3, <1>4 DEF PXNext, Finished

(***************************************************************************)
(* Every state of the proxies satisfies the invariant.                     *)
(***************************************************************************)
THEOREM NotifyInvariant == PXSpec => []NotifyInv
<1>1. PXInit => NotifyInv
  BY NotifyInit
<1>2. NotifyInv /\ [PXNext]_pxVars => NotifyInv'
  BY NotifyStep
<1>3. QED
  BY <1>1, <1>2, PTL DEF PXSpec

\* What is held is a Notify.
LEMMA HeldIsNotify ==
    ASSUME NotifyInv, NEW p \in Proxy, NEW h, HoldsAt(p, h)
    PROVE  h \in Notifys
<1>1. Held(p, h) /\ <<h[1], h[2]>> \in AllKeys
  BY DEF NotifyInv, AllHeld
<1>2. PICK o, v, c : o = h[1] /\ v = h[2] /\ c = obj_task_map[p][<<h[1], h[2]>>]
  OBVIOUS
<1>3. h = <<o, v, c>> /\ c # NoTask
  BY <1>1, <1>2 DEF Held, Handle, HandleIn
<1>4. o \in Object /\ v \in Version
  BY <1>1, <1>2 DEF AllKeys
<1>5. c \in Creator
  BY <1>1, <1>2, <1>3 DEF NotifyInv, Base, Shapes, AllKeys
<1>6. QED
  BY <1>3, <1>4, <1>5 DEF Notifys

\* Types follow from the invariant.
LEMMA PXTyped ==
    ASSUME NotifyInv
    PROVE  PXTypeOK
<1>1. Base /\ Shapes
  BY DEF NotifyInv, Base
<1>2. ASSUME NEW t \in TxnId, awaiting[t] # {} \/ signals[t] # {} PROVE ProxyOf(t) \in Proxy
  BY <1>1, <1>2, StartedFacts DEF Base, StagesOK, StageOK, Started
<1>3. ASSUME NEW t \in TxnId PROVE awaiting[t] \subseteq Notifys /\ signals[t] \subseteq Notifys
  <2>1. ASSUME NEW h, h \in awaiting[t] \/ h \in signals[t] PROVE h \in Notifys
    <3>1. HoldsAt(ProxyOf(t), h) /\ ProxyOf(t) \in Proxy
      BY <1>2, <2>1 DEF HoldsAt
    <3>2. QED
      BY <3>1, HeldIsNotify
  <2>2. QED
    BY <2>1
<1>4. awaiting \in [TxnId -> SUBSET Notifys] /\ signals \in [TxnId -> SUBSET Notifys]
  BY <1>1, <1>3 DEF Shapes
<1>5. permits \in [Proxy -> SUBSET Notifys]
  <2>1. ASSUME NEW p \in Proxy, NEW h \in permits[p] PROVE h \in Notifys
    BY HeldIsNotify DEF HoldsAt
  <2>2. QED
    BY <1>1, <2>1 DEF Shapes
<1>6. ASSUME NEW m \in network
      PROVE  m.kind \in {"request", "reply"} /\ m.from \in Proxy /\ m.to \in Proxy
  <2>1. CASE \E t \in TxnId, o \in Object : RequestFor(m, t, o)
    BY <1>1, <2>1, SentFacts DEF RequestFor
  <2>2. CASE \E t \in TxnId, o \in Object : ReplyFor(m, t, o)
    BY <1>1, <2>2, SentFacts DEF ReplyFor
  <2>3. CASE EmptyReply(m)
    BY <2>3 DEF EmptyReply
  <2>4. QED
    BY <2>1, <2>2, <2>3 DEF NotifyInv, Moves
<1>7. ASSUME NEW s \in serving PROVE s.at \in Proxy /\ s.awaiting \subseteq Notifys
  <2>1. PICK t \in TxnId, o \in Object : ServingFor(s, t, o)
    BY DEF NotifyInv, Moves
  <2>2. SentFor(t, o) /\ s.at = forwarded[t].owner[o]
    BY <2>1 DEF ServingFor
  <2>3. s.at \in Proxy
    BY <1>1, <2>2, SentFacts
  <2>4. ASSUME NEW h \in s.awaiting PROVE h \in Notifys
    <3>1. HoldsAt(s.at, h)
      BY <2>4 DEF HoldsAt
    <3>2. QED
      BY <2>3, <3>1, HeldIsNotify
  <2>5. QED
    BY <2>3, <2>4
<1>8. ASSUME NEW i \in installing PROVE i.at \in Proxy /\ i.object \in Copy /\ i.signals \subseteq Notifys
  <2>1. PICK t \in TxnId, o \in Object : InstallFor(i, t, o)
    BY DEF NotifyInv, Moves
  <2>2. SentFor(t, o) /\ i.at = ProxyOf(t) /\ i.object \in Copy
    BY <2>1 DEF InstallFor
  <2>3. i.at \in Proxy
    BY <1>1, <2>2, SentFacts
  <2>4. ASSUME NEW h \in i.signals PROVE h \in Notifys
    <3>1. HoldsAt(i.at, h)
      BY <2>4 DEF HoldsAt
    <3>2. QED
      BY <2>3, <3>1, HeldIsNotify
  <2>5. QED
    BY <2>2, <2>3, <2>4
<1>9. \A t \in TxnId : IsForwarded(t) => ProxyOf(t) \in Proxy
  BY <1>1 DEF Base, RoutedRight
<1>10. VATypeOK
  BY <1>1 DEF Shapes, VAInv
<1>11. StoreTyped
  BY DEF NotifyInv
<1>12. QED
  BY <1>1, <1>4, <1>5, <1>6, <1>7, <1>8, <1>9, <1>10, <1>11 DEF PXTypeOK, StoreTyped, Shapes, Stage

(***************************************************************************)
(* The proxies' tasks, stores, controllers and messages are what they      *)
(* should be: every Notify anybody holds is one a controller handed out,   *)
(* every message is between proxies, every copy has a version that the     *)
(* primary can have assigned.                                              *)
(***************************************************************************)
THEOREM PXTypeCorrect == PXSpec => []PXTypeOK
<1>1. NotifyInv => PXTypeOK
  BY PXTyped
<1>2. QED
  BY <1>1, NotifyInvariant, PTL

(***************************************************************************)
(* All parties that meet at an (object, version) of one proxy use the same *)
(* Notify: an entry is removed only when nobody holds its Notify any more, *)
(* so no wake-up goes to a Notify that was replaced.                       *)
(***************************************************************************)
THEOREM NotifysAgree == PXSpec => []SameNotify
<1>1. ASSUME NotifyInv, NEW p \in Proxy, NEW g \in HandlesAt(p), NEW h \in HandlesAt(p),
             <<g[1], g[2]>> = <<h[1], h[2]>>
      PROVE  g = h
  <2>1. ASSUME NEW x \in HandlesAt(p) PROVE HoldsAt(p, x)
    <3> DEFINE A == {awaiting[t] \cup signals[t] : t \in {t \in TxnId : ProxyOf(t) = p}}
               B == {s.awaiting : s \in {s \in serving : s.at = p}}
               C == {i.signals : i \in {i \in installing : i.at = p}}
    <3>1. x \in permits[p] \/ x \in UNION (A \cup B \cup C)
      BY DEF HandlesAt
    <3>2. ASSUME NEW S \in A, x \in S PROVE HoldsAt(p, x)
      BY <3>2 DEF HoldsAt
    <3>3. ASSUME NEW S \in B, x \in S PROVE HoldsAt(p, x)
      BY <3>3 DEF HoldsAt
    <3>4. ASSUME NEW S \in C, x \in S PROVE HoldsAt(p, x)
      BY <3>4 DEF HoldsAt
    <3>5. ASSUME x \in permits[p] PROVE HoldsAt(p, x)
      BY <3>5 DEF HoldsAt
    <3> HIDE DEF A, B, C
    <3>6. x \in permits[p] \/ \E S \in A \cup B \cup C : x \in S
      BY <3>1, Zenon
    <3>7. QED
      BY <3>2, <3>3, <3>4, <3>5, <3>6, Zenon
  <2>2. g[1] = h[1] /\ g[2] = h[2]
    BY <1>1
  <2>3. QED
    BY <1>1, <2>1, <2>2, OneNotify DEF NotifyInv
<1>2. NotifyInv => SameNotify
  BY <1>1 DEF SameNotify
<1>3. QED
  BY <1>2, NotifyInvariant, PTL

-----------------------------------------------------------------------------
(* Where copies come from.                                                 *)

\* A copy of o that a transaction left behind.
Genuine(c, o) == \E i \in Txns : o \in Objects(i) /\ outcome[i] = "success" /\ c = Written(i)

StoreOK == \A p \in Proxy, o \in Object : store[p][o] = InitialCopy \/ Genuine(store[p][o], o)

\* So is every copy on the move.
CargoOK ==
    /\ \A m \in network : m.kind = "reply" => m.object = NoObject \/ Genuine(m.object, m.object_id)
    /\ \A i \in installing : Genuine(i.object, i.object_id)

\* What t needs of o, if it was ever produced, is at its proxy.
Present(t, o) ==
    outcome[t] = "pending" =>
        \A i \in 1..(t - 1) : Predecessor(i, t, o) /\ outcome[i] = "success"
            => store[ProxyOf(t)][o] = Written(i)

\* That is so when a migrated copy is in the store, ...
CommittedOK ==
    \A i \in installing, t \in TxnId :
        i.committed /\ Started(t) /\ Reads(t, i.object_id, i.object.version)
            => Present(t, i.object_id)

\* ... when a permit says so, ...
PermitsOK ==
    \A p \in Proxy : \A h \in permits[p] : \A t \in TxnId :
        Started(t) /\ Reads(t, h[1], h[2]) /\ ProxyOf(t) = p => Present(t, h[1])

\* ... and when there is nothing left to wait for.
Arrived(t) ==
    /\ Past(t) => \A o \in Objects(t) : Present(t, o)
    /\ stage[t] = "await" => \A o \in Objects(t) :
          Present(t, o) \/ \E h \in awaiting[t] : h[1] = o /\ h[2] = assigned[t][o]

AllArrived == \A t \in TxnId : Arrived(t)

\* The last transaction that changed o.
IsLast(i, o) ==
    /\ i \in Txns /\ o \in Objects(i) /\ outcome[i] = "success"
    /\ \A k \in Txns : k > i /\ o \in Objects(k) => outcome[k] # "success"

\* Its copy stays where it executed.
HoldsLast == \A i \in TxnId, o \in Object : IsLast(i, o) => store[ProxyOf(i)][o] = Written(i)

\* The check before execution lets through what the serial database executes.
Checked(t) ==
    stage[t] = "execute" \/ outcome[t] = "success" =>
        /\ t \notin invalid
        /\ \A o \in Objects(t) : \A i \in 1..(t - 1) : Predecessor(i, t, o) => outcome[i] = "success"

AllChecked == \A t \in TxnId : Checked(t)

StoreInv ==
    StoreOK /\ CargoOK /\ CommittedOK /\ PermitsOK /\ AllArrived /\ HoldsLast /\ AllChecked

-----------------------------------------------------------------------------

\* A transaction that has an outcome is past its waits.
LEMMA DecidedIsPast ==
    ASSUME Base, NEW t \in TxnId
    PROVE  /\ outcome[t] # "pending" => Past(t) /\ Started(t)
           /\ Through(t) => outcome[t] # "pending"
BY DEF Base, StagesOK, StageOK, Past, Started, Through, Shapes, Stage

\* While t is pending, nobody after it has changed what it reads.
LEMMA NobodyAfter ==
    ASSUME NotifyInv, NEW t \in Txns, outcome[t] = "pending", NEW o \in Objects(t),
           NEW k \in Txns, k >= t, o \in Objects(k)
    PROVE  outcome[k] # "success"
<1>1. Base /\ VAInv
  BY DEF NotifyInv, Base, Shapes
<1>2. t \in TxnId /\ k \in TxnId /\ t \in Nat /\ k \in Nat /\ t >= 1
  BY <1>1, Order
<1>3. ASSUME outcome[k] = "success" PROVE FALSE
  <2>1. k # t /\ Past(k)
    BY <1>1, <1>2, <1>3, DecidedIsPast
  <2>2. Settled(k, o)
    BY <1>2, <2>1 DEF NotifyInv, InOrder, WaitsOut, Ready
  <2>3. t \in 1..(k - 1)
    BY <1>2, <2>1
  <2>4. Through(t)
    BY <2>2, <2>3 DEF Settled
  <2>5. QED
    BY <1>1, <1>2, <2>4, DecidedIsPast
<1>4. QED
  BY <1>3

\* So its predecessor, if it succeeded, is the last that did.
LEMMA LastBefore ==
    ASSUME NotifyInv, NEW t \in Txns, outcome[t] = "pending", NEW o \in Objects(t),
           NEW i, Predecessor(i, t, o), outcome[i] = "success"
    PROVE  IsLast(i, o)
<1>1. VAInv
  BY DEF NotifyInv, Base, Shapes
<1>2. i \in Txns /\ o \in Objects(i) /\ t \in Nat /\ i \in Nat
  BY <1>1, Order DEF Predecessor
<1>3. ASSUME NEW k \in Txns, k > i, o \in Objects(k) PROVE outcome[k] # "success"
  <2>1. k \in Nat
    BY <1>1, Order
  <2>2. k >= t
    BY <1>2, <1>3, <2>1 DEF Predecessor, NoneBetween
  <2>3. QED
    BY <1>3, <2>2, NobodyAfter
<1>4. QED
  BY <1>2, <1>3 DEF IsLast

\* A transaction that follows another one at the same proxy finds what that one left.
LEMMA LocalPresent ==
    ASSUME NotifyInv, HoldsLast, NEW t \in Txns, NEW o \in Objects(t), NEW i, Predecessor(i, t, o),
           ProxyOf(i) = ProxyOf(t)
    PROVE  Present(t, o)
<1>1. VAInv
  BY DEF NotifyInv, Base, Shapes
<1>2. t \in Nat /\ o \in Object /\ \A j \in 1..(t - 1) : j \in TxnId
  BY <1>1, Order, Constants
<1>3. ASSUME outcome[t] = "pending", NEW j \in 1..(t - 1), Predecessor(j, t, o), outcome[j] = "success"
      PROVE  store[ProxyOf(t)][o] = Written(j)
  <2>1. j = i
    BY <1>2, <1>3, PredecessorUnique
  <2>2. IsLast(j, o)
    BY <1>3, LastBefore
  <2>3. QED
    BY <1>2, <2>1, <2>2 DEF HoldsLast
<1>4. QED
  BY <1>3 DEF Present

\* A genuine copy at the version t reads is what its predecessor wrote.
LEMMA GenuineFor ==
    ASSUME VAInv, NEW t \in Txns, NEW o \in Objects(t), NEW c, Genuine(c, o),
           c.version = assigned[t][o], NEW i \in 1..(t - 1), Predecessor(i, t, o)
    PROVE  outcome[i] = "success" /\ c = Written(i)
<1>1. PICK j \in Txns : o \in Objects(j) /\ outcome[j] = "success" /\ c = Written(j)
  BY DEF Genuine
<1>2. c.version = Produced(j)
  BY <1>1 DEF Written, Produced
<1>3. i \in Txns /\ o \in Objects(i) /\ assigned[t][o] = Produced(i)
  BY ReadsProduced
<1>4. i = j
  BY <1>1, <1>2, <1>3, OneProducer
<1>5. QED
  BY <1>1, <1>4

\* What is in a store and is not initial was produced by somebody, ...
LEMMA StoreVersions ==
    ASSUME VAInv, StoreOK, NEW p \in Proxy, NEW o \in Object
    PROVE  \/ store[p][o] = InitialCopy /\ store[p][o].version = 2
           \/ Genuine(store[p][o], o) /\ store[p][o].version > 2
<1>1. CASE store[p][o] = InitialCopy
  BY <1>1, Constants DEF InitialCopy
<1>2. CASE Genuine(store[p][o], o)
  <2>1. PICK j \in Txns : store[p][o] = Written(j)
    BY <1>2 DEF Genuine
  <2>2. store[p][o].version = Produced(j) /\ Produced(j) > 2
    BY <2>1, Order DEF Written, Produced
  <2>3. QED
    BY <1>2, <2>2
<1>3. QED
  BY <1>1, <1>2 DEF StoreOK

-----------------------------------------------------------------------------
(* Steps that leave the stores alone.                                      *)

\* The primary and the stores rest, and nobody succeeds.
SameCopies ==
    /\ UNCHANGED inputVars /\ UNCHANGED store
    /\ \A u \in TxnId : /\ outcome'[u] = "success" <=> outcome[u] = "success"
                        /\ outcome'[u] = "pending" => outcome[u] = "pending"

\* A step that changes no copy and no outcome keeps what is said of copies.
LEMMA CopiesKept ==
    ASSUME Base, SameCopies
    PROVE  /\ \A c, o : Genuine(c, o)' <=> Genuine(c, o)
           /\ \A t \in TxnId : \A o : Present(t, o) => Present(t, o)'
           /\ StoreOK => StoreOK'
           /\ HoldsLast => HoldsLast'
           /\ \A t : Written(t)' = Written(t)
<1>1. /\ assigned' = assigned /\ forwarded' = forwarded /\ Txns' = Txns /\ Txns \subseteq TxnId
      /\ \A t : Objects(t)' = Objects(t) /\ ProxyOf(t)' = ProxyOf(t)
  BY InputsKept, Order DEF SameCopies, Base, Shapes
<1>2. \A t : Written(t)' = Written(t)
  BY <1>1 DEF Written
<1>3. \A i, t, o : Predecessor(i, t, o)' <=> Predecessor(i, t, o)
  BY <1>1 DEF Predecessor, NoneBetween
<1>4. \A c, o : Genuine(c, o)' <=> Genuine(c, o)
  BY <1>1, <1>2 DEF Genuine, SameCopies
<1>5. \A t \in TxnId : \A o : Present(t, o) => Present(t, o)'
  <2>1. \A t \in TxnId : \A i \in 1..(t - 1) : i \in TxnId
    BY Constants
  <2>2. QED
    BY <1>1, <1>2, <1>3, <2>1 DEF Present, SameCopies
<1>6. InitialCopy' = InitialCopy
  BY DEF InitialCopy
<1>7. StoreOK => StoreOK'
  BY <1>4, <1>6 DEF StoreOK, SameCopies
<1>8. \A i, o : IsLast(i, o)' => IsLast(i, o)
  BY <1>1 DEF IsLast, SameCopies
<1>9. HoldsLast => HoldsLast'
  BY <1>1, <1>2, <1>8 DEF HoldsLast, SameCopies
<1>10. QED
  BY <1>2, <1>4, <1>5, <1>7, <1>9

\* What is new among messages, tasks and permits is in order.
NewCargo ==
    /\ \A m \in network' :
          m \in network \/ (m.kind = "reply" => m.object = NoObject \/ Genuine(m.object, m.object_id)')
    /\ \A i \in installing' : i \in installing \/ Genuine(i.object, i.object_id)'

NewCommitted ==
    \A i \in installing', t \in TxnId :
        i.committed /\ Started(t)' /\ Reads(t, i.object_id, i.object.version)' =>
            (i \in installing /\ Started(t)) \/ Present(t, i.object_id)'

NewPermits ==
    \A p \in Proxy : \A h \in permits'[p] : \A t \in TxnId :
        Started(t)' /\ Reads(t, h[1], h[2])' /\ ProxyOf(t)' = p =>
            (h \in permits[p] /\ Started(t)) \/ Present(t, h[1])'

\* Such a step keeps the invariant if what it moves is accounted for.
LEMMA StoreKept ==
    ASSUME Base, StoreInv, SameCopies, NEW t,
           \A u \in TxnId : u # t => stage'[u] = stage[u] /\ awaiting'[u] = awaiting[u],
           t \in TxnId => Arrived(t)' /\ Checked(t)', NewCargo, NewCommitted, NewPermits
    PROVE  StoreInv'
<1>1. /\ \A c, o : Genuine(c, o)' <=> Genuine(c, o)
      /\ \A u \in TxnId : \A o : Present(u, o) => Present(u, o)'
      /\ StoreOK' /\ HoldsLast'
  BY CopiesKept DEF StoreInv
<1>2. /\ assigned' = assigned /\ invalid' = invalid
      /\ \A u : Objects(u)' = Objects(u) /\ ProxyOf(u)' = ProxyOf(u)
      /\ \A u, o, v : Reads(u, o, v)' <=> Reads(u, o, v)
  BY InputsKept DEF SameCopies
<1>3. CargoOK'
  <2>1. NoObject' = NoObject
    BY DEF NoObject
  <2>2. QED
    BY <1>1, <2>1 DEF CargoOK, NewCargo, StoreInv
<1>4. CommittedOK'
  BY <1>1, <1>2 DEF CommittedOK, NewCommitted, StoreInv
<1>5. PermitsOK'
  BY <1>1, <1>2 DEF PermitsOK, NewPermits, StoreInv
<1>6. ASSUME NEW u \in TxnId, u # t PROVE Arrived(u)' /\ Checked(u)'
  <2>1. stage'[u] = stage[u] /\ awaiting'[u] = awaiting[u] /\ Arrived(u) /\ Checked(u)
    BY <1>6 DEF StoreInv, AllArrived, AllChecked
  <2>2. Arrived(u)'
    BY <1>1, <1>2, <2>1 DEF Arrived, Past
  <2>3. \A i, o : Predecessor(i, u, o)' <=> Predecessor(i, u, o)
    BY <1>2 DEF Predecessor, NoneBetween
  <2>4. \A i \in 1..(u - 1) : i \in TxnId
    BY Constants
  <2>5. Checked(u)'
    BY <1>2, <2>1, <2>3, <2>4 DEF Checked, SameCopies
  <2>6. QED
    BY <2>2, <2>5
<1>7. QED
  BY <1>1, <1>3, <1>4, <1>5, <1>6 DEF StoreInv, AllArrived, AllChecked

\* Nobody starts, and there are no more permits or tasks than before.
LEMMA NothingNew ==
    ASSUME \A t \in TxnId : Started(t)' => Started(t)
    PROVE  /\ NoPermitGiven => NewPermits
           /\ installing' \subseteq installing => NewCommitted
<1>1. NoPermitGiven => NewPermits
  BY DEF NoPermitGiven, NewPermits
<1>2. installing' \subseteq installing => NewCommitted
  BY DEF NewCommitted
<1>3. QED
  BY <1>1, <1>2

\* A step of a migration that leaves the stores alone.
LEMMA StoreRested ==
    ASSUME Base, StoreInv, UNCHANGED <<inputVars, txnVars, store>>, NewCargo, NewCommitted, NewPermits
    PROVE  StoreInv'
<1>1. 0 \notin TxnId /\ stage' = stage /\ awaiting' = awaiting /\ outcome' = outcome
  BY TxnsRest
<1>2. SameCopies
  BY <1>1 DEF SameCopies
<1>3. QED
  BY <1>1, <1>2, StoreKept

\* A transaction's result is collected.
LEMMA CollectStores ==
    ASSUME NotifyInv, StoreInv, NEW t \in TxnId, CollectResult(t)
    PROVE  StoreInv'
<1>1. /\ stage[t] = "reported" /\ stage' = [stage EXCEPT ![t] = "done"]
      /\ UNCHANGED <<inputVars, awaiting, outcome, store, permits, network, installing>>
  BY DEF CollectResult, controllerVars, migrationVars
<1>2. Base
  BY DEF NotifyInv
<1>3. stage \in [TxnId -> Stage] /\ stage'[t] = "done" /\ \A u \in TxnId : u # t => stage'[u] = stage[u]
  BY <1>1, <1>2 DEF Base, Shapes
<1>4. SameCopies
  BY <1>1 DEF SameCopies
<1>5. NewCargo
  BY <1>1 DEF NewCargo
<1>6. \A u \in TxnId : Started(u)' => Started(u)
  BY <1>1, <1>3 DEF Started
<1>7. NewCommitted /\ NewPermits
  BY <1>1, <1>6, NothingNew DEF NoPermitGiven
<1>8. Arrived(t) /\ Checked(t) /\ Past(t)
  BY <1>1 DEF StoreInv, AllArrived, AllChecked, Past
<1>9. Arrived(t)'
  <2>1. \A o : Present(t, o) => Present(t, o)'
    BY <1>2, <1>4, CopiesKept
  <2>2. Objects(t)' = Objects(t)
    BY <1>1, <1>2, InputsKept
  <2>3. QED
    BY <1>3, <1>8, <2>1, <2>2 DEF Arrived
<1>10. Checked(t)'
  <2>1. invalid' = invalid /\ assigned' = assigned /\ Objects(t)' = Objects(t)
    BY <1>1, <1>2, InputsKept
  <2>2. \A i, o : Predecessor(i, t, o)' <=> Predecessor(i, t, o)
    BY <2>1 DEF Predecessor, NoneBetween, Objects
  <2>3. QED
    BY <1>1, <1>3, <1>8, <2>1, <2>2 DEF Checked
<1>11. QED
  BY <1>1, <1>2, <1>3, <1>4, <1>5, <1>7, <1>9, <1>10, StoreKept

\* A check that was passed stays passed.
LEMMA CheckedKept ==
    ASSUME Base, SameCopies, NEW t \in TxnId, Checked(t), stage'[t] = "execute" => stage[t] = "execute"
    PROVE  Checked(t)'
<1>1. invalid' = invalid /\ assigned' = assigned /\ Objects(t)' = Objects(t)
  BY InputsKept DEF SameCopies
<1>2. \A i, o : Predecessor(i, t, o)' <=> Predecessor(i, t, o)
  BY <1>1 DEF Predecessor, NoneBetween, Objects
<1>3. \A i \in 1..(t - 1) : i \in TxnId
  BY Constants
<1>4. QED
  BY <1>1, <1>2, <1>3 DEF Checked, SameCopies

\* A transaction asks for its Notifys: what it does not wait for was never produced.
LEMMA GetStores ==
    ASSUME NotifyInv, StoreInv, NEW t \in TxnId, GetDependencies(t)
    PROVE  StoreInv'
<1>1. /\ stage[t] = "spawned" /\ stage' = [stage EXCEPT ![t] = "await"]
      /\ awaiting' = [awaiting EXCEPT ![t] = awaiting'[t]]
      /\ \A h : h \in awaiting'[t] <=>
            \E o \in Objects(t) : /\ assigned[t][o] > 2
                                  /\ h = HandleIn(obj_task_map'[ProxyOf(t)], o, assigned[t][o])
  BY GetFacts DEF GotDependencies, NotifyInv, NextStage
<1>2. UNCHANGED <<inputVars, outcome, store, permits, network, installing>>
  BY DEF GetDependencies, migrationVars
<1>3. Base /\ Shapes /\ Started(t)
  BY <1>1 DEF NotifyInv, Base, Started
<1>4. t \in Txns /\ VAInv /\ assigned' = assigned /\ Objects(t)' = Objects(t)
  BY <1>2, <1>3, StartedFacts, InputsKept
<1>5. /\ stage'[t] = "await" /\ \A u \in TxnId : u # t => stage'[u] = stage[u]
      /\ \A u \in TxnId : u # t => awaiting'[u] = awaiting[u]
  BY <1>1, <1>3 DEF Shapes
<1>6. SameCopies
  BY <1>2 DEF SameCopies
<1>7. NewCargo
  BY <1>2 DEF NewCargo
<1>8. \A u \in TxnId : Started(u)' => Started(u)
  BY <1>1, <1>5 DEF Started
<1>9. NewCommitted /\ NewPermits
  BY <1>2, <1>8, NothingNew DEF NoPermitGiven
<1>10. Checked(t)'
  BY <1>3, <1>5, <1>6, CheckedKept DEF StoreInv, AllChecked
<1>11. ASSUME NEW o \in Objects(t)
       PROVE  Present(t, o)' \/ \E h \in awaiting'[t] : h[1] = o /\ h[2] = assigned[t][o]
  <2>1. CASE assigned[t][o] > 2
    <3>1. HandleIn(obj_task_map'[ProxyOf(t)], o, assigned[t][o]) \in awaiting'[t]
      BY <1>1, <2>1
    <3>2. QED
      BY <3>1 DEF HandleIn
  <2>2. CASE ~ (assigned[t][o] > 2)
    <3>1. \A i \in 1..(t - 1) : ~ Predecessor(i, t, o)
      BY <1>4, <2>2, ReadsProduced
    <3>2. Present(t, o)
      BY <3>1 DEF Present
    <3>3. QED
      BY <1>3, <1>6, <3>2, CopiesKept
  <2>3. QED
    BY <2>1, <2>2
<1>12. Arrived(t)'
  BY <1>4, <1>5, <1>11 DEF Arrived, Past
<1>13. QED
  BY <1>3, <1>5, <1>6, <1>7, <1>9, <1>10, <1>12, StoreKept

\* A transaction takes a permit: the object is there.
LEMMA AwaitStores ==
    ASSUME NotifyInv, StoreInv, NEW t \in TxnId, AwaitPrior(t)
    PROVE  StoreInv'
<1>0. PICK p, f : p = ProxyOf(t) /\ f = FirstHandle(awaiting[t])
  OBVIOUS
<1>1. /\ stage[t] = "await" /\ f \in permits[p]
      /\ permits' = [permits EXCEPT ![p] = @ \ {f}]
      /\ awaiting' = [awaiting EXCEPT ![t] = @ \ {f}]
      /\ UNCHANGED <<inputVars, stage, outcome, store, network, installing>>
  BY <1>0 DEF AwaitPrior, migrationVars
<1>2. Base /\ Shapes /\ Started(t)
  BY <1>1 DEF NotifyInv, Base, Started
<1>3. t \in Txns /\ p \in Proxy /\ assigned' = assigned /\ Objects(t)' = Objects(t)
  BY <1>0, <1>1, <1>2, StartedFacts, InputsKept
<1>4. /\ awaiting'[t] = awaiting[t] \ {f} /\ \A u \in TxnId : u # t => awaiting'[u] = awaiting[u]
      /\ \A q \in Proxy : permits'[q] \subseteq permits[q]
  BY <1>1, <1>2, <1>3 DEF Shapes
<1>5. SameCopies
  BY <1>1 DEF SameCopies
<1>6. NewCargo
  BY <1>1 DEF NewCargo
<1>7. \A u \in TxnId : Started(u)' => Started(u)
  BY <1>1 DEF Started
<1>8. NewCommitted /\ NewPermits
  BY <1>1, <1>4, <1>7, NothingNew DEF NoPermitGiven
<1>9. Checked(t)'
  BY <1>1, <1>2, <1>5, CheckedKept DEF StoreInv, AllChecked
<1>10. ASSUME NEW o \in Objects(t)
       PROVE  Present(t, o)' \/ \E h \in awaiting'[t] : h[1] = o /\ h[2] = assigned[t][o]
  <2>1. Present(t, o) => Present(t, o)'
    BY <1>2, <1>5, CopiesKept
  <2>2. Present(t, o) \/ \E h \in awaiting[t] : h[1] = o /\ h[2] = assigned[t][o]
    BY <1>1 DEF StoreInv, AllArrived, Arrived
  <2>3. ASSUME f[1] = o, f[2] = assigned[t][o] PROVE Present(t, o)
    <3>1. Reads(t, f[1], f[2])
      BY <1>3, <2>3 DEF Reads
    <3>2. Present(t, f[1])
      BY <1>0, <1>1, <1>2, <1>3, <3>1 DEF StoreInv, PermitsOK
    <3>3. QED
      BY <2>3, <3>2
  <2>4. QED
    BY <1>4, <2>1, <2>2, <2>3
<1>11. Arrived(t)'
  BY <1>1, <1>3, <1>10 DEF Arrived, Past
<1>12. QED
  BY <1>1, <1>2, <1>4, <1>5, <1>6, <1>8, <1>9, <1>11, StoreKept

\* A transaction wakes its successors: those at its proxy find what it left.
LEMMA NotifyStores ==
    ASSUME NotifyInv, StoreInv, NEW t \in TxnId, NotifyAndReport(t)
    PROVE  StoreInv'
<1>0. PICK p : p = ProxyOf(t)
  OBVIOUS
<1>1. /\ stage[t] = "notify" /\ stage' = [stage EXCEPT ![t] = "reported"]
      /\ permits' = [permits EXCEPT ![p] = @ \cup signals[t]]
      /\ UNCHANGED <<inputVars, awaiting, outcome, store, network, installing>>
  BY <1>0 DEF NotifyAndReport, migrationVars
<1>2. Base /\ Shapes /\ Started(t) /\ Past(t)
  BY <1>1 DEF NotifyInv, Base, Started, Past
<1>3. /\ t \in Txns /\ p \in Proxy /\ VAInv /\ Objects(t)' = Objects(t)
      /\ \A u, o, v : Reads(u, o, v)' <=> Reads(u, o, v)
      /\ \A u : ProxyOf(u)' = ProxyOf(u)
  BY <1>0, <1>1, <1>2, StartedFacts, InputsKept
<1>4. /\ permits'[p] = permits[p] \cup signals[t] /\ \A q \in Proxy : q # p => permits'[q] = permits[q]
      /\ stage'[t] = "reported" /\ \A u \in TxnId : u # t => stage'[u] = stage[u]
  BY <1>1, <1>2, <1>3 DEF Shapes
<1>5. SameCopies
  BY <1>1 DEF SameCopies
<1>6. NewCargo
  BY <1>1 DEF NewCargo
<1>7. \A u \in TxnId : Started(u)' => Started(u)
  BY <1>2, <1>4 DEF Started
<1>8. NewCommitted
  BY <1>1, <1>7, NothingNew
<1>9. NewPermits
  <2>1. ASSUME NEW h \in signals[t], NEW u \in TxnId, Reads(u, h[1], h[2]), ProxyOf(u) = p
        PROVE  Present(u, h[1])'
    <3>1. PICK o : o = h[1]
      OBVIOUS
    <3>2. o \in Objects(t) /\ h[2] = Produced(t)
      BY <2>1, <3>1 DEF NotifyInv, OwnKeys, KnowsOwn
    <3>3. Reads(u, o, Produced(t)) /\ u \in Txns /\ o \in Objects(u)
      BY <2>1, <3>1, <3>2 DEF Reads
    <3>4. Predecessor(t, u, o)
      BY <1>3, <3>2, <3>3, ReaderFollows
    <3>5. Present(u, o)
      BY <1>0, <2>1, <3>3, <3>4, LocalPresent DEF StoreInv
    <3>6. QED
      BY <1>2, <1>5, <3>1, <3>5, CopiesKept
  <2>2. QED
    BY <1>3, <1>4, <1>7, <2>1 DEF NewPermits
<1>10. Checked(t)'
  BY <1>2, <1>4, <1>5, CheckedKept DEF StoreInv, AllChecked
<1>11. Arrived(t)'
  <2>1. \A o : Present(t, o) => Present(t, o)'
    BY <1>2, <1>5, CopiesKept
  <2>2. Arrived(t)
    BY DEF StoreInv, AllArrived
  <2>3. QED
    BY <1>2, <1>3, <1>4, <2>1, <2>2 DEF Arrived
<1>12. QED
  BY <1>1, <1>2, <1>4, <1>5, <1>6, <1>8, <1>9, <1>10, <1>11, StoreKept

\* A transaction is checked: what has the right version was written by its predecessor.
LEMMA CheckStores ==
    ASSUME NotifyInv, StoreInv, NEW t \in TxnId, CheckTxn(t)
    PROVE  StoreInv'
<1>1. /\ stage[t] = "await" /\ awaiting[t] = {}
      /\ UNCHANGED <<inputVars, awaiting, store, permits, network, installing>>
  BY DEF CheckTxn, migrationVars
<1>2. \/ /\ t \notin invalid /\ pre_execute_check(t)
         /\ stage' = [stage EXCEPT ![t] = "execute"] /\ outcome' = outcome
      \/ /\ stage' = [stage EXCEPT ![t] = "notify"]
         /\ outcome' = [outcome EXCEPT ![t] = "skipped"]
  BY DEF CheckTxn
<1>3. Base /\ Shapes /\ Started(t) /\ StageOK(t)
  BY <1>1 DEF NotifyInv, Base, Started, StagesOK
<1>4. /\ t \in Txns /\ VAInv /\ ProxyOf(t) \in Proxy /\ invalid' = invalid /\ assigned' = assigned
      /\ Objects(t)' = Objects(t) /\ Objects(t) \subseteq Object
  BY <1>1, <1>3, StartedFacts, InputsKept, Order
<1>5. outcome[t] = "pending" /\ outcome \in [TxnId -> {"pending", "success", "skipped"}]
  BY <1>1, <1>3 DEF StageOK, Shapes
<1>6. stage'[t] \in {"execute", "notify"} /\ \A u \in TxnId : u # t => stage'[u] = stage[u]
  BY <1>2, <1>3 DEF Shapes
<1>7. SameCopies
  <2>1. \A u \in TxnId : /\ outcome'[u] = "success" <=> outcome[u] = "success"
                         /\ outcome'[u] = "pending" => outcome[u] = "pending"
    BY <1>2, <1>5
  <2>2. QED
    BY <1>1, <2>1 DEF SameCopies
<1>8. NewCargo
  BY <1>1 DEF NewCargo
<1>9. \A u \in TxnId : Started(u)' => Started(u)
  BY <1>3, <1>6 DEF Started
<1>10. NewCommitted /\ NewPermits
  BY <1>1, <1>9, NothingNew DEF NoPermitGiven
<1>11. Arrived(t)'
  <2>1. \A o \in Objects(t) : Present(t, o)
    BY <1>1 DEF StoreInv, AllArrived, Arrived
  <2>2. \A o : Present(t, o) => Present(t, o)'
    BY <1>3, <1>7, CopiesKept
  <2>3. QED
    BY <1>4, <1>6, <2>1, <2>2 DEF Arrived
<1>12. Checked(t)'
  <2>1. CASE t \notin invalid /\ pre_execute_check(t) /\ outcome' = outcome
    <3>1. ASSUME NEW o \in Objects(t), NEW i \in 1..(t - 1), Predecessor(i, t, o)
          PROVE  outcome[i] = "success"
      <4>1. PICK c : c = store[ProxyOf(t)][o]
        OBVIOUS
      <4>2. c.version = assigned[t][o] /\ assigned[t][o] > 2
        BY <1>4, <2>1, <3>1, <4>1, ReadsProduced DEF pre_execute_check
      <4>3. Genuine(c, o)
        <5>1. o \in Object
          BY <1>4
        <5>2. \/ c = InitialCopy /\ c.version = 2
              \/ Genuine(c, o) /\ c.version > 2
          BY <1>4, <4>1, <5>1, StoreVersions DEF StoreInv
        <5>3. QED
          BY <4>2, <5>2
      <4>4. QED
        BY <1>4, <3>1, <4>2, <4>3, GenuineFor
    <3>2. \A i, o : Predecessor(i, t, o)' <=> Predecessor(i, t, o)
      BY <1>4 DEF Predecessor, NoneBetween, Objects
    <3>3. QED
      BY <1>4, <2>1, <3>1, <3>2 DEF Checked
  <2>2. CASE stage'[t] = "notify"
    BY <1>3, <1>7, <2>2, CheckedKept DEF StoreInv, AllChecked
  <2>3. QED
    BY <1>2, <1>3, <2>1, <2>2 DEF Shapes
<1>13. QED
  BY <1>1, <1>3, <1>6, <1>7, <1>8, <1>10, <1>11, <1>12, StoreKept

\* A transaction starts: a permit it finds is from a predecessor at its proxy.
LEMMA HandlePrimaryStores ==
    ASSUME NotifyInv, StoreInv, NEW t \in TxnId, HandlePrimaryMessage(t)
    PROVE  StoreInv'
<1>1. /\ IsForwarded(t) /\ stage[t] = "none" /\ stage' = [stage EXCEPT ![t] = "spawned"]
      /\ network' = network \cup StatefulRequests(t)
      /\ UNCHANGED <<inputVars, awaiting, outcome, store, permits, installing>>
  BY DEF HandlePrimaryMessage, send_msg_to_proxy, controllerVars
<1>2. Base /\ Shapes /\ ~ Started(t)
  BY <1>1 DEF NotifyInv, Base, Started
<1>3. /\ VAInv /\ \A u, o, v : Reads(u, o, v)' <=> Reads(u, o, v)
      /\ \A u : ProxyOf(u)' = ProxyOf(u)
  BY <1>1, <1>2, InputsKept
<1>4. stage'[t] = "spawned" /\ \A u \in TxnId : u # t => stage'[u] = stage[u]
  BY <1>1, <1>2 DEF Shapes
<1>5. SameCopies
  BY <1>1 DEF SameCopies
<1>6. NewCargo
  <2>1. \A m \in StatefulRequests(t) : m.kind = "request"
    BY DEF StatefulRequests
  <2>2. QED
    BY <1>1, <2>1 DEF NewCargo
<1>7. \A u \in TxnId : Started(u)' => Started(u) \/ u = t
  BY <1>4 DEF Started
<1>8. NewCommitted
  <2>1. ASSUME NEW i \in installing PROVE ~ Reads(t, i.object_id, i.object.version)
    <3>1. PICK u \in TxnId, o \in Object : InstallFor(i, u, o)
      BY DEF NotifyInv, Moves
    <3>2. SentFor(u, o) /\ i.object_id = o /\ i.object.version = assigned[u][o]
      BY <3>1 DEF InstallFor
    <3>3. Reads(u, i.object_id, i.object.version) /\ Started(u)
      BY <1>2, <3>2, SentFacts DEF SentFor
    <3>4. QED
      BY <1>2, <1>3, <3>3, OneReader
  <2>2. QED
    BY <1>1, <1>3, <1>7, <2>1 DEF NewCommitted
<1>9. NewPermits
  <2>1. ASSUME NEW p \in Proxy, NEW h \in permits[p], Reads(t, h[1], h[2]), ProxyOf(t) = p
        PROVE  Present(t, h[1])'
    <3>1. Given(p, h)
      BY DEF NotifyInv, PermitsDue, Due
    <3>2. \A u \in TxnId : Reads(u, h[1], h[2]) => ~ Started(u)
      BY <1>2, <1>3, <2>1, OneReader
    <3>3. PICK o : o = h[1]
      OBVIOUS
    <3>4. PICK i \in Txns : o \in Objects(i) /\ h[2] = Produced(i) /\ ProxyOf(i) = p
      BY <3>1, <3>2, <3>3 DEF Given
    <3>5. Reads(t, o, Produced(i)) /\ t \in Txns /\ o \in Objects(t)
      BY <2>1, <3>3, <3>4 DEF Reads
    <3>6. Predecessor(i, t, o)
      BY <1>3, <3>4, <3>5, ReaderFollows
    <3>7. Present(t, o)
      BY <2>1, <3>4, <3>5, <3>6, LocalPresent DEF StoreInv
    <3>8. QED
      BY <1>2, <1>5, <3>3, <3>7, CopiesKept
  <2>2. QED
    BY <1>1, <1>3, <1>7, <2>1 DEF NewPermits
<1>10. Checked(t)'
  BY <1>2, <1>4, <1>5, CheckedKept DEF StoreInv, AllChecked
<1>11. Arrived(t)'
  BY <1>4 DEF Arrived, Past
<1>12. QED
  BY <1>1, <1>2, <1>4, <1>5, <1>6, <1>8, <1>9, <1>10, <1>11, StoreKept

\* A request is taken up, or waits no longer: no copy is touched.
LEMMA HandleRequestStores ==
    ASSUME NotifyInv, StoreInv, NEW m \in network, HandleStatefulRequest(m)
    PROVE  StoreInv'
<1>1. /\ network' = network \ {m} /\ UNCHANGED <<inputVars, txnVars, store>>
      /\ UNCHANGED <<permits, installing>>
  BY DEF HandleStatefulRequest
<1>2. Base /\ stage' = stage
  BY <1>1, TxnsRest DEF NotifyInv
<1>3. NewCommitted /\ NewPermits
  BY <1>1, <1>2, NothingNew DEF NoPermitGiven, Started
<1>4. NewCargo
  BY <1>1 DEF NewCargo
<1>5. QED
  BY <1>1, <1>2, <1>3, <1>4, StoreRested

\* A request has waited for the producer.
LEMMA AwaitProducerStores ==
    ASSUME NotifyInv, StoreInv, NEW s \in serving, AwaitProducer(s)
    PROVE  StoreInv'
<1>1. /\ permits' = [permits EXCEPT ![s.at] = @ \ s.awaiting] /\ UNCHANGED <<inputVars, txnVars, store>>
      /\ UNCHANGED <<network, installing>>
  BY DEF AwaitProducer
<1>2. Base /\ Shapes /\ stage' = stage
  BY <1>1, TxnsRest DEF NotifyInv, Base
<1>3. NoPermitGiven
  BY <1>1, <1>2 DEF NoPermitGiven, Shapes
<1>4. NewCommitted /\ NewPermits
  BY <1>1, <1>2, <1>3, NothingNew DEF Started
<1>5. NewCargo
  BY <1>1 DEF NewCargo
<1>6. QED
  BY <1>1, <1>2, <1>4, <1>5, StoreRested

\* A request is answered with a genuine copy, or with none.
LEMMA ReplyStores ==
    ASSUME NotifyInv, StoreInv, NEW s \in serving, ReplyStateful(s)
    PROVE  StoreInv'
<1>1. PICK t \in TxnId, o \in Object : ServingFor(s, t, o)
  BY DEF NotifyInv, Moves
<1>2. PICK p, v, copy : p = s.at /\ v = s.version /\ copy = store[p][o]
  OBVIOUS
<1>3. SentFor(t, o) /\ p = forwarded[t].owner[o] /\ v = assigned[t][o] /\ s.object_id = o
  BY <1>1, <1>2 DEF ServingFor
<1>4. Base /\ p \in Proxy /\ v \in Version /\ v > 2
  BY <1>3, SentFacts DEF NotifyInv
<1>5. PICK r : r = [kind |-> "reply", from |-> p, to |-> s.from, object_id |-> o,
                    object |-> IF copy.version = v THEN copy ELSE NoObject]
  OBVIOUS
<1>6. /\ network' = network \cup {r} /\ UNCHANGED <<inputVars, txnVars, store>>
      /\ UNCHANGED <<permits, installing>>
  BY <1>2, <1>3, <1>5 DEF ReplyStateful, send_msg_to_proxy
<1>7. r.object_id = o /\ r.object = IF copy.version = v THEN copy ELSE NoObject
  BY <1>5
<1>8. stage' = stage /\ outcome' = outcome
  BY <1>4, <1>6, TxnsRest
<1>9. NewCommitted /\ NewPermits
  BY <1>6, <1>8, NothingNew DEF NoPermitGiven, Started
<1>10. ASSUME r.object # NoObject PROVE Genuine(r.object, o)'
  <2>1. VAInv
    BY <1>4 DEF Base, Shapes
  <2>2. \/ copy = InitialCopy /\ copy.version = 2
        \/ Genuine(copy, o) /\ copy.version > 2
    BY <1>2, <1>4, <2>1, StoreVersions DEF StoreInv
  <2>3. Genuine(copy, o) /\ r.object = copy
    BY <1>4, <1>7, <1>10, <2>2
  <2>4. SameCopies
    BY <1>6, <1>8 DEF SameCopies
  <2>5. QED
    BY <1>4, <2>3, <2>4, CopiesKept
<1>11. NewCargo
  BY <1>6, <1>7, <1>10 DEF NewCargo
<1>12. QED
  BY <1>4, <1>6, <1>9, <1>11, StoreRested

\* A reply is taken up; its object is not in the store yet.
LEMMA HandleReplyStores ==
    ASSUME NotifyInv, StoreInv, NEW m \in network, HandleStatefulReply(m)
    PROVE  StoreInv'
<1>1. /\ m.kind = "reply" /\ network' = network \ {m} /\ UNCHANGED <<inputVars, txnVars, store>>
      /\ UNCHANGED permits
  BY DEF HandleStatefulReply
<1>2. Base /\ stage' = stage /\ outcome' = outcome
  BY <1>1, TxnsRest DEF NotifyInv
<1>3. NewPermits
  BY <1>1, <1>2, NothingNew DEF NoPermitGiven, Started
<1>4. \/ m.object = NoObject /\ installing' = installing
      \/ m.object # NoObject /\ \E G : installing' = installing \cup
             {[at |-> m.to, object_id |-> m.object_id, object |-> m.object, signals |-> G,
               committed |-> FALSE]}
  BY Zenon DEF HandleStatefulReply
<1>5. ASSUME NEW i \in installing'
      PROVE  i \in installing \/ (~ i.committed /\ Genuine(i.object, i.object_id)')
  <2>1. CASE m.object = NoObject /\ installing' = installing
    BY <2>1
  <2>2. CASE m.object # NoObject /\ i \notin installing
    <3>1. PICK G : i = [at |-> m.to, object_id |-> m.object_id, object |-> m.object, signals |-> G,
                        committed |-> FALSE]
      BY <1>4, <2>2
    <3>2. ~ i.committed /\ i.object = m.object /\ i.object_id = m.object_id
      BY <3>1
    <3>3. Genuine(m.object, m.object_id)
      BY <1>1, <2>2 DEF StoreInv, CargoOK
    <3>4. SameCopies
      BY <1>1, <1>2 DEF SameCopies
    <3>5. PICK c, o : c = m.object /\ o = m.object_id
      OBVIOUS
    <3>6. Genuine(c, o)'
      BY <1>2, <3>3, <3>4, <3>5, CopiesKept
    <3>7. QED
      BY <3>2, <3>5, <3>6
  <2>3. QED
    BY <1>4, <2>1, <2>2
<1>6. NewCargo
  BY <1>1, <1>5 DEF NewCargo
<1>7. NewCommitted
  BY <1>2, <1>5 DEF NewCommitted, Started
<1>8. QED
  BY <1>1, <1>2, <1>3, <1>6, <1>7, StoreRested

\* The task that installed an object wakes the transaction that reads it.
LEMMA NotifyMigratedStores ==
    ASSUME NotifyInv, StoreInv, NEW i \in installing, NotifyMigrated(i)
    PROVE  StoreInv'
<1>1. PICK t \in TxnId, o \in Object : InstallFor(i, t, o)
  BY DEF NotifyInv, Moves
<1>2. PICK p, v : p = ProxyOf(t) /\ v = assigned[t][o]
  OBVIOUS
<1>3. /\ SentFor(t, o) /\ i.object.version = v /\ i.at = p /\ i.object_id = o
      /\ \A h \in i.signals : h[1] = o /\ h[2] = v
  BY <1>1, <1>2 DEF InstallFor
<1>4. Base /\ p \in Proxy /\ Reads(t, o, v) /\ Started(t)
  BY <1>2, <1>3, SentFacts DEF NotifyInv, SentFor
<1>5. /\ i.committed /\ permits' = [permits EXCEPT ![p] = @ \cup i.signals]
      /\ installing' = installing \ {i} /\ UNCHANGED <<inputVars, txnVars, store>> /\ network' = network
  BY <1>3 DEF NotifyMigrated
<1>6. stage' = stage /\ outcome' = outcome
  BY <1>4, <1>5, TxnsRest
<1>7. NewCommitted
  BY <1>5, <1>6, NothingNew DEF Started
<1>8. NewCargo
  BY <1>5 DEF NewCargo
<1>9. permits'[p] = permits[p] \cup i.signals /\ \A q \in Proxy : q # p => permits'[q] = permits[q]
  BY <1>4, <1>5 DEF Base, Shapes
<1>10. VAInv /\ \A u, r, w : Reads(u, r, w)' <=> Reads(u, r, w)
  BY <1>4, <1>5, InputsKept
<1>11. Present(t, o)'
  <2>1. Present(t, o)
    BY <1>3, <1>4, <1>5 DEF StoreInv, CommittedOK
  <2>2. SameCopies
    BY <1>5, <1>6 DEF SameCopies
  <2>3. QED
    BY <1>4, <2>1, <2>2, CopiesKept
<1>12. \A u \in TxnId : Reads(u, o, v) => u = t
  BY <1>4, <1>10, OneReader
<1>13. NewPermits
  BY <1>3, <1>6, <1>9, <1>10, <1>11, <1>12 DEF NewPermits, Started
<1>14. QED
  BY <1>4, <1>5, <1>7, <1>8, <1>13, StoreRested

-----------------------------------------------------------------------------
(* The two steps that write to a store.                                    *)

\* What has arrived is not overwritten before it is used.
PresentStays ==
    \A u \in Txns : \A o \in Objects(u) :
        Started(u) /\ Settled(u, o) /\ Present(u, o) => Present(u, o)'

\* Nobody gets further, except from executing to notifying.
NobodyMoves ==
    /\ awaiting' = awaiting
    /\ \A u \in TxnId : /\ Started(u)' => Started(u)
                        /\ Past(u)' => Past(u)
                        /\ stage'[u] = "await" => stage[u] = "await"

\* A step that writes copies keeps what others found or will find in the store.
LEMMA WrittenKept ==
    ASSUME NotifyInv, StoreInv, UNCHANGED inputVars, UNCHANGED permits, NobodyMoves, PresentStays,
           NewCommitted
    PROVE  CommittedOK' /\ PermitsOK' /\ AllArrived'
<1>1. Base
  BY DEF NotifyInv
<1>2. /\ VAInv /\ assigned' = assigned
      /\ \A u : Objects(u)' = Objects(u) /\ ProxyOf(u)' = ProxyOf(u)
      /\ \A u, o, v : Reads(u, o, v)' <=> Reads(u, o, v)
  BY <1>1, InputsKept
<1>3. ASSUME NEW i \in installing, NEW t \in TxnId, i.committed, Started(t),
             Reads(t, i.object_id, i.object.version)
      PROVE  Present(t, i.object_id)'
  <2>1. PICK u \in TxnId, o \in Object : InstallFor(i, u, o)
    BY DEF NotifyInv, Moves
  <2>2. SentFor(u, o) /\ Settled(u, o) /\ i.object_id = o /\ i.object.version = assigned[u][o]
    BY <2>1 DEF InstallFor
  <2>3. Reads(u, i.object_id, i.object.version) /\ u \in Txns /\ o \in Objects(u)
    BY <1>1, <2>2, SentFacts
  <2>4. u = t
    BY <1>2, <1>3, <2>3, OneReader
  <2>5. Present(t, o)
    BY <1>3, <2>2 DEF StoreInv, CommittedOK
  <2>6. QED
    BY <1>3, <2>2, <2>3, <2>4, <2>5 DEF PresentStays
<1>4. CommittedOK'
  BY <1>2, <1>3 DEF CommittedOK, NewCommitted, NobodyMoves
<1>5. ASSUME NEW p \in Proxy, NEW h \in permits[p], NEW t \in TxnId, Started(t),
             Reads(t, h[1], h[2]), ProxyOf(t) = p
      PROVE  Present(t, h[1])'
  <2>1. PICK o : o = h[1]
    OBVIOUS
  <2>2. PICK i \in Txns : Through(i) /\ o \in Objects(i) /\ h[2] = Produced(i)
    BY <2>1 DEF NotifyInv, PermitsDue, Due, Given
  <2>3. Reads(t, o, Produced(i)) /\ t \in Txns /\ o \in Objects(t)
    BY <1>5, <2>1, <2>2 DEF Reads
  <2>4. Predecessor(i, t, o)
    BY <1>2, <2>2, <2>3, ReaderFollows
  <2>5. Settled(t, o)
    BY <1>2, <2>2, <2>3, <2>4, SettledBy DEF NotifyInv
  <2>6. Present(t, o)
    BY <1>5, <2>1 DEF StoreInv, PermitsOK
  <2>7. QED
    BY <1>5, <2>1, <2>3, <2>5, <2>6 DEF PresentStays
<1>6. PermitsOK'
  BY <1>2, <1>5 DEF PermitsOK, NobodyMoves
<1>7. ASSUME NEW t \in TxnId PROVE Arrived(t)'
  <2>1. Past(t) \/ stage[t] = "await" => t \in Txns /\ Started(t)
    BY <1>1, StartedFacts DEF Started, Past
  <2>2. ASSUME Past(t), NEW o \in Objects(t) PROVE Present(t, o)'
    <3>1. Settled(t, o)
      BY <2>2 DEF NotifyInv, InOrder, WaitsOut, Ready
    <3>2. Present(t, o)
      BY <2>2 DEF StoreInv, AllArrived, Arrived
    <3>3. QED
      BY <2>1, <2>2, <3>1, <3>2 DEF PresentStays
  <2>3. ASSUME stage[t] = "await", NEW o \in Objects(t),
               ~ \E h \in awaiting[t] : h[1] = o /\ h[2] = assigned[t][o]
        PROVE  Present(t, o)'
    <3>1. Settled(t, o)
      BY <2>3 DEF NotifyInv, InOrder, WaitsOut, Ready
    <3>2. Present(t, o)
      BY <2>3 DEF StoreInv, AllArrived, Arrived
    <3>3. QED
      BY <2>1, <2>3, <3>1, <3>2 DEF PresentStays
  <2>4. QED
    BY <1>2, <2>2, <2>3 DEF Arrived, NobodyMoves
<1>8. QED
  BY <1>4, <1>6, <1>7 DEF AllArrived

\* A transaction executes.
LEMMA ExecuteStores ==
    ASSUME NotifyInv, StoreInv, NEW t \in TxnId, ExecuteTxn(t)
    PROVE  StoreInv'
<1>0. PICK p : p = ProxyOf(t)
  OBVIOUS
<1>1. /\ stage[t] = "execute" /\ stage' = [stage EXCEPT ![t] = "notify"]
      /\ store' = commit_objects(p, [o \in Objects(t) |-> Written(t)])
      /\ outcome' = [outcome EXCEPT ![t] = "success"]
      /\ UNCHANGED <<inputVars, awaiting, permits, network, installing>>
  BY <1>0 DEF ExecuteTxn, controllerVars, migrationVars
<1>2. Base /\ Shapes /\ Started(t) /\ Past(t) /\ StageOK(t)
  BY <1>1 DEF NotifyInv, Base, Started, Past, StagesOK
<1>3. /\ t \in Txns /\ p \in Proxy /\ VAInv /\ Txns' = Txns /\ assigned' = assigned /\ invalid' = invalid
      /\ \A u : Objects(u)' = Objects(u) /\ ProxyOf(u)' = ProxyOf(u)
      /\ \A u, o, v : Reads(u, o, v)' <=> Reads(u, o, v)
  BY <1>0, <1>1, <1>2, StartedFacts, InputsKept
<1>4. /\ \A u : Written(u)' = Written(u)
      /\ \A i, u, o : Predecessor(i, u, o)' <=> Predecessor(i, u, o)
  BY <1>3 DEF Written, Predecessor, NoneBetween
<1>5. Objects(t) \subseteq Object /\ Written(t) \in Copy /\ t \in Nat /\ Txns \subseteq TxnId
  BY <1>3, Order DEF Copy, Written, Produced
<1>6. \A q \in Proxy, o \in Object :
          store'[q][o] = IF q = p /\ o \in Objects(t) THEN Written(t) ELSE store[q][o]
  BY <1>1, <1>3, <1>5, CommitFacts DEF NotifyInv, StoreTyped
<1>7. /\ outcome[t] = "pending" /\ outcome'[t] = "success"
      /\ \A u \in TxnId : u # t => outcome'[u] = outcome[u]
      /\ \A u \in TxnId : outcome[u] = "success" => outcome'[u] = "success"
  BY <1>1, <1>2 DEF StageOK, Shapes
<1>8. stage'[t] = "notify" /\ \A u \in TxnId : u # t => stage'[u] = stage[u]
  BY <1>1, <1>2 DEF Shapes
<1>9. \A c, o : Genuine(c, o) => Genuine(c, o)'
  BY <1>3, <1>4, <1>5, <1>7 DEF Genuine
<1>10. StoreOK'
  <2>1. PICK w : w = Written(t)
    OBVIOUS
  <2>2. \A o \in Objects(t) : Genuine(w, o)'
    BY <1>3, <1>4, <1>7, <2>1 DEF Genuine
  <2>3. InitialCopy' = InitialCopy
    BY DEF InitialCopy
  <2>4. ASSUME NEW q \in Proxy, NEW o \in Object
        PROVE  (store[q][o] = InitialCopy \/ Genuine(store[q][o], o))'
    <3>1. PICK c, d : c = store'[q][o] /\ d = store[q][o]
      OBVIOUS
    <3>2. CASE c = w /\ o \in Objects(t)
      BY <2>2, <3>1, <3>2 DEF Genuine
    <3>3. CASE c = d
      <4>1. d = InitialCopy \/ Genuine(d, o)
        BY <3>1 DEF StoreInv, StoreOK
      <4>2. QED
        BY <1>9, <2>3, <3>1, <3>3, <4>1 DEF Genuine
    <3>4. QED
      BY <1>6, <2>1, <3>1, <3>2, <3>3
  <2>5. QED
    BY <2>4 DEF StoreOK
<1>11. CargoOK'
  <2>1. NoObject' = NoObject
    BY DEF NoObject
  <2>2. QED
    BY <1>1, <1>9, <2>1 DEF CargoOK, StoreInv
<1>12. PresentStays
  <2>1. ASSUME NEW u \in Txns, NEW o \in Objects(u), Started(u), Settled(u, o), Present(u, o),
               outcome'[u] = "pending", NEW i \in 1..(u - 1), Predecessor(i, u, o), outcome'[i] = "success"
        PROVE  store'[ProxyOf(u)][o] = Written(i)
    <3>1. u # t /\ u \in TxnId /\ outcome[u] = "pending" /\ u \in Nat /\ i \in TxnId /\ i \in Txns
      BY <1>3, <1>5, <1>7, <2>1, Order
    <3>2. o \notin Objects(t)
      <4>1. ASSUME o \in Objects(t), u < t PROVE FALSE
        <5>1. Settled(t, o)
          BY <1>2, <4>1 DEF NotifyInv, InOrder, WaitsOut, Ready
        <5>2. Through(u)
          BY <1>5, <3>1, <4>1, <5>1, Order, <1>3 DEF Settled
        <5>3. QED
          BY <1>2, <3>1, <5>2, DecidedIsPast
      <4>2. ASSUME o \in Objects(t), t < u PROVE FALSE
        <5>1. Through(t)
          BY <1>3, <1>5, <2>1, <3>1, <4>2, Order DEF Settled
        <5>2. QED
          BY <1>1, <5>1 DEF Through
      <4>3. QED
        BY <1>5, <3>1, <4>1, <4>2
    <3>3. i # t
      BY <2>1, <3>2 DEF Predecessor
    <3>4. store[ProxyOf(u)][o] = Written(i)
      BY <1>7, <2>1, <3>1, <3>3 DEF Present
    <3>5. o \in Object /\ ProxyOf(u) \in Proxy
      BY <1>2, <1>3, <2>1, <3>1, Order, StartedFacts
    <3>6. QED
      BY <1>6, <3>2, <3>4, <3>5
  <2>2. QED
    BY <1>3, <1>4, <2>1 DEF PresentStays, Present
<1>13. CommittedOK' /\ PermitsOK' /\ AllArrived'
  <2>1. NobodyMoves
    BY <1>1, <1>2, <1>8 DEF NobodyMoves, Started, Past
  <2>2. NewCommitted
    BY <1>1, <2>1 DEF NewCommitted, NobodyMoves
  <2>3. QED
    BY <1>1, <1>12, <2>1, <2>2, WrittenKept
<1>14. HoldsLast'
  <2>1. ASSUME NEW i \in TxnId, NEW o \in Object, IsLast(i, o)' PROVE store'[ProxyOf(i)][o] = Written(i)
    <3>1. /\ i \in Txns /\ o \in Objects(i) /\ outcome'[i] = "success"
          /\ \A k \in Txns : k > i /\ o \in Objects(k) => outcome'[k] # "success"
      BY <1>3, <2>1 DEF IsLast
    <3>2. CASE i = t
      BY <1>0, <1>3, <1>6, <3>1, <3>2
    <3>3. CASE i # t
      <4>1. outcome[i] = "success" /\ i \in Nat
        BY <1>3, <1>7, <3>1, <3>3, Order
      <4>2. o \notin Objects(t)
        <5>1. ASSUME o \in Objects(t) PROVE FALSE
          <6>1. i >= t
            BY <1>3, <1>5, <1>7, <3>1, <4>1, <5>1
          <6>2. QED
            BY <1>3, <1>7, <3>1, <4>1, <5>1, <6>1, NobodyAfter
        <5>2. QED
          BY <5>1
      <4>3. IsLast(i, o)
        BY <1>5, <1>7, <3>1, <4>1, <4>2 DEF IsLast
      <4>4. store[ProxyOf(i)][o] = Written(i) /\ ProxyOf(i) \in Proxy
        <5>1. Started(i)
          BY <1>2, <4>1, DecidedIsPast
        <5>2. QED
          BY <1>2, <4>3, <5>1, StartedFacts DEF StoreInv, HoldsLast
      <4>5. QED
        BY <1>6, <4>2, <4>4
    <3>4. QED
      BY <3>2, <3>3
  <2>2. QED
    BY <1>3, <1>4, <2>1 DEF HoldsLast
<1>15. AllChecked'
  <2>1. ASSUME NEW u \in TxnId PROVE Checked(u)'
    <3>1. Checked(u) /\ (u = t => stage[u] = "execute")
      BY <1>1 DEF StoreInv, AllChecked
    <3>2. stage'[u] = "execute" \/ outcome'[u] = "success" => stage[u] = "execute" \/ outcome[u] = "success"
      BY <1>7, <1>8, <3>1
    <3>3. \A i \in 1..(u - 1) : i \in TxnId
      BY Constants
    <3>4. QED
      BY <1>3, <1>4, <1>7, <3>1, <3>2, <3>3 DEF Checked
  <2>2. QED
    BY <2>1 DEF AllChecked
<1>16. QED
  BY <1>10, <1>11, <1>13, <1>14, <1>15 DEF StoreInv

\* A migrated object is installed.
LEMMA CommitStores ==
    ASSUME NotifyInv, StoreInv, NEW i \in installing, CommitMigrated(i)
    PROVE  StoreInv'
<1>1. PICK t \in TxnId, o \in Object : InstallFor(i, t, o)
  BY DEF NotifyInv, Moves
<1>2. PICK p, c, v : p = ProxyOf(t) /\ c = i.object /\ v = assigned[t][o]
  OBVIOUS
<1>3. /\ SentFor(t, o) /\ Settled(t, o) /\ c \in Copy /\ c.version = v /\ i.at = p /\ i.object_id = o
  BY <1>1, <1>2 DEF InstallFor
<1>4. /\ Base /\ p \in Proxy /\ t \in Txns /\ o \in Objects(t) /\ v \in Version /\ Reads(t, o, v)
      /\ Started(t)
  BY <1>2, <1>3, SentFacts DEF NotifyInv, SentFor
<1>5. PICK k \in 1..(t - 1) : Predecessor(k, t, o) /\ k \in Txns /\ o \in Objects(k)
  BY <1>3, <1>4, SentFacts
<1>6. PICK r : r = [i EXCEPT !.committed = TRUE]
  OBVIOUS
<1>7. r.object_id = o /\ r.object = c
  <2>1. i = [at |-> p, object_id |-> o, object |-> c, signals |-> i.signals, committed |-> i.committed]
    BY <1>1, <1>2 DEF InstallFor
  <2>2. PICK G, b, d : /\ i = [at |-> p, object_id |-> o, object |-> c, signals |-> G, committed |-> b]
                       /\ r = [i EXCEPT !.committed = d]
    BY <1>6, <2>1, Zenon
  <2>3. r = [at |-> p, object_id |-> o, object |-> c, signals |-> G, committed |-> d]
    BY <2>2, FlagSet
  <2>4. QED
    BY <2>3
<1>8. /\ store' = commit_objects(p, Single(o, c)) /\ installing' = (installing \ {i}) \cup {r}
      /\ UNCHANGED <<inputVars, txnVars>> /\ UNCHANGED <<permits, network>>
  BY <1>2, <1>3, <1>6 DEF CommitMigrated, controllerVars
<1>9. stage' = stage /\ awaiting' = awaiting /\ outcome' = outcome
  BY <1>4, <1>8, TxnsRest
<1>10. /\ VAInv /\ Txns' = Txns /\ assigned' = assigned /\ invalid' = invalid
       /\ \A u : Objects(u)' = Objects(u) /\ ProxyOf(u)' = ProxyOf(u)
       /\ \A u, x, w : Reads(u, x, w)' <=> Reads(u, x, w)
  BY <1>4, <1>8, InputsKept
<1>11. /\ \A u : Written(u)' = Written(u)
       /\ \A j, u, x : Predecessor(j, u, x)' <=> Predecessor(j, u, x)
       /\ t \in Nat /\ k \in Nat
  BY <1>4, <1>5, <1>10, Order DEF Written, Predecessor, NoneBetween
<1>12. \A q \in Proxy, x \in Object : store'[q][x] = IF q = p /\ x = o THEN c ELSE store[q][x]
  <2>1. DOMAIN Single(o, c) = {o} /\ Single(o, c)[o] = c
    BY DEF Single
  <2>2. PICK new : new = Single(o, c)
    OBVIOUS
  <2>3. \A x \in DOMAIN new : new[x] \in Copy
    BY <1>3, <2>1, <2>2
  <2>4. \A q \in Proxy, x \in Object :
            store'[q][x] = IF q = p /\ x \in DOMAIN new THEN new[x] ELSE store[q][x]
    BY <1>4, <1>8, <2>2, <2>3, CommitFacts DEF NotifyInv, StoreTyped
  <2>5. QED
    BY <2>1, <2>2, <2>4
<1>13. Genuine(c, o) /\ outcome[k] = "success" /\ c = Written(k)
  <2>1. Genuine(c, o)
    BY <1>2, <1>3 DEF StoreInv, CargoOK
  <2>2. QED
    BY <1>2, <1>3, <1>4, <1>5, <1>10, <2>1, GenuineFor
<1>14. \A d, x : Genuine(d, x)' <=> Genuine(d, x)
  BY <1>9, <1>10, <1>11 DEF Genuine
<1>15. ~ Past(t)
  <2>1. IsMoving(o, v, "installing", i)
    BY <1>2, <1>3 DEF IsMoving
  <2>2. QED
    BY <1>2, <1>4, <2>1 DEF NotifyInv, InOrder, WaitsOut, Ready, NoMove
<1>16. ASSUME NEW u \in Txns, o \in Objects(u), u > t PROVE ~ Settled(u, o)
  <2>1. t \in 1..(u - 1)
    BY <1>4, <1>10, <1>11, <1>16, Order
  <2>2. ~ Through(t)
    BY <1>15 DEF Past, Through
  <2>3. QED
    BY <1>4, <2>1, <2>2 DEF Settled
<1>17. ASSUME NEW j \in 1..(t - 1), Predecessor(j, t, o) PROVE store'[p][o] = Written(j)
  <2>1. j = k
    BY <1>4, <1>5, <1>11, <1>17, PredecessorUnique
  <2>2. QED
    BY <1>4, <1>12, <1>13, <2>1
<1>18. Present(t, o)'
  BY <1>2, <1>10, <1>11, <1>17 DEF Present
<1>19. PresentStays
  <2>1. ASSUME NEW u \in Txns, NEW x \in Objects(u), Started(u), Settled(u, x), Present(u, x)
        PROVE  Present(u, x)'
    <3>1. u \in TxnId /\ u \in Nat /\ x \in Object /\ ProxyOf(u) \in Proxy
      BY <1>4, <1>10, <2>1, Order, StartedFacts
    <3>2. CASE ~ (ProxyOf(u) = p /\ x = o)
      <4>1. store'[ProxyOf(u)][x] = store[ProxyOf(u)][x]
        BY <1>12, <3>1, <3>2
      <4>2. QED
        BY <1>9, <1>10, <1>11, <2>1, <4>1 DEF Present
    <3>3. CASE x = o /\ u = t
      BY <1>18, <3>3
    <3>4. CASE x = o /\ u > t
      BY <1>16, <2>1, <3>4
    <3>5. CASE x = o /\ u < t
      <4>1. Through(u)
        BY <1>3, <1>10, <1>11, <2>1, <3>1, <3>5, Order DEF Settled
      <4>2. outcome'[u] # "pending"
        BY <1>4, <1>9, <3>1, <4>1, DecidedIsPast
      <4>3. QED
        BY <4>2 DEF Present
    <3>6. QED
      BY <1>11, <3>1, <3>2, <3>3, <3>4, <3>5
  <2>2. QED
    BY <2>1 DEF PresentStays
<1>20. StoreOK'
  <2>1. ASSUME NEW q \in Proxy, NEW x \in Object
        PROVE  (store[q][x] = InitialCopy \/ Genuine(store[q][x], x))'
    <3>1. PICK d, e : d = store'[q][x] /\ e = store[q][x]
      OBVIOUS
    <3>2. e = InitialCopy \/ Genuine(e, x)
      BY <3>1 DEF StoreInv, StoreOK
    <3>3. d = InitialCopy \/ Genuine(d, x)
      BY <1>12, <1>13, <3>1, <3>2
    <3>4. InitialCopy' = InitialCopy
      BY DEF InitialCopy
    <3>5. QED
      BY <1>14, <3>1, <3>3, <3>4 DEF Genuine
  <2>2. QED
    BY <2>1 DEF StoreOK
<1>21. CargoOK'
  <2>1. NoObject' = NoObject
    BY DEF NoObject
  <2>2. Genuine(c, o)'
    BY <1>13, <1>14
  <2>3. QED
    BY <1>7, <1>8, <1>14, <2>1, <2>2 DEF CargoOK, StoreInv
<1>22. CommittedOK' /\ PermitsOK' /\ AllArrived'
  <2>1. NobodyMoves
    BY <1>9 DEF NobodyMoves, Started, Past
  <2>2. \A u \in TxnId : Reads(u, o, v) => u = t
    BY <1>4, <1>10, OneReader
  <2>3. NewCommitted
    BY <1>3, <1>7, <1>8, <1>10, <1>18, <2>1, <2>2 DEF NewCommitted, NobodyMoves
  <2>4. QED
    BY <1>8, <1>19, <2>1, <2>3, WrittenKept
<1>23. HoldsLast'
  <2>1. ASSUME NEW j \in TxnId, NEW x \in Object, IsLast(j, x)' PROVE store'[ProxyOf(j)][x] = Written(j)
    <3>1. IsLast(j, x)
      BY <1>9, <1>10, <2>1 DEF IsLast
    <3>2. j \in Txns /\ j \in Nat /\ x \in Objects(j) /\ outcome[j] = "success" /\ Past(j) /\ Started(j)
      BY <1>4, <1>10, <3>1, Order, DecidedIsPast DEF IsLast
    <3>3. store[ProxyOf(j)][x] = Written(j) /\ ProxyOf(j) \in Proxy
      BY <1>4, <3>1, <3>2, StartedFacts DEF StoreInv, HoldsLast
    <3>4. CASE x # o
      BY <1>12, <3>3, <3>4
    <3>5. CASE x = o
      <4>1. j >= k
        BY <1>5, <1>11, <1>13, <3>1, <3>2, <3>5 DEF IsLast
      <4>2. Settled(j, o)
        BY <3>2, <3>5 DEF NotifyInv, InOrder, WaitsOut, Ready
      <4>3. ~ (j > t) /\ j # t
        BY <1>15, <1>16, <3>2, <3>5, <4>2
      <4>4. j = k
        BY <1>5, <1>11, <3>2, <3>5, <4>1, <4>3 DEF Predecessor, NoneBetween
      <4>5. QED
        BY <1>12, <1>13, <3>3, <3>5, <4>4
    <3>6. QED
      BY <3>4, <3>5
  <2>2. QED
    BY <1>10, <1>11, <2>1 DEF HoldsLast
<1>24. AllChecked'
  BY <1>9, <1>10, <1>11 DEF AllChecked, Checked, StoreInv
<1>25. QED
  BY <1>20, <1>21, <1>22, <1>23, <1>24 DEF StoreInv

-----------------------------------------------------------------------------
(* The primary touches nothing that has started.                           *)

\* What consensus ordered has a number.
LEMMA AllNumbered == VAInv => Txns \subseteq TxnId
BY Order

\* Transactions are ordered and forwarded.
LEMMA PrimaryGrows ==
    ASSUME Base, Primary
    PROVE  InputsGrow
<1>1. UNCHANGED invalid
  BY DEF Primary
<1>2. CASE \E S \in SUBSET Object : AssignSharedObjectVersions(S) /\ UNCHANGED forwarded
  BY <1>1, <1>2, AssignGrows
<1>3. CASE \E t \in TxnId, p \in Proxy : Forward(t, p)
  BY <1>1, <1>3, ForwardGrows
<1>4. QED
  BY <1>2, <1>3 DEF Primary, ORNext

\* No copy is touched by that.
LEMMA PrimaryStores ==
    ASSUME NotifyInv, StoreInv, Primary
    PROVE  StoreInv'
<1>1. UNCHANGED <<stage, awaiting, outcome, store, permits, network, installing, invalid>>
  BY DEF Primary, txnVars, controllerVars, migrationVars
<1>2. Base /\ VAInv /\ Txns \subseteq TxnId /\ Txns = 1..Len(assigned) /\ Len(assigned) \in Nat
  BY Order DEF NotifyInv, Base, Shapes
<1>3. InputsGrow
  BY <1>2, PrimaryGrows
<1>4. \A t \in Txns : t \in Txns' /\ assigned'[t] = assigned[t] /\ Objects(t)' = Objects(t)
                      /\ Written(t)' = Written(t)
  BY <1>3 DEF InputsGrow, Objects, Written
<1>5. Txns' \subseteq TxnId
  <2>1. VAInv'
    BY <1>3 DEF InputsGrow
  <2>2. VAInv' => (Txns \subseteq TxnId)'
    BY AllNumbered, PTL
  <2>3. TxnId' = TxnId
    BY DEF TxnId
  <2>4. QED
    BY <2>1, <2>2, <2>3
<1>6. ASSUME NEW t \in TxnId, Started(t)
      PROVE  /\ t \in Txns /\ Started(t)' /\ ProxyOf(t)' = ProxyOf(t)
             /\ Objects(t)' = Objects(t) /\ assigned'[t] = assigned[t]
             /\ \A o, v : Reads(t, o, v)' <=> Reads(t, o, v)
  BY <1>1, <1>2, <1>3, <1>6, StartedStays
<1>7. ASSUME NEW t \in TxnId, Started(t) PROVE \A i, o : Predecessor(i, t, o)' <=> Predecessor(i, t, o)
  <2>1. Objects(t)' = Objects(t) /\ \A i \in 1..(t - 1) : Objects(i)' = Objects(i)
    BY <1>2, <1>4, <1>6, <1>7
  <2>2. t \in Nat
    BY Constants
  <2>3. QED
    BY <2>1, <2>2 DEF Predecessor, NoneBetween
<1>8. ASSUME NEW i \in TxnId
      PROVE  /\ outcome[i] # "pending" => Started(i)
             /\ Past(i) \/ stage[i] \in {"await", "execute"} => Started(i)
             /\ Started(i)' <=> Started(i)
  BY <1>1, <1>2, DecidedIsPast DEF Started, Past
<1>9. \A c, o : Genuine(c, o)' <=> Genuine(c, o)
  BY <1>1, <1>2, <1>4, <1>5, <1>6, <1>8 DEF Genuine
<1>10. ASSUME NEW t \in TxnId, Started(t) PROVE \A o : Present(t, o) => Present(t, o)'
  <2>1. \A i \in 1..(t - 1) : i \in Txns /\ Written(i)' = Written(i)
    BY <1>2, <1>4, <1>6, <1>10
  <2>2. \A i, o : Predecessor(i, t, o)' <=> Predecessor(i, t, o)
    BY <1>7, <1>10
  <2>3. ProxyOf(t)' = ProxyOf(t)
    BY <1>6, <1>10
  <2>4. QED
    BY <1>1, <2>1, <2>2, <2>3 DEF Present
<1>11. StoreOK'
  <2>1. InitialCopy' = InitialCopy
    BY DEF InitialCopy
  <2>2. QED
    BY <1>1, <1>9, <2>1 DEF StoreInv, StoreOK
<1>12. CargoOK'
  <2>1. NoObject' = NoObject
    BY DEF NoObject
  <2>2. QED
    BY <1>1, <1>9, <2>1 DEF StoreInv, CargoOK
<1>13. CommittedOK'
  BY <1>1, <1>6, <1>8, <1>10 DEF StoreInv, CommittedOK
<1>14. PermitsOK'
  BY <1>1, <1>6, <1>8, <1>10 DEF StoreInv, PermitsOK
<1>15. AllArrived'
  <2>1. ASSUME NEW t \in TxnId PROVE Arrived(t)'
    <3>1. Arrived(t)
      BY DEF StoreInv, AllArrived
    <3>2. CASE Started(t)
      BY <1>1, <1>6, <1>10, <3>1, <3>2 DEF Arrived, Past
    <3>3. CASE ~ Started(t)
      BY <1>1, <3>3 DEF Arrived, Past, Started
    <3>4. QED
      BY <3>2, <3>3
  <2>2. QED
    BY <2>1 DEF AllArrived
<1>16. HoldsLast'
  <2>1. ASSUME NEW i \in TxnId, NEW o \in Object, IsLast(i, o)' PROVE (store[ProxyOf(i)][o] = Written(i))'
    <3>1. Started(i) /\ outcome[i] = "success"
      BY <1>1, <1>8, <2>1 DEF IsLast
    <3>2. i \in Txns /\ ProxyOf(i)' = ProxyOf(i) /\ Objects(i)' = Objects(i) /\ Written(i)' = Written(i)
      BY <1>4, <1>6, <3>1
    <3>3. IsLast(i, o)
      BY <1>1, <1>4, <2>1, <3>2 DEF IsLast
    <3>4. QED
      BY <1>1, <3>2, <3>3 DEF StoreInv, HoldsLast
  <2>2. QED
    BY <2>1 DEF HoldsLast
<1>17. AllChecked'
  <2>1. ASSUME NEW t \in TxnId PROVE Checked(t)'
    <3>1. Checked(t)
      BY DEF StoreInv, AllChecked
    <3>2. CASE Started(t)
      BY <1>1, <1>6, <1>7, <3>1, <3>2 DEF Checked
    <3>3. CASE ~ Started(t)
      BY <1>1, <1>8, <3>3 DEF Checked
    <3>4. QED
      BY <3>2, <3>3
  <2>2. QED
    BY <2>1 DEF AllChecked
<1>18. QED
  BY <1>11, <1>12, <1>13, <1>14, <1>15, <1>16, <1>17 DEF StoreInv

-----------------------------------------------------------------------------
(* The invariant.                                                          *)

\* The invariant on copies holds at the start.
LEMMA StoreInit == PXInit => StoreInv
<1> SUFFICES ASSUME PXInit PROVE StoreInv
  OBVIOUS
<1>1. /\ stage = [t \in TxnId |-> "none"] /\ outcome = [t \in TxnId |-> "pending"]
      /\ store = [p \in Proxy |-> [o \in Object |-> InitialCopy]]
      /\ permits = [p \in Proxy |-> {}] /\ network = {} /\ installing = {}
  BY DEF PXInit
<1>2. \A t \in TxnId : stage[t] = "none" /\ outcome[t] = "pending"
  BY <1>1
<1>3. StoreOK /\ CargoOK /\ CommittedOK /\ PermitsOK
  BY <1>1 DEF StoreOK, CargoOK, CommittedOK, PermitsOK
<1>4. AllArrived /\ AllChecked
  BY <1>2 DEF AllArrived, Arrived, AllChecked, Checked, Past
<1>5. HoldsLast
  BY <1>2 DEF HoldsLast, IsLast
<1>6. QED
  BY <1>3, <1>4, <1>5 DEF StoreInv

\* Nothing happens.
LEMMA StoreUnchanged ==
    ASSUME NotifyInv, StoreInv, UNCHANGED pxVars
    PROVE  StoreInv'
<1>1. UNCHANGED <<inputVars, txnVars, store>> /\ UNCHANGED <<permits, network, installing>>
  BY DEF pxVars, controllerVars, migrationVars
<1>2. Base /\ stage' = stage
  BY <1>1, TxnsRest DEF NotifyInv
<1>3. NewCommitted /\ NewPermits
  BY <1>1, <1>2, NothingNew DEF NoPermitGiven, Started
<1>4. NewCargo
  BY <1>1 DEF NewCargo
<1>5. QED
  BY <1>1, <1>2, <1>3, <1>4, StoreRested

\* Every step keeps the invariant on copies.
LEMMA StoreStep ==
    ASSUME NotifyInv, StoreInv, [PXNext]_pxVars
    PROVE  StoreInv'
<1>1. CASE Primary
  BY <1>1, PrimaryStores
<1>2. ASSUME NEW t \in TxnId, TxnStep(t) PROVE StoreInv'
  BY <1>2, HandlePrimaryStores, GetStores, AwaitStores, CheckStores, ExecuteStores, NotifyStores,
     CollectStores DEF TxnStep
<1>3. CASE MigrationStep
  BY <1>3, HandleRequestStores, HandleReplyStores, AwaitProducerStores, ReplyStores, CommitStores,
     NotifyMigratedStores DEF MigrationStep
<1>4. CASE UNCHANGED pxVars
  BY <1>4, StoreUnchanged
<1>5. QED
  BY <1>1, <1>2, <1>3, <1>4 DEF PXNext, Finished

(***************************************************************************)
(* What is needed is there before anybody acts on it, and the last copy of *)
(* an object stays where it was written.                                   *)
(***************************************************************************)
THEOREM StoreInvariant == PXSpec => [](NotifyInv /\ StoreInv)
<1>1. PXInit => StoreInv
  BY StoreInit
<1>2. NotifyInv /\ StoreInv /\ [PXNext]_pxVars => StoreInv'
  BY StoreStep
<1>3. PXSpec => []NotifyInv
  BY NotifyInvariant
<1>4. QED
  BY <1>1, <1>2, <1>3, PTL DEF PXSpec

-----------------------------------------------------------------------------
(* What it means for the copies.                                           *)

\* A version of an object has one content.
LEMMA OneContent ==
    ASSUME NotifyInv, StoreInv, NEW p \in Proxy, NEW q \in Proxy, NEW o \in Object,
           store[p][o].version = store[q][o].version
    PROVE  store[p][o] = store[q][o]
<1>1. VAInv
  BY DEF NotifyInv, Base, Shapes
<1>2. PICK c, d : c = store[p][o] /\ d = store[q][o]
  OBVIOUS
<1>3. /\ (c = InitialCopy /\ c.version = 2) \/ (Genuine(c, o) /\ c.version > 2)
      /\ (d = InitialCopy /\ d.version = 2) \/ (Genuine(d, o) /\ d.version > 2)
  BY <1>1, <1>2, StoreVersions DEF StoreInv
<1>4. CASE Genuine(c, o) /\ Genuine(d, o)
  <2>1. PICK i \in Txns : o \in Objects(i) /\ c = Written(i)
    BY <1>4 DEF Genuine
  <2>2. PICK j \in Txns : o \in Objects(j) /\ d = Written(j)
    BY <1>4 DEF Genuine
  <2>3. c.version = Produced(i) /\ d.version = Produced(j)
    BY <2>1, <2>2 DEF Written, Produced
  <2>4. i = j
    BY <1>1, <1>2, <2>1, <2>2, <2>3, OneProducer
  <2>5. QED
    BY <1>2, <2>1, <2>2, <2>4
<1>5. QED
  BY <1>2, <1>3, <1>4

(***************************************************************************)
(* Two proxies that hold the same version of an object hold the same       *)
(* content.                                                                *)
(***************************************************************************)
THEOREM CopiesAlwaysAgree == PXSpec => []CopiesAgree
<1>1. NotifyInv /\ StoreInv => CopiesAgree
  <2>1. ASSUME NotifyInv, StoreInv, NEW p \in Proxy, NEW q \in Proxy, NEW o \in Object,
               store[p][o].version = store[q][o].version
        PROVE  store[p][o] = store[q][o]
    BY <2>1, OneContent
  <2>2. QED
    BY <2>1, Zenon DEF CopiesAgree
<1>2. QED
  BY <1>1, StoreInvariant, PTL

\* While t is pending no copy of what it reads is newer than that.
LEMMA NoneNewer ==
    ASSUME NotifyInv, StoreInv, NEW t \in Txns, outcome[t] = "pending", NEW o \in Objects(t),
           NEW p \in Proxy
    PROVE  store[p][o].version <= assigned[t][o]
<1>1. VAInv
  BY DEF NotifyInv, Base, Shapes
<1>2. o \in Object /\ assigned[t][o] \in Nat /\ assigned[t][o] >= 2 /\ t \in Nat
  BY <1>1, Order, Constants
<1>3. CASE Genuine(store[p][o], o)
  <2>1. PICK i \in Txns : o \in Objects(i) /\ outcome[i] = "success" /\ store[p][o] = Written(i)
    BY <1>3 DEF Genuine
  <2>2. store[p][o].version = Produced(i) /\ i \in Nat
    BY <1>1, <2>1, Order DEF Written, Produced
  <2>3. i < t
    BY <1>2, <2>1, <2>2, NobodyAfter
  <2>4. QED
    BY <1>1, <2>1, <2>2, <2>3, Order
<1>4. QED
  BY <1>1, <1>2, <1>3, StoreVersions DEF StoreInv

\* Executing makes the copies newer.
LEMMA ExecuteMovesForward ==
    ASSUME NotifyInv, StoreInv, NEW t \in TxnId, ExecuteTxn(t), NEW q \in Proxy, NEW o \in Object
    PROVE  store'[q][o].version >= store[q][o].version
<1>1. stage[t] = "execute" /\ store' = commit_objects(ProxyOf(t), [r \in Objects(t) |-> Written(t)])
  BY DEF ExecuteTxn
<1>2. Base /\ Started(t) /\ StageOK(t)
  BY <1>1 DEF NotifyInv, Base, Started, StagesOK
<1>3. t \in Txns /\ ProxyOf(t) \in Proxy /\ outcome[t] = "pending" /\ VAInv
  BY <1>1, <1>2, StartedFacts DEF StageOK, Base, Shapes
<1>4. Written(t) \in Copy /\ Written(t).version = Produced(t) /\ Produced(t) \in Nat
  BY <1>3, Order, Constants DEF Copy, Written, Produced
<1>5. store'[q][o] = IF q = ProxyOf(t) /\ o \in Objects(t) THEN Written(t) ELSE store[q][o]
  BY <1>1, <1>3, <1>4, CommitFacts DEF NotifyInv, StoreTyped
<1>6. store[q][o].version \in Nat
  BY Constants DEF NotifyInv, StoreTyped, Copy
<1>7. CASE o \in Objects(t)
  <2>1. assigned[t][o] \in Nat /\ assigned[t][o] < Produced(t)
    BY <1>3, <1>7, Order, Constants
  <2>2. store[q][o].version <= assigned[t][o]
    BY <1>3, <1>7, NoneNewer
  <2>3. QED
    BY <1>4, <1>5, <1>6, <2>1, <2>2
<1>8. QED
  BY <1>5, <1>6, <1>7

\* So does installing what was fetched, although nothing is compared.
LEMMA CommitMovesForward ==
    ASSUME NotifyInv, StoreInv, NEW i \in installing, CommitMigrated(i), NEW q \in Proxy, NEW x \in Object
    PROVE  store'[q][x].version >= store[q][x].version
<1>1. PICK t \in TxnId, o \in Object : InstallFor(i, t, o)
  BY DEF NotifyInv, Moves
<1>2. PICK p, c, v : p = ProxyOf(t) /\ c = i.object /\ v = assigned[t][o]
  OBVIOUS
<1>3. SentFor(t, o) /\ c \in Copy /\ c.version = v /\ i.at = p /\ i.object_id = o
  BY <1>1, <1>2 DEF InstallFor
<1>4. Base /\ p \in Proxy /\ t \in Txns /\ o \in Objects(t) /\ v \in Version
  BY <1>2, <1>3, SentFacts DEF NotifyInv
<1>5. outcome[t] = "pending"
  <2>1. IsMoving(o, v, "installing", i)
    BY <1>2, <1>3 DEF IsMoving
  <2>2. ~ Past(t)
    BY <1>2, <1>4, <2>1 DEF NotifyInv, InOrder, WaitsOut, Ready, NoMove
  <2>3. QED
    BY <1>4, <2>2, DecidedIsPast
<1>6. store'[q][x] = IF q = p /\ x = o THEN c ELSE store[q][x]
  <2>1. DOMAIN Single(o, c) = {o} /\ Single(o, c)[o] = c
    BY DEF Single
  <2>2. PICK new : new = Single(o, c)
    OBVIOUS
  <2>3. store' = commit_objects(p, new) /\ \A y \in DOMAIN new : new[y] \in Copy
    BY <1>2, <1>3, <2>1, <2>2 DEF CommitMigrated
  <2>4. store'[q][x] = IF q = p /\ x \in DOMAIN new THEN new[x] ELSE store[q][x]
    BY <1>4, <2>3, CommitFacts DEF NotifyInv, StoreTyped
  <2>5. QED
    BY <2>1, <2>2, <2>4
<1>7. store[q][x].version \in Nat
  BY Constants DEF NotifyInv, StoreTyped, Copy
<1>8. CASE x = o
  <2>1. store[q][o].version <= v /\ v \in Nat
    BY <1>2, <1>4, <1>5, NoneNewer, Constants
  <2>2. QED
    BY <1>3, <1>6, <1>7, <1>8, <2>1
<1>9. QED
  BY <1>6, <1>7, <1>8

\* Nothing else writes to a store.
LEMMA OthersLeaveStores ==
    ASSUME [PXNext]_pxVars
    PROVE  \/ store' = store
           \/ \E t \in TxnId : ExecuteTxn(t)
           \/ \E i \in installing : CommitMigrated(i)
<1>1. CASE UNCHANGED pxVars
  BY <1>1 DEF pxVars
<1>2. CASE Primary
  BY <1>2 DEF Primary
<1>3. ASSUME NEW t \in TxnId, TxnStep(t), ~ ExecuteTxn(t) PROVE store' = store
  BY <1>3 DEF TxnStep, HandlePrimaryMessage, GetDependencies, AwaitPrior, CheckTxn, NotifyAndReport,
              CollectResult
<1>4. ASSUME MigrationStep, ~ \E i \in installing : CommitMigrated(i) PROVE store' = store
  BY <1>4 DEF MigrationStep, HandleStatefulRequest, HandleStatefulReply, AwaitProducer, ReplyStateful,
              NotifyMigrated
<1>5. QED
  BY <1>1, <1>2, <1>3, <1>4 DEF PXNext, Finished

(***************************************************************************)
(* No proxy's copy ever goes back to an older version.                     *)
(***************************************************************************)
THEOREM StoresMoveForward == PXSpec => StoreMovesForward
<1>1. ASSUME NotifyInv, StoreInv, [PXNext]_pxVars
      PROVE  [\A p \in Proxy, o \in Object : store'[p][o].version >= store[p][o].version]_store
  BY <1>1, OthersLeaveStores, ExecuteMovesForward, CommitMovesForward
<1>2. QED
  BY <1>1, StoreInvariant, PTL DEF PXSpec, StoreMovesForward

-----------------------------------------------------------------------------
(* The proxies implement the serial database.                              *)

\* w is what the order and the outcomes say was written to o last.
LastWritten(o, w) ==
    \/ IsLast(w, o)
    \/ w = 0 /\ \A i \in Txns : o \in Objects(i) => outcome[i] # "success"

\* That is one transaction.
LEMMA OneLast ==
    ASSUME VAInv, NEW o, NEW v, NEW w, LastWritten(o, v), LastWritten(o, w)
    PROVE  v = w
<1>1. \A i \in Txns : i \in Nat
  BY Order
<1>2. CASE IsLast(v, o) /\ IsLast(w, o)
  BY <1>1, <1>2 DEF IsLast
<1>3. QED
  BY <1>2 DEF LastWritten, IsLast

\* Some proxy has the newest copy, ...
LEMMA NewestExists ==
    ASSUME NotifyInv, NEW o \in Object
    PROVE  \E p \in Proxy : \A q \in Proxy : store[q][o].version <= store[p][o].version
<1> DEFINE T == {store[p][o].version : p \in Proxy}
<1>1. \A p \in Proxy : store[p][o].version \in 0..(2 + MaxTxns)
  BY Constants DEF NotifyInv, StoreTyped, Copy
<1>2. T \subseteq 0..(2 + MaxTxns) /\ T # {} /\ 2 + MaxTxns \in Nat
  BY <1>1, Constants
<1>3. \A q \in Proxy : store[q][o].version \in T
  OBVIOUS
<1>4. \A m \in T : \E p \in Proxy : m = store[p][o].version
  OBVIOUS
<1> HIDE DEF T
<1>5. PICK m \in T : \A x \in T : m >= x
  BY <1>2, BoundedSetHasMax
<1>6. PICK p \in Proxy : m = store[p][o].version
  BY <1>4
<1>7. \A q \in Proxy : store[q][o].version <= store[p][o].version
  BY <1>1, <1>3, <1>5, <1>6
<1>8. QED
  BY <1>7

\* ... and whoever has it has the content of the database.
LEMMA NewestIsLatest ==
    ASSUME NotifyInv, StoreInv, NEW o \in Object, NEW p \in Proxy,
           \A q \in Proxy : store[q][o].version <= store[p][o].version
    PROVE  LatestWriter(o) = store[p][o].writer
<1>1. PICK n : n = CHOOSE r \in Proxy : \A q \in Proxy : store[q][o].version <= store[r][o].version
  OBVIOUS
<1>2. n \in Proxy /\ \A q \in Proxy : store[q][o].version <= store[n][o].version
  BY <1>1
<1>3. LatestWriter(o) = store[n][o].writer
  BY <1>1 DEF LatestWriter
<1>4. store[n][o].version \in Nat /\ store[p][o].version \in Nat
  BY <1>2, Constants DEF NotifyInv, StoreTyped, Copy
<1>5. store[n][o].version = store[p][o].version
  BY <1>2, <1>4
<1>6. store[n][o] = store[p][o]
  BY <1>2, <1>5, OneContent
<1>7. QED
  BY <1>3, <1>6

\* The newest copy is the one that the last successful transaction wrote.
LEMMA LatestIsLast ==
    ASSUME NotifyInv, StoreInv, NEW o \in Object
    PROVE  LastWritten(o, LatestWriter(o))
<1>1. Base /\ VAInv
  BY DEF NotifyInv, Base, Shapes
<1>2. Txns \subseteq TxnId /\ \A i \in Txns : i \in Nat
  BY <1>1, Order
<1>3. CASE \A i \in Txns : o \in Objects(i) => outcome[i] # "success"
  <2>1. PICK p \in Proxy : \A q \in Proxy : store[q][o].version <= store[p][o].version
    BY NewestExists
  <2>2. LatestWriter(o) = store[p][o].writer
    BY <2>1, NewestIsLatest
  <2>3. store[p][o] = InitialCopy
    BY <1>3 DEF StoreInv, StoreOK, Genuine
  <2>4. QED
    BY <1>3, <2>2, <2>3 DEF LastWritten, InitialCopy
<1>4. CASE \E i \in Txns : o \in Objects(i) /\ outcome[i] = "success"
  <2> DEFINE T == {i \in Txns : o \in Objects(i) /\ outcome[i] = "success"}
  <2>1. T \subseteq 0..MaxTxns /\ T # {} /\ MaxTxns \in Nat
    <3>1. T \subseteq Txns /\ T # {}
      BY <1>4
    <3>2. TxnId \subseteq 0..MaxTxns /\ MaxTxns \in Nat
      BY Constants
    <3>3. QED
      BY <1>2, <3>1, <3>2
  <2>2. \A i : i \in T <=> i \in Txns /\ o \in Objects(i) /\ outcome[i] = "success"
    OBVIOUS
  <2> HIDE DEF T
  <2>3. PICK i \in T : \A x \in T : i >= x
    BY <2>1, BoundedSetHasMax
  <2>4. i \in Txns /\ o \in Objects(i) /\ outcome[i] = "success" /\ i \in TxnId /\ i \in Nat
    BY <1>2, <2>2, <2>3
  <2>5. ASSUME NEW k \in Txns, k > i, o \in Objects(k) PROVE outcome[k] # "success"
    BY <1>2, <2>2, <2>3, <2>4, <2>5
  <2>6. IsLast(i, o)
    BY <2>4, <2>5 DEF IsLast
  <2>7. PICK p : p = ProxyOf(i)
    OBVIOUS
  <2>8. p \in Proxy /\ store[p][o] = Written(i)
    <3>1. Started(i)
      BY <1>1, <2>4, DecidedIsPast
    <3>2. QED
      BY <1>1, <2>4, <2>6, <2>7, <3>1, StartedFacts DEF StoreInv, HoldsLast
  <2>9. store[p][o].version = Produced(i) /\ store[p][o].writer = i /\ Produced(i) \in Nat /\ Produced(i) > 2
    BY <1>1, <2>4, <2>8, Order, Constants DEF Written, Produced
  <2>10. ASSUME NEW q \in Proxy PROVE store[q][o].version <= store[p][o].version
    <3>1. CASE Genuine(store[q][o], o)
      <4>1. PICK j \in Txns : o \in Objects(j) /\ outcome[j] = "success" /\ store[q][o] = Written(j)
        BY <3>1 DEF Genuine
      <4>2. store[q][o].version = Produced(j) /\ j \in T
        BY <2>2, <4>1 DEF Written, Produced
      <4>3. j = i \/ j < i
        BY <1>2, <2>3, <2>4, <4>1, <4>2
      <4>4. CASE j < i
        <5>1. Produced(j) <= assigned[i][o] /\ assigned[i][o] < Produced(i)
              /\ assigned[i][o] \in Nat /\ Produced(j) \in Nat
          BY <1>1, <2>4, <4>1, <4>4, Order, Constants
        <5>2. QED
          BY <2>9, <4>2, <5>1
      <4>5. QED
        BY <2>9, <4>2, <4>3, <4>4
    <3>2. QED
      BY <1>1, <2>9, <3>1, StoreVersions DEF StoreInv
  <2>11. LatestWriter(o) = i
    BY <2>8, <2>9, <2>10, NewestIsLatest
  <2>12. QED
    BY <2>6, <2>11 DEF LastWritten
<1>5. QED
  BY <1>3, <1>4

DatabaseKnown == \A o \in Object : LastWritten(o, LatestWriter(o))

\* The same for all objects, in a form that can be primed.
LEMMA DatabaseIsKnown == NotifyInv /\ StoreInv => DatabaseKnown
BY LatestIsLast DEF DatabaseKnown

\* The same for the state after a step.
LEMMA LatestIsLastNext ==
    ASSUME NotifyInv', StoreInv', NEW o \in Object, NEW w, w = LatestWriter(o)'
    PROVE  LastWritten(o, w)'
<1>1. DatabaseKnown'
  BY DatabaseIsKnown, PTL
<1>2. QED
  BY <1>1 DEF DatabaseKnown, LastWritten, IsLast

\* Nothing was written to o.
LEMMA SameDatabase ==
    ASSUME NotifyInv, StoreInv, NotifyInv', StoreInv', NEW o \in Object,
           \A w : LastWritten(o, w)' => LastWritten(o, w)
    PROVE  LatestWriter(o)' = LatestWriter(o)
<1>1. PICK v, w : v = LatestWriter(o) /\ w = LatestWriter(o)'
  OBVIOUS
<1>2. LastWritten(o, v)
  BY <1>1, LatestIsLast
<1>3. LastWritten(o, w)'
  BY <1>1, LatestIsLastNext
<1>4. VAInv
  BY DEF NotifyInv, Base, Shapes
<1>5. v = w
  BY <1>2, <1>3, <1>4, OneLast
<1>6. QED
  BY <1>1, <1>5

\* Nobody succeeds: the database rests.
LEMMA NobodyWrites ==
    ASSUME NotifyInv, StoreInv, NotifyInv', StoreInv', UNCHANGED inputVars,
           \A u \in TxnId : outcome'[u] = "success" <=> outcome[u] = "success"
    PROVE  \A o \in Object : LatestWriter(o)' = LatestWriter(o)
<1>1. Base /\ VAInv
  BY DEF NotifyInv, Base, Shapes
<1>2. Txns' = Txns /\ Txns \subseteq TxnId /\ \A t : Objects(t)' = Objects(t)
  BY <1>1, InputsKept, Order
<1>3. \A w, o : LastWritten(o, w)' => LastWritten(o, w)
  BY <1>2 DEF LastWritten, IsLast
<1>4. QED
  BY <1>3, SameDatabase

\* The names of the serial database mean the same here.
LEMMA SerialNames ==
    /\ Serial!Txns = Txns /\ Serial!TxnId = TxnId
    /\ \A t : Serial!Objects(t) = Objects(t)
    /\ \A i, t : Serial!Conflicts(i, t) <=> Conflicts(i, t)
    /\ \A i, t, o : Serial!Predecessor(i, t, o) <=> Predecessor(i, t, o)
<1>1. Serial!Txns = Txns /\ Serial!TxnId = TxnId /\ \A t : Serial!Objects(t) = Objects(t)
  BY DEF Serial!Txns, Txns, Serial!TxnId, TxnId, Serial!Objects, Objects
<1>2. \A i, t : Serial!Conflicts(i, t) <=> Conflicts(i, t)
  BY <1>1 DEF Serial!Conflicts, Conflicts
<1>3. \A i, t, o : Serial!Predecessor(i, t, o) <=> Predecessor(i, t, o)
  BY <1>1 DEF Serial!Predecessor, Predecessor, Serial!NoneBetween, NoneBetween
<1>4. QED
  BY <1>1, <1>2, <1>3

\* The serial database computes versions as the proxies do.
LEMMA SerialVersions ==
    /\ \A o : Serial!CurrentVersion(o) = CurrentVersion(o)
    /\ \A required : Serial!NextVersion(required) = NextVersion(required)
<1>1. Serial!InitialVersion = InitialVersion /\ Serial!Absent = Absent
  BY DEF InitialVersion, Serial!InitialVersion, Absent, Serial!Absent
<1>2. /\ \A required : Serial!Range(required) = Range(required)
      /\ \A T : Serial!Max(T) = Max(T)
  BY DEF Serial!Range, Range, Serial!Max, Max
<1>3. QED
  BY <1>1, <1>2 DEF CurrentVersion, Serial!CurrentVersion, NextVersion, Serial!NextVersion

\* One that has waited for everything is next.
LEMMA ReadyIsNext ==
    ASSUME NotifyInv, NEW t \in Txns, outcome[t] = "pending", \A o \in Objects(t) : Settled(t, o)
    PROVE  Serial!IsNext(t)
<1>1. Base /\ VAInv
  BY DEF NotifyInv, Base, Shapes
<1>2. ASSUME NEW i \in 1..(t - 1), Conflicts(i, t) PROVE outcome[i] # "pending"
  <2>1. PICK o \in Objects(t) : o \in Objects(i)
    BY <1>2 DEF Conflicts
  <2>2. Through(i)
    BY <1>2, <2>1 DEF Settled
  <2>3. i \in TxnId
    BY <1>1, <1>2, Order, Constants
  <2>4. QED
    BY <1>1, <2>2, <2>3, DecidedIsPast
<1>3. QED
  BY <1>2, SerialNames DEF Serial!IsNext

\* What a transaction finds in the store of its proxy when its turn has come.
LEMMA FindsLast ==
    ASSUME NotifyInv, StoreInv, NEW t \in Txns, outcome[t] = "pending", NEW o \in Objects(t),
           Settled(t, o), Present(t, o), ProxyOf(t) \in Proxy
    PROVE  \/ \E i \in 1..(t - 1) : Predecessor(i, t, o) /\ outcome[i] = "skipped"
           \/ /\ LastWritten(o, store[ProxyOf(t)][o].writer)
              /\ store[ProxyOf(t)][o].version = assigned[t][o]
<1>1. Base /\ VAInv
  BY DEF NotifyInv, Base, Shapes
<1>2. t \in Nat /\ o \in Object /\ Txns \subseteq TxnId /\ \A i \in Txns : i \in Nat /\ i >= 1
  BY <1>1, Order
<1>3. CASE NoneBetween(0, t, o)
  <2>1. ASSUME NEW i \in Txns, o \in Objects(i) PROVE outcome[i] # "success"
    <3>1. i >= t
      BY <1>2, <1>3, <2>1 DEF NoneBetween
    <3>2. QED
      BY <2>1, <3>1, NobodyAfter
  <2>2. store[ProxyOf(t)][o] = InitialCopy
    BY <1>2, <2>1 DEF StoreInv, StoreOK, Genuine
  <2>3. assigned[t][o] = 2
    BY <1>1, <1>3, ReadsProduced
  <2>4. QED
    BY <2>1, <2>2, <2>3, Constants DEF LastWritten, InitialCopy
<1>4. CASE ~ NoneBetween(0, t, o)
  <2>1. PICK i \in 1..(t - 1) : Predecessor(i, t, o)
    BY <1>1, <1>4, ReadsProduced
  <2>2. i \in Txns /\ o \in Objects(i) /\ assigned[t][o] = Produced(i) /\ i \in TxnId
    BY <1>1, <1>2, <2>1, ReadsProduced
  <2>3. outcome[i] # "pending"
    <3>1. Through(i)
      BY <2>1, <2>2 DEF Settled
    <3>2. QED
      BY <1>1, <2>2, <3>1, DecidedIsPast
  <2>4. CASE outcome[i] = "success"
    <3>1. store[ProxyOf(t)][o] = Written(i)
      BY <2>1, <2>4 DEF Present
    <3>2. IsLast(i, o)
      BY <2>1, <2>4, LastBefore
    <3>3. Written(i).writer = i /\ Written(i).version = Produced(i)
      BY DEF Written, Produced
    <3>4. QED
      BY <2>2, <3>1, <3>2, <3>3 DEF LastWritten
  <2>5. QED
    BY <1>1, <2>1, <2>2, <2>3, <2>4 DEF Base, Shapes
<1>5. QED
  BY <1>3, <1>4

\* A transaction executes, and so does the database.
LEMMA ExecuteRefines ==
    ASSUME NotifyInv, StoreInv, NotifyInv', StoreInv', NEW t \in TxnId, ExecuteTxn(t)
    PROVE  Serial!Execute(t)
<1>0. PICK p : p = ProxyOf(t)
  OBVIOUS
<1>1. /\ stage[t] = "execute"
      /\ reads' = [reads EXCEPT ![t] = [o \in Objects(t) |-> store[p][o].writer]]
      /\ outcome' = [outcome EXCEPT ![t] = "success"]
      /\ UNCHANGED inputVars
  BY <1>0 DEF ExecuteTxn
<1>2. Base /\ Shapes /\ Started(t) /\ Past(t) /\ StageOK(t)
  BY <1>1 DEF NotifyInv, Base, Started, Past, StagesOK
<1>3. /\ t \in Txns /\ p \in Proxy /\ VAInv /\ outcome[t] = "pending" /\ Objects(t) \subseteq Object
      /\ Txns \subseteq TxnId /\ t \in Nat
  BY <1>0, <1>1, <1>2, StartedFacts, Order DEF StageOK, Shapes
<1>4. Txns' = Txns /\ \A u : Objects(u)' = Objects(u)
  BY <1>1, <1>2, InputsKept
<1>5. outcome'[t] = "success" /\ \A u \in TxnId : u # t => outcome'[u] = outcome[u]
  BY <1>1, <1>2 DEF Shapes
<1>6. \A o \in Objects(t) : Settled(t, o) /\ Present(t, o)
  BY <1>2 DEF NotifyInv, InOrder, WaitsOut, Ready, StoreInv, AllArrived, Arrived
<1>7. Serial!IsNext(t)
  BY <1>3, <1>6, ReadyIsNext
<1>8. t \notin invalid /\ \A o \in Objects(t) : \A i \in 1..(t - 1) : Predecessor(i, t, o) => outcome[i] = "success"
  BY <1>1 DEF StoreInv, AllChecked, Checked
<1>9. ~ Serial!MissingState(t)
  BY <1>8, SerialNames DEF Serial!MissingState
<1>10. ASSUME NEW o \in Objects(t) PROVE store[p][o].writer = LatestWriter(o)
  <2>1. LastWritten(o, store[p][o].writer)
    <3>1. ~ \E i \in 1..(t - 1) : Predecessor(i, t, o) /\ outcome[i] = "skipped"
      BY <1>8, <1>10
    <3>2. QED
      BY <1>0, <1>3, <1>6, <1>10, <3>1, FindsLast
  <2>2. LastWritten(o, LatestWriter(o))
    BY <1>3, <1>10, LatestIsLast
  <2>3. QED
    BY <1>3, <2>1, <2>2, OneLast
<1>11. ASSUME NEW o \in Objects(t) PROVE LatestWriter(o)' = t
  <2>1. PICK w : w = LatestWriter(o)'
    OBVIOUS
  <2>2. LastWritten(o, w)'
    BY <1>3, <1>11, <2>1, LatestIsLastNext
  <2>3. /\ w \in Txns /\ o \in Objects(w) /\ outcome'[w] = "success"
        /\ \A k \in Txns : k > w /\ o \in Objects(k) => outcome'[k] # "success"
    BY <1>3, <1>4, <1>5, <1>11, <2>2 DEF LastWritten, IsLast
  <2>4. w \in Nat
    BY <1>3, <2>3, Order
  <2>5. w >= t
    BY <1>3, <1>5, <1>11, <2>3, <2>4
  <2>6. outcome[w] # "success"
    BY <1>3, <1>11, <2>3, <2>5, NobodyAfter
  <2>7. QED
    BY <1>3, <1>5, <2>1, <2>3, <2>6
<1>12. ASSUME NEW o \in Object, o \notin Objects(t) PROVE LatestWriter(o)' = LatestWriter(o)
  <2>1. \A w : LastWritten(o, w)' => LastWritten(o, w)
    BY <1>3, <1>4, <1>5, <1>12 DEF LastWritten, IsLast
  <2>2. QED
    BY <2>1, SameDatabase
<1>13. [o \in Objects(t) |-> store[p][o].writer] = [o \in Objects(t) |-> [r \in Object |-> LatestWriter(r)][o]]
  BY <1>3, <1>10
<1>14. [o \in Object |-> LatestWriter(o)]' =
          [o \in Object |-> IF o \in Objects(t) THEN t ELSE [r \in Object |-> LatestWriter(r)][o]]
  BY <1>11, <1>12
<1>15. UNCHANGED <<shared_object_versions, assigned, invalid>>
  BY <1>1 DEF inputVars, orVars, vaVars
<1>16. QED
  BY <1>1, <1>7, <1>8, <1>9, <1>13, <1>14, <1>15, SerialNames DEF Serial!Execute, Serial!vaVars

\* What the database keeps, and that it keeps it.
LEMMA DatabaseRests ==
    ASSUME NotifyInv, StoreInv, NotifyInv', StoreInv', UNCHANGED <<inputVars, outcome, reads>>
    PROVE  UNCHANGED Serial!seVars
<1>1. \A o \in Object : LatestWriter(o)' = LatestWriter(o)
  BY NobodyWrites
<1>2. [o \in Object |-> LatestWriter(o)]' = [o \in Object |-> LatestWriter(o)]
  BY <1>1
<1>3. UNCHANGED <<shared_object_versions, assigned, invalid, outcome, reads>>
  BY DEF inputVars, orVars, vaVars
<1>4. QED
  BY <1>2, <1>3 DEF Serial!seVars, Serial!vaVars

\* A transaction is let through, or the database skips it too.
LEMMA CheckRefines ==
    ASSUME NotifyInv, StoreInv, NotifyInv', StoreInv', NEW t \in TxnId, CheckTxn(t)
    PROVE  Serial!Skip(t) \/ UNCHANGED Serial!seVars
<1>1. stage[t] = "await" /\ awaiting[t] = {} /\ UNCHANGED <<inputVars, reads>>
  BY DEF CheckTxn
<1>2. CASE t \notin invalid /\ pre_execute_check(t)
  <2>1. outcome' = outcome
    BY <1>2 DEF CheckTxn
  <2>2. QED
    BY <1>1, <2>1, DatabaseRests
<1>3. CASE ~ (t \notin invalid /\ pre_execute_check(t))
  <2>1. outcome' = [outcome EXCEPT ![t] = "skipped"]
    BY <1>3 DEF CheckTxn
  <2>2. Base /\ Shapes /\ Started(t) /\ StageOK(t)
    BY <1>1 DEF NotifyInv, Base, Started, StagesOK
  <2>3. t \in Txns /\ ProxyOf(t) \in Proxy /\ outcome[t] = "pending"
    BY <1>1, <2>2, StartedFacts DEF StageOK
  <2>4. \A o \in Objects(t) : Settled(t, o) /\ Present(t, o)
    BY <1>1 DEF NotifyInv, InOrder, WaitsOut, Ready, StoreInv, AllArrived, Arrived
  <2>5. Serial!IsNext(t)
    BY <2>3, <2>4, ReadyIsNext
  <2>6. t \in invalid \/ Serial!MissingState(t)
    <3>1. CASE t \notin invalid
      <4>1. PICK o \in Objects(t) : store[ProxyOf(t)][o].version # assigned[t][o]
        BY <1>3, <3>1 DEF pre_execute_check
      <4>2. \E i \in 1..(t - 1) : Predecessor(i, t, o) /\ outcome[i] = "skipped"
        BY <2>3, <2>4, <4>1, FindsLast
      <4>3. QED
        BY <4>1, <4>2, SerialNames DEF Serial!MissingState
    <3>2. QED
      BY <3>1
  <2>7. \A u \in TxnId : outcome'[u] = "success" <=> outcome[u] = "success"
    BY <2>1, <2>2, <2>3 DEF Shapes
  <2>8. \A o \in Object : LatestWriter(o)' = LatestWriter(o)
    BY <1>1, <2>7, NobodyWrites
  <2>9. [o \in Object |-> LatestWriter(o)]' = [o \in Object |-> LatestWriter(o)]
    BY <2>8
  <2>10. UNCHANGED <<shared_object_versions, assigned, invalid, reads>>
    BY <1>1 DEF inputVars, orVars, vaVars
  <2>11. QED
    BY <2>1, <2>5, <2>6, <2>9, <2>10 DEF Serial!Skip, Serial!vaVars
<1>4. QED
  BY <1>2, <1>3

\* Consensus orders a transaction; what the primary does with it is not seen.
LEMMA PrimaryRefines ==
    ASSUME NotifyInv, StoreInv, NotifyInv', StoreInv', Primary
    PROVE  [Serial!SENext]_Serial!seVars
<1>1. UNCHANGED <<invalid, outcome, reads>>
  BY DEF Primary, txnVars
<1>2. Base /\ VAInv /\ Txns \subseteq TxnId
  BY Order DEF NotifyInv, Base, Shapes
<1>3. InputsGrow
  BY <1>2, PrimaryGrows
<1>4. \A t \in Txns : t \in Txns' /\ Objects(t)' = Objects(t)
  BY <1>3 DEF InputsGrow, Objects
<1>5. \A t \in TxnId : outcome[t] = "success" => t \in Txns
  BY <1>2, DecidedIsPast, StartedFacts
<1>6. Txns' \subseteq TxnId
  <2>1. VAInv'
    BY <1>3 DEF InputsGrow
  <2>2. VAInv' => (Txns \subseteq TxnId)'
    BY AllNumbered, PTL
  <2>3. TxnId' = TxnId
    BY DEF TxnId
  <2>4. QED
    BY <2>1, <2>2, <2>3
<1>7. \A o, w : LastWritten(o, w)' => LastWritten(o, w)
  BY <1>1, <1>2, <1>4, <1>5, <1>6 DEF LastWritten, IsLast
<1>8. \A o \in Object : LatestWriter(o)' = LatestWriter(o)
  BY <1>7, SameDatabase
<1>9. [o \in Object |-> LatestWriter(o)]' = [o \in Object |-> LatestWriter(o)]
  BY <1>8
<1>10. CASE \E t \in TxnId, p \in Proxy : Forward(t, p)
  <2>1. UNCHANGED vaVars
    BY <1>10 DEF Forward
  <2>2. UNCHANGED <<shared_object_versions, assigned, invalid, outcome, reads>>
    BY <1>1, <2>1 DEF vaVars
  <2>3. QED
    BY <1>9, <2>2 DEF Serial!seVars, Serial!vaVars
<1>11. CASE \E S \in SUBSET Object : AssignSharedObjectVersions(S) /\ UNCHANGED forwarded
  <2>1. PICK S \in SUBSET Object : AssignSharedObjectVersions(S)
    BY <1>11
  <2>2. Serial!AssignSharedObjectVersions(S)
    BY <2>1, SerialVersions DEF AssignSharedObjectVersions, Serial!AssignSharedObjectVersions
  <2>3. Serial!SENext
    BY <1>1, <1>9, <2>2 DEF Serial!SENext
  <2>4. QED
    BY <2>3
<1>12. QED
  BY <1>10, <1>11 DEF Primary, ORNext

\* All other steps leave the database alone.
LEMMA OthersRefine ==
    ASSUME NEW t \in TxnId, TxnStep(t), ~ ExecuteTxn(t), ~ CheckTxn(t)
    PROVE  UNCHANGED <<inputVars, outcome, reads>>
BY DEF TxnStep, HandlePrimaryMessage, GetDependencies, AwaitPrior, NotifyAndReport, CollectResult

\* Requests, replies and installations are invisible to the serial database.
LEMMA MigrationRefines ==
    ASSUME MigrationStep
    PROVE  UNCHANGED <<inputVars, outcome, reads>>
<1>1. UNCHANGED <<inputVars, txnVars>>
  BY DEF MigrationStep, HandleStatefulRequest, HandleStatefulReply, AwaitProducer, ReplyStateful,
         CommitMigrated, NotifyMigrated
<1>2. QED
  BY <1>1 DEF txnVars

\* Every step of the proxies is a step of the database or leaves it alone.
LEMMA StepRefines ==
    ASSUME NotifyInv, StoreInv, NotifyInv', StoreInv', [PXNext]_pxVars
    PROVE  [Serial!SENext]_Serial!seVars
<1>1. CASE Primary
  BY <1>1, PrimaryRefines
<1>2. ASSUME NEW t \in TxnId, TxnStep(t) PROVE [Serial!SENext]_Serial!seVars
  <2>1. CASE ExecuteTxn(t)
    <3>1. Serial!Execute(t)
      BY <2>1, ExecuteRefines
    <3>2. QED
      BY <3>1, SerialNames DEF Serial!SENext
  <2>2. CASE CheckTxn(t)
    <3>1. Serial!Skip(t) \/ UNCHANGED Serial!seVars
      BY <2>2, CheckRefines
    <3>2. QED
      BY <3>1, SerialNames DEF Serial!SENext
  <2>3. CASE ~ ExecuteTxn(t) /\ ~ CheckTxn(t)
    <3>1. UNCHANGED <<inputVars, outcome, reads>>
      BY <1>2, <2>3, OthersRefine
    <3>2. UNCHANGED Serial!seVars
      BY <3>1, DatabaseRests
    <3>3. QED
      BY <3>2
  <2>4. QED
    BY <2>1, <2>2, <2>3
<1>3. CASE MigrationStep
  BY <1>3, MigrationRefines, DatabaseRests
<1>4. CASE UNCHANGED pxVars
  <2>1. UNCHANGED <<inputVars, outcome, reads>>
    BY <1>4 DEF pxVars, txnVars
  <2>2. QED
    BY <2>1, DatabaseRests
<1>5. QED
  BY <1>1, <1>2, <1>3, <1>4 DEF PXNext, Finished

\* The database starts with the initial content of every object.
LEMMA InitRefines == PXInit => Serial!SEInit
<1> SUFFICES ASSUME PXInit PROVE Serial!SEInit
  OBVIOUS
<1>1. NotifyInv /\ StoreInv
  BY NotifyInit, StoreInit
<1>2. \A t \in TxnId : outcome[t] = "pending"
  BY DEF PXInit
<1>3. VAInv /\ Txns \subseteq TxnId
  BY <1>1, Order DEF NotifyInv, Base, Shapes
<1>4. ASSUME NEW o \in Object PROVE LatestWriter(o) = 0
  <2>1. LastWritten(o, LatestWriter(o))
    BY <1>1, LatestIsLast
  <2>2. QED
    BY <1>2, <1>3, <2>1 DEF LastWritten, IsLast
<1>5. [o \in Object |-> LatestWriter(o)] = [o \in Object |-> 0]
  BY <1>4
<1>6. Serial!VAInit
  BY DEF PXInit, ORInit, VAInit, Serial!VAInit, Absent, Serial!Absent
<1>7. QED
  BY <1>5, <1>6, SerialNames DEF PXInit, Serial!SEInit

(***************************************************************************)
(* Together the proxies implement the serial database: whatever the order  *)
(* in which tasks and messages run, what each transaction reads and        *)
(* whether it succeeds is what one database executing them in the          *)
(* consensus order would give.                                             *)
(***************************************************************************)
THEOREM ProxiesAreSerial == PXSpec => SerialRefined
<1>1. PXInit => Serial!SEInit
  BY InitRefines
<1>2. /\ NotifyInv /\ StoreInv /\ NotifyInv' /\ StoreInv'
      /\ [PXNext]_pxVars
      => [Serial!SENext]_Serial!seVars
  BY StepRefines
<1>3. PXSpec => [](NotifyInv /\ StoreInv)
  BY StoreInvariant
<1>4. QED
  BY <1>1, <1>2, <1>3, PTL DEF PXSpec, SerialRefined, Serial!SESpec

-----------------------------------------------------------------------------
(* What is left when all is done.                                          *)

\* Version v of o has been asked for, and the answer has not gone out.
Asked(o, v) == \E x : IsMoving(o, v, "request", x) \/ IsMoving(o, v, "serving", x)

\* A request is open at least until the producer is through.
StillAsked ==
    \A t \in TxnId, o \in Object : SentFor(t, o) /\ ~ Settled(t, o) => Asked(o, assigned[t][o])

\* An entry is there for a producer or a reader of the version ...
UsedBy(p, o, v) ==
    \/ \E i \in TxnId : Registered(i) /\ o \in Objects(i) /\ Produced(i) = v /\ ProxyOf(i) = p
    \/ \E t \in TxnId :
          Started(t) /\ Reads(t, o, v) /\ (ProxyOf(t) = p \/ forwarded[t].owner[o] = p)

\* ... and its reader, if it has started, still needs it.
Unread(p, o, v, t) ==
    Started(t) /\ Reads(t, o, v) => \/ ProxyOf(t) = p /\ ~ Past(t)
                                    \/ ProxyOf(t) # p /\ Asked(o, v)

EntryOK(p, o, v) == UsedBy(p, o, v) /\ \A t \in TxnId : Unread(p, o, v, t)

HasEntry(p, o, v) == obj_task_map[p][<<o, v>>] # NoTask

EntriesUsed == \A p \in Proxy, o \in Object, v \in Version : HasEntry(p, o, v) => EntryOK(p, o, v)

\* The entry for what a transaction produces is not removed until somebody reads it.
KeptFor(i) ==
    \A o \in Objects(i) : HasEntry(ProxyOf(i), o, Produced(i)) \/ \E t \in Txns : Reads(t, o, Produced(i))

EntriesKept == \A i \in TxnId : Registered(i) => KeptFor(i)

\* An empty reply goes back to a skipped transaction.
Skipping == \E i \in TxnId : outcome[i] = "skipped"

EmptyExplained == \A m \in network : m.kind = "reply" /\ m.object = NoObject => Skipping

\* A copy is where it was written, or somebody reads it.
PlacedBy(p, o, i) ==
    /\ o \in Objects(i) /\ outcome[i] = "success" /\ store[p][o] = Written(i)
    /\ ProxyOf(i) = p \/ \E t \in Txns : Reads(t, o, Produced(i))

CopiesPlaced ==
    \A p \in Proxy, o \in Object : store[p][o] = InitialCopy \/ \E i \in Txns : PlacedBy(p, o, i)

TailInv == StillAsked /\ EntriesUsed /\ EntriesKept /\ EmptyExplained /\ CopiesPlaced

-----------------------------------------------------------------------------
(* Steps that take nobody further.                                         *)

\* No request is answered.
AsksKept == \A o \in Object, v \in Version : Asked(o, v) => Asked(o, v)'

NobodyStarts == \A t \in TxnId : Started(t)' => Started(t)

NobodyPasses == \A t \in TxnId : Past(t)' => Past(t)

RegisteredStay == \A t \in TxnId : Registered(t) => Registered(t)'

\* Entries are new for good reason, ...
NewEntries ==
    \A p \in Proxy, o \in Object, v \in Version :
        HasEntry(p, o, v)' => HasEntry(p, o, v) \/ EntryOK(p, o, v)'

\* ... and gone because the version is read.
OldEntries ==
    \A p \in Proxy, o \in Object, v \in Version :
        HasEntry(p, o, v) => HasEntry(p, o, v)' \/ \E t \in Txns : Reads(t, o, v)

NewEmpty == \A m \in network' : m.kind = "reply" /\ m.object = NoObject => m \in network \/ Skipping'

\* Requests stay open.
LEMMA AskedKept ==
    ASSUME Base, StillAsked, Onward, NobodyStarts, AsksKept
    PROVE  StillAsked'
<1>1. ASSUME NEW t \in TxnId, NEW o \in Object, SentFor(t, o)', ~ Settled(t, o)'
      PROVE  Asked(o, assigned[t][o])' 
  <2>1. /\ assigned' = assigned /\ forwarded' = forwarded
        /\ Objects(t)' = Objects(t)
    BY InputsKept DEF Onward
  <2>2. SentFor(t, o)
    BY <1>1, <2>1 DEF SentFor, Fetches, NobodyStarts
  <2>3. ~ Settled(t, o)
    BY <1>1, <2>2, SentKept
  <2>4. PICK v : v = assigned[t][o]
    OBVIOUS
  <2>5. Asked(o, v) /\ v \in Version
    BY <2>2, <2>3, <2>4, SentFacts DEF StillAsked
  <2>6. Asked(o, v)'
    BY <2>5 DEF AsksKept
  <2>7. QED
    BY <2>1, <2>4, <2>6
<1>2. QED
  BY <1>1 DEF StillAsked

\* Who uses an entry keeps using it.
LEMMA UsersStay ==
    ASSUME Base, Onward, RegisteredStay, NEW p, NEW o, NEW v, UsedBy(p, o, v)
    PROVE  UsedBy(p, o, v)'
<1>1. /\ assigned' = assigned /\ forwarded' = forwarded
      /\ \A t : Objects(t)' = Objects(t) /\ Produced(t)' = Produced(t) /\ ProxyOf(t)' = ProxyOf(t)
      /\ \A t, x, w : Reads(t, x, w)' <=> Reads(t, x, w)
  BY InputsKept DEF Onward
<1>2. QED
  BY <1>1 DEF UsedBy, RegisteredStay, Onward

\* Entries stay in use.
LEMMA UsedKept ==
    ASSUME Base, EntriesUsed, Onward, NobodyStarts, NobodyPasses, RegisteredStay, AsksKept, NewEntries
    PROVE  EntriesUsed'
<1>1. /\ \A t : ProxyOf(t)' = ProxyOf(t)
      /\ \A t, x, w : Reads(t, x, w)' <=> Reads(t, x, w)
  BY InputsKept DEF Onward
<1>2. ASSUME NEW p \in Proxy, NEW o \in Object, NEW v \in Version, HasEntry(p, o, v)
      PROVE  EntryOK(p, o, v)'
  <2>1. EntryOK(p, o, v)
    BY <1>2 DEF EntriesUsed
  <2>2. UsedBy(p, o, v)'
    BY <2>1, UsersStay DEF EntryOK
  <2>3. ASSUME NEW t \in TxnId PROVE Unread(p, o, v, t)'
    <3>1. Unread(p, o, v, t)
      BY <2>1 DEF EntryOK
    <3>2. QED
      BY <1>1, <3>1 DEF Unread, NobodyStarts, NobodyPasses, AsksKept
  <2>4. QED
    BY <2>2, <2>3 DEF EntryOK
<1>3. QED
  BY <1>2 DEF EntriesUsed, NewEntries

\* What was produced keeps its entry.
LEMMA EntriesKeptStay ==
    ASSUME Base, EntriesKept, Onward, OldEntries,
           \A i \in TxnId : Registered(i)' => Registered(i) \/ KeptFor(i)'
    PROVE  EntriesKept'
<1>1. /\ Txns' = Txns /\ Txns \subseteq TxnId
      /\ \A t : Objects(t)' = Objects(t) /\ Produced(t)' = Produced(t) /\ ProxyOf(t)' = ProxyOf(t)
      /\ \A t, x, w : Reads(t, x, w)' <=> Reads(t, x, w)
  BY InputsKept, Order DEF Onward
<1>2. ASSUME NEW i \in TxnId, Registered(i) PROVE KeptFor(i)'
  <2>1. Started(i) /\ KeptFor(i)
    BY <1>2 DEF Registered, Started, EntriesKept
  <2>2. i \in Txns /\ ProxyOf(i) \in Proxy /\ VAInv
    BY <2>1, StartedFacts DEF Base, Shapes
  <2>3. Produced(i) \in Version /\ Objects(i) \subseteq Object
    BY <2>2, Order
  <2>4. QED
    BY <1>1, <2>1, <2>2, <2>3 DEF KeptFor, OldEntries, HasEntry
<1>3. QED
  BY <1>2 DEF EntriesKept

\* Who was skipped stays so.
SkippedStay == \A i \in TxnId : outcome[i] = "skipped" => outcome'[i] = "skipped"

\* Empty replies stay explained.
LEMMA EmptyKept ==
    ASSUME EmptyExplained, NewEmpty, SkippedStay
    PROVE  EmptyExplained'
BY DEF EmptyExplained, NewEmpty, SkippedStay, Skipping, NoObject

SucceededStay == \A i \in TxnId : outcome[i] = "success" => outcome'[i] = "success"

\* A copy that stays is where it was.
LEMMA PlacedStays ==
    ASSUME Base, Onward, SucceededStay, NEW p, NEW o, NEW i \in Txns, PlacedBy(p, o, i),
           store'[p][o] = store[p][o]
    PROVE  PlacedBy(p, o, i)'
<1>1. /\ Txns' = Txns /\ Txns \subseteq TxnId /\ assigned' = assigned
      /\ \A t : Objects(t)' = Objects(t) /\ Produced(t)' = Produced(t) /\ ProxyOf(t)' = ProxyOf(t)
      /\ \A t, x, w : Reads(t, x, w)' <=> Reads(t, x, w)
  BY InputsKept, Order DEF Onward
<1>2. Written(i)' = Written(i)
  BY <1>1 DEF Written
<1>3. QED
  BY <1>1, <1>2 DEF PlacedBy, SucceededStay

\* So it is for all copies if no store is written.
LEMMA PlacesKept ==
    ASSUME Base, CopiesPlaced, Onward, SucceededStay, UNCHANGED store
    PROVE  CopiesPlaced'
<1>1. Txns' = Txns
  BY InputsKept DEF Onward
<1>2. QED
  BY <1>1, PlacedStays DEF CopiesPlaced, InitialCopy

\* Nobody gets past a point that matters here.
SameProgress ==
    \A t \in TxnId : /\ Started(t)' <=> Started(t)
                     /\ Registered(t)' <=> Registered(t)
                     /\ Past(t)' <=> Past(t)
                     /\ Through(t) => Through(t)'

\* What remains to be shown of a step that takes nobody further.
LEMMA CalmTails ==
    ASSUME NotifyInv, TailInv, UNCHANGED inputVars, SameProgress, AsksKept, NewEntries, OldEntries,
           NewEmpty, SkippedStay, CopiesPlaced'
    PROVE  TailInv'
<1>1. Base /\ Onward /\ NobodyStarts /\ NobodyPasses /\ RegisteredStay
  BY DEF NotifyInv, SameProgress, Onward, NobodyStarts, NobodyPasses, RegisteredStay
<1>2. StillAsked'
  BY <1>1, AskedKept DEF TailInv
<1>3. EntriesUsed'
  BY <1>1, UsedKept DEF TailInv
<1>4. EntriesKept'
  BY <1>1, EntriesKeptStay DEF TailInv, SameProgress
<1>5. EmptyExplained'
  BY EmptyKept DEF TailInv
<1>6. QED
  BY <1>2, <1>3, <1>4, <1>5 DEF TailInv

\* Nothing is asked, answered, entered or removed.
LEMMA NothingAsked ==
    /\ UNCHANGED <<network, serving>> => AsksKept /\ NewEmpty
    /\ UNCHANGED obj_task_map => NewEntries /\ OldEntries
<1>1. ASSUME UNCHANGED <<network, serving>> PROVE AsksKept /\ NewEmpty
  <2>1. \A o, v, x : /\ IsMoving(o, v, "request", x) => IsMoving(o, v, "request", x)'
                     /\ IsMoving(o, v, "serving", x) => IsMoving(o, v, "serving", x)'
    BY <1>1 DEF IsMoving
  <2>2. AsksKept
    BY <2>1 DEF AsksKept, Asked
  <2>3. QED
    BY <1>1, <2>2 DEF NewEmpty
<1>2. ASSUME UNCHANGED obj_task_map PROVE NewEntries /\ OldEntries
  BY <1>2 DEF NewEntries, OldEntries, HasEntry
<1>3. QED
  BY <1>1, <1>2

\* Entries are added, and none is removed.
LEMMA KeptEntries ==
    ASSUME KeepsEntries PROVE OldEntries
BY DEF KeepsEntries, OldEntries, HasEntry, AllKeys

\* A task that is past its waits goes on.
LEMMA TaskTails ==
    ASSUME NotifyInv, TailInv, NEW t \in TxnId, NEW s \in {"notify", "reported", "done"},
           UNCHANGED inputVars, UNCHANGED <<obj_task_map, network, serving>>, NextStage(t, s), Past(t),
           Through(t) => s = "done", SkippedStay, CopiesPlaced'
    PROVE  TailInv'
<1>1. stage \in [TxnId -> Stage]
  BY DEF NotifyInv, Base, Shapes
<1>2. stage'[t] = s /\ \A u \in TxnId : u # t => stage'[u] = stage[u]
  BY <1>1 DEF NextStage
<1>3. /\ Started(t) /\ Registered(t) /\ Started(t)' /\ Registered(t)' /\ Past(t)'
      /\ Through(t) => Through(t)'
  BY <1>2 DEF Started, Registered, Past, Through
<1>4. \A u \in TxnId : u # t => /\ Started(u)' <=> Started(u)
                                /\ Registered(u)' <=> Registered(u)
                                /\ Past(u)' <=> Past(u)
                                /\ Through(u)' <=> Through(u)
  BY <1>2 DEF Started, Registered, Past, Through
<1>5. SameProgress
  BY <1>3, <1>4 DEF SameProgress
<1>6. AsksKept /\ NewEntries /\ OldEntries /\ NewEmpty
  BY NothingAsked
<1>7. QED
  BY <1>5, <1>6, CalmTails

\* A step of a migration that takes nothing away.
LEMMA RestTails ==
    ASSUME NotifyInv, TailInv, UNCHANGED <<inputVars, txnVars>>, AsksKept, NewEntries, OldEntries,
           NewEmpty, CopiesPlaced'
    PROVE  TailInv'
<1>1. stage' = stage /\ outcome' = outcome
  BY TxnsRest DEF NotifyInv
<1>2. SameProgress /\ SkippedStay
  BY <1>1 DEF SameProgress, SkippedStay, Started, Registered, Past, Through
<1>3. QED
  BY <1>2, CalmTails

\* The stores rest in such a step.
LEMMA PlacesRest ==
    ASSUME NotifyInv, TailInv, UNCHANGED <<inputVars, txnVars, store>>
    PROVE  CopiesPlaced'
<1>1. Base /\ Onward /\ outcome' = outcome
  BY TxnsRest DEF NotifyInv
<1>2. SucceededStay
  BY <1>1 DEF SucceededStay
<1>3. QED
  BY <1>1, <1>2, PlacesKept DEF TailInv

-----------------------------------------------------------------------------
(* The steps of a transaction's task.                                      *)

\* A transaction takes a permit.
LEMMA AwaitTails ==
    ASSUME NotifyInv, TailInv, NEW t \in TxnId, AwaitPrior(t)
    PROVE  TailInv'
<1>1. UNCHANGED inputVars /\ UNCHANGED <<stage, outcome, store, obj_task_map, network, serving>>
  BY DEF AwaitPrior, migrationVars
<1>2. SameProgress /\ SkippedStay /\ SucceededStay
  BY <1>1 DEF SameProgress, SkippedStay, SucceededStay, Started, Registered, Past, Through
<1>3. AsksKept /\ NewEntries /\ OldEntries /\ NewEmpty
  BY <1>1, NothingAsked
<1>4. Base /\ Onward
  BY <1>1, <1>2 DEF NotifyInv, SameProgress, Onward
<1>5. CopiesPlaced'
  BY <1>1, <1>2, <1>4, PlacesKept DEF TailInv
<1>6. QED
  BY <1>1, <1>2, <1>3, <1>5, CalmTails

\* A transaction executes: its copies are where it is.
LEMMA ExecuteTails ==
    ASSUME NotifyInv, TailInv, NEW t \in TxnId, ExecuteTxn(t)
    PROVE  TailInv'
<1>0. PICK p : p = ProxyOf(t)
  OBVIOUS
<1>1. /\ stage[t] = "execute" /\ NextStage(t, "notify")
      /\ store' = commit_objects(p, [o \in Objects(t) |-> Written(t)])
      /\ outcome' = [outcome EXCEPT ![t] = "success"]
      /\ UNCHANGED inputVars /\ UNCHANGED <<obj_task_map, network, serving>>
  BY <1>0 DEF ExecuteTxn, controllerVars, migrationVars, NextStage
<1>2. Base /\ Shapes /\ Started(t) /\ Past(t) /\ ~ Through(t) /\ StageOK(t)
  BY <1>1 DEF NotifyInv, Base, Started, Past, Through, StagesOK
<1>3. /\ t \in Txns /\ p \in Proxy /\ VAInv /\ Txns' = Txns
      /\ \A u : Objects(u)' = Objects(u) /\ ProxyOf(u)' = ProxyOf(u) /\ Produced(u)' = Produced(u)
      /\ \A u, x, v : Reads(u, x, v)' <=> Reads(u, x, v)
  BY <1>0, <1>1, <1>2, StartedFacts, InputsKept
<1>4. Objects(t) \subseteq Object /\ Written(t) \in Copy /\ Txns \subseteq TxnId
  BY <1>3, Order DEF Copy, Written, Produced
<1>5. \A q \in Proxy, o \in Object :
          store'[q][o] = IF q = p /\ o \in Objects(t) THEN Written(t) ELSE store[q][o]
  BY <1>1, <1>3, <1>4, CommitFacts DEF NotifyInv, StoreTyped
<1>6. /\ outcome[t] = "pending" /\ outcome'[t] = "success"
      /\ \A u \in TxnId : u # t => outcome'[u] = outcome[u]
  BY <1>1, <1>2 DEF StageOK, Shapes
<1>7. SkippedStay /\ SucceededStay
  BY <1>6 DEF SkippedStay, SucceededStay
<1>8. Onward
  <2>1. stage'[t] = "notify" /\ \A u \in TxnId : u # t => stage'[u] = stage[u]
    BY <1>1, <1>2 DEF Shapes, NextStage
  <2>2. QED
    BY <1>1, <1>2, <2>1 DEF Onward, Started, Past, Through
<1>9. CopiesPlaced'
  <2>1. ASSUME NEW q \in Proxy, NEW o \in Object
        PROVE  (store[q][o] = InitialCopy \/ \E i \in Txns : PlacedBy(q, o, i))'
    <3>1. CASE q = p /\ o \in Objects(t)
      <4>1. Written(t)' = Written(t)
        BY <1>3 DEF Written, Produced
      <4>2. PlacedBy(q, o, t)'
        BY <1>0, <1>3, <1>5, <1>6, <3>1, <4>1 DEF PlacedBy
      <4>3. QED
        BY <1>3, <4>2
    <3>2. CASE ~ (q = p /\ o \in Objects(t))
      <4>1. store'[q][o] = store[q][o] /\ InitialCopy' = InitialCopy
        BY <1>5, <3>2 DEF InitialCopy
      <4>2. store[q][o] = InitialCopy \/ \E i \in Txns : PlacedBy(q, o, i)
        BY DEF TailInv, CopiesPlaced
      <4>3. QED
        BY <1>2, <1>3, <1>7, <1>8, <4>1, <4>2, PlacedStays
    <3>3. QED
      BY <3>1, <3>2
  <2>2. QED
    BY <2>1 DEF CopiesPlaced
<1>10. QED
  BY <1>1, <1>2, <1>7, <1>9, TaskTails

\* A transaction wakes its successors, or its result is collected.
LEMMA EndTails ==
    ASSUME NotifyInv, TailInv, NEW t \in TxnId, NotifyAndReport(t) \/ CollectResult(t)
    PROVE  TailInv'
<1>1. /\ UNCHANGED inputVars /\ UNCHANGED <<obj_task_map, network, serving, outcome, store>>
      /\ \/ stage[t] = "notify" /\ NextStage(t, "reported")
         \/ stage[t] = "reported" /\ NextStage(t, "done")
  BY DEF NotifyAndReport, CollectResult, controllerVars, migrationVars, NextStage
<1>2. Base /\ stage \in [TxnId -> Stage]
  BY DEF NotifyInv, Base, Shapes
<1>3. Past(t) /\ SkippedStay /\ SucceededStay
  BY <1>1 DEF Past, SkippedStay, SucceededStay
<1>4. Onward
  <2>1. /\ stage'[t] \in {"reported", "done"}
        /\ \A u \in TxnId : u # t => stage'[u] = stage[u]
    BY <1>1, <1>2 DEF NextStage
  <2>2. QED
    BY <1>1, <2>1 DEF Onward, Started, Past, Through
<1>5. CopiesPlaced'
  BY <1>1, <1>2, <1>3, <1>4, PlacesKept DEF TailInv
<1>6. CASE stage[t] = "notify" /\ NextStage(t, "reported")
  BY <1>1, <1>3, <1>5, <1>6, TaskTails DEF Through
<1>7. CASE stage[t] = "reported" /\ NextStage(t, "done")
  BY <1>1, <1>3, <1>5, <1>7, TaskTails
<1>8. QED
  BY <1>1, <1>6, <1>7

-----------------------------------------------------------------------------
(* The steps that move objects.                                            *)

\* One key is entered, and there is a reason for its entry.
LEMMA KeyNew ==
    ASSUME NEW p \in Proxy, NEW o \in Object, NEW v \in Version, EnteredAt(p, {<<o, v>>}), EntryOK(p, o, v)'
    PROVE  NewEntries /\ OldEntries
<1>1. OldEntries
  BY EnteredKeeps, KeptEntries
<1>2. ASSUME NEW q \in Proxy, NEW x \in Object, NEW w \in Version, HasEntry(q, x, w)', ~ HasEntry(q, x, w)
      PROVE  EntryOK(q, x, w)'
  <2>1. <<x, w>> \in AllKeys
    BY DEF AllKeys
  <2>2. q = p /\ <<x, w>> \in {<<o, v>>}
    BY <1>2, <2>1 DEF HasEntry, EnteredAt, Enters
  <2>3. x = o /\ w = v
    BY <2>2
  <2>4. QED
    BY <2>2, <2>3
<1>3. QED
  BY <1>1, <1>2 DEF NewEntries

\* A request is taken up: it stays open, and has an entry.
LEMMA HandleRequestTails ==
    ASSUME NotifyInv, TailInv, NEW m \in network, HandleStatefulRequest(m)
    PROVE  TailInv'
<1>1. m.kind = "request"
  BY DEF HandleStatefulRequest
<1>2. PICK t \in TxnId, o \in Object : RequestFor(m, t, o)
  BY <1>1 DEF NotifyInv, Moves, ReplyFor, EmptyReply
<1>3. PICK p, v, f : p = m.to /\ v = m.version /\ f = m.from
  OBVIOUS
<1>4. /\ SentFor(t, o) /\ m.object_id = o /\ v = assigned[t][o]
      /\ p = forwarded[t].owner[o] /\ f = ProxyOf(t)
  BY <1>2, <1>3 DEF RequestFor
<1>5. /\ Base /\ p \in Proxy /\ v \in Version /\ v > 2 /\ v \in Nat /\ Reads(t, o, v) /\ p # ProxyOf(t)
      /\ Started(t)
  BY <1>4, SentFacts, Constants DEF NotifyInv, SentFor
<1>6. PICK task, after :
          task = <<"request", o, v>> /\ after = entry_helper(obj_task_map[p], {<<o, v>>}, task)
  OBVIOUS
<1>7. PriorKeys(Single(o, v)) \cup {} = {<<o, v>>} /\ PriorKeys(Single(o, v)) = {<<o, v>>}
  BY <1>5, SingleKeys
<1>8. PICK s : s = [at |-> p, from |-> f, object_id |-> o, version |-> v,
                    awaiting |-> Handles(after, {<<o, v>>})]
  OBVIOUS
<1>9. /\ obj_task_map' = [obj_task_map EXCEPT ![p] = after]
      /\ serving' = serving \cup {s} /\ network' = network \ {m}
      /\ UNCHANGED <<inputVars, txnVars>> /\ UNCHANGED store
  BY <1>3, <1>4, <1>6, <1>7, <1>8 DEF HandleStatefulRequest, get_prior_dependency_and_update
<1>10. s.object_id = o /\ s.version = v
  BY <1>8
<1>11. EnteredAt(p, {<<o, v>>})
  <2>1. task \in Creator
    BY <1>5, <1>6, CreatorsExist
  <2>2. EntersKey(p, task, o, v, after)
    BY <1>6, <1>9 DEF EntersKey
  <2>3. KeyEntered(p, o, v, after)
    BY <1>5, <2>1, <2>2, EnterFacts
  <2>4. QED
    BY <2>3 DEF KeyEntered
<1>12. Asked(o, v)'
  <2>1. IsMoving(o, v, "serving", s)'
    BY <1>9, <1>10 DEF IsMoving
  <2>2. QED
    BY <2>1 DEF Asked
<1>13. AsksKept
  <2>1. ASSUME NEW x \in Object, NEW w \in Version, NEW z,
               IsMoving(x, w, "request", z) \/ IsMoving(x, w, "serving", z)
        PROVE  Asked(x, w)'
    <3>1. CASE z = m /\ IsMoving(x, w, "request", z)
      <4>1. x = o /\ w = v
        BY <1>3, <1>4, <3>1 DEF IsMoving
      <4>2. QED
        BY <1>12, <4>1
    <3>2. CASE ~ (z = m /\ IsMoving(x, w, "request", z))
      <4>1. IsMoving(x, w, "request", z)' \/ IsMoving(x, w, "serving", z)'
        BY <1>9, <2>1, <3>2 DEF IsMoving
      <4>2. QED
        BY <4>1 DEF Asked
    <3>3. QED
      BY <3>1, <3>2
  <2>2. QED
    BY <2>1 DEF AsksKept, Asked
<1>14. /\ VAInv /\ forwarded' = forwarded /\ stage' = stage
       /\ \A u : ProxyOf(u)' = ProxyOf(u)
       /\ \A u, x, w : Reads(u, x, w)' <=> Reads(u, x, w)
  BY <1>5, <1>9, InputsKept, TxnsRest
<1>15. EntryOK(p, o, v)'
  <2>1. UsedBy(p, o, v)'
    BY <1>4, <1>5, <1>14 DEF UsedBy, Started
  <2>2. ASSUME NEW u \in TxnId, Reads(u, o, v) PROVE u = t
    BY <1>5, <1>14, <2>2, OneReader
  <2>3. \A u \in TxnId : Unread(p, o, v, u)'
    BY <1>5, <1>12, <1>14, <2>2 DEF Unread
  <2>4. QED
    BY <2>1, <2>3 DEF EntryOK
<1>16. NewEntries /\ OldEntries
  BY <1>5, <1>11, <1>15, KeyNew
<1>17. NewEmpty
  BY <1>9 DEF NewEmpty
<1>18. CopiesPlaced'
  BY <1>9, PlacesRest
<1>19. QED
  BY <1>9, <1>13, <1>16, <1>17, <1>18, RestTails

\* A request has waited for the producer: it stays open.
LEMMA AwaitProducerTails ==
    ASSUME NotifyInv, TailInv, NEW s \in serving, AwaitProducer(s)
    PROVE  TailInv'
<1>1. PICK t \in TxnId, o \in Object : ServingFor(s, t, o)
  BY DEF NotifyInv, Moves
<1>2. PICK r : r = [s EXCEPT !.awaiting = {}]
  OBVIOUS
<1>3. /\ serving' = (serving \ {s}) \cup {r} /\ UNCHANGED <<inputVars, txnVars, store>>
      /\ UNCHANGED <<obj_task_map, network>>
  BY <1>2 DEF AwaitProducer
<1>4. r.object_id = s.object_id /\ r.version = s.version
  <2>1. PICK a, f, v, w : s = [at |-> a, from |-> f, object_id |-> o, version |-> v, awaiting |-> w]
    BY <1>1 DEF ServingFor
  <2>2. QED
    BY <1>2, <2>1
<1>5. AsksKept
  <2>1. ASSUME NEW x \in Object, NEW w \in Version, NEW z,
               IsMoving(x, w, "request", z) \/ IsMoving(x, w, "serving", z)
        PROVE  Asked(x, w)'
    <3>1. CASE z = s /\ IsMoving(x, w, "serving", z)
      <4>1. IsMoving(x, w, "serving", r)'
        BY <1>3, <1>4, <3>1 DEF IsMoving
      <4>2. QED
        BY <4>1 DEF Asked
    <3>2. CASE ~ (z = s /\ IsMoving(x, w, "serving", z))
      <4>1. IsMoving(x, w, "request", z)' \/ IsMoving(x, w, "serving", z)'
        BY <1>3, <2>1, <3>2 DEF IsMoving
      <4>2. QED
        BY <4>1 DEF Asked
    <3>3. QED
      BY <3>1, <3>2
  <2>2. QED
    BY <2>1 DEF AsksKept, Asked
<1>6. NewEntries /\ OldEntries /\ NewEmpty
  BY <1>3, NothingAsked DEF NewEmpty
<1>7. CopiesPlaced'
  BY <1>3, PlacesRest
<1>8. QED
  BY <1>3, <1>5, <1>6, <1>7, RestTails

\* A reply is taken up: the transaction it is for has yet to use its entry.
LEMMA HandleReplyTails ==
    ASSUME NotifyInv, TailInv, NEW m \in network, HandleStatefulReply(m)
    PROVE  TailInv'
<1>1. m.kind = "reply" /\ network' = network \ {m}
  BY DEF HandleStatefulReply
<1>2. UNCHANGED <<inputVars, txnVars, store>> /\ UNCHANGED serving
  BY DEF HandleStatefulReply
<1>3. /\ Base /\ VAInv /\ stage' = stage
      /\ \A u : ProxyOf(u)' = ProxyOf(u)
      /\ \A u, x, w : Reads(u, x, w)' <=> Reads(u, x, w)
  BY <1>2, TxnsRest, InputsKept DEF NotifyInv
<1>4. AsksKept
  <2>1. \A x, w, z : /\ IsMoving(x, w, "request", z) => IsMoving(x, w, "request", z)'
                     /\ IsMoving(x, w, "serving", z) => IsMoving(x, w, "serving", z)'
    BY <1>1, <1>2 DEF IsMoving
  <2>2. QED
    BY <2>1 DEF AsksKept, Asked
<1>5. NewEmpty /\ CopiesPlaced'
  BY <1>1, <1>2, PlacesRest DEF NewEmpty
<1>6. CASE m.object = NoObject
  <2>1. UNCHANGED obj_task_map
    BY <1>6 DEF HandleStatefulReply
  <2>2. QED
    BY <1>2, <1>4, <1>5, <2>1, NothingAsked, RestTails
<1>7. CASE m.object # NoObject
  <2>1. PICK t \in TxnId, o \in Object : ReplyFor(m, t, o)
    BY <1>1, <1>7 DEF NotifyInv, Moves, RequestFor, EmptyReply
  <2>2. PICK p, v : p = m.to /\ v = m.object.version
    OBVIOUS
  <2>3. SentFor(t, o) /\ p = ProxyOf(t) /\ m.object_id = o /\ v = assigned[t][o]
    BY <2>1, <2>2 DEF ReplyFor
  <2>4. /\ p \in Proxy /\ v \in Version /\ v - 1 \in Nat /\ (v - 1) + 1 = v /\ Reads(t, o, v)
        /\ Started(t) /\ o \in Objects(t)
    BY <1>3, <2>3, SentFacts, Constants DEF SentFor
  <2>5. PICK task, after :
            task = <<"reply", o, v>> /\ after = entry_helper(obj_task_map[p], {<<o, v>>}, task)
    OBVIOUS
  <2>6. {} \cup NextKeys(Single(o, v - 1)) = {<<o, v>>} /\ NextKeys(Single(o, v - 1)) = {<<o, v>>}
    BY <2>4, SingleKeys
  <2>7. obj_task_map' = [obj_task_map EXCEPT ![p] = after]
    BY <1>7, <2>2, <2>3, <2>5, <2>6 DEF HandleStatefulReply, get_prior_dependency_and_update
  <2>8. EnteredAt(p, {<<o, v>>})
    <3>1. task \in Creator
      BY <2>4, <2>5, CreatorsExist
    <3>2. EntersKey(p, task, o, v, after)
      BY <2>5, <2>7 DEF EntersKey
    <3>3. KeyEntered(p, o, v, after)
      BY <1>3, <2>4, <3>1, <3>2, EnterFacts
    <3>4. QED
      BY <3>3 DEF KeyEntered
  <2>9. ~ Past(t)
    <3>1. IsMoving(o, v, "reply", m)
      BY <1>1, <2>2, <2>3 DEF IsMoving
    <3>2. ~ Ready(t, o)
      BY <2>3, <3>1 DEF Ready, NoMove
    <3>3. QED
      BY <2>4, <3>2 DEF NotifyInv, InOrder, WaitsOut
  <2>10. EntryOK(p, o, v)'
    <3>1. UsedBy(p, o, v)'
      BY <1>3, <2>3, <2>4 DEF UsedBy, Started
    <3>2. ASSUME NEW u \in TxnId, Reads(u, o, v) PROVE u = t
      BY <1>3, <2>4, <3>2, OneReader
    <3>3. \A u \in TxnId : Unread(p, o, v, u)'
      BY <1>3, <2>3, <2>9, <3>2 DEF Unread, Past
    <3>4. QED
      BY <3>1, <3>3 DEF EntryOK
  <2>11. NewEntries /\ OldEntries
    BY <2>4, <2>8, <2>10, KeyNew
  <2>12. QED
    BY <1>2, <1>4, <1>5, <2>11, RestTails
<1>8. QED
  BY <1>6, <1>7

\* A migrated object is installed: the transaction that reads it is at this proxy.
LEMMA CommitTails ==
    ASSUME NotifyInv, StoreInv, TailInv, NEW i \in installing, CommitMigrated(i)
    PROVE  TailInv'
<1>1. PICK t \in TxnId, o \in Object : InstallFor(i, t, o)
  BY DEF NotifyInv, Moves
<1>2. PICK p, c, v : p = ProxyOf(t) /\ c = i.object /\ v = assigned[t][o]
  OBVIOUS
<1>3. SentFor(t, o) /\ c \in Copy /\ c.version = v /\ i.at = p /\ i.object_id = o
  BY <1>1, <1>2 DEF InstallFor
<1>4. Base /\ p \in Proxy /\ t \in Txns /\ v \in Version /\ Reads(t, o, v)
  BY <1>2, <1>3, SentFacts DEF NotifyInv
<1>5. /\ store' = commit_objects(p, Single(o, c))
      /\ UNCHANGED <<inputVars, txnVars>> /\ UNCHANGED <<obj_task_map, network, serving>>
  BY <1>2, <1>3 DEF CommitMigrated, controllerVars
<1>6. AsksKept /\ NewEmpty /\ NewEntries /\ OldEntries
  BY <1>5, NothingAsked
<1>7. \A q \in Proxy, x \in Object : store'[q][x] = IF q = p /\ x = o THEN c ELSE store[q][x]
  <2>1. DOMAIN Single(o, c) = {o} /\ Single(o, c)[o] = c
    BY DEF Single
  <2>2. PICK new : new = Single(o, c)
    OBVIOUS
  <2>3. \A x \in DOMAIN new : new[x] \in Copy
    BY <1>3, <2>1, <2>2
  <2>4. \A q \in Proxy, x \in Object :
            store'[q][x] = IF q = p /\ x \in DOMAIN new THEN new[x] ELSE store[q][x]
    BY <1>4, <1>5, <2>2, <2>3, CommitFacts DEF NotifyInv, StoreTyped
  <2>5. QED
    BY <2>1, <2>2, <2>4
<1>8. /\ Onward /\ outcome' = outcome /\ Txns' = Txns /\ assigned' = assigned
      /\ \A u : Objects(u)' = Objects(u) /\ Produced(u)' = Produced(u)
      /\ \A u, x, w : Reads(u, x, w)' <=> Reads(u, x, w)
  BY <1>4, <1>5, TxnsRest, InputsKept
<1>9. CopiesPlaced'
  <2>1. PICK k \in Txns : o \in Objects(k) /\ outcome[k] = "success" /\ c = Written(k)
    BY <1>2, <1>3 DEF StoreInv, CargoOK, Genuine
  <2>2. Reads(t, o, Produced(k)) /\ Written(k)' = Written(k)
    BY <1>3, <1>4, <1>8, <2>1 DEF Written, Produced
  <2>3. PlacedBy(p, o, k)'
    BY <1>4, <1>7, <1>8, <2>1, <2>2 DEF PlacedBy
  <2>4. SucceededStay
    BY <1>8 DEF SucceededStay
  <2>5. ASSUME NEW q \in Proxy, NEW x \in Object
        PROVE  (store[q][x] = InitialCopy \/ \E j \in Txns : PlacedBy(q, x, j))'
    <3>1. CASE q = p /\ x = o
      BY <1>8, <2>1, <2>3, <3>1
    <3>2. CASE ~ (q = p /\ x = o)
      <4>1. store'[q][x] = store[q][x] /\ InitialCopy' = InitialCopy
        BY <1>7, <3>2 DEF InitialCopy
      <4>2. store[q][x] = InitialCopy \/ \E j \in Txns : PlacedBy(q, x, j)
        BY DEF TailInv, CopiesPlaced
      <4>3. QED
        BY <1>4, <1>8, <2>4, <4>1, <4>2, PlacedStays
    <3>3. QED
      BY <3>1, <3>2
  <2>6. QED
    BY <2>5 DEF CopiesPlaced
<1>10. QED
  BY <1>5, <1>6, <1>9, RestTails

\* The task that installed an object wakes the transaction that reads it.
LEMMA NotifyMigratedTails ==
    ASSUME NotifyInv, TailInv, NEW i \in installing, NotifyMigrated(i)
    PROVE  TailInv'
<1>1. UNCHANGED <<inputVars, txnVars, store>> /\ UNCHANGED <<obj_task_map, network, serving>>
  BY DEF NotifyMigrated
<1>2. AsksKept /\ NewEmpty /\ NewEntries /\ OldEntries /\ CopiesPlaced'
  BY <1>1, NothingAsked, PlacesRest
<1>3. QED
  BY <1>1, <1>2, RestTails

\* A version is produced where its reader will look for it.
LEMMA ProducerPlace ==
    ASSUME Base, NEW t \in TxnId, IsForwarded(t), NEW o \in Objects(t), NEW i \in TxnId, Registered(i),
           o \in Objects(i), Produced(i) = assigned[t][o]
    PROVE  forwarded[t].owner[o] = IF ProxyOf(i) = ProxyOf(t) THEN NoProxy ELSE ProxyOf(i)
<1>1. Started(i)
  BY DEF Registered, Started
<1>2. i \in Txns /\ t \in Txns /\ VAInv
  BY <1>1, StartedFacts DEF Base, RoutedRight, Shapes
<1>3. Reads(t, o, Produced(i))
  BY <1>2 DEF Reads
<1>4. Predecessor(i, t, o)
  BY <1>2, <1>3, ReaderFollows
<1>5. i \in 1..(t - 1)
  BY <1>4 DEF Predecessor
<1>6. QED
  BY <1>4, <1>5 DEF Base, RoutedRight

\* The entries of a version that is sent for are at the two ends of the migration.
LEMMA EntryAtEnds ==
    ASSUME Base, NEW t \in TxnId, NEW o, SentFor(t, o), NEW p, UsedBy(p, o, assigned[t][o])
    PROVE  p = ProxyOf(t) \/ p = forwarded[t].owner[o]
<1>1. IsForwarded(t) /\ o \in Objects(t) /\ VAInv /\ Reads(t, o, assigned[t][o])
  BY StartedFacts, SentFacts DEF SentFor, Base, Shapes
<1>2. CASE \E i \in TxnId : /\ Registered(i) /\ o \in Objects(i)
                            /\ Produced(i) = assigned[t][o] /\ ProxyOf(i) = p
  BY <1>1, <1>2, ProducerPlace
<1>3. CASE \E u \in TxnId : /\ Started(u) /\ Reads(u, o, assigned[t][o])
                            /\ ProxyOf(u) = p \/ forwarded[u].owner[o] = p
  BY <1>1, <1>3, OneReader
<1>4. QED
  BY <1>2, <1>3 DEF UsedBy

\* Whoever sent for a version that its producer left behind gets it.
LEMMA SkippedBefore ==
    ASSUME NotifyInv, StoreInv, NEW s \in serving, NEW t \in TxnId, NEW o \in Object, ServingFor(s, t, o),
           s.awaiting = {}, store[s.at][o].version # s.version
    PROVE  Skipping
<1>1. SentFor(t, o) /\ Settled(t, o) /\ s.version = assigned[t][o] /\ s.at = forwarded[t].owner[o]
      /\ s.object_id = o
  BY DEF ServingFor
<1>2. Base /\ t \in Txns /\ o \in Objects(t) /\ t \in Nat
  BY <1>1, SentFacts, Constants DEF NotifyInv
<1>3. PICK i \in 1..(t - 1) : /\ Predecessor(i, t, o) /\ i \in Txns /\ o \in Objects(i)
                              /\ assigned[t][o] = Produced(i) /\ forwarded[t].owner[o] = ProxyOf(i)
  BY <1>1, <1>2, SentFacts
<1>4. i \in TxnId /\ Through(i)
  <2>1. Txns \subseteq TxnId
    BY <1>2, Order DEF Base, Shapes
  <2>2. QED
    BY <1>1, <1>3, <2>1 DEF Settled
<1>5. outcome[i] # "pending" /\ outcome[i] \in {"pending", "success", "skipped"}
  BY <1>2, <1>4, DecidedIsPast DEF Base, Shapes
<1>6. ~ Past(t)
  <2>1. IsMoving(o, assigned[t][o], "serving", s)
    BY <1>1 DEF IsMoving
  <2>2. ~ Ready(t, o)
    BY <2>1 DEF Ready, NoMove
  <2>3. QED
    BY <1>2, <2>2 DEF NotifyInv, InOrder, WaitsOut
<1>7. outcome[t] = "pending"
  BY <1>2, <1>6, DecidedIsPast
<1>8. outcome[i] # "success"
  <2>1. ASSUME outcome[i] = "success" PROVE FALSE
    <3>1. IsLast(i, o)
      BY <1>2, <1>3, <1>7, <2>1, LastBefore
    <3>2. store[ProxyOf(i)][o] = Written(i)
      BY <1>4, <3>1 DEF StoreInv, HoldsLast
    <3>3. QED
      BY <1>1, <1>3, <3>2 DEF Written, Produced
  <2>2. QED
    BY <2>1
<1>9. QED
  BY <1>4, <1>5, <1>8 DEF Skipping

\* A request is answered: nobody but the reader needs the version's entries any more.
LEMMA ReplyTails ==
    ASSUME NotifyInv, StoreInv, TailInv, NEW s \in serving, ReplyStateful(s)
    PROVE  TailInv'
<1>1. PICK t \in TxnId, o \in Object : ServingFor(s, t, o)
  BY DEF NotifyInv, Moves
<1>2. PICK p, v, f, copy : p = s.at /\ v = s.version /\ f = s.from /\ copy = store[p][o]
  OBVIOUS
<1>3. s.awaiting = {}
  BY DEF ReplyStateful
<1>4. /\ SentFor(t, o) /\ p = forwarded[t].owner[o] /\ v = assigned[t][o]
      /\ s.object_id = o /\ Settled(t, o)
  BY <1>1, <1>2, <1>3 DEF ServingFor
<1>5. /\ Base /\ p \in Proxy /\ t \in Txns /\ v \in Version /\ v \in Nat /\ Reads(t, o, v)
  BY <1>4, SentFacts, Constants DEF NotifyInv
<1>6. PICK r : r = [kind |-> "reply", from |-> p, to |-> f, object_id |-> o,
                    object |-> IF copy.version = v THEN copy ELSE NoObject]
  OBVIOUS
<1>7. /\ obj_task_map' = [obj_task_map EXCEPT ![p] = remove_dependency(@, Single(o, v))]
      /\ network' = network \cup {r} /\ serving' = serving \ {s}
      /\ UNCHANGED <<inputVars, txnVars, store>>
  BY <1>2, <1>4, <1>6 DEF ReplyStateful, send_msg_to_proxy
<1>8. r.object = IF copy.version = v THEN copy ELSE NoObject
  BY <1>6
<1>9. DroppedAt(p, {<<o, v>>})
  <2>1. PICK required : required = Single(o, v)
    OBVIOUS
  <2>2. DroppedAt(p, Keys(required))
    BY <1>5, <1>7, <2>1, DropFacts
  <2>3. Keys(required) = {<<o, v>>}
    BY <1>5, <2>1, SingleKeys
  <2>4. QED
    BY <2>2, <2>3
<1>10. /\ VAInv /\ Onward /\ stage' = stage /\ outcome' = outcome
       /\ assigned' = assigned /\ forwarded' = forwarded
       /\ \A u : ProxyOf(u)' = ProxyOf(u) /\ Objects(u)' = Objects(u)
       /\ \A u, x, w : Reads(u, x, w)' <=> Reads(u, x, w)
  BY <1>5, <1>7, TxnsRest, InputsKept
<1>11. ASSUME NEW u, Reads(u, o, v) PROVE u = t
  BY <1>5, <1>10, <1>11, OneReader
<1>12. ASSUME NEW x, NEW w, Asked(x, w), ~ (x = o /\ w = v) PROVE Asked(x, w)'
  <2>1. PICK z : IsMoving(x, w, "request", z) \/ IsMoving(x, w, "serving", z)
    BY <1>12 DEF Asked
  <2>2. IsMoving(x, w, "request", z)' \/ IsMoving(x, w, "serving", z)'
    BY <1>2, <1>4, <1>7, <1>12, <2>1 DEF IsMoving
  <2>3. QED
    BY <2>2 DEF Asked
<1>13. StillAsked'
  <2>1. ASSUME NEW u \in TxnId, NEW x \in Object, SentFor(u, x)', ~ Settled(u, x)'
        PROVE  Asked(x, assigned[u][x])'
    <3>1. SentFor(u, x) /\ ~ Settled(u, x)
      BY <1>10, <2>1 DEF SentFor, Settled, Fetches, Started, Through
    <3>2. PICK w : w = assigned[u][x]
      OBVIOUS
    <3>3. Asked(x, w) /\ Reads(u, x, w)
      BY <1>5, <3>1, <3>2, SentFacts DEF TailInv, StillAsked
    <3>4. ~ (x = o /\ w = v)
      BY <1>4, <1>11, <3>1, <3>3
    <3>5. Asked(x, w)'
      BY <1>12, <3>3, <3>4
    <3>6. QED
      BY <1>10, <3>2, <3>5
  <2>2. QED
    BY <2>1 DEF StillAsked
<1>14. EntriesUsed'
  <2>1. ASSUME NEW q \in Proxy, NEW x \in Object, NEW w \in Version, HasEntry(q, x, w)'
        PROVE  EntryOK(q, x, w)'
    <3>1. <<x, w>> \in AllKeys
      BY DEF AllKeys
    <3>2. HasEntry(q, x, w) /\ ~ (q = p /\ x = o /\ w = v)
      BY <1>9, <2>1, <3>1 DEF HasEntry, DroppedAt
    <3>3. EntryOK(q, x, w)
      BY <3>2 DEF TailInv, EntriesUsed
    <3>4. RegisteredStay
      BY <1>10 DEF RegisteredStay, Registered
    <3>5. UsedBy(q, x, w) /\ UsedBy(q, x, w)'
      BY <1>5, <1>10, <3>3, <3>4, UsersStay DEF EntryOK
    <3>6. ASSUME NEW u \in TxnId PROVE Unread(q, x, w, u)'
      <4>1. Unread(q, x, w, u)
        BY <3>3 DEF EntryOK
      <4>2. CASE ~ (x = o /\ w = v)
        BY <1>10, <1>12, <4>1, <4>2 DEF Unread, Started, Past
      <4>3. CASE x = o /\ w = v
        <5>1. q = ProxyOf(t)
          BY <1>4, <1>5, <3>2, <3>5, <4>3, EntryAtEnds
        <5>2. QED
          BY <1>10, <1>11, <4>1, <4>3, <5>1 DEF Unread, Started, Past
      <4>4. QED
        BY <4>2, <4>3
    <3>7. QED
      BY <3>5, <3>6 DEF EntryOK
  <2>2. QED
    BY <2>1 DEF EntriesUsed
<1>15. EntriesKept'
  <2>1. OldEntries
    <3>1. ASSUME NEW q \in Proxy, NEW x \in Object, NEW w \in Version, HasEntry(q, x, w), ~ HasEntry(q, x, w)'
          PROVE  \E u \in Txns : Reads(u, x, w)
      <4>1. <<x, w>> \in AllKeys
        BY DEF AllKeys
      <4>2. x = o /\ w = v
        BY <1>9, <3>1, <4>1 DEF HasEntry, DroppedAt
      <4>3. QED
        BY <1>5, <4>2
    <3>2. QED
      BY <3>1 DEF OldEntries
  <2>2. \A i \in TxnId : Registered(i)' => Registered(i)
    BY <1>10 DEF Registered
  <2>3. QED
    BY <1>5, <1>10, <2>1, <2>2, EntriesKeptStay DEF TailInv
<1>16. EmptyExplained'
  <2>1. r.object = NoObject => Skipping
    <3>1. ASSUME r.object = NoObject PROVE Skipping
      <4>1. copy \in Copy
        BY <1>2, <1>5 DEF NotifyInv, StoreTyped
      <4>2. copy.version # v
        BY <1>5, <1>8, <3>1, Constants DEF NoObject
      <4>3. QED
        BY <1>1, <1>2, <1>3, <4>2, SkippedBefore
    <3>2. QED
      BY <3>1
  <2>2. SkippedStay /\ NewEmpty
    BY <1>7, <1>10, <2>1 DEF SkippedStay, NewEmpty, Skipping
  <2>3. QED
    BY <2>2, EmptyKept DEF TailInv
<1>17. CopiesPlaced'
  BY <1>7, PlacesRest
<1>18. QED
  BY <1>13, <1>14, <1>15, <1>16, <1>17 DEF TailInv

\* A transaction starts: if its predecessor's entry is elsewhere, it sends for the version.
LEMMA HandlePrimaryTails ==
    ASSUME NotifyInv, TailInv, NEW t \in TxnId, HandlePrimaryMessage(t)
    PROVE  TailInv'
<1>1. /\ IsForwarded(t) /\ stage[t] = "none" /\ NextStage(t, "spawned")
      /\ network' = network \cup StatefulRequests(t)
      /\ UNCHANGED inputVars /\ UNCHANGED <<outcome, store, obj_task_map, serving>>
  BY DEF HandlePrimaryMessage, send_msg_to_proxy, controllerVars, NextStage
<1>2. Base /\ stage \in [TxnId -> Stage] /\ t \in Txns /\ ProxyOf(t) \in Proxy
  BY <1>1 DEF NotifyInv, Base, Shapes, RoutedRight
<1>3. /\ VAInv /\ assigned' = assigned /\ forwarded' = forwarded
      /\ \A u : Objects(u)' = Objects(u) /\ ProxyOf(u)' = ProxyOf(u)
      /\ \A u, x, w : Reads(u, x, w)' <=> Reads(u, x, w)
  BY <1>1, <1>2, InputsKept
<1>4. stage'[t] = "spawned" /\ \A u \in TxnId : u # t => stage'[u] = stage[u]
  BY <1>1, <1>2 DEF NextStage
<1>5. /\ ~ Started(t) /\ ~ Registered(t) /\ ~ Past(t) /\ ~ Through(t)
      /\ Started(t)' /\ ~ Registered(t)' /\ ~ Past(t)' /\ ~ Through(t)'
  BY <1>1, <1>4 DEF Started, Registered, Past, Through
<1>6. \A u \in TxnId : u # t => /\ Started(u)' <=> Started(u)
                                /\ Registered(u)' <=> Registered(u)
                                /\ Past(u)' <=> Past(u)
                                /\ Through(u)' <=> Through(u)
  BY <1>4 DEF Started, Registered, Past, Through
<1>7. Onward /\ NobodyPasses /\ RegisteredStay /\ SkippedStay /\ SucceededStay
  BY <1>1, <1>5, <1>6 DEF Onward, NobodyPasses, RegisteredStay, SkippedStay, SucceededStay
<1>8. ASSUME NEW o \in Objects(t), Fetches(t, o) PROVE Asked(o, assigned[t][o])'
  <2>1. PICK v, m : /\ v = assigned[t][o]
                    /\ m = [kind |-> "request", from |-> ProxyOf(t), to |-> forwarded[t].owner[o],
                            object_id |-> o, version |-> assigned[t][o]]
    OBVIOUS
  <2>2. m \in StatefulRequests(t)
    BY <1>8, <2>1 DEF StatefulRequests, Fetches
  <2>3. m.kind = "request" /\ m.object_id = o /\ m.version = v
    BY <2>1
  <2>4. IsMoving(o, v, "request", m)'
    BY <1>1, <2>2, <2>3 DEF IsMoving
  <2>5. Asked(o, v)'
    BY <2>4 DEF Asked
  <2>6. QED
    BY <1>3, <2>1, <2>5
<1>9. AsksKept
  <2>1. \A x, w, z : /\ IsMoving(x, w, "request", z) => IsMoving(x, w, "request", z)'
                     /\ IsMoving(x, w, "serving", z) => IsMoving(x, w, "serving", z)'
    BY <1>1 DEF IsMoving
  <2>2. QED
    BY <2>1 DEF AsksKept, Asked
<1>10. StillAsked'
  <2>1. ASSUME NEW u \in TxnId, NEW x \in Object, SentFor(u, x)', ~ Settled(u, x)'
        PROVE  Asked(x, assigned[u][x])'
    <3>1. CASE u = t
      BY <1>3, <1>8, <2>1, <3>1 DEF SentFor, Fetches
    <3>2. CASE u # t
      <4>1. SentFor(u, x)
        BY <1>3, <1>6, <2>1, <3>2 DEF SentFor, Fetches
      <4>2. ~ Settled(u, x)
        BY <1>2, <1>7, <2>1, <4>1, SentKept
      <4>3. PICK w : w = assigned[u][x]
        OBVIOUS
      <4>4. Asked(x, w) /\ w \in Version
        BY <1>2, <4>1, <4>2, <4>3, SentFacts DEF TailInv, StillAsked
      <4>5. Asked(x, w)'
        BY <1>9, <4>4 DEF AsksKept
      <4>6. QED
        BY <1>3, <4>3, <4>5
    <3>3. QED
      BY <3>1, <3>2
  <2>2. QED
    BY <2>1 DEF StillAsked
<1>11. EntriesUsed'
  <2>1. ASSUME NEW q \in Proxy, NEW x \in Object, NEW w \in Version, HasEntry(q, x, w)'
        PROVE  EntryOK(q, x, w)'
    <3>1. EntryOK(q, x, w)
      BY <1>1, <2>1 DEF HasEntry, TailInv, EntriesUsed
    <3>2. UsedBy(q, x, w) /\ UsedBy(q, x, w)'
      BY <1>2, <1>7, <3>1, UsersStay DEF EntryOK
    <3>3. ASSUME NEW u \in TxnId, u # t PROVE Unread(q, x, w, u)'
      <4>1. Unread(q, x, w, u)
        BY <3>1 DEF EntryOK
      <4>2. QED
        BY <1>3, <1>6, <1>9, <3>3, <4>1 DEF Unread, AsksKept
    <3>4. ASSUME Reads(t, x, w), ProxyOf(t) # q PROVE Asked(x, w)'
      <4>1. x \in Objects(t) /\ assigned[t][x] = w
        BY <3>4 DEF Reads
      <4>2. \A u \in TxnId : Reads(u, x, w) => u = t
        BY <1>3, <3>4, OneReader
      <4>3. PICK i \in TxnId : Registered(i) /\ x \in Objects(i) /\ Produced(i) = w /\ ProxyOf(i) = q
        BY <1>5, <3>2, <4>2 DEF UsedBy
      <4>4. forwarded[t].owner[x] = q
        BY <1>1, <1>2, <3>4, <4>1, <4>3, ProducerPlace
      <4>5. Fetches(t, x)
        BY <4>4, Constants DEF Fetches
      <4>6. QED
        BY <1>3, <1>8, <4>1, <4>5
    <3>5. Unread(q, x, w, t)'
      BY <1>3, <1>5, <3>4 DEF Unread
    <3>6. QED
      BY <3>2, <3>3, <3>5 DEF EntryOK
  <2>2. QED
    BY <2>1 DEF EntriesUsed
<1>12. EntriesKept'
  <2>1. OldEntries
    BY <1>1, NothingAsked
  <2>2. \A i \in TxnId : Registered(i)' => Registered(i)
    BY <1>5, <1>6
  <2>3. QED
    BY <1>2, <1>7, <2>1, <2>2, EntriesKeptStay DEF TailInv
<1>13. EmptyExplained'
  <2>1. ASSUME NEW m \in StatefulRequests(t) PROVE m.kind = "request"
    BY <1>1, <1>2, RequestsSent
  <2>2. NewEmpty
    BY <1>1, <2>1 DEF NewEmpty
  <2>3. QED
    BY <1>7, <2>2, EmptyKept DEF TailInv
<1>14. CopiesPlaced'
  BY <1>1, <1>2, <1>7, PlacesKept DEF TailInv
<1>15. QED
  BY <1>10, <1>11, <1>12, <1>13, <1>14 DEF TailInv

\* A transaction asks for its Notifys: who reads what it will produce has yet to do so.
LEMMA GetTails ==
    ASSUME NotifyInv, TailInv, NEW t \in TxnId, GetDependencies(t)
    PROVE  TailInv'
<1>0. PICK p : p = ProxyOf(t)
  OBVIOUS
<1>1. /\ UNCHANGED inputVars /\ UNCHANGED <<outcome, store, network, serving>>
  BY DEF GetDependencies, migrationVars
<1>2. /\ stage[t] = "spawned" /\ NextStage(t, "await")
      /\ EnteredAt(p, PriorKeys(assigned[t]) \cup NextKeys(assigned[t]))
  BY <1>0, GetFacts DEF NotifyInv, GotDependencies
<1>3. Base /\ stage \in [TxnId -> Stage] /\ Started(t)
  BY <1>2 DEF NotifyInv, Base, Shapes, Started
<1>4. /\ t \in Txns /\ p \in Proxy /\ VAInv /\ assigned' = assigned /\ forwarded' = forwarded
      /\ \A u : Objects(u)' = Objects(u) /\ ProxyOf(u)' = ProxyOf(u) /\ Produced(u)' = Produced(u)
      /\ \A u, x, w : Reads(u, x, w)' <=> Reads(u, x, w)
  BY <1>0, <1>1, <1>3, StartedFacts, InputsKept
<1>5. stage'[t] = "await" /\ \A u \in TxnId : u # t => stage'[u] = stage[u]
  BY <1>2, <1>3 DEF NextStage
<1>6. /\ ~ Registered(t) /\ ~ Past(t) /\ ~ Through(t)
      /\ Started(t)' /\ Registered(t)' /\ ~ Past(t)' /\ ~ Through(t)'
  BY <1>2, <1>5 DEF Started, Registered, Past, Through
<1>7. \A u \in TxnId : u # t => /\ Started(u)' <=> Started(u)
                                /\ Registered(u)' <=> Registered(u)
                                /\ Past(u)' <=> Past(u)
                                /\ Through(u)' <=> Through(u)
  BY <1>5 DEF Started, Registered, Past, Through
<1>8. /\ Onward /\ NobodyStarts /\ NobodyPasses /\ RegisteredStay /\ SkippedStay /\ SucceededStay
  BY <1>1, <1>3, <1>6, <1>7
     DEF Onward, NobodyStarts, NobodyPasses, RegisteredStay, SkippedStay, SucceededStay
<1>9. AsksKept /\ NewEmpty
  BY <1>1, NothingAsked
<1>10. KeepsEntries /\ OldEntries
  BY <1>2, <1>4, EnteredKeeps, KeptEntries
<1>11. ASSUME NEW o \in Objects(t), NEW v, v = assigned[t][o] PROVE EntryOK(p, o, v)'
  <2>1. Reads(t, o, v)
    BY <1>4, <1>11 DEF Reads
  <2>2. UsedBy(p, o, v)'
    BY <1>0, <1>4, <1>6, <2>1 DEF UsedBy
  <2>3. ASSUME NEW u \in TxnId, Reads(u, o, v) PROVE u = t
    BY <1>4, <2>1, <2>3, OneReader
  <2>4. \A u \in TxnId : Unread(p, o, v, u)'
    BY <1>0, <1>4, <1>6, <2>3 DEF Unread
  <2>5. QED
    BY <2>2, <2>4 DEF EntryOK
<1>12. ASSUME NEW o \in Objects(t), NEW v, v = Produced(t) PROVE EntryOK(p, o, v)'
  <2>1. UsedBy(p, o, v)'
    BY <1>0, <1>4, <1>6, <1>12 DEF UsedBy
  <2>2. ASSUME NEW u \in TxnId, Started(u), Reads(u, o, v)
        PROVE  \/ ProxyOf(u) = p /\ ~ Past(u)
               \/ ProxyOf(u) # p /\ Asked(o, v)
    <3>1. Predecessor(t, u, o)
      BY <1>4, <1>12, <2>2, ReaderFollows
    <3>2. t \in 1..(u - 1) /\ o \in Objects(u)
      BY <3>1 DEF Predecessor
    <3>3. ~ Settled(u, o)
      BY <1>6, <3>2 DEF Settled
    <3>4. ~ Past(u)
      BY <3>2, <3>3 DEF NotifyInv, InOrder, WaitsOut, Ready
    <3>5. ASSUME ProxyOf(u) # p PROVE Asked(o, v)
      <4>1. IsForwarded(u)
        BY <1>3, <2>2, StartedFacts
      <4>2. forwarded[u].owner[o] = p
        BY <1>0, <1>3, <3>1, <3>2, <3>5, <4>1 DEF Base, RoutedRight
      <4>3. SentFor(u, o)
        BY <1>4, <2>2, <3>2, <4>2, Constants DEF SentFor, Fetches
      <4>4. o \in Object /\ assigned[u][o] = v
        BY <1>3, <2>2, <4>3, SentFacts DEF Reads
      <4>5. QED
        BY <3>3, <4>3, <4>4 DEF TailInv, StillAsked
    <3>6. QED
      BY <3>4, <3>5
  <2>3. o \in Object /\ v \in Version
    BY <1>4, <1>12, Order
  <2>4. ASSUME NEW u \in TxnId PROVE Unread(p, o, v, u)'
    <3>1. (Started(u)' => Started(u)) /\ (Past(u)' => Past(u)) /\ (Asked(o, v) => Asked(o, v)')
      BY <1>8, <1>9, <2>3 DEF NobodyStarts, NobodyPasses, AsksKept
    <3>2. QED
      BY <1>4, <2>2, <3>1 DEF Unread
  <2>5. QED
    BY <2>1, <2>4 DEF EntryOK
<1>13. NewEntries
  <2>1. ASSUME NEW q \in Proxy, NEW x \in Object, NEW w \in Version, HasEntry(q, x, w)', ~ HasEntry(q, x, w)
        PROVE  EntryOK(q, x, w)'
    <3>1. <<x, w>> \in AllKeys
      BY DEF AllKeys
    <3>2. q = p /\ <<x, w>> \in PriorKeys(assigned[t]) \cup NextKeys(assigned[t])
      BY <1>2, <2>1, <3>1 DEF HasEntry, EnteredAt, Enters
    <3>3. CASE <<x, w>> \in PriorKeys(assigned[t])
      <4>1. x \in Objects(t) /\ w = assigned[t][x]
        BY <1>4, <3>3, TxnKeys
      <4>2. QED
        BY <1>11, <3>2, <4>1
    <3>4. CASE <<x, w>> \in NextKeys(assigned[t])
      <4>1. x \in Objects(t) /\ w = Produced(t)
        BY <1>4, <3>4, TxnKeys
      <4>2. QED
        BY <1>12, <3>2, <4>1
    <3>5. QED
      BY <3>2, <3>3, <3>4
  <2>2. QED
    BY <2>1 DEF NewEntries
<1>14. KeptFor(t)'
  <2>1. ASSUME NEW o \in Objects(t) PROVE HasEntry(p, o, Produced(t))'
    <3>1. <<o, Produced(t)>> \in NextKeys(assigned[t])
      BY <1>4, TxnKeys
    <3>2. obj_task_map'[p][<<o, Produced(t)>>] # NoTask
      BY <1>2, <3>1 DEF EnteredAt, Enters
    <3>3. QED
      BY <1>4, <3>2 DEF HasEntry
  <2>2. QED
    BY <1>0, <1>4, <2>1 DEF KeptFor
<1>15. EntriesKept'
  BY <1>3, <1>7, <1>8, <1>10, <1>14, EntriesKeptStay DEF TailInv
<1>16. StillAsked' /\ EntriesUsed'
  BY <1>3, <1>8, <1>9, <1>13, AskedKept, UsedKept DEF TailInv
<1>17. EmptyExplained' /\ CopiesPlaced'
  BY <1>1, <1>3, <1>8, <1>9, EmptyKept, PlacesKept DEF TailInv
<1>18. QED
  BY <1>15, <1>16, <1>17 DEF TailInv

\* A transaction is checked: the entries of what it read are gone from its proxy.
LEMMA CheckTails ==
    ASSUME NotifyInv, TailInv, NEW t \in TxnId, CheckTxn(t)
    PROVE  TailInv'
<1>0. PICK p : p = ProxyOf(t)
  OBVIOUS
<1>1. /\ stage[t] = "await"
      /\ obj_task_map' = [obj_task_map EXCEPT ![p] = remove_dependency(@, assigned[t])]
      /\ \/ NextStage(t, "execute") /\ UNCHANGED outcome
         \/ NextStage(t, "notify") /\ outcome' = [outcome EXCEPT ![t] = "skipped"]
      /\ UNCHANGED inputVars /\ UNCHANGED <<store, network, serving>>
  BY <1>0 DEF CheckTxn, migrationVars, NextStage
<1>2. Base /\ Shapes /\ Started(t) /\ StageOK(t)
  BY <1>1 DEF NotifyInv, Base, Started, StagesOK
<1>3. /\ t \in Txns /\ p \in Proxy /\ VAInv
      /\ \A u : ProxyOf(u)' = ProxyOf(u)
      /\ \A u, x, w : Reads(u, x, w)' <=> Reads(u, x, w)
  BY <1>0, <1>1, <1>2, StartedFacts, InputsKept
<1>4. /\ stage'[t] \in {"execute", "notify"}
      /\ \A u \in TxnId : u # t => stage'[u] = stage[u]
  BY <1>1, <1>2 DEF NextStage, Shapes
<1>5. /\ Registered(t) /\ ~ Through(t) /\ Started(t)' /\ Registered(t)' /\ Past(t)'
  BY <1>1, <1>4 DEF Started, Registered, Past, Through
<1>6. \A u \in TxnId : u # t => /\ Started(u)' <=> Started(u)
                                /\ Registered(u)' <=> Registered(u)
                                /\ Past(u)' <=> Past(u)
                                /\ Through(u)' <=> Through(u)
  BY <1>4 DEF Started, Registered, Past, Through
<1>7. Onward /\ NobodyStarts /\ RegisteredStay
  BY <1>1, <1>2, <1>5, <1>6 DEF Onward, NobodyStarts, RegisteredStay
<1>8. SkippedStay /\ SucceededStay
  <2>1. outcome[t] = "pending"
    BY <1>1, <1>2 DEF StageOK
  <2>2. \A u \in TxnId : u # t => outcome'[u] = outcome[u]
    BY <1>1, <1>2 DEF Shapes
  <2>3. QED
    BY <2>1, <2>2 DEF SkippedStay, SucceededStay
<1>9. AsksKept /\ NewEmpty
  BY <1>1, NothingAsked
<1>10. DroppedAt(p, Keys(assigned[t]))
  <2>1. PICK required : required = assigned[t]
    OBVIOUS
  <2>2. DroppedAt(p, Keys(required))
    BY <1>1, <1>2, <1>3, <2>1, DropFacts
  <2>3. QED
    BY <2>1, <2>2
<1>11. ASSUME NEW q \in Proxy, NEW x \in Object, NEW w \in Version
       PROVE  /\ HasEntry(q, x, w)' => HasEntry(q, x, w) /\ ~ (q = p /\ Reads(t, x, w))
              /\ HasEntry(q, x, w) => HasEntry(q, x, w)' \/ Reads(t, x, w)
  <2>1. <<x, w>> \in AllKeys
    BY DEF AllKeys
  <2>2. <<x, w>> \in Keys(assigned[t]) <=> Reads(t, x, w)
    BY <1>3, TxnKeys DEF Reads
  <2>3. QED
    BY <1>10, <2>1, <2>2 DEF HasEntry, DroppedAt
<1>12. EntriesUsed'
  <2>1. ASSUME NEW q \in Proxy, NEW x \in Object, NEW w \in Version, HasEntry(q, x, w)'
        PROVE  EntryOK(q, x, w)'
    <3>1. HasEntry(q, x, w) /\ ~ (q = p /\ Reads(t, x, w))
      BY <1>11, <2>1
    <3>2. EntryOK(q, x, w)
      BY <3>1 DEF TailInv, EntriesUsed
    <3>3. UsedBy(q, x, w)'
      BY <1>2, <1>7, <3>2, UsersStay DEF EntryOK
    <3>4. ASSUME NEW u \in TxnId PROVE Unread(q, x, w, u)'
      <4>1. Unread(q, x, w, u) /\ (Asked(x, w) => Asked(x, w)')
        BY <1>9, <3>2 DEF EntryOK, AsksKept
      <4>2. CASE u = t
        BY <1>0, <1>2, <1>3, <3>1, <4>1, <4>2 DEF Unread
      <4>3. CASE u # t
        BY <1>3, <1>6, <4>1, <4>3 DEF Unread
      <4>4. QED
        BY <4>2, <4>3
    <3>5. QED
      BY <3>3, <3>4 DEF EntryOK
  <2>2. QED
    BY <2>1 DEF EntriesUsed
<1>13. EntriesKept'
  <2>1. OldEntries
    BY <1>3, <1>11 DEF OldEntries
  <2>2. \A i \in TxnId : Registered(i)' => Registered(i)
    BY <1>5, <1>6
  <2>3. QED
    BY <1>2, <1>7, <2>1, <2>2, EntriesKeptStay DEF TailInv
<1>14. StillAsked' /\ EmptyExplained' /\ CopiesPlaced'
  BY <1>1, <1>2, <1>7, <1>8, <1>9, AskedKept, EmptyKept, PlacesKept DEF TailInv
<1>15. QED
  BY <1>12, <1>13, <1>14 DEF TailInv

-----------------------------------------------------------------------------
(* The invariant, and what is left.                                        *)

\* The primary orders and forwards; nothing that has started notices.
LEMMA PrimaryTails ==
    ASSUME NotifyInv, TailInv, Primary
    PROVE  TailInv'
<1>1. UNCHANGED <<stage, outcome, store, obj_task_map, network, serving>>
  BY DEF Primary, txnVars, controllerVars, migrationVars
<1>2. Base /\ VAInv /\ Txns \subseteq TxnId
  BY Order DEF NotifyInv, Base, Shapes
<1>3. InputsGrow
  BY <1>2, PrimaryGrows
<1>4. ASSUME NEW t \in TxnId, Started(t)
      PROVE  /\ t \in Txns /\ t \in Txns' /\ assigned'[t] = assigned[t] /\ forwarded'[t] = forwarded[t]
             /\ Objects(t)' = Objects(t) /\ Produced(t)' = Produced(t) /\ ProxyOf(t)' = ProxyOf(t)
             /\ \A o, v : Reads(t, o, v)' <=> Reads(t, o, v)
             /\ \A o : (SentFor(t, o)' <=> SentFor(t, o)) /\ (Settled(t, o)' <=> Settled(t, o))
  BY <1>1, <1>2, <1>3, <1>4, StartedStays
<1>5. \A t \in TxnId : (Started(t)' <=> Started(t)) /\ (Past(t)' <=> Past(t))
                       /\ (Registered(t)' <=> Registered(t)) /\ (Registered(t) => Started(t))
  BY <1>1 DEF Started, Past, Registered
<1>6. \A t, o, v : Reads(t, o, v) => Reads(t, o, v)' /\ t \in Txns /\ t \in Txns'
  <2>1. ASSUME NEW t \in Txns PROVE t \in Txns' /\ assigned'[t] = assigned[t] /\ Objects(t)' = Objects(t)
    BY <1>3 DEF InputsGrow, Objects
  <2>2. QED
    BY <2>1 DEF Reads
<1>7. \A o, v : Asked(o, v)' <=> Asked(o, v)
  <2>1. \A o, v, x : /\ IsMoving(o, v, "request", x)' <=> IsMoving(o, v, "request", x)
                     /\ IsMoving(o, v, "serving", x)' <=> IsMoving(o, v, "serving", x)
    BY <1>1 DEF IsMoving
  <2>2. QED
    BY <2>1 DEF Asked
<1>8. StillAsked'
  <2>1. ASSUME NEW t \in TxnId, NEW o \in Object, SentFor(t, o)', ~ Settled(t, o)'
        PROVE  Asked(o, assigned[t][o])'
    <3>1. Started(t)
      BY <1>5, <2>1 DEF SentFor
    <3>2. SentFor(t, o) /\ ~ Settled(t, o) /\ assigned'[t] = assigned[t]
      BY <1>4, <2>1, <3>1
    <3>3. PICK v : v = assigned[t][o]
      OBVIOUS
    <3>4. Asked(o, v)'
      BY <1>7, <3>2, <3>3 DEF TailInv, StillAsked
    <3>5. QED
      BY <3>2, <3>3, <3>4
  <2>2. QED
    BY <2>1 DEF StillAsked
<1>9. EntriesUsed'
  <2>1. ASSUME NEW q \in Proxy, NEW x \in Object, NEW w \in Version, HasEntry(q, x, w)'
        PROVE  EntryOK(q, x, w)'
    <3>1. EntryOK(q, x, w)
      BY <1>1, <2>1 DEF HasEntry, TailInv, EntriesUsed
    <3>2. UsedBy(q, x, w)'
      <4>1. CASE \E i \in TxnId : Registered(i) /\ x \in Objects(i) /\ Produced(i) = w /\ ProxyOf(i) = q
        BY <1>4, <1>5, <4>1 DEF UsedBy
      <4>2. CASE \E t \in TxnId : /\ Started(t) /\ Reads(t, x, w)
                                  /\ ProxyOf(t) = q \/ forwarded[t].owner[x] = q
        BY <1>4, <1>5, <4>2 DEF UsedBy
      <4>3. QED
        BY <3>1, <4>1, <4>2 DEF EntryOK, UsedBy
    <3>3. ASSUME NEW u \in TxnId PROVE Unread(q, x, w, u)'
      <4>1. Unread(q, x, w, u)
        BY <3>1 DEF EntryOK
      <4>2. QED
        BY <1>4, <1>5, <1>7, <4>1 DEF Unread
    <3>4. QED
      BY <3>2, <3>3 DEF EntryOK
  <2>2. QED
    BY <2>1 DEF EntriesUsed
<1>10. EntriesKept'
  <2>1. ASSUME NEW i \in TxnId, Registered(i)' PROVE KeptFor(i)'
    <3>1. Started(i) /\ KeptFor(i)
      BY <1>5, <2>1 DEF TailInv, EntriesKept
    <3>2. Objects(i)' = Objects(i) /\ Produced(i)' = Produced(i) /\ ProxyOf(i)' = ProxyOf(i)
      BY <1>4, <3>1
    <3>3. QED
      BY <1>1, <1>6, <3>1, <3>2 DEF KeptFor, HasEntry
  <2>2. QED
    BY <2>1 DEF EntriesKept
<1>11. EmptyExplained'
  BY <1>1 DEF TailInv, EmptyExplained, Skipping
<1>12. CopiesPlaced'
  <2>1. ASSUME NEW p \in Proxy, NEW o \in Object, NEW i \in Txns, PlacedBy(p, o, i) PROVE PlacedBy(p, o, i)'
    <3>1. i \in TxnId /\ Started(i)
      BY <1>2, <2>1, DecidedIsPast DEF PlacedBy
    <3>2. /\ assigned'[i] = assigned[i] /\ Objects(i)' = Objects(i) /\ Produced(i)' = Produced(i)
          /\ ProxyOf(i)' = ProxyOf(i)
      BY <1>4, <3>1
    <3>3. Written(i)' = Written(i)
      BY <3>2 DEF Written
    <3>4. QED
      BY <1>1, <1>6, <2>1, <3>2, <3>3 DEF PlacedBy
  <2>2. \A i \in Txns : i \in Txns'
    BY <1>3 DEF InputsGrow
  <2>3. InitialCopy' = InitialCopy
    BY DEF InitialCopy
  <2>4. QED
    BY <1>1, <2>1, <2>2, <2>3 DEF TailInv, CopiesPlaced
<1>13. QED
  BY <1>8, <1>9, <1>10, <1>11, <1>12 DEF TailInv

\* At the start there is nothing.
LEMMA TailInit == PXInit => TailInv
<1> SUFFICES ASSUME PXInit PROVE TailInv
  OBVIOUS
<1>1. /\ stage = [t \in TxnId |-> "none"]
      /\ store = [p \in Proxy |-> [o \in Object |-> InitialCopy]]
      /\ obj_task_map = [p \in Proxy |-> NewController(Object, Version)]
      /\ network = {} /\ serving = {}
  BY DEF PXInit
<1>2. \A t \in TxnId : ~ Started(t) /\ ~ Registered(t)
  BY <1>1 DEF Started, Registered
<1>3. StillAsked /\ EntriesKept /\ EmptyExplained
  BY <1>1, <1>2 DEF StillAsked, SentFor, EntriesKept, EmptyExplained
<1>4. EntriesUsed
  BY <1>1 DEF EntriesUsed, HasEntry, NewController
<1>5. CopiesPlaced
  BY <1>1 DEF CopiesPlaced
<1>6. QED
  BY <1>3, <1>4, <1>5 DEF TailInv

\* Nothing happens.
LEMMA TailUnchanged ==
    ASSUME NotifyInv, TailInv, UNCHANGED pxVars
    PROVE  TailInv'
<1>1. UNCHANGED <<inputVars, txnVars, store>> /\ UNCHANGED <<obj_task_map, network, serving>>
  BY DEF pxVars, controllerVars, migrationVars
<1>2. AsksKept /\ NewEmpty /\ NewEntries /\ OldEntries /\ CopiesPlaced'
  BY <1>1, NothingAsked, PlacesRest
<1>3. QED
  BY <1>1, <1>2, RestTails

\* Every step keeps the invariant on what is left.
LEMMA TailStep ==
    ASSUME NotifyInv, StoreInv, TailInv, [PXNext]_pxVars
    PROVE  TailInv'
<1>1. CASE Primary
  BY <1>1, PrimaryTails
<1>2. ASSUME NEW t \in TxnId, TxnStep(t) PROVE TailInv'
  BY <1>2, HandlePrimaryTails, GetTails, AwaitTails, CheckTails, ExecuteTails, EndTails DEF TxnStep
<1>3. CASE MigrationStep
  BY <1>3, HandleRequestTails, HandleReplyTails, AwaitProducerTails, ReplyTails, CommitTails,
     NotifyMigratedTails DEF MigrationStep
<1>4. CASE UNCHANGED pxVars
  BY <1>4, TailUnchanged
<1>5. QED
  BY <1>1, <1>2, <1>3, <1>4 DEF PXNext, Finished

\* Somebody touches the object after i, so somebody reads what i produced.
LEMMA TailIsLast ==
    ASSUME VAInv, NEW i \in Txns, NEW o \in Objects(i), \A t \in Txns : ~ Reads(t, o, Produced(i))
    PROVE  /\ shared_object_versions[o] = Produced(i)
           /\ \A k \in Txns : k > i => o \notin Objects(k)
<1>1. Txns = 1..Len(assigned) /\ Len(assigned) \in Nat /\ o \in Object /\ i \in Nat
  BY Order
<1>2. ASSUME NEW j \in Txns, j > i, o \in Objects(j) PROVE FALSE
  <2> DEFINE T == {k \in Txns : k > i /\ o \in Objects(k)}
  <2>1. T # {} /\ T \subseteq Nat
    BY <1>1, <1>2
  <2>2. PICK k \in T : \A x \in T : k <= x
    <3> HIDE DEF T
    <3> QED
      BY <2>1, NatSetHasMin
  <2>3. k \in Txns /\ k \in Nat /\ k > i /\ o \in Objects(k) /\ i \in 1..(k - 1)
    BY <1>1, <2>2
  <2>4. \A x \in (i + 1)..(k - 1) : x \in Txns /\ x > i /\ ~ (k <= x)
    BY <1>1, <2>3
  <2>5. Predecessor(i, k, o)
    BY <2>2, <2>3, <2>4 DEF Predecessor, NoneBetween
  <2>6. Reads(k, o, Produced(i))
    BY <2>3, <2>5, ReadsProduced DEF Reads
  <2>7. QED
    BY <2>3, <2>6
<1>3. NoneBetween(i, Len(assigned) + 1, o)
  BY <1>1, <1>2 DEF NoneBetween
<1>4. QED
  BY <1>1, <1>2, <1>3 DEF VAInv, MapHoldsTail, Produced

-----------------------------------------------------------------------------
(* When all is done.                                                       *)

\* Then nobody has failed, ...
LEMMA AllSucceeded ==
    ASSUME Base, AllDone, up = Proxy
    PROVE  /\ Txns = TxnId /\ ~ Skipping
           /\ \A t \in TxnId : Past(t) /\ Registered(t) /\ Started(t) /\ outcome[t] = "success"
<1>1. VAInv
  BY DEF Base, Shapes
<1>2. Txns = TxnId
  BY <1>1, Order, Constants DEF AllDone
<1>3. ASSUME NEW t \in TxnId
      PROVE  Past(t) /\ Registered(t) /\ Started(t) /\ outcome[t] = "success"
  <2>1. stage[t] = "done"
    BY DEF AllDone
  <2>2. Past(t) /\ Registered(t) /\ Started(t)
    BY <2>1 DEF Past, Registered, Started
  <2>3. ProxyOf(t) \in Proxy
    BY <2>2 DEF Base, StagesOK, StageOK, RoutedRight
  <2>4. QED
    BY <2>1, <2>2, <2>3 DEF Base, StagesOK, StageOK
<1>4. QED
  BY <1>2, <1>3 DEF Skipping

\* ... and nothing is under way.
LEMMA AllArrivedAtEnd ==
    ASSUME NotifyInv, TailInv, AllDone, up = Proxy
    PROVE  network = {} /\ serving = {} /\ installing = {}
<1>1. Base /\ Moves /\ InOrder /\ EmptyExplained
  BY DEF NotifyInv, TailInv
<1>2. \A t \in TxnId : Past(t)
  BY <1>1, AllSucceeded
<1>3. ASSUME NEW t \in TxnId, NEW o, SentFor(t, o), NEW k, NEW x
      PROVE  ~ IsMoving(o, assigned[t][o], k, x)
  BY <1>1, <1>2, <1>3 DEF SentFor, InOrder, WaitsOut, Ready, NoMove
<1>4. ASSUME NEW m \in network PROVE FALSE
  <2>1. ASSUME NEW t \in TxnId, NEW o \in Object, RequestFor(m, t, o) PROVE FALSE
    <3>1. IsMoving(o, assigned[t][o], "request", m)
      BY <2>1 DEF RequestFor, IsMoving
    <3>2. QED
      BY <1>3, <2>1, <3>1 DEF RequestFor
  <2>2. ASSUME NEW t \in TxnId, NEW o \in Object, ReplyFor(m, t, o) PROVE FALSE
    <3>1. IsMoving(o, assigned[t][o], "reply", m)
      BY <2>2 DEF ReplyFor, IsMoving
    <3>2. QED
      BY <1>3, <2>2, <3>1 DEF ReplyFor
  <2>3. ~ EmptyReply(m)
    BY <1>1, AllSucceeded DEF EmptyExplained, EmptyReply
  <2>4. QED
    BY <1>1, <2>1, <2>2, <2>3 DEF Moves
<1>5. ASSUME NEW s \in serving PROVE FALSE
  <2>1. PICK t \in TxnId, o \in Object : ServingFor(s, t, o)
    BY <1>1 DEF Moves
  <2>2. s.object_id = o /\ s.version = assigned[t][o] /\ SentFor(t, o)
    BY <2>1 DEF ServingFor
  <2>3. IsMoving(o, assigned[t][o], "serving", s)
    BY <2>2 DEF IsMoving
  <2>4. QED
    BY <1>3, <2>2, <2>3
<1>6. ASSUME NEW i \in installing PROVE FALSE
  <2>1. PICK t \in TxnId, o \in Object : InstallFor(i, t, o)
    BY <1>1 DEF Moves
  <2>2. i.object_id = o /\ i.object.version = assigned[t][o] /\ SentFor(t, o)
    BY <2>1 DEF InstallFor
  <2>3. IsMoving(o, assigned[t][o], "installing", i)
    BY <2>2 DEF IsMoving
  <2>4. QED
    BY <1>3, <2>2, <2>3
<1>7. QED
  BY <1>4, <1>5, <1>6

\* What is left in a controller is the entry of a last version, where it was produced.
LEMMA EntryIsTail ==
    ASSUME NotifyInv, StoreInv, TailInv, AllDone, up = Proxy,
           NEW p \in Proxy, NEW o \in Object, NEW v \in Version, HasEntry(p, o, v)
    PROVE  v = shared_object_versions[o] /\ store[p][o].version = v
<1>1. Base
  BY DEF NotifyInv
<1>2. VAInv
  BY <1>1 DEF Base, Shapes
<1>3. EntryOK(p, o, v)
  BY DEF TailInv, EntriesUsed
<1>4. ~ Asked(o, v)
  BY AllArrivedAtEnd DEF Asked, IsMoving
<1>5. ASSUME NEW t \in TxnId PROVE ~ Reads(t, o, v)
  <2>1. Unread(p, o, v, t)
    BY <1>3 DEF EntryOK
  <2>2. Past(t) /\ Started(t)
    BY <1>1, AllSucceeded
  <2>3. QED
    BY <1>4, <2>1, <2>2 DEF Unread
<1>6. UsedBy(p, o, v)
  BY <1>3 DEF EntryOK
<1>7. PICK i \in TxnId : o \in Objects(i) /\ Produced(i) = v /\ ProxyOf(i) = p
  BY <1>5, <1>6 DEF UsedBy
<1>8. i \in Txns /\ outcome[i] = "success"
  BY <1>1, AllSucceeded
<1>9. \A t \in Txns : ~ Reads(t, o, Produced(i))
  BY <1>2, <1>5, <1>7, Order
<1>10. /\ shared_object_versions[o] = Produced(i)
       /\ \A k \in Txns : k > i => o \notin Objects(k)
  BY <1>2, <1>7, <1>8, <1>9, TailIsLast
<1>11. IsLast(i, o)
  BY <1>7, <1>8, <1>10 DEF IsLast
<1>12. store[p][o] = Written(i)
  BY <1>7, <1>11 DEF StoreInv, HoldsLast
<1>13. QED
  BY <1>7, <1>10, <1>12 DEF Written, Produced

\* Where the last version is, it was produced, and its entry is left.
LEMMA TailHasEntry ==
    ASSUME NotifyInv, TailInv, AllDone, up = Proxy,
           NEW p \in Proxy, NEW o \in Object, NEW v \in Version,
           v = shared_object_versions[o], store[p][o].version = v
    PROVE  HasEntry(p, o, v)
<1>1. Base
  BY DEF NotifyInv
<1>2. VAInv
  BY <1>1 DEF Base, Shapes
<1>3. \E k \in Txns : o \in Objects(k)
  <2>1. v # Absent
    BY Constants DEF Absent
  <2>2. ~ NoneBetween(0, Len(assigned) + 1, o)
    BY <1>2, <2>1 DEF VAInv, MapHoldsTail
  <2>3. QED
    BY <1>2, <2>2, Order DEF NoneBetween
<1>4. store[p][o] # InitialCopy
  <2>1. PICK k \in Txns : o \in Objects(k)
    BY <1>3
  <2>2. Produced(k) <= v /\ Produced(k) \in Nat /\ Produced(k) > 2 /\ v \in Nat
    BY <1>2, <2>1, Order, Constants DEF VAInv, Dominance, Produced
  <2>3. v # 2
    BY <2>2
  <2>4. QED
    BY <2>3 DEF InitialCopy, InitialVersion
<1>5. PICK i \in Txns : PlacedBy(p, o, i)
  BY <1>4 DEF TailInv, CopiesPlaced
<1>6. o \in Objects(i) /\ store[p][o] = Written(i)
  BY <1>5 DEF PlacedBy
<1>7. Produced(i) = v
  BY <1>6 DEF Written, Produced
<1>8. ASSUME NEW t \in Txns, Reads(t, o, Produced(i)) PROVE FALSE
  <2>1. o \in Objects(t) /\ assigned[t][o] = v
    BY <1>7, <1>8 DEF Reads
  <2>2. v \in Nat /\ Produced(t) \in Nat /\ v < Produced(t)
    BY <1>2, <2>1, Order, Constants
  <2>3. Produced(t) <= v
    BY <1>2, <2>1 DEF VAInv, Dominance, Produced
  <2>4. QED
    BY <2>2, <2>3
<1>9. ProxyOf(i) = p
  BY <1>5, <1>8 DEF PlacedBy
<1>10. i \in TxnId /\ Registered(i)
  BY <1>1, AllSucceeded
<1>11. KeptFor(i)
  BY <1>10 DEF TailInv, EntriesKept
<1>12. QED
  BY <1>6, <1>7, <1>8, <1>9, <1>11 DEF KeptFor

\* When all is done, what is left is the entries of the last versions.
LEMMA TailsLeft == NotifyInv /\ StoreInv /\ TailInv => OnlyTailsRemain
<1> SUFFICES ASSUME NotifyInv, StoreInv, TailInv, AllDone, up = Proxy
             PROVE  /\ network = {} /\ serving = {} /\ installing = {}
                    /\ \A p \in Proxy : \A k \in DOMAIN obj_task_map[p] :
                          obj_task_map[p][k] # NoTask <=>
                             /\ k[2] = shared_object_versions[k[1]]
                             /\ store[p][k[1]].version = k[2]
  BY DEF OnlyTailsRemain
<1>1. Base
  BY DEF NotifyInv
<1>2. ASSUME NEW p \in Proxy, NEW k \in DOMAIN obj_task_map[p]
      PROVE  obj_task_map[p][k] # NoTask <=>
                /\ k[2] = shared_object_versions[k[1]]
                /\ store[p][k[1]].version = k[2]
  <2>1. k \in Object \X Version
    BY <1>1 DEF Base, Shapes
  <2>2. PICK o \in Object, v \in Version : k = <<o, v>>
    BY <2>1
  <2>3. k[1] = o /\ k[2] = v
    BY <2>2
  <2>4. HasEntry(p, o, v) <=> v = shared_object_versions[o] /\ store[p][o].version = v
    BY EntryIsTail, TailHasEntry
  <2>5. HasEntry(p, o, v) <=> obj_task_map[p][k] # NoTask
    BY <2>2 DEF HasEntry
  <2>6. QED
    BY <2>3, <2>4, <2>5
<1>3. QED
  BY <1>2, AllArrivedAtEnd

(***************************************************************************)
(* Every entry of a controller has a use, and the entry of a version       *)
(* nobody reads is kept.                                                   *)
(***************************************************************************)
THEOREM TailInvariant == PXSpec => [](NotifyInv /\ StoreInv /\ TailInv)
<1>1. PXInit => TailInv
  BY TailInit
<1>2. NotifyInv /\ StoreInv /\ TailInv /\ [PXNext]_pxVars => TailInv'
  BY TailStep
<1>3. PXSpec => [](NotifyInv /\ StoreInv)
  BY StoreInvariant
<1>4. QED
  BY <1>1, <1>2, <1>3, PTL DEF PXSpec

(***************************************************************************)
(* When all transactions are done and no process has ended, nothing is     *)
(* under way, and of all the entries the proxies made exactly those of the *)
(* last versions are left, each at the proxy that produced it.             *)
(***************************************************************************)
THEOREM ProxyTailsRemain == PXSpec => []OnlyTailsRemain
<1>1. PXSpec => [](NotifyInv /\ StoreInv /\ TailInv)
  BY TailInvariant
<1>2. NotifyInv /\ StoreInv /\ TailInv => OnlyTailsRemain
  BY TailsLeft
<1>3. QED
  BY <1>1, <1>2, PTL

=============================================================================
