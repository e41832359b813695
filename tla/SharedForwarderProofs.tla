------------------------ MODULE SharedForwarderProofs ------------------------
(***************************************************************************)
(* Proofs about the shared-object forwarder, for every set of objects, any *)
(* number of transactions, proxies and workers, and every deployment: the  *)
(* choice of a proxy, the order of the workers, the ownership map and the  *)
(* stateless forwarding table, and the two specifications the forwarder    *)
(* implements.                                                             *)
(***************************************************************************)
EXTENDS SharedForwarder, VersionAssignmentProofs, FiniteSetTheorems, TLAPS

-----------------------------------------------------------------------------
(* The choice of a proxy.                                                  *)

Below(B, p) == {q \in B : q < p}

\* Counting the elements below a bound, from one bound to the next.
LEMMA CountBelow ==
    ASSUME NEW N \in Nat, NEW B, B \subseteq 0..(N - 1)
    PROVE  /\ Cardinality(Below(B, 0)) = 0
           /\ Below(B, N) = B
           /\ \A n \in Nat :
                 /\ Cardinality(Below(B, n)) \in Nat
                 /\ Cardinality(Below(B, n + 1)) =
                       IF n \in B THEN Cardinality(Below(B, n)) + 1
                                  ELSE Cardinality(Below(B, n))
<1>1. \A q \in B : q \in Nat /\ q < N
  OBVIOUS
<1>2. IsFiniteSet(B)
  <2>1. IsFiniteSet(0..(N - 1))
    BY FS_Interval
  <2> QED
    BY <2>1, FS_Subset
<1>3. Below(B, 0) = {}
  <2>1. \A q \in B : ~ (q < 0)
    BY <1>1
  <2> QED
    BY <2>1 DEF Below
<1>4. Below(B, N) = B
  BY <1>1 DEF Below
<1>5. ASSUME NEW n \in Nat
      PROVE  /\ Cardinality(Below(B, n)) \in Nat
             /\ Cardinality(Below(B, n + 1)) =
                   IF n \in B THEN Cardinality(Below(B, n)) + 1
                              ELSE Cardinality(Below(B, n))
  <2>1. Below(B, n) \in SUBSET B
    BY DEF Below
  <2>2. IsFiniteSet(Below(B, n)) /\ Cardinality(Below(B, n)) \in Nat
    BY <1>2, <2>1, FS_Subset, FS_CardinalityType
  <2>3. \A q \in B : q < n + 1 <=> q < n \/ q = n
    BY <1>1
  <2>4. n \notin Below(B, n)
    BY DEF Below
  <2>5. CASE n \in B
    <3>1. Below(B, n + 1) = Below(B, n) \cup {n}
      BY <2>3, <2>5 DEF Below
    <3> QED
      BY <2>2, <2>4, <2>5, <3>1, FS_AddElement
  <2>6. CASE n \notin B
    <3>1. Below(B, n + 1) = Below(B, n)
      BY <2>3, <2>6 DEF Below
    <3> QED
      BY <2>2, <2>6, <3>1
  <2> QED
    BY <2>5, <2>6
<1> QED
  BY <1>3, <1>4, <1>5, FS_EmptySet

(***************************************************************************)
(* In a finite set of naturals with more than c elements, some element has *)
(* exactly c below it: walk up until the count passes c.                   *)
(***************************************************************************)
LEMMA RankExists ==
    ASSUME NEW N \in Nat, NEW B, B \subseteq 0..(N - 1), NEW c \in Nat, c < Cardinality(B)
    PROVE  \E p \in B : Cardinality(Below(B, p)) = c
<1> DEFINE r(n) == Cardinality(Below(B, n))
           U == {n \in Nat : r(n) > c}
<1>0. /\ r(0) = 0
      /\ r(N) > c
      /\ \A n \in Nat : r(n) \in Nat /\ r(n + 1) = IF n \in B THEN r(n) + 1 ELSE r(n)
  BY CountBelow
<1> HIDE DEF r
<1>1. PICK m \in U : \A y \in U : m <= y
  <2>1. U \subseteq Nat /\ U # {}
    BY <1>0
  <2> HIDE DEF U
  <2> QED
    BY <2>1, NatSetHasMin
<1>2. m \in Nat \ {0}
  BY <1>0, <1>1
<1>3. m - 1 \in Nat /\ m - 1 \notin U /\ (m - 1) + 1 = m
  BY <1>1, <1>2
<1>4. m - 1 \in B /\ r(m - 1) = c
  <2> DEFINE k == m - 1
  <2>1. k \in Nat /\ k \notin U /\ k + 1 \in U
    BY <1>1, <1>3
  <2> HIDE DEF k
  <2>2. k \in B /\ r(k) = c
    BY <2>1, <1>0
  <2> QED
    BY <2>2 DEF k
<1> QED
  BY <1>4 DEF r

\* A transaction requires finitely many states.
LEMMA KeysFinite ==
    ASSUME NEW required \in RequiredVersions
    PROVE  IsFiniteSet(Keys(required))
<1> DEFINE f == [o \in DOMAIN required |-> <<o, required[o]>>]
<1>1. IsFiniteSet(DOMAIN required)
  BY SFAssumption, RequiredVersionsFacts, FS_Subset
<1>2. f \in Surjection(DOMAIN required, Keys(required))
  BY DEF Surjection, Keys
<1> QED
  BY <1>1, <1>2, FS_Surjection

(***************************************************************************)
(* Both fallbacks return a connected proxy: in particular the remainder by *)
(* which ties are broken always finds one among the best.                  *)
(***************************************************************************)
LEMMA FallbackIsProxy ==
    ASSUME NEW required \in RequiredVersions, NEW counter \in Nat
    PROVE  FallbackProxy(required, counter) \in Proxy
<1>1. counter % NumProxies \in Proxy
  BY SFAssumption DEF Proxy
<1>2. MostStatesProxy(required, counter) \in Proxy
  <2> DEFINE best == {p \in Proxy :
                        \A q \in Proxy : HostedBy(required, q) <= HostedBy(required, p)}
             T == {HostedBy(required, q) : q \in Proxy}
  <2>1. IsFiniteSet(Keys(required)) /\ Cardinality(Keys(required)) \in Nat
    BY KeysFinite, FS_CardinalityType
  <2>2. \A q \in Proxy : HostedBy(required, q) \in 0..Cardinality(Keys(required))
    <3> TAKE q \in Proxy
    <3> DEFINE K == {k \in Keys(required) : states_to_proxy[k] = q}
    <3>1. K \in SUBSET Keys(required)
      OBVIOUS
    <3>2. IsFiniteSet(K) /\ Cardinality(K) <= Cardinality(Keys(required))
      BY <2>1, <3>1, FS_Subset
    <3>3. Cardinality(K) \in Nat
      BY <3>2, FS_CardinalityType
    <3> QED
      BY <2>1, <3>2, <3>3 DEF HostedBy
  <2>3. 0 \in Proxy
    BY SFAssumption DEF Proxy
  <2>4. \E m \in T : \A x \in T : m >= x
    <3>1. T \subseteq 0..Cardinality(Keys(required)) /\ T # {}
      BY <2>2, <2>3
    <3> HIDE DEF T
    <3> QED
      BY <2>1, <3>1, BoundedSetHasMax
  <2>5. best # {}
    BY <2>2, <2>4
  <2>6. best \subseteq 0..(NumProxies - 1) /\ NumProxies \in Nat
    BY SFAssumption DEF Proxy
  <2> HIDE DEF best
  <2>7. IsFiniteSet(best)
    <3>1. IsFiniteSet(0..(NumProxies - 1))
      BY <2>6, FS_Interval
    <3> QED
      BY <2>6, <3>1, FS_Subset
  <2>8. Cardinality(best) \in Nat \ {0}
    BY <2>5, <2>7, FS_CardinalityType, FS_EmptySet
  <2>9. counter % Cardinality(best) \in Nat /\ counter % Cardinality(best) < Cardinality(best)
    BY <2>8
  <2>10. \E p \in best : Cardinality(Below(best, p)) = counter % Cardinality(best)
    BY <2>6, <2>9, RankExists
  <2>11. MostStatesProxy(required, counter) =
           CHOOSE p \in best : Cardinality(Below(best, p)) = counter % Cardinality(best)
    BY DEF MostStatesProxy, best, Below
  <2>12. MostStatesProxy(required, counter) \in best
    BY <2>10, <2>11
  <2> QED
    BY <2>6, <2>12 DEF Proxy
<1> QED
  BY <1>1, <1>2 DEF FallbackProxy

-----------------------------------------------------------------------------
(* The inductive invariant.                                                *)

\* The version transaction t produces of each of its objects.
Produced(t) == NextVersion(assigned[t])

\* Sent to its proxy, and its successors have been signalled.
Done(t) == sent[t] # NoMessage /\ \A w \in Worker : task[w] # t

\* The worker has routed its transaction and not yet sent it.
Outgoing(w) == pc[w] \in {"verify", "send"}

\* Past RouteTask, which moves the ownership of the transaction's objects.
Routed(t) == sent[t] # NoMessage \/ \E w \in Worker : task[w] = t /\ Outgoing(w)

(***************************************************************************)
(* A transaction is in one place: not yet dispatched, in one channel, with *)
(* one worker, or sent.                                                    *)
(***************************************************************************)
Placed ==
    /\ \A w \in Worker : pc[w] = "recv" <=> task[w] = NoTxn
    /\ \A w \in Worker : pc[w] # "recv" => task[w] \in 1..dispatched
    /\ \A v, w \in Worker : task[v] = task[w] /\ task[v] # NoTxn => v = w
    /\ \A w \in Worker : \A i \in DOMAIN queue[w] :
          /\ queue[w][i] \in 1..dispatched
          /\ sent[queue[w][i]] = NoMessage
          /\ \A v \in Worker : task[v] # queue[w][i]
    /\ \A v, w \in Worker : \A i \in DOMAIN queue[v], j \in DOMAIN queue[w] :
          queue[v][i] = queue[w][j] => v = w /\ i = j
    /\ \A t \in TxnId : t > dispatched => sent[t] = NoMessage

\* What a worker holds at each point of process_forwarding_task.
Stages ==
    \A w \in Worker :
        /\ pc[w] # "recv" => (sent[task[w]] # NoMessage <=> pc[w] = "notify")
        /\ Outgoing(w) => outbox[w] \in Message
        /\ pc[w] # "await" => awaiting[w] = {}
        /\ pc[w] = "recv" => signals[w] = {}

\* Whoever touched o before t is done with it.
Settled(t, o) == \A i \in 1..(t - 1) : o \in Objects(i) => Done(i)

\* The Notify the controller holds for version v of o.
Handle(o, v) == <<o, v, obj_task_map[<<o, v>>]>>

(***************************************************************************)
(* The order the Notifys enforce: a transaction is routed after those it   *)
(* conflicts with are done, and a worker that waits has, for each of its   *)
(* objects, either seen them done or has their Notify still to wait for.   *)
(***************************************************************************)
InOrder ==
    /\ \A t \in Txns : Routed(t) => \A o \in Objects(t) : Settled(t, o)
    /\ \A w \in Worker : pc[w] = "await" =>
          \A o \in Objects(task[w]) :
              Settled(task[w], o) \/ Handle(o, assigned[task[w]][o]) \in awaiting[w]

\* A worker waits on the Notifys the map holds for the versions it reads ...
WaitsHeld ==
    \A w \in Worker : \A h \in awaiting[w] :
        \E o \in Objects(task[w]) : h = Handle(o, assigned[task[w]][o]) /\ h[3] # NoTask

\* ... and will signal those it holds for the versions it produces.
SignalsHeld ==
    \A w \in Worker : pc[w] # "recv" =>
        /\ \A o \in Objects(task[w]) : Handle(o, Produced(task[w])) \in signals[w]
        /\ \A g \in signals[w] :
              \E o \in Objects(task[w]) : g = Handle(o, Produced(task[w])) /\ g[3] # NoTask

(***************************************************************************)
(* A permit is in the Notify the map holds, was given by the transaction   *)
(* that produces the version, and whoever reads it has yet to take it.     *)
(***************************************************************************)
PermitsDue ==
    \A h \in permits :
        /\ h = Handle(h[1], h[2]) /\ h[3] # NoTask
        /\ \E t \in Txns : Done(t) /\ h[1] \in Objects(t) /\ h[2] = Produced(t)
        /\ \A j \in Txns : h[1] \in Objects(j) /\ assigned[j][h[1]] = h[2] =>
              ~ Routed(j) /\ \A w \in Worker : task[w] = j => h \in awaiting[w]

\* An entry of the map is one somebody produces or waits for, not yet read.
EntriesUsed ==
    \A o \in Object, v \in Version : obj_task_map[<<o, v>>] # NoTask =>
        /\ \E t \in Txns :
              /\ o \in Objects(t)
              /\ \/ v = Produced(t)
                 \/ v = assigned[t][o] /\ \E w \in Worker : task[w] = t /\ pc[w] = "await"
        /\ \A j \in Txns : o \in Objects(j) /\ assigned[j][o] = v => ~ Routed(j)

\* The permit a transaction gave is there until somebody reads the version.
PermitsKept ==
    \A t \in Txns : Done(t) => \A o \in Objects(t) :
        \/ Handle(o, Produced(t)) \in permits
        \/ \E j \in Txns : o \in Objects(j) /\ assigned[j][o] = Produced(t)

ChainInv ==
    InOrder /\ WaitsHeld /\ SignalsHeld /\ PermitsDue /\ EntriesUsed /\ PermitsKept

-----------------------------------------------------------------------------
(* Types and places.                                                       *)

BaseInv == VAInv /\ SFTypeOK /\ Placed /\ Stages

\* What the constants are, for the provers.
LEMMA ConstantFacts ==
    /\ MaxTxns \in Nat
    /\ TxnId = 1..MaxTxns
    /\ Worker = 0..(NumWorkers - 1) /\ 0 \in Worker /\ NumWorkers \in Nat \ {0}
    /\ Proxy = 0..(NumProxies - 1) /\ 0 \in Proxy /\ NumProxies \in Nat \ {0}
    /\ NoProxy = -1 /\ NoProxy \notin Proxy
    /\ NoTxn = 0 /\ NoTxn \notin TxnId
    /\ NoMessage \notin Message
    /\ \A m \in Message : m.proxy \in Proxy
BY MaxTxnsAssumption, SFAssumption
   DEF TxnId, Worker, Proxy, NoProxy, NoTxn, NoMessage, Message

\* At the start the tasks, tables and channels agree.
LEMMA BaseInit == SFInit => BaseInv
<1> SUFFICES ASSUME SFInit PROVE BaseInv
  OBVIOUS
<1> USE ConstantFacts
<1>1. VAInv
  BY VAInitInv DEF SFInit
<1>2. SFTypeOK
  <2>1. VATypeOK
    BY <1>1 DEF VAInv
  <2>2. dispatched \in 0..Len(assigned)
    BY DEF SFInit, VAInit
  <2> QED
    BY <2>1, <2>2 DEF SFInit, SFTypeOK, NewController
<1>3. Placed
  BY DEF SFInit, Placed
<1>4. Stages
  BY DEF SFInit, Stages, Outgoing
<1> QED
  BY <1>1, <1>2, <1>3, <1>4 DEF BaseInv

\* A worker that is not waiting for a task holds a transaction that has its versions.
LEMMA HeldFacts ==
    ASSUME BaseInv, NEW w \in Worker, pc[w] # "recv"
    PROVE  /\ task[w] \in Txns /\ task[w] \in TxnId /\ task[w] \in 1..dispatched
           /\ assigned[task[w]] \in RequiredVersions
           /\ dispatched \in 0..Len(assigned) /\ Len(assigned) \in 0..MaxTxns
<1>1. dispatched \in 0..Len(assigned) /\ task[w] \in 1..dispatched
  BY DEF BaseInv, Placed, SFTypeOK
<1>2. Txns = 1..Len(assigned) /\ Len(assigned) \in 0..MaxTxns
      /\ \A t \in Txns : assigned[t] \in RequiredVersions
  BY OrderFacts DEF BaseInv
<1> QED
  BY <1>1, <1>2, ConstantFacts

\* A transaction gets its versions; its task does not exist yet.
LEMMA BaseAssign ==
    ASSUME BaseInv, NEW S \in SUBSET Object, Assign(S)
    PROVE  BaseInv'
<1>1. VAInv'
  BY VAStepInv DEF BaseInv, Assign
<1>2. dispatched \in 0..Len(assigned')
  <2>1. Len(assigned') = Len(assigned) + 1 /\ Len(assigned) \in Nat
    BY DEF Assign, AssignSharedObjectVersions, BaseInv, VAInv, VATypeOK
  <2> QED
    BY <2>1 DEF BaseInv, SFTypeOK
<1>3. SFTypeOK'
  BY <1>1, <1>2 DEF BaseInv, SFTypeOK, Assign, VAInv, workerVars, controllerVars, planVars,
                    statelessVars, Subgraphs
<1>4. Placed' /\ Stages'
  BY DEF BaseInv, Assign, Placed, Stages, Outgoing, workerVars
<1> QED
  BY <1>1, <1>3, <1>4 DEF BaseInv

\* The scheduler hands the next task to the workers.
LEMMA BaseSendTask == BaseInv /\ SendTask => BaseInv'
<1> SUFFICES ASSUME BaseInv, SendTask PROVE BaseInv'
  OBVIOUS
<1> USE ConstantFacts
<1>1. VAInv'
  BY VAUnchanged DEF BaseInv, SendTask
<1>2. /\ dispatched \in Nat /\ dispatched' = dispatched + 1 /\ dispatched' \in 0..Len(assigned)
      /\ dispatched' \in TxnId
      /\ assigned' = assigned
  BY OrderFacts DEF BaseInv, SFTypeOK, SendTask, vaVars
<1>3. next_worker' \in Worker
  BY DEF SendTask, NextWorker, BaseInv, SFTypeOK
<1>4. next_worker \in Worker /\ queue \in [Worker -> Seq(TxnId)]
  BY DEF BaseInv, SFTypeOK
<1>5. /\ queue' \in [Worker -> Seq(TxnId)]
      /\ queue' = [queue EXCEPT ![next_worker] = Append(queue[next_worker], dispatched')]
  BY <1>2, <1>4 DEF SendTask
<1>6. SFTypeOK'
  BY <1>1, <1>2, <1>3, <1>5 DEF BaseInv, VAInv, SFTypeOK, SendTask, controllerVars, planVars,
                                statelessVars, Subgraphs
<1>7. /\ \A w \in Worker : w # next_worker => queue'[w] = queue[w]
      /\ DOMAIN queue'[next_worker] = DOMAIN queue[next_worker] \cup {Len(queue[next_worker]) + 1}
      /\ \A i \in DOMAIN queue[next_worker] : queue'[next_worker][i] = queue[next_worker][i]
      /\ queue'[next_worker][Len(queue[next_worker]) + 1] = dispatched'
  BY <1>2, <1>4, <1>5
<1>8. \A w \in Worker : \A i \in DOMAIN queue'[w] :
         \/ i \in DOMAIN queue[w] /\ queue'[w][i] = queue[w][i]
         \/ w = next_worker /\ i = Len(queue[next_worker]) + 1 /\ queue'[w][i] = dispatched'
  BY <1>7
<1>9. \A w \in Worker : \A i \in DOMAIN queue[w] : queue[w][i] \in 1..dispatched
  BY DEF BaseInv, Placed
<1>10. \A w \in Worker : \A i \in DOMAIN queue'[w] :
          /\ queue'[w][i] \in 1..dispatched'
          /\ sent'[queue'[w][i]] = NoMessage
          /\ \A v \in Worker : task'[v] # queue'[w][i]
  <2>1. sent' = sent /\ task' = task
    BY DEF SendTask
  <2>2. sent[dispatched'] = NoMessage /\ \A v \in Worker : task[v] # dispatched'
    BY <1>2 DEF BaseInv, Placed
  <2> QED
    BY <1>2, <1>8, <1>9, <2>1, <2>2 DEF BaseInv, Placed
<1>11. \A v, w \in Worker : \A i \in DOMAIN queue'[v], j \in DOMAIN queue'[w] :
          queue'[v][i] = queue'[w][j] => v = w /\ i = j
  BY <1>2, <1>8, <1>9 DEF BaseInv, Placed
<1>12. Placed'
  <2>1. UNCHANGED <<pc, task, sent>>
    BY DEF SendTask
  <2>2. \A w \in Worker : pc[w] # "recv" => task[w] \in 1..dispatched'
    BY <1>2 DEF BaseInv, Placed
  <2>3. \A t \in TxnId : t > dispatched' => sent[t] = NoMessage
    BY <1>2 DEF BaseInv, Placed
  <2> QED
    BY <1>10, <1>11, <2>1, <2>2, <2>3, Zenon DEF BaseInv, Placed
<1>13. Stages'
  BY DEF BaseInv, Stages, Outgoing, SendTask
<1> QED
  BY <1>1, <1>6, <1>12, <1>13 DEF BaseInv

\* A plan gives tasks a suggested proxy and changes nothing else.
LEMMA BasePlan ==
    ASSUME BaseInv, NEW G \in Subgraphs, NEW p \in Proxy, PlanSubgraph(G, p)
    PROVE  BaseInv'
<1>1. VAInv' /\ assigned' = assigned
  BY VAUnchanged DEF BaseInv, PlanSubgraph, vaVars
<1>2. Cardinality(G) \in Nat
  <2>1. deployment \in Deployment
    BY SFAssumption DEF BaseInv, SFTypeOK
  <2>2. G \in SUBSET (1..MaxTxns)
    BY <2>1, ConstantFacts DEF Subgraphs, Deployment
  <2>3. IsFiniteSet(1..MaxTxns)
    BY ConstantFacts, FS_Interval
  <2> QED
    BY <2>2, <2>3, FS_Subset, FS_CardinalityType
<1>3. proxy_loads' \in [Proxy -> Nat]
  BY <1>2 DEF PlanSubgraph, BaseInv, SFTypeOK
<1>4. pre_consensus_routing_plan' \in [TxnId -> {NoProxy} \cup Proxy]
  BY DEF PlanSubgraph, BaseInv, SFTypeOK
<1>5. SFTypeOK'
  BY <1>1, <1>3, <1>4 DEF PlanSubgraph, BaseInv, VAInv, SFTypeOK, workerVars, controllerVars,
                          statelessVars, Subgraphs
<1>6. Placed' /\ Stages'
  BY DEF BaseInv, PlanSubgraph, Placed, Stages, Outgoing, workerVars
<1> QED
  BY <1>1, <1>5, <1>6 DEF BaseInv

\* A verification request is forwarded to a proxy.
LEMMA BaseForwardStateless ==
    ASSUME BaseInv, NEW t \in TxnId, NEW p \in Proxy, ForwardStateless(t, p)
    PROVE  BaseInv'
<1>1. VAInv' /\ assigned' = assigned
  BY VAUnchanged DEF BaseInv, ForwardStateless, vaVars
<1>2. /\ proxy_loads' \in [Proxy -> Nat]
      /\ stateless_at' \in [TxnId -> {NoProxy} \cup Proxy]
      /\ stateless_pc' \in [TxnId -> {"received", "sent", "done"}]
  BY DEF ForwardStateless, BaseInv, SFTypeOK
<1>3. SFTypeOK'
  BY <1>1, <1>2 DEF ForwardStateless, BaseInv, VAInv, SFTypeOK, workerVars, controllerVars,
                    planVars, Subgraphs
<1>4. Placed' /\ Stages'
  BY DEF BaseInv, ForwardStateless, Placed, Stages, Outgoing, workerVars
<1> QED
  BY <1>1, <1>3, <1>4 DEF BaseInv

\* Where the verification request went is put on record.
LEMMA BaseRecordStateless ==
    ASSUME BaseInv, NEW t \in TxnId, RecordStateless(t)
    PROVE  BaseInv'
<1>1. VAInv' /\ assigned' = assigned
  BY VAUnchanged DEF BaseInv, RecordStateless, vaVars
<1>2. /\ stateless_forwarding_table' \in [TxnId -> {NoProxy} \cup Proxy]
      /\ stateless_pc' \in [TxnId -> {"received", "sent", "done"}]
  BY DEF RecordStateless, BaseInv, SFTypeOK
<1>3. SFTypeOK'
  BY <1>1, <1>2 DEF RecordStateless, BaseInv, VAInv, SFTypeOK, workerVars, controllerVars,
                    planVars, Subgraphs
<1>4. Placed' /\ Stages'
  BY DEF BaseInv, RecordStateless, Placed, Stages, Outgoing, workerVars
<1> QED
  BY <1>1, <1>3, <1>4 DEF BaseInv

(***************************************************************************)
(* The controller recomputes the version the task assigned.                *)
(***************************************************************************)
LEMMA NextVersionsAgree ==
    ASSUME NEW required \in RequiredVersions
    PROVE  calculate_next_version(required) = NextVersion(required)
<1> DEFINE R == Range(required)
           T == {InitialVersion} \cup R
           B == InitialVersion + MaxTxns
<1>1. R # {} /\ \A v \in R : v \in Version
  BY DEF RequiredVersions, Range
<1>2. B \in Nat /\ R \subseteq 0..B /\ T \subseteq 0..B /\ T # {} /\ R \subseteq T
      /\ InitialVersion \in Nat /\ \A v \in R : InitialVersion <= v
  BY <1>1, MaxTxnsAssumption DEF Version, InitialVersion
<1>3. \A x \in T : x = InitialVersion \/ x \in R
  OBVIOUS
<1>4. NextVersion(required) = Max(T) + 1 /\ calculate_next_version(required) = Max(R) + 1
  BY DEF NextVersion, calculate_next_version
<1> HIDE DEF R, T, B
<1>5. Max(R) \in R /\ \A x \in R : x <= Max(R)
  BY <1>1, <1>2, MaxIsGreatest
<1>6. Max(T) \in T /\ \A x \in T : x <= Max(T)
  BY <1>2, MaxIsGreatest
<1>7. Max(T) = Max(R)
  <2>1. PICK m \in R : m = Max(R)
    BY <1>5
  <2>2. PICK n \in T : n = Max(T)
    BY <1>6
  <2>3. m \in Nat /\ n \in Nat /\ m <= n /\ n <= m
    BY <1>2, <1>3, <1>5, <1>6, <2>1, <2>2
  <2> QED
    BY <2>1, <2>2, <2>3
<1> QED
  BY <1>4, <1>7

\* Who may have created an entry.
Creator == {NoTask} \cup {TaskOf(t) : t \in TxnId}

\* The entries a caller with these requirements leaves in the map.
Entered(map, t, required) ==
    entry_helper(map, PriorKeys(required) \cup NextKeys(required), TaskOf(t))

(***************************************************************************)
(* One call of get_prior_dependency_and_update: entries are kept or made,  *)
(* and the caller gets the entries of what it produces and of what it      *)
(* reads, initial versions excepted.                                       *)
(***************************************************************************)
Effect(map, after, prior, next, required) ==
    /\ after \in [Object \X Version -> Creator]
    /\ \A k \in Object \X Version : map[k] # NoTask => after[k] = map[k]
    /\ \A o \in Object, v \in Version : after[<<o, v>>] # NoTask =>
          \/ map[<<o, v>>] # NoTask
          \/ o \in DOMAIN required /\ (v = required[o] \/ v = NextVersion(required))
    /\ \A o \in DOMAIN required : required[o] > InitialVersion =>
          <<o, required[o], after[<<o, required[o]>>]>> \in prior
    /\ \A h \in prior : \E o \in DOMAIN required :
          h = <<o, required[o], after[<<o, required[o]>>]>> /\ h[3] # NoTask
    /\ \A o \in DOMAIN required :
          <<o, NextVersion(required), after[<<o, NextVersion(required)>>]>> \in next
    /\ \A g \in next : \E o \in DOMAIN required :
          g = <<o, NextVersion(required), after[<<o, NextVersion(required)>>]>> /\ g[3] # NoTask

\* The entries that registering a task leaves in the dependency controller, and the
\* handles it returns.
LEMMA ControllerEffect ==
    ASSUME NEW map \in [Object \X Version -> Creator], NEW t \in TxnId,
           NEW required \in RequiredVersions, NextVersion(required) \in Version,
           NEW after, after = Entered(map, t, required)
    PROVE  Effect(map, after, Handles(after, PriorKeys(required)),
                  Handles(after, NextKeys(required)), required)
<1> DEFINE prior == PriorKeys(required)
           next == NextKeys(required)
<1>3. /\ DOMAIN required \subseteq Object
      /\ \A o \in DOMAIN required : required[o] \in Version
  BY DEF RequiredVersions
<1>4. next = {<<o, NextVersion(required)>> : o \in DOMAIN required}
  BY NextVersionsAgree DEF NextKeys
<1>5. prior = {k \in {<<o, required[o]>> : o \in DOMAIN required} : k[2] > InitialVersion}
  BY DEF PriorKeys, Keys, initial_version, InitialVersion
<1>6. \A o \in Object, v \in Version :
         <<o, v>> \in prior <=> o \in DOMAIN required /\ v = required[o] /\ v > InitialVersion
  BY <1>5
<1>7. \A o \in Object, v \in Version :
         <<o, v>> \in next <=> o \in DOMAIN required /\ v = NextVersion(required)
  BY <1>4
<1>8. TaskOf(t) # NoTask /\ TaskOf(t) \in Creator
  BY DEF TaskOf, NoTask, Creator
<1>9. after = [k \in Object \X Version |->
                 IF k \in prior \cup next /\ map[k] = NoTask THEN TaskOf(t) ELSE map[k]]
  BY DEF Entered, entry_helper
<1>10. \A k \in prior : \E o \in DOMAIN required :
          k = <<o, required[o]>> /\ k \in Object \X Version
  BY <1>3, <1>5
<1>11. \A h : h \in Handles(after, next) <=> \E k \in next : h = <<k[1], k[2], after[k]>>
  BY DEF Handles
<1>12. \A h : h \in Handles(after, prior) <=> \E k \in prior : h = <<k[1], k[2], after[k]>>
  BY DEF Handles
<1>13. \A k \in next : \E o \in DOMAIN required :
          k = <<o, NextVersion(required)>> /\ k \in Object \X Version
  BY <1>3, <1>4
<1> HIDE DEF prior, next
<1>14. \A k \in prior \cup next : k \in Object \X Version => after[k] # NoTask
  BY <1>8, <1>9
<1>15. after \in [Object \X Version -> Creator]
  BY <1>8, <1>9
<1>16. \A k \in Object \X Version : map[k] # NoTask => after[k] = map[k]
  BY <1>9
<1>17. ASSUME NEW o \in Object, NEW v \in Version, after[<<o, v>>] # NoTask
       PROVE  \/ map[<<o, v>>] # NoTask
              \/ o \in DOMAIN required /\ (v = required[o] \/ v = NextVersion(required))
  BY <1>6, <1>7, <1>9, <1>17
<1>18. ASSUME NEW o \in DOMAIN required
       PROVE  /\ required[o] > InitialVersion =>
                    <<o, required[o], after[<<o, required[o]>>]>> \in Handles(after, prior)
              /\ <<o, NextVersion(required), after[<<o, NextVersion(required)>>]>>
                    \in Handles(after, next)
  <2>1. <<o, NextVersion(required)>> \in next
    BY <1>3, <1>7
  <2>2. required[o] > InitialVersion => <<o, required[o]>> \in prior
    BY <1>3, <1>6
  <2> QED
    BY <1>11, <1>12, <2>1, <2>2
<1>19. ASSUME NEW h \in Handles(after, prior)
       PROVE  \E o \in DOMAIN required :
                 h = <<o, required[o], after[<<o, required[o]>>]>> /\ h[3] # NoTask
  <2>1. PICK k \in prior : h = <<k[1], k[2], after[k]>>
    BY <1>12, <1>19
  <2>2. PICK o \in DOMAIN required : k = <<o, required[o]>> /\ k \in Object \X Version
    BY <1>10, <2>1
  <2> QED
    BY <1>14, <2>1, <2>2
<1>20. ASSUME NEW g \in Handles(after, next)
       PROVE  \E o \in DOMAIN required :
                 /\ g = <<o, NextVersion(required), after[<<o, NextVersion(required)>>]>>
                 /\ g[3] # NoTask
  <2>1. PICK k \in next : g = <<k[1], k[2], after[k]>>
    BY <1>11, <1>20
  <2>2. PICK o \in DOMAIN required :
           k = <<o, NextVersion(required)>> /\ k \in Object \X Version
    BY <1>13, <2>1
  <2> QED
    BY <1>14, <2>1, <2>2
<1>21. Effect(map, after, Handles(after, prior), Handles(after, next), required)
  BY <1>15, <1>16, <1>17, <1>18, <1>19, <1>20 DEF Effect
<1> QED
  BY <1>21 DEF prior, next

(***************************************************************************)
(* RecvTask(w) in terms of the transaction it takes.                       *)
(***************************************************************************)
LEMMA RecvFacts ==
    ASSUME BaseInv, NEW w \in Worker, RecvTask(w)
    PROVE  LET t == queue[w][1]
           IN  /\ pc[w] = "recv" /\ queue[w] # << >> /\ 1 \in DOMAIN queue[w]
               /\ t \in Txns /\ t \in TxnId /\ t \in 1..dispatched
               /\ task' = [task EXCEPT ![w] = t]
               /\ pc' = [pc EXCEPT ![w] = "await"]
               /\ awaiting' = [awaiting EXCEPT ![w] = awaiting'[w]]
               /\ signals' = [signals EXCEPT ![w] = signals'[w]]
               /\ Effect(obj_task_map, obj_task_map', awaiting'[w], signals'[w], assigned[t])
<1> DEFINE t == queue[w][1]
           got == get_prior_dependency_and_update(obj_task_map, TaskOf(t), assigned[t],
                                                  FALSE, FALSE)
           after == Entered(obj_task_map, t, assigned[t])
<1>1. queue[w] \in Seq(TxnId) /\ queue[w] # << >>
  BY DEF BaseInv, SFTypeOK, RecvTask
<1>2. Head(queue[w]) = t /\ 1 \in DOMAIN queue[w] /\ t \in TxnId
  BY <1>1
<1>3. t \in 1..dispatched
  BY <1>2 DEF BaseInv, Placed
<1>4. t \in Txns
  BY <1>3, OrderFacts, ConstantFacts DEF BaseInv, SFTypeOK
<1>5. /\ task' = [task EXCEPT ![w] = t]
      /\ obj_task_map' = got.map
      /\ awaiting' = [awaiting EXCEPT ![w] = got.prior]
      /\ signals' = [signals EXCEPT ![w] = got.next]
      /\ pc[w] = "recv"
      /\ pc' = [pc EXCEPT ![w] = "await"]
  BY <1>2, Zenon DEF RecvTask
<1> HIDE DEF t
<1>6. /\ got.map = after
      /\ got.prior = Handles(after, PriorKeys(assigned[t]))
      /\ got.next = Handles(after, NextKeys(assigned[t]))
  BY DEF get_prior_dependency_and_update, Entered
<1> HIDE DEF got
<1>7. awaiting \in [Worker -> SUBSET Notifys] /\ signals \in [Worker -> SUBSET Notifys]
  BY DEF BaseInv, SFTypeOK
<1>8. /\ obj_task_map' = after
      /\ awaiting' = [awaiting EXCEPT ![w] = Handles(after, PriorKeys(assigned[t]))]
      /\ signals' = [signals EXCEPT ![w] = Handles(after, NextKeys(assigned[t]))]
  BY <1>5, <1>6, Zenon
<1>9. Effect(obj_task_map, after, Handles(after, PriorKeys(assigned[t])),
             Handles(after, NextKeys(assigned[t])), assigned[t])
  <2>1. obj_task_map \in [Object \X Version -> Creator]
    BY DEF BaseInv, SFTypeOK, Creator
  <2>2. assigned[t] \in RequiredVersions /\ NextVersion(assigned[t]) \in Version
    BY <1>4, OrderFacts DEF BaseInv
  <2>3. after = Entered(obj_task_map, t, assigned[t])
    OBVIOUS
  <2> HIDE DEF after
  <2> QED
    BY <1>2, <2>1, <2>2, <2>3, ControllerEffect
<1> HIDE DEF after
<1>10. /\ awaiting'[w] = Handles(after, PriorKeys(assigned[t]))
       /\ signals'[w] = Handles(after, NextKeys(assigned[t]))
  BY <1>7, <1>8
<1>11. Effect(obj_task_map, obj_task_map', awaiting'[w], signals'[w], assigned[t])
  BY <1>8, <1>9, <1>10
<1>12. /\ awaiting' = [awaiting EXCEPT ![w] = awaiting'[w]]
       /\ signals' = [signals EXCEPT ![w] = signals'[w]]
  BY <1>8, <1>10
<1> QED
  BY <1>1, <1>2, <1>3, <1>4, <1>5, <1>11, <1>12 DEF t

\* The Notifys of one call are typed.
LEMMA EffectTyped ==
    ASSUME BaseInv, NEW t \in Txns, NEW after, NEW prior, NEW next,
           Effect(obj_task_map, after, prior, next, assigned[t])
    PROVE  prior \in SUBSET Notifys /\ next \in SUBSET Notifys
<1>1. /\ Objects(t) \subseteq Object
      /\ \A o \in Objects(t) : assigned[t][o] \in Version
      /\ NextVersion(assigned[t]) \in Version
  BY OrderFacts DEF BaseInv
<1>2. ASSUME NEW o \in Object, NEW v \in Version, after[<<o, v>>] # NoTask
      PROVE  <<o, v, after[<<o, v>>]>> \in Notifys
  <2>1. after[<<o, v>>] \in {TaskOf(i) : i \in TxnId}
    BY <1>2 DEF Effect, Creator
  <2>2. PICK i \in TxnId : after[<<o, v>>] = TaskOf(i)
    BY <2>1
  <2> QED
    BY <2>2 DEF Notifys
<1>3. ASSUME NEW h \in prior PROVE h \in Notifys
  <2>1. PICK o \in Objects(t) : h = <<o, assigned[t][o], after[<<o, assigned[t][o]>>]>>
                                /\ h[3] # NoTask
    BY <1>3 DEF Effect, Objects
  <2> QED
    BY <1>1, <1>2, <2>1
<1>4. ASSUME NEW h \in next PROVE h \in Notifys
  <2>1. PICK o \in Objects(t) :
           /\ h = <<o, NextVersion(assigned[t]), after[<<o, NextVersion(assigned[t])>>]>>
           /\ h[3] # NoTask
    BY <1>4 DEF Effect, Objects
  <2> QED
    BY <1>1, <1>2, <2>1
<1> QED
  BY <1>3, <1>4

\* A worker takes a task and registers its dependencies.
LEMMA BaseRecv ==
    ASSUME BaseInv, NEW w \in Worker, RecvTask(w)
    PROVE  BaseInv'
<1> DEFINE t == queue[w][1]
<1>1. /\ pc[w] = "recv" /\ queue[w] # << >> /\ 1 \in DOMAIN queue[w]
      /\ t \in Txns /\ t \in TxnId /\ t \in 1..dispatched
      /\ task' = [task EXCEPT ![w] = t]
      /\ pc' = [pc EXCEPT ![w] = "await"]
      /\ awaiting' = [awaiting EXCEPT ![w] = awaiting'[w]]
      /\ signals' = [signals EXCEPT ![w] = signals'[w]]
      /\ Effect(obj_task_map, obj_task_map', awaiting'[w], signals'[w], assigned[t])
  BY RecvFacts
<1>2. VAInv' /\ assigned' = assigned
  BY VAUnchanged DEF BaseInv, RecvTask, vaVars
<1>3. /\ UNCHANGED <<deployment, dispatched, next_worker, outbox, permits, planVars,
                     states_to_proxy, proxy_loads, statelessVars, sent>>
      /\ queue' = [queue EXCEPT ![w] = Tail(queue[w])]
  BY DEF RecvTask
<1>4. awaiting'[w] \in SUBSET Notifys /\ signals'[w] \in SUBSET Notifys
  BY <1>1, EffectTyped
<1>5. obj_task_map' \in [Object \X Version -> {NoTask} \cup {TaskOf(i) : i \in TxnId}]
  BY <1>1 DEF Effect, Creator
<1> HIDE DEF t
<1>6. queue' \in [Worker -> Seq(TxnId)] /\ queue[w] \in Seq(TxnId) /\ queue \in [Worker -> Seq(TxnId)]
  BY <1>1, <1>3 DEF BaseInv, SFTypeOK
<1>7. /\ task' \in [Worker -> {NoTxn} \cup TxnId]
      /\ pc' \in [Worker -> {"recv", "await", "verify", "send", "notify"}]
      /\ awaiting' \in [Worker -> SUBSET Notifys]
      /\ signals' \in [Worker -> SUBSET Notifys]
  BY <1>1, <1>4 DEF BaseInv, SFTypeOK
<1>8. SFTypeOK'
  BY <1>2, <1>3, <1>5, <1>6, <1>7 DEF BaseInv, VAInv, SFTypeOK, planVars, statelessVars, Subgraphs
<1>9. \A v \in Worker : \A i \in DOMAIN queue'[v] :
        \/ v # w /\ i \in DOMAIN queue[v] /\ queue'[v][i] = queue[v][i]
        \/ v = w /\ i + 1 \in DOMAIN queue[w] /\ i + 1 # 1 /\ queue'[w][i] = queue[w][i + 1]
                 /\ i \in Nat
  BY <1>1, <1>3, <1>6
<1>10. \A v \in Worker : \A i \in DOMAIN queue[v] :
          queue[v][i] = t => v = w /\ i = 1
  BY <1>1, <1>6 DEF BaseInv, Placed, t
<1>11. task \in [Worker -> {NoTxn} \cup TxnId] /\ pc \in [Worker -> {"recv", "await", "verify", "send", "notify"}]
  BY DEF BaseInv, SFTypeOK
<1>12. sent[t] = NoMessage /\ \A v \in Worker : task[v] # t
  BY <1>1 DEF BaseInv, Placed, t
<1>13. \A v \in Worker : \A i \in DOMAIN queue'[v] :
         /\ queue'[v][i] \in 1..dispatched
         /\ sent[queue'[v][i]] = NoMessage
         /\ queue'[v][i] # t
         /\ \A u \in Worker : task[u] # queue'[v][i]
  BY <1>9, <1>10 DEF BaseInv, Placed
<1>14. \A u, v \in Worker : \A i \in DOMAIN queue'[u], j \in DOMAIN queue'[v] :
         queue'[u][i] = queue'[v][j] => u = v /\ i = j
  <2> SUFFICES ASSUME NEW u \in Worker, NEW v \in Worker, NEW i \in DOMAIN queue'[u],
                      NEW j \in DOMAIN queue'[v], queue'[u][i] = queue'[v][j]
               PROVE  u = v /\ i = j
    OBVIOUS
  <2>1. CASE u # w /\ v # w
    BY <1>9, <2>1 DEF BaseInv, Placed
  <2>2. CASE u = w /\ v # w
    BY <1>9, <2>2 DEF BaseInv, Placed
  <2>3. CASE u # w /\ v = w
    BY <1>9, <2>3 DEF BaseInv, Placed
  <2>4. CASE u = w /\ v = w
    <3>1. i + 1 = j + 1 /\ i \in Nat /\ j \in Nat
      BY <1>9, <2>4 DEF BaseInv, Placed
    <3> QED
      BY <2>4, <3>1
  <2> QED
    BY <2>1, <2>2, <2>3, <2>4
<1>15. /\ \A v \in Worker : v # w => task'[v] = task[v] /\ pc'[v] = pc[v]
       /\ task'[w] = t /\ pc'[w] = "await"
  BY <1>1, <1>11
<1>16. t # NoTxn
  BY <1>1, ConstantFacts
<1>17. Placed'
  <2>1. \A v \in Worker : pc'[v] = "recv" <=> task'[v] = NoTxn
    BY <1>15, <1>16 DEF BaseInv, Placed
  <2>2. \A v \in Worker : pc'[v] # "recv" => task'[v] \in 1..dispatched
    BY <1>1, <1>15 DEF BaseInv, Placed
  <2>3. \A u, v \in Worker : task'[u] = task'[v] /\ task'[u] # NoTxn => u = v
    BY <1>12, <1>15 DEF BaseInv, Placed
  <2>4. \A v \in Worker : \A i \in DOMAIN queue'[v] : \A u \in Worker : task'[u] # queue'[v][i]
    BY <1>13, <1>15
  <2> QED
    BY <1>3, <1>13, <1>14, <2>1, <2>2, <2>3, <2>4 DEF BaseInv, Placed
<1>18. Stages'
  <2>1. \A v \in Worker : v # w => awaiting'[v] = awaiting[v] /\ signals'[v] = signals[v]
    BY <1>1 DEF BaseInv, SFTypeOK
  <2> QED
    BY <1>3, <1>12, <1>15, <2>1 DEF BaseInv, Stages, Outgoing
<1> QED
  BY <1>2, <1>8, <1>17, <1>18 DEF BaseInv

\* A worker takes the permit of the handle that it awaits.
LEMMA BaseAwait ==
    ASSUME BaseInv, NEW w \in Worker, AwaitPrior(w)
    PROVE  BaseInv'
<1> DEFINE h == FirstHandle(awaiting[w])
<1>1. VAInv' /\ assigned' = assigned
  BY VAUnchanged DEF BaseInv, AwaitPrior, vaVars
<1>2. /\ awaiting' = [awaiting EXCEPT ![w] = awaiting[w] \ {h}]
      /\ permits' = permits \ {h} /\ pc[w] = "await"
  BY DEF AwaitPrior
<1> HIDE DEF h
<1>3. awaiting' \in [Worker -> SUBSET Notifys] /\ permits' \subseteq Notifys
  BY <1>2 DEF BaseInv, SFTypeOK
<1>4. SFTypeOK'
  BY <1>1, <1>3 DEF BaseInv, VAInv, SFTypeOK, AwaitPrior, planVars, statelessVars, Subgraphs
<1>5. Placed'
  BY DEF BaseInv, Placed, AwaitPrior
<1>6. Stages'
  <2>1. \A v \in Worker : v # w => awaiting'[v] = awaiting[v]
    BY <1>2 DEF BaseInv, SFTypeOK
  <2>2. UNCHANGED <<pc, task, outbox, sent, signals>>
    BY DEF AwaitPrior
  <2> QED
    BY <1>2, <2>1, <2>2 DEF BaseInv, Stages, Outgoing
<1> QED
  BY <1>1, <1>4, <1>5, <1>6 DEF BaseInv

(***************************************************************************)
(* RouteTask(w) in terms of the proxy p it picks and the verifier s it     *)
(* names.                                                                  *)
(***************************************************************************)
RoutedMessage(t, p, s) ==
    [kind |-> IF IsPrimarySeparation THEN "Txn" ELSE "CombinedTxn",
     proxy |-> p, stateless |-> s, owner |-> MissingStates(assigned[t], p)]

RoutedAs(w, p, s) ==
    /\ states_to_proxy' = MoveStates(assigned[task[w]], p)
    /\ outbox' = [outbox EXCEPT ![w] = RoutedMessage(task[w], p, s)]
    /\ proxy_loads' \in [Proxy -> Nat]
    /\ Mode = "PrimaryPreSeparation" =>
          s = IF stateless_forwarding_table[task[w]] = NoProxy THEN 0
              ELSE stateless_forwarding_table[task[w]]
    /\ ~ IsPrimarySeparation => s = p

\* Routing a task means choosing a proxy and naming a verifier for it.
LEMMA RouteFacts ==
    ASSUME BaseInv, NEW w \in Worker, RouteTask(w)
    PROVE  \E p \in Proxy, s \in Proxy : RoutedAs(w, p, s)
<1> DEFINE t == task[w]
           required == assigned[t]
           isPlanned == pre_consensus_routing_plan[t] # NoProxy
           p == IF isPlanned THEN pre_consensus_routing_plan[t]
                             ELSE FallbackProxy(required, t - 1)
           loads == IF isPlanned THEN proxy_loads ELSE [proxy_loads EXCEPT ![p] = @ + 1]
<1>1. pc[w] = "await"
  BY DEF RouteTask
<1>2. t \in TxnId /\ t - 1 \in Nat /\ required \in RequiredVersions
  BY <1>1, HeldFacts, ConstantFacts
<1>3. p \in Proxy
  <2>1. FallbackProxy(required, t - 1) \in Proxy
    BY <1>2, FallbackIsProxy
  <2>2. pre_consensus_routing_plan[t] \in {NoProxy} \cup Proxy
    BY <1>2 DEF BaseInv, SFTypeOK
  <2> QED
    BY <2>1, <2>2
<1>4. loads \in [Proxy -> Nat]
  <2>1. proxy_loads \in [Proxy -> Nat]
    BY DEF BaseInv, SFTypeOK
  <2> HIDE DEF p
  <2>2. [proxy_loads EXCEPT ![p] = @ + 1] \in [Proxy -> Nat]
    BY <1>3, <2>1
  <2> QED
    BY <2>1, <2>2
<1>5. PICK s \in StatelessChoices(t, p, loads) :
        /\ outbox' = [outbox EXCEPT ![w] = RoutedMessage(t, p, s)]
        /\ proxy_loads' = IF Mode = "PrimaryPostSeparation"
                          THEN [loads EXCEPT ![s] = @ + 1] ELSE loads
  BY Zenon DEF RouteTask, RoutedMessage
<1>6. states_to_proxy' = MoveStates(required, p)
  BY Zenon DEF RouteTask
<1> HIDE DEF p, loads
<1>7. /\ s \in Proxy
      /\ Mode = "PrimaryPreSeparation" =>
           s = IF stateless_forwarding_table[t] = NoProxy THEN 0 ELSE stateless_forwarding_table[t]
      /\ ~ IsPrimarySeparation => s = p
  <2>1. stateless_forwarding_table[t] \in {NoProxy} \cup Proxy /\ 0 \in Proxy
    BY <1>2, ConstantFacts DEF BaseInv, SFTypeOK
  <2>2. CASE Mode = "PrimaryPostSeparation"
    BY <1>5, <2>2 DEF StatelessChoices, IsPrimarySeparation
  <2>3. CASE Mode = "PrimaryPreSeparation"
    BY <1>5, <2>1, <2>3 DEF StatelessChoices, IsPrimarySeparation
  <2>4. CASE Mode # "PrimaryPostSeparation" /\ Mode # "PrimaryPreSeparation"
    BY <1>3, <1>5, <2>4 DEF StatelessChoices, IsPrimarySeparation
  <2> QED
    BY <2>2, <2>3, <2>4
<1>8. proxy_loads' \in [Proxy -> Nat]
  <2>1. [loads EXCEPT ![s] = @ + 1] \in [Proxy -> Nat]
    BY <1>4, <1>7
  <2> QED
    BY <1>4, <1>5, <2>1
<1> QED
  BY <1>3, <1>5, <1>6, <1>7, <1>8, Zenon DEF RoutedAs

\* What the other variables become.
LEMMA RouteRest ==
    ASSUME BaseInv, NEW w \in Worker, RouteTask(w)
    PROVE  /\ pc[w] = "await" /\ awaiting[w] = {}
           /\ obj_task_map' = remove_dependency(obj_task_map, assigned[task[w]])
           /\ pre_consensus_routing_plan' = [pre_consensus_routing_plan EXCEPT ![task[w]] = NoProxy]
           /\ stateless_forwarding_table' =
                 IF Mode = "PrimaryPreSeparation"
                 THEN [stateless_forwarding_table EXCEPT ![task[w]] = NoProxy]
                 ELSE stateless_forwarding_table
           /\ pc' = [pc EXCEPT ![w] = IF Mode = "PrimaryPostSeparation" THEN "verify" ELSE "send"]
           /\ UNCHANGED <<deployment, vaVars, dispatched, next_worker, queue, task, awaiting, signals,
                          permits, planned, stateless_pc, stateless_at, sent>>
BY Zenon DEF RouteTask

\* A worker decides on the proxy and updates the tables.
LEMMA BaseRoute ==
    ASSUME BaseInv, NEW w \in Worker, RouteTask(w)
    PROVE  BaseInv'
<1> DEFINE t == task[w]
           required == assigned[t]
<1>1. PICK p \in Proxy, s \in Proxy : RoutedAs(w, p, s)
  BY RouteFacts
<1>2. /\ pc[w] = "await" /\ awaiting[w] = {}
      /\ obj_task_map' = remove_dependency(obj_task_map, required)
      /\ pre_consensus_routing_plan' = [pre_consensus_routing_plan EXCEPT ![t] = NoProxy]
      /\ stateless_forwarding_table' =
            IF Mode = "PrimaryPreSeparation"
            THEN [stateless_forwarding_table EXCEPT ![t] = NoProxy]
            ELSE stateless_forwarding_table
      /\ pc' = [pc EXCEPT ![w] = IF Mode = "PrimaryPostSeparation" THEN "verify" ELSE "send"]
      /\ UNCHANGED <<deployment, vaVars, dispatched, next_worker, queue, task, awaiting, signals,
                     permits, planned, stateless_pc, stateless_at, sent>>
  BY RouteRest
<1>3. VAInv' /\ assigned' = assigned
  BY <1>2, VAUnchanged DEF BaseInv, vaVars
<1>4. t \in TxnId /\ required \in RequiredVersions
  BY <1>2, HeldFacts
<1>5. \A o \in DOMAIN required : o \in Object /\ required[o] \in Version
  BY <1>4 DEF RequiredVersions
<1>6. MissingStates(required, p) \in [DOMAIN required -> Proxy \cup {NoProxy}]
  BY <1>5 DEF MissingStates, BaseInv, SFTypeOK
<1>7. RoutedMessage(t, p, s) \in Message
  <2>1. DOMAIN required \in (SUBSET Object) \ {{}}
    BY <1>4 DEF RequiredVersions
  <2>2. MissingStates(required, p) \in
          UNION {[S -> Proxy \cup {NoProxy}] : S \in (SUBSET Object) \ {{}}}
    BY <1>6, <2>1
  <2> QED
    BY <2>2 DEF RoutedMessage, Message
<1>8. outbox' \in [Worker -> {NoMessage} \cup Message] /\ outbox'[w] = RoutedMessage(t, p, s)
      /\ \A v \in Worker : v # w => outbox'[v] = outbox[v]
  <2>1. outbox \in [Worker -> {NoMessage} \cup Message]
    BY DEF BaseInv, SFTypeOK
  <2>2. outbox' = [outbox EXCEPT ![w] = RoutedMessage(t, p, s)]
    BY <1>1 DEF RoutedAs
  <2> QED
    BY <1>7, <2>1, <2>2
<1>9. states_to_proxy' \in [Object \X Version -> {NoProxy} \cup Proxy]
  <2>1. states_to_proxy' = MoveStates(required, p)
    BY <1>1 DEF RoutedAs
  <2> QED
    BY <2>1 DEF MoveStates, BaseInv, SFTypeOK
<1>10. obj_task_map' \in [Object \X Version -> {NoTask} \cup {TaskOf(i) : i \in TxnId}]
  BY <1>2 DEF remove_dependency, BaseInv, SFTypeOK
<1>11. /\ pre_consensus_routing_plan' \in [TxnId -> {NoProxy} \cup Proxy]
       /\ stateless_forwarding_table' \in [TxnId -> {NoProxy} \cup Proxy]
       /\ pc' \in [Worker -> {"recv", "await", "verify", "send", "notify"}]
  BY <1>2 DEF BaseInv, SFTypeOK
<1>12. proxy_loads' \in [Proxy -> Nat]
  BY <1>1 DEF RoutedAs
<1>13. SFTypeOK'
  BY <1>2, <1>3, <1>8, <1>9, <1>10, <1>11, <1>12 DEF BaseInv, VAInv, SFTypeOK, Subgraphs
<1>14. /\ pc'[w] \in {"verify", "send"} /\ pc'[w] # "recv" /\ pc'[w] # "await" /\ pc'[w] # "notify"
       /\ \A v \in Worker : v # w => pc'[v] = pc[v]
  BY <1>2 DEF BaseInv, SFTypeOK
<1>15. Placed'
  <2>1. \A v \in Worker : pc'[v] = "recv" <=> pc[v] = "recv"
    BY <1>2, <1>14
  <2> QED
    BY <1>2, <2>1 DEF BaseInv, Placed
<1>16. Stages'
  BY <1>2, <1>7, <1>8, <1>14 DEF BaseInv, Stages, Outgoing
<1> QED
  BY <1>3, <1>13, <1>15, <1>16 DEF BaseInv

\* The worker sends the verification request.
LEMMA BaseSendStateless ==
    ASSUME BaseInv, NEW w \in Worker, SendStateless(w)
    PROVE  BaseInv'
<1>1. VAInv' /\ assigned' = assigned
  BY VAUnchanged DEF BaseInv, SendStateless, vaVars
<1>2. /\ pc[w] = "verify" /\ pc' = [pc EXCEPT ![w] = "send"]
      /\ UNCHANGED <<task, outbox, sent, signals, awaiting, queue, dispatched>>
  BY DEF SendStateless
<1>3. outbox[w].stateless \in Proxy
  BY <1>2 DEF BaseInv, Stages, Outgoing, Message
<1>4. task[w] \in TxnId
  BY <1>2, HeldFacts
<1>5. /\ stateless_at' \in [TxnId -> {NoProxy} \cup Proxy]
      /\ pc' \in [Worker -> {"recv", "await", "verify", "send", "notify"}]
  BY <1>3, <1>4 DEF SendStateless, BaseInv, SFTypeOK
<1>6. SFTypeOK'
  BY <1>1, <1>5 DEF SendStateless, BaseInv, VAInv, SFTypeOK, controllerVars, planVars, Subgraphs
<1>7. pc'[w] = "send" /\ \A v \in Worker : v # w => pc'[v] = pc[v]
  BY <1>2 DEF BaseInv, SFTypeOK
<1>8. Placed'
  <2>1. \A v \in Worker : pc'[v] = "recv" <=> pc[v] = "recv"
    BY <1>2, <1>7
  <2> QED
    BY <1>2, <2>1 DEF BaseInv, Placed
<1>9. Stages'
  BY <1>2, <1>7 DEF BaseInv, Stages, Outgoing
<1> QED
  BY <1>1, <1>6, <1>8, <1>9 DEF BaseInv

\* The worker sends the transaction to its proxy.
LEMMA BaseSendToProxy ==
    ASSUME BaseInv, NEW w \in Worker, SendToProxy(w)
    PROVE  BaseInv'
<1>1. VAInv' /\ assigned' = assigned
  BY VAUnchanged DEF BaseInv, SendToProxy, vaVars
<1>2. /\ pc[w] = "send" /\ pc' = [pc EXCEPT ![w] = "notify"]
      /\ sent' = [sent EXCEPT ![task[w]] = outbox[w]]
      /\ outbox' = [outbox EXCEPT ![w] = NoMessage]
      /\ UNCHANGED <<task, signals, awaiting, queue, dispatched>>
  BY DEF SendToProxy
<1>3. outbox[w] \in Message /\ outbox[w] # NoMessage
  BY <1>2, ConstantFacts DEF BaseInv, Stages, Outgoing
<1>4. task[w] \in TxnId /\ task[w] \in 1..dispatched /\ dispatched \in Nat
  BY <1>2, HeldFacts
<1>5. /\ sent' \in [TxnId -> {NoMessage} \cup Message]
      /\ outbox' \in [Worker -> {NoMessage} \cup Message]
      /\ pc' \in [Worker -> {"recv", "await", "verify", "send", "notify"}]
  BY <1>2, <1>3, <1>4 DEF BaseInv, SFTypeOK
<1>6. SFTypeOK'
  BY <1>1, <1>5 DEF SendToProxy, BaseInv, VAInv, SFTypeOK, controllerVars, planVars, statelessVars,
                    Subgraphs
<1>7. /\ pc'[w] = "notify" /\ \A v \in Worker : v # w => pc'[v] = pc[v]
      /\ \A v \in Worker : v # w => outbox'[v] = outbox[v]
      /\ sent'[task[w]] = outbox[w] /\ \A i \in TxnId : i # task[w] => sent'[i] = sent[i]
  BY <1>2, <1>4 DEF BaseInv, SFTypeOK
<1>8. Placed'
  <2>1. \A v \in Worker : pc'[v] = "recv" <=> pc[v] = "recv"
    BY <1>2, <1>7
  <2>2. \A v \in Worker : \A i \in DOMAIN queue[v] : sent'[queue[v][i]] = NoMessage
    <3>1. queue \in [Worker -> Seq(TxnId)]
      BY DEF BaseInv, SFTypeOK
    <3>2. \A v \in Worker : \A i \in DOMAIN queue[v] : queue[v][i] \in TxnId
      BY <3>1
    <3> QED
      BY <1>7, <3>2 DEF BaseInv, Placed
  <2>3. \A i \in TxnId : i > dispatched => sent'[i] = NoMessage
    <3>1. ~ (task[w] > dispatched)
      BY <1>4
    <3> QED
      BY <1>7, <3>1 DEF BaseInv, Placed
  <2> QED
    BY <1>2, <2>1, <2>2, <2>3 DEF BaseInv, Placed
<1>9. Stages'
  <2>1. \A v \in Worker : v # w /\ pc[v] # "recv" => task[v] # task[w] /\ task[v] \in TxnId
    BY <1>2, HeldFacts DEF BaseInv, Placed
  <2> QED
    BY <1>2, <1>3, <1>7, <2>1 DEF BaseInv, Stages, Outgoing
<1> QED
  BY <1>1, <1>6, <1>8, <1>9 DEF BaseInv

\* The worker notifies those who wait for the task.
LEMMA BaseNotify ==
    ASSUME BaseInv, NEW w \in Worker, NotifyNext(w)
    PROVE  BaseInv'
<1>1. VAInv' /\ assigned' = assigned
  BY VAUnchanged DEF BaseInv, NotifyNext, vaVars
<1>2. /\ pc[w] = "notify" /\ pc' = [pc EXCEPT ![w] = "recv"]
      /\ task' = [task EXCEPT ![w] = NoTxn]
      /\ signals' = [signals EXCEPT ![w] = {}]
      /\ permits' = permits \cup signals[w]
      /\ UNCHANGED <<outbox, sent, awaiting, queue, dispatched>>
  BY DEF NotifyNext
<1>3. /\ task' \in [Worker -> {NoTxn} \cup TxnId]
      /\ signals' \in [Worker -> SUBSET Notifys]
      /\ permits' \subseteq Notifys
      /\ pc' \in [Worker -> {"recv", "await", "verify", "send", "notify"}]
  BY <1>2 DEF BaseInv, SFTypeOK
<1>4. SFTypeOK'
  BY <1>1, <1>3 DEF NotifyNext, BaseInv, VAInv, SFTypeOK, planVars, statelessVars, Subgraphs
<1>5. /\ pc'[w] = "recv" /\ task'[w] = NoTxn /\ signals'[w] = {}
      /\ \A v \in Worker : v # w => pc'[v] = pc[v] /\ task'[v] = task[v] /\ signals'[v] = signals[v]
  BY <1>2 DEF BaseInv, SFTypeOK
<1>6. Placed'
  <2>1. \A v \in Worker : \A i \in DOMAIN queue[v] : queue[v][i] # NoTxn
    <3>1. queue \in [Worker -> Seq(TxnId)]
      BY DEF BaseInv, SFTypeOK
    <3>2. \A v \in Worker : \A i \in DOMAIN queue[v] : queue[v][i] \in TxnId
      BY <3>1
    <3> QED
      BY <3>2, ConstantFacts
  <2> QED
    BY <1>2, <1>5, <2>1 DEF BaseInv, Placed
<1>7. Stages'
  BY <1>2, <1>5 DEF BaseInv, Stages, Outgoing
<1> QED
  BY <1>1, <1>4, <1>6, <1>7 DEF BaseInv

\* Every step of the forwarder keeps types and places.
LEMMA BaseStep == BaseInv /\ [SFNext]_sfVars => BaseInv'
<1> SUFFICES ASSUME BaseInv, [SFNext]_sfVars PROVE BaseInv'
  OBVIOUS
<1>1. ASSUME NEW S \in SUBSET Object, Assign(S) PROVE BaseInv'
  BY <1>1, BaseAssign
<1>2. CASE SendTask
  BY <1>2, BaseSendTask
<1>3. ASSUME NEW G \in Subgraphs, NEW p \in Proxy, PlanSubgraph(G, p) PROVE BaseInv'
  BY <1>3, BasePlan
<1>4. ASSUME NEW t \in TxnId, NEW p \in Proxy, ForwardStateless(t, p) PROVE BaseInv'
  BY <1>4, BaseForwardStateless
<1>5. ASSUME NEW t \in TxnId, RecordStateless(t) PROVE BaseInv'
  BY <1>5, BaseRecordStateless
<1>6. ASSUME NEW w \in Worker, WorkerStep(w) PROVE BaseInv'
  BY <1>6, BaseRecv, BaseAwait, BaseRoute, BaseSendStateless, BaseSendToProxy, BaseNotify
     DEF WorkerStep
<1>7. CASE UNCHANGED sfVars
  <2>1. VAInv'
    BY <1>7, VAUnchanged DEF BaseInv, sfVars
  <2>2. SFTypeOK' /\ Placed' /\ Stages'
    BY <1>7, <2>1 DEF BaseInv, VAInv, SFTypeOK, Placed, Stages, Outgoing, Subgraphs, sfVars, vaVars,
                      workerVars, controllerVars, planVars, statelessVars
  <2> QED
    BY <2>1, <2>2 DEF BaseInv
<1> QED
  BY <1>1, <1>2, <1>3, <1>4, <1>5, <1>6, <1>7 DEF SFNext, Finished

(***************************************************************************)
(* Type correctness of the forwarder: send_task never indexes past its     *)
(* senders, the fallbacks always find a proxy, and the version assignment  *)
(* the workers read keeps its invariant under all of them.                 *)
(***************************************************************************)
THEOREM SFTypeCorrect == SFSpec => [](SFTypeOK /\ BaseInv)
<1>1. BaseInv => SFTypeOK
  BY DEF BaseInv
<1> QED
  BY <1>1, BaseInit, BaseStep, PTL DEF SFSpec

-----------------------------------------------------------------------------
(* The chain of Notifys.                                                   *)

(***************************************************************************)
(* The keys of the controller tell transactions apart: a version of an     *)
(* object is read by one transaction, produced by an earlier one, and      *)
(* nobody between the two touches the object.                              *)
(***************************************************************************)
LEMMA OrderKeys ==
    ASSUME VAInv, NEW i \in Txns, NEW j \in Txns, NEW o \in Objects(i) \cap Objects(j)
    PROVE  /\ assigned[i][o] = assigned[j][o] => i = j
           /\ Produced(i) = assigned[j][o] =>
                 /\ i < j
                 /\ \A k \in Txns : k < j /\ o \in Objects(k) => k < i \/ k = i
<1>1. /\ i \in Nat /\ j \in Nat /\ \A k \in Txns : k \in Nat
      /\ \A k \in Txns : /\ Produced(k) \in Nat
                         /\ \A x \in Objects(k) : assigned[k][x] \in Nat
                                                  /\ assigned[k][x] < Produced(k)
      /\ \A k, l \in Txns : \A x \in Objects(k) \cap Objects(l) :
            k < l => Produced(k) <= assigned[l][x]
  BY OrderFacts, MaxTxnsAssumption DEF Version, InitialVersion, Produced
<1>2. assigned[i][o] = assigned[j][o] => i = j
  <2>1. ~ (i < j /\ assigned[i][o] = assigned[j][o])
    BY <1>1
  <2>2. ~ (j < i /\ assigned[i][o] = assigned[j][o])
    BY <1>1
  <2> QED
    BY <1>1, <2>1, <2>2
<1>3. ASSUME Produced(i) = assigned[j][o] PROVE i < j
  <2>1. i # j
    BY <1>1, <1>3
  <2>2. ~ (j < i)
    <3>1. j < i => Produced(j) <= assigned[i][o]
      BY <1>1
    <3>2. /\ assigned[i][o] \in Nat /\ assigned[j][o] \in Nat /\ Produced(i) \in Nat /\ Produced(j) \in Nat
          /\ assigned[i][o] < Produced(i) /\ assigned[j][o] < Produced(j)
      BY <1>1
    <3> QED
      BY <1>3, <3>1, <3>2
  <2> QED
    BY <1>1, <2>1, <2>2
<1>4. ASSUME Produced(i) = assigned[j][o], NEW k \in Txns, k < j, o \in Objects(k)
      PROVE  k < i \/ k = i
  <2>1. SUFFICES ASSUME i < k PROVE FALSE
    BY <1>1
  <2>2. Produced(i) <= assigned[k][o] /\ Produced(k) <= assigned[j][o]
    BY <1>1, <1>4, <2>1
  <2>3. assigned[k][o] < Produced(k) /\ assigned[k][o] \in Nat /\ Produced(k) \in Nat
        /\ Produced(i) \in Nat
    BY <1>1, <1>4
  <2> QED
    BY <1>4, <2>2, <2>3
<1> QED
  BY <1>2, <1>3, <1>4

\* The first Notify to wait for is one of them.
LEMMA FirstHandleIn ==
    ASSUME NEW A \in SUBSET Notifys, A # {}
    PROVE  FirstHandle(A) \in A
<1> DEFINE T == {h[1] : h \in A}
<1>1. \A h \in A : h[1] \in Nat
  BY SFAssumption DEF Notifys
<1>2. T \subseteq Nat /\ T # {}
  BY <1>1
<1>3. \E m \in T : \A x \in T : m <= x
  <2> HIDE DEF T
  <2> QED
    BY <1>2, NatSetHasMin
<1>4. \E h \in A : \A g \in A : h[1] <= g[1]
  BY <1>3
<1> QED
  BY <1>4 DEF FirstHandle

\* At the start there are no accesses to order.
LEMMA ChainInit == SFInit => ChainInv
<1> SUFFICES ASSUME SFInit PROVE ChainInv
  OBVIOUS
<1>1. Txns = {}
  BY DEF SFInit, VAInit, Txns
<1>2. \A w \in Worker : pc[w] = "recv" /\ awaiting[w] = {}
  BY DEF SFInit
<1>3. permits = {} /\ \A k \in Object \X Version : obj_task_map[k] = NoTask
  BY DEF SFInit, NewController
<1>4. InOrder /\ WaitsHeld /\ SignalsHeld /\ PermitsDue /\ PermitsKept
  BY <1>1, <1>2, <1>3 DEF InOrder, WaitsHeld, SignalsHeld, PermitsDue, PermitsKept
<1>5. EntriesUsed
  BY <1>3 DEF EntriesUsed
<1> QED
  BY <1>4, <1>5 DEF ChainInv

\* Steps that touch none of the variables of the chain.
LEMMA ChainQuiet ==
    ASSUME ChainInv,
           UNCHANGED <<assigned, pc, task, awaiting, signals, obj_task_map, permits, sent>>
    PROVE  ChainInv'
<1>1. (InOrder /\ WaitsHeld)'
  BY DEF ChainInv, InOrder, WaitsHeld, Routed, Done, Outgoing, Settled, Handle, Txns, Objects
<1>2. (SignalsHeld /\ PermitsDue)'
  BY DEF ChainInv, SignalsHeld, PermitsDue, Routed, Done, Outgoing, Handle, Txns, Objects, Produced
<1>3. (EntriesUsed /\ PermitsKept)'
  BY DEF ChainInv, EntriesUsed, PermitsKept, Routed, Done, Outgoing, Handle, Txns, Objects, Produced
<1> QED
  BY <1>1, <1>2, <1>3 DEF ChainInv

\* A transaction that gets its versions is new to the forwarder.
LEMMA AssignFacts ==
    ASSUME BaseInv, NEW S \in SUBSET Object, Assign(S)
    PROVE  LET n == Len(assigned) + 1
           IN  /\ Txns' = Txns \cup {n}
               /\ n \notin Txns
               /\ \A t \in Txns : assigned'[t] = assigned[t] /\ 1..(t - 1) \subseteq Txns
               /\ \A w \in Worker : task[w] # n /\ (pc[w] # "recv" => task[w] \in Txns)
               /\ sent[n] = NoMessage
               /\ DOMAIN assigned'[n] = S
               /\ UNCHANGED <<deployment, dispatched, next_worker, workerVars, controllerVars, planVars,
                              states_to_proxy, proxy_loads, statelessVars, sent>>
<1> DEFINE n == Len(assigned) + 1
<1>1. /\ assigned \in Seq(RequiredVersions) /\ Len(assigned) \in Nat /\ Len(assigned) < MaxTxns
      /\ n \in Nat /\ n \in TxnId
      /\ assigned' = Append(assigned, [o \in S |-> CurrentVersion(o)])
      /\ Txns = 1..Len(assigned)
  BY ConstantFacts DEF BaseInv, VAInv, VATypeOK, Assign, AssignSharedObjectVersions, Txns
<1>2. /\ Txns' = 1..n /\ \A t \in Txns : assigned'[t] = assigned[t]
      /\ assigned'[n] = [o \in S |-> CurrentVersion(o)]
  <2>1. Len(assigned') = n /\ DOMAIN assigned' = 1..n
    BY <1>1
  <2> QED
    BY <1>1, <2>1 DEF Txns
<1>3. dispatched \in 0..Len(assigned)
  BY DEF BaseInv, SFTypeOK
<1>4. sent[n] = NoMessage
  BY <1>1, <1>3 DEF BaseInv, Placed
<1>5. \A w \in Worker : task[w] # n /\ (pc[w] # "recv" => task[w] \in Txns)
  <2> TAKE w \in Worker
  <2>1. CASE pc[w] = "recv"
    BY <1>1, <2>1 DEF BaseInv, Placed, NoTxn
  <2>2. CASE pc[w] # "recv"
    BY <1>1, <2>2, HeldFacts
  <2> QED
    BY <2>1, <2>2
<1>6. DOMAIN assigned'[n] = S
  BY <1>2
<1>7. \A t \in Txns : 1..(t - 1) \subseteq Txns
  BY <1>1
<1> QED
  BY <1>1, <1>2, <1>4, <1>5, <1>6, <1>7 DEF Assign

\* A newly assigned access is the last of its chains.
LEMMA ChainAssign ==
    ASSUME BaseInv, ChainInv, NEW S \in SUBSET Object, Assign(S)
    PROVE  ChainInv'
<1> DEFINE n == Len(assigned) + 1
<1>1. /\ Txns' = Txns \cup {n}
      /\ n \notin Txns
      /\ \A t \in Txns : assigned'[t] = assigned[t] /\ 1..(t - 1) \subseteq Txns
      /\ \A w \in Worker : task[w] # n /\ (pc[w] # "recv" => task[w] \in Txns)
      /\ sent[n] = NoMessage
  BY AssignFacts
<1>2. UNCHANGED <<pc, task, awaiting, signals, obj_task_map, permits, sent>>
  BY AssignFacts DEF workerVars, controllerVars
<1> HIDE DEF n
<1>3. /\ \A i : Done(i)' <=> Done(i)
      /\ \A i : Routed(i)' <=> Routed(i)
      /\ \A w \in Worker : Outgoing(w)' <=> Outgoing(w)
      /\ \A o, v : Handle(o, v)' = Handle(o, v)
  BY <1>2 DEF Done, Routed, Outgoing, Handle
<1>4. ~ Routed(n) /\ ~ Done(n)
  BY <1>1 DEF Routed, Done
<1>5. \A t \in Txns : Objects(t)' = Objects(t) /\ Produced(t)' = Produced(t)
  BY <1>1 DEF Objects, Produced
<1>6. \A t \in Txns : \A o : Settled(t, o)' <=> Settled(t, o)
  BY <1>1, <1>3, <1>5 DEF Settled
<1>7. \A w \in Worker : awaiting[w] # {} => pc[w] # "recv"
  BY DEF BaseInv, Stages
<1>8. InOrder'
  BY <1>1, <1>2, <1>3, <1>4, <1>5, <1>6 DEF ChainInv, InOrder
<1>9. WaitsHeld'
  BY <1>1, <1>2, <1>3, <1>5, <1>7 DEF ChainInv, WaitsHeld
<1>10. SignalsHeld'
  BY <1>1, <1>2, <1>3, <1>5 DEF ChainInv, SignalsHeld
<1>11. PermitsDue'
  BY <1>1, <1>2, <1>3, <1>4, <1>5 DEF ChainInv, PermitsDue
<1>12. EntriesUsed'
  BY <1>1, <1>2, <1>3, <1>4, <1>5 DEF ChainInv, EntriesUsed
<1>13. PermitsKept'
  BY <1>1, <1>2, <1>3, <1>4, <1>5 DEF ChainInv, PermitsKept
<1> QED
  BY <1>8, <1>9, <1>10, <1>11, <1>12, <1>13 DEF ChainInv

\* A worker that takes a task awaits exactly its predecessors.
LEMMA ChainRecv ==
    ASSUME BaseInv, ChainInv, NEW w \in Worker, RecvTask(w)
    PROVE  ChainInv'
<1> DEFINE After(o, v) == <<o, v, obj_task_map'[<<o, v>>]>>
<1>1. PICK t \in Txns :
        /\ pc[w] = "recv" /\ t \in TxnId /\ t # NoTxn
        /\ task' = [task EXCEPT ![w] = t]
        /\ pc' = [pc EXCEPT ![w] = "await"]
        /\ awaiting' = [awaiting EXCEPT ![w] = awaiting'[w]]
        /\ signals' = [signals EXCEPT ![w] = signals'[w]]
        /\ Effect(obj_task_map, obj_task_map', awaiting'[w], signals'[w], assigned[t])
        /\ sent[t] = NoMessage
        /\ \A v \in Worker : task[v] # t
  BY RecvFacts, ConstantFacts DEF BaseInv, Placed
<1>2. UNCHANGED <<assigned, permits, sent>>
  BY DEF RecvTask, vaVars
<1>3. /\ task'[w] = t /\ pc'[w] = "await" /\ task[w] = NoTxn
      /\ \A v \in Worker : v # w => /\ task'[v] = task[v] /\ pc'[v] = pc[v]
                                    /\ awaiting'[v] = awaiting[v] /\ signals'[v] = signals[v]
  BY <1>1 DEF BaseInv, SFTypeOK, Placed
<1>4. /\ Txns' = Txns /\ \A i : Objects(i)' = Objects(i) /\ Produced(i)' = Produced(i)
  BY <1>2 DEF Txns, Objects, Produced
<1>5. /\ VAInv
      /\ \A i \in Txns : i \in TxnId /\ i # NoTxn /\ 1..(i - 1) \subseteq Txns
      /\ \A i \in Txns : /\ Objects(i) \subseteq Object
                         /\ Produced(i) \in Version /\ Produced(i) > InitialVersion
                         /\ \A o \in Objects(i) : /\ assigned[i][o] \in Version
                                                  /\ assigned[i][o] < Produced(i)
      /\ \A i, j \in Txns : \A o \in Objects(i) \cap Objects(j) :
            i < j => Produced(i) <= assigned[j][o]
  BY OrderFacts, ConstantFacts DEF BaseInv, Produced
<1>6. \A i \in Txns : Done(i)' <=> Done(i)
  BY <1>1, <1>2, <1>3, <1>5 DEF Done
<1>7. \A i \in Txns : Routed(i)' <=> Routed(i)
  BY <1>1, <1>2, <1>3 DEF Routed, Outgoing
<1>8. ~ Routed(t) /\ ~ Done(t)
  BY <1>1 DEF Routed, Done
<1>9. \A i \in Txns : \A o : Settled(i, o)' <=> Settled(i, o)
  BY <1>4, <1>5, <1>6 DEF Settled
<1>10. /\ \A k \in Object \X Version : obj_task_map[k] # NoTask => obj_task_map'[k] = obj_task_map[k]
       /\ \A o \in Object, v \in Version : obj_task_map'[<<o, v>>] # NoTask =>
             \/ obj_task_map[<<o, v>>] # NoTask
             \/ o \in Objects(t) /\ (v = assigned[t][o] \/ v = Produced(t))
       /\ \A o \in Objects(t) : assigned[t][o] > InitialVersion =>
             After(o, assigned[t][o]) \in awaiting'[w]
       /\ \A h \in awaiting'[w] : \E o \in Objects(t) :
             h = After(o, assigned[t][o]) /\ h[3] # NoTask
       /\ \A o \in Objects(t) : After(o, Produced(t)) \in signals'[w]
       /\ \A g \in signals'[w] : \E o \in Objects(t) :
             g = After(o, Produced(t)) /\ g[3] # NoTask
  BY <1>1 DEF Effect, Objects, Produced
<1>11. \A o \in Object, v \in Version :
          obj_task_map[<<o, v>>] # NoTask => After(o, v) = Handle(o, v)
  BY <1>10 DEF Handle
<1> HIDE DEF After
<1>12. \A v \in Worker : v # w => \A h \in awaiting[v] : \E o \in Objects(task[v]) :
          /\ h = Handle(o, assigned[task[v]][o]) /\ h[3] # NoTask
          /\ task[v] \in Txns
          /\ After(o, assigned[task[v]][o]) = Handle(o, assigned[task[v]][o])
  <2> SUFFICES ASSUME NEW v \in Worker, v # w, NEW h \in awaiting[v]
               PROVE  \E o \in Objects(task[v]) :
                         /\ h = Handle(o, assigned[task[v]][o]) /\ h[3] # NoTask
                         /\ task[v] \in Txns
                         /\ After(o, assigned[task[v]][o]) = Handle(o, assigned[task[v]][o])
    OBVIOUS
  <2>1. pc[v] # "recv"
    BY DEF BaseInv, Stages
  <2>2. task[v] \in Txns
    BY <2>1, HeldFacts
  <2>3. PICK o \in Objects(task[v]) : h = Handle(o, assigned[task[v]][o]) /\ h[3] # NoTask
    BY DEF ChainInv, WaitsHeld
  <2>4. obj_task_map[<<o, assigned[task[v]][o]>>] # NoTask
    BY <2>3 DEF Handle
  <2>5. o \in Object /\ assigned[task[v]][o] \in Version
    BY <1>5, <2>2, <2>3
  <2>6. After(o, assigned[task[v]][o]) = Handle(o, assigned[task[v]][o])
    BY <1>11, <2>4, <2>5
  <2> QED
    BY <2>2, <2>3, <2>6
<1>13. InOrder'
  <2>1. \A i \in Txns : Routed(i)' => \A o \in Objects(i) : Settled(i, o)'
    BY <1>7, <1>9 DEF ChainInv, InOrder
  <2>2. ASSUME NEW v \in Worker, pc'[v] = "await", NEW o \in Objects(task'[v])
        PROVE  Settled(task'[v], o) \/ After(o, assigned[task'[v]][o]) \in awaiting'[v]
    <3>1. CASE v = w
      <4>1. CASE assigned[t][o] > InitialVersion
        BY <1>3, <1>10, <2>2, <3>1, <4>1
      <4>2. CASE ~ (assigned[t][o] > InitialVersion)
        <5>1. \A i \in 1..(t - 1) : o \notin Objects(i)
          <6> SUFFICES ASSUME NEW i \in 1..(t - 1), o \in Objects(i) PROVE FALSE
            OBVIOUS
          <6>1. i \in Txns /\ i < t /\ o \in Objects(t)
            BY <1>1, <1>3, <1>5, <2>2, <3>1, ConstantFacts
          <6>2. Produced(i) <= assigned[t][o] /\ Produced(i) > InitialVersion
            BY <1>5, <6>1
          <6>3. Produced(i) \in Nat /\ assigned[t][o] \in Nat
            BY <1>5, <6>1, MaxTxnsAssumption DEF Version, InitialVersion
          <6> QED
            BY <4>2, <6>2, <6>3 DEF InitialVersion
        <5>2. Settled(t, o)
          BY <5>1 DEF Settled
        <5> QED
          BY <1>3, <3>1, <5>2
      <4> QED
        BY <4>1, <4>2
    <3>2. CASE v # w
      <4>1. task'[v] = task[v] /\ pc[v] = "await" /\ awaiting'[v] = awaiting[v] /\ o \in Objects(task[v])
        BY <1>3, <2>2, <3>2
      <4>2. task[v] \in Txns
        BY <4>1, HeldFacts
      <4>3. CASE Settled(task[v], o)
        BY <4>1, <4>3
      <4>4. CASE Handle(o, assigned[task[v]][o]) \in awaiting[v]
        <5>1. PICK x \in Objects(task[v]) :
                /\ Handle(o, assigned[task[v]][o]) = Handle(x, assigned[task[v]][x])
                /\ After(x, assigned[task[v]][x]) = Handle(x, assigned[task[v]][x])
          BY <1>12, <3>2, <4>4
        <5>2. x = o
          BY <5>1 DEF Handle
        <5> QED
          BY <4>1, <4>4, <5>1, <5>2
      <4> QED
        BY <4>1, <4>3, <4>4 DEF ChainInv, InOrder
    <3> QED
      BY <3>1, <3>2
  <2>3. \A v \in Worker : pc'[v] = "await" => task'[v] \in Txns
    BY <1>1, <1>3, HeldFacts
  <2> QED
    BY <1>2, <1>4, <1>9, <2>1, <2>2, <2>3 DEF InOrder, Handle, After
<1>14. WaitsHeld'
  <2> SUFFICES ASSUME NEW v \in Worker, NEW h \in awaiting'[v]
               PROVE  \E o \in Objects(task'[v]) :
                        h = After(o, assigned[task'[v]][o]) /\ h[3] # NoTask
    BY <1>2, <1>4 DEF WaitsHeld, Handle, After
  <2>1. CASE v = w
    BY <1>2, <1>3, <1>10, <2>1
  <2>2. CASE v # w
    BY <1>2, <1>3, <1>12, <2>2
  <2> QED
    BY <2>1, <2>2
<1>15. SignalsHeld'
  <2> SUFFICES ASSUME NEW v \in Worker, pc'[v] # "recv"
               PROVE  /\ \A o \in Objects(task'[v]) : After(o, Produced(task'[v])) \in signals'[v]
                      /\ \A g \in signals'[v] : \E o \in Objects(task'[v]) :
                            g = After(o, Produced(task'[v])) /\ g[3] # NoTask
    BY <1>4 DEF SignalsHeld, Handle, After
  <2>1. CASE v = w
    BY <1>3, <1>10, <2>1
  <2>2. CASE v # w
    <3>1. task'[v] = task[v] /\ pc[v] # "recv" /\ signals'[v] = signals[v]
      BY <1>3, <2>2
    <3>2. task[v] \in Txns
      BY <3>1, HeldFacts
    <3>3. /\ \A o \in Objects(task[v]) : Handle(o, Produced(task[v])) \in signals[v]
          /\ \A g \in signals[v] : \E o \in Objects(task[v]) :
                g = Handle(o, Produced(task[v])) /\ g[3] # NoTask
      BY <3>1 DEF ChainInv, SignalsHeld
    <3>4. \A o \in Objects(task[v]) : o \in Object /\ Produced(task[v]) \in Version
      BY <1>5, <3>2
    <3>5. \A o \in Objects(task[v]) : obj_task_map[<<o, Produced(task[v])>>] # NoTask
      BY <3>3 DEF Handle
    <3>6. \A o \in Objects(task[v]) : After(o, Produced(task[v])) = Handle(o, Produced(task[v]))
      BY <1>11, <3>4, <3>5
    <3> QED
      BY <3>1, <3>3, <3>6
  <2> QED
    BY <2>1, <2>2
<1>16. ASSUME NEW h \in permits PROVE h = After(h[1], h[2]) /\ h[3] # NoTask
  <2>1. h[1] \in Object /\ h[2] \in Version
    BY DEF BaseInv, SFTypeOK, Notifys
  <2>2. h = Handle(h[1], h[2]) /\ h[3] # NoTask
    BY DEF ChainInv, PermitsDue
  <2>3. obj_task_map[<<h[1], h[2]>>] # NoTask
    BY <2>2 DEF Handle
  <2> QED
    BY <1>11, <2>1, <2>2, <2>3
<1>17. PermitsDue'
  <2> SUFFICES ASSUME NEW h \in permits
               PROVE  /\ \E i \in Txns : Done(i)' /\ h[1] \in Objects(i) /\ h[2] = Produced(i)
                      /\ \A j \in Txns : h[1] \in Objects(j) /\ assigned[j][h[1]] = h[2] =>
                            /\ ~ Routed(j)'
                            /\ \A v \in Worker : task'[v] = j => h \in awaiting'[v]
    BY <1>2, <1>4, <1>16 DEF PermitsDue, Handle, After
  <2>1. PICK i \in Txns : Done(i) /\ h[1] \in Objects(i) /\ h[2] = Produced(i)
    BY DEF ChainInv, PermitsDue
  <2>2. ASSUME NEW j \in Txns, h[1] \in Objects(j), assigned[j][h[1]] = h[2]
        PROVE  /\ ~ Routed(j)'
               /\ \A v \in Worker : task'[v] = j => h \in awaiting'[v]
    <3>1. /\ ~ Routed(j)
          /\ \A v \in Worker : task[v] = j => h \in awaiting[v]
      BY <2>2 DEF ChainInv, PermitsDue
    <3>2. assigned[j][h[1]] > InitialVersion
      BY <1>5, <2>1, <2>2
    <3>3. j = t => h \in awaiting'[w]
      BY <1>10, <1>16, <2>2, <3>2
    <3> QED
      BY <1>3, <1>7, <3>1, <3>3
  <2> QED
    BY <1>6, <2>1, <2>2
<1>18. EntriesUsed'
  <2> SUFFICES ASSUME NEW o \in Object, NEW v \in Version, obj_task_map'[<<o, v>>] # NoTask
               PROVE  /\ \E i \in Txns :
                           /\ o \in Objects(i)
                           /\ \/ v = Produced(i)
                              \/ v = assigned[i][o] /\ \E u \in Worker : task'[u] = i /\ pc'[u] = "await"
                      /\ \A j \in Txns : o \in Objects(j) /\ assigned[j][o] = v => ~ Routed(j)'
    BY <1>2, <1>4 DEF EntriesUsed
  <2>1. CASE obj_task_map[<<o, v>>] # NoTask
    <3>1. /\ \E i \in Txns :
               /\ o \in Objects(i)
               /\ \/ v = Produced(i)
                  \/ v = assigned[i][o] /\ \E u \in Worker : task[u] = i /\ pc[u] = "await"
          /\ \A j \in Txns : o \in Objects(j) /\ assigned[j][o] = v => ~ Routed(j)
      BY <2>1 DEF ChainInv, EntriesUsed
    <3> QED
      BY <1>1, <1>3, <1>7, <3>1
  <2>2. CASE o \in Objects(t) /\ v = assigned[t][o]
    <3>1. \A j \in Txns : o \in Objects(j) /\ assigned[j][o] = v => j = t
      BY <1>5, <2>2, OrderKeys
    <3> QED
      BY <1>3, <1>7, <1>8, <2>2, <3>1
  <2>3. CASE o \in Objects(t) /\ v = Produced(t)
    <3>1. \A j \in Txns : o \in Objects(j) /\ assigned[j][o] = v => t < j
      BY <1>5, <2>3, OrderKeys
    <3>2. \A j \in Txns : t < j => t \in 1..(j - 1)
      BY <1>1, <1>5, ConstantFacts
    <3>3. \A j \in Txns : o \in Objects(j) /\ assigned[j][o] = v => ~ Routed(j)
      BY <1>8, <2>3, <3>1, <3>2 DEF ChainInv, InOrder, Settled
    <3> QED
      BY <1>7, <2>3, <3>3
  <2> QED
    BY <1>10, <2>1, <2>2, <2>3
<1>19. PermitsKept'
  <2> SUFFICES ASSUME NEW i \in Txns, Done(i), NEW o \in Objects(i)
               PROVE  \/ After(o, Produced(i)) \in permits
                      \/ \E j \in Txns : o \in Objects(j) /\ assigned[j][o] = Produced(i)
    BY <1>2, <1>4, <1>6 DEF PermitsKept, Handle, After
  <2>1. \/ Handle(o, Produced(i)) \in permits
        \/ \E j \in Txns : o \in Objects(j) /\ assigned[j][o] = Produced(i)
    BY DEF ChainInv, PermitsKept
  <2>2. ASSUME Handle(o, Produced(i)) \in permits PROVE After(o, Produced(i)) \in permits
    <3>1. obj_task_map[<<o, Produced(i)>>] # NoTask
      BY <2>2 DEF ChainInv, PermitsDue, Handle
    <3>2. o \in Object /\ Produced(i) \in Version
      BY <1>5
    <3>3. After(o, Produced(i)) = Handle(o, Produced(i))
      BY <1>11, <3>1, <3>2
    <3> QED
      BY <2>2, <3>3
  <2> QED
    BY <2>1, <2>2
<1> QED
  BY <1>13, <1>14, <1>15, <1>17, <1>18, <1>19 DEF ChainInv

\* What the order of the transactions says, in the words of this module.
LEMMA ChainFacts ==
    ASSUME BaseInv
    PROVE  /\ \A i \in Txns : i \in TxnId /\ i \in Nat /\ i # NoTxn /\ 1..(i - 1) \subseteq Txns
           /\ \A i \in Txns : /\ Objects(i) \subseteq Object
                              /\ Produced(i) \in Version /\ Produced(i) > InitialVersion
                              /\ \A o \in Objects(i) : /\ assigned[i][o] \in Version
                                                       /\ assigned[i][o] < Produced(i)
                                                       /\ assigned[i][o] # Produced(i)
           /\ \A w \in Worker : pc[w] # "recv" => task[w] \in Txns
           /\ \A w \in Worker : \A i \in Txns : task[w] = i => pc[w] # "recv"
           /\ \A i, j \in Txns : i < j => i \in 1..(j - 1)
           /\ \A i, j \in Txns : \A o \in Objects(i) \cap Objects(j) :
                 /\ assigned[i][o] = assigned[j][o] => i = j
                 /\ Produced(i) = assigned[j][o] =>
                       /\ i < j
                       /\ \A k \in Txns : k < j /\ o \in Objects(k) => k < i \/ k = i
<1>1. VAInv
  BY DEF BaseInv
<1>2. /\ \A i \in Txns : i \in TxnId /\ i \in Nat /\ i # NoTxn /\ 1..(i - 1) \subseteq Txns
      /\ \A i, j \in Txns : i < j => i \in 1..(j - 1)
  BY <1>1, OrderFacts, ConstantFacts
<1>3. \A i \in Txns : /\ Objects(i) \subseteq Object
                      /\ Produced(i) \in Version /\ Produced(i) > InitialVersion
                      /\ \A o \in Objects(i) : /\ assigned[i][o] \in Version
                                               /\ assigned[i][o] < Produced(i)
  BY <1>1, OrderFacts DEF Produced
<1>4. \A i \in Txns : \A o \in Objects(i) : assigned[i][o] # Produced(i)
  BY <1>3, MaxTxnsAssumption DEF Version, InitialVersion
<1>5. \A w \in Worker : pc[w] # "recv" => task[w] \in Txns
  BY HeldFacts
<1>6. \A w \in Worker : \A i \in Txns : task[w] = i => pc[w] # "recv"
  BY <1>2 DEF BaseInv, Placed
<1> QED
  BY <1>1, <1>2, <1>3, <1>4, <1>5, <1>6, OrderKeys

\* A worker that stops waiting has its predecessors behind it.
LEMMA ChainAwait ==
    ASSUME BaseInv, ChainInv, NEW w \in Worker, AwaitPrior(w)
    PROVE  ChainInv'
<1> DEFINE h == FirstHandle(awaiting[w])
<1>1. /\ pc[w] = "await" /\ h \in permits
      /\ permits' = permits \ {h}
      /\ awaiting' = [awaiting EXCEPT ![w] = awaiting[w] \ {h}]
      /\ UNCHANGED <<assigned, pc, task, signals, obj_task_map, sent>>
  BY DEF AwaitPrior, vaVars
<1>2. h \in awaiting[w]
  BY FirstHandleIn DEF AwaitPrior, BaseInv, SFTypeOK
<1> HIDE DEF h
<1>3. /\ awaiting'[w] = awaiting[w] \ {h}
      /\ \A v \in Worker : v # w => awaiting'[v] = awaiting[v]
  BY <1>1 DEF BaseInv, SFTypeOK
<1>4. /\ Txns' = Txns /\ \A i : Objects(i)' = Objects(i) /\ Produced(i)' = Produced(i)
      /\ \A i : (Done(i)' <=> Done(i)) /\ (Routed(i)' <=> Routed(i))
      /\ \A i, o : Settled(i, o)' <=> Settled(i, o)
      /\ \A o, v : Handle(o, v)' = Handle(o, v)
  BY <1>1 DEF Txns, Objects, Produced, Done, Routed, Outgoing, Settled, Handle
<1>5. task[w] \in Txns
  BY <1>1, HeldFacts
<1>6. PICK x \in Objects(task[w]) : h = Handle(x, assigned[task[w]][x])
  BY <1>2 DEF ChainInv, WaitsHeld
<1>7. Settled(task[w], x)
  <2>1. PICK p \in Txns : Done(p) /\ h[1] \in Objects(p) /\ h[2] = Produced(p)
    BY <1>1 DEF ChainInv, PermitsDue
  <2>2. h[1] = x /\ h[2] = assigned[task[w]][x]
    BY <1>6 DEF Handle
  <2>3. \A k \in Txns : k < task[w] /\ x \in Objects(k) => k < p \/ k = p
    <3>1. VAInv /\ x \in Objects(p) \cap Objects(task[w]) /\ Produced(p) = assigned[task[w]][x]
      BY <1>6, <2>1, <2>2 DEF BaseInv
    <3> QED
      BY <1>5, <2>1, <3>1, OrderKeys
  <2>4. Routed(p) /\ x \in Objects(p)
    BY <2>1, <2>2 DEF Done, Routed
  <2>5. \A k \in Txns : k < p /\ x \in Objects(k) => Done(k)
    BY <2>4, ChainFacts DEF ChainInv, InOrder, Settled
  <2>6. \A k \in 1..(task[w] - 1) : k \in Txns /\ k < task[w]
    BY <1>5, ChainFacts
  <2> QED
    BY <2>1, <2>3, <2>5, <2>6 DEF Settled
<1>8. InOrder'
  <2>1. \A i \in Txns : Routed(i) => \A o \in Objects(i) : Settled(i, o)
    BY DEF ChainInv, InOrder
  <2>2. ASSUME NEW v \in Worker, pc[v] = "await", NEW o \in Objects(task[v])
        PROVE  Settled(task[v], o) \/ Handle(o, assigned[task[v]][o]) \in awaiting'[v]
    <3>1. Settled(task[v], o) \/ Handle(o, assigned[task[v]][o]) \in awaiting[v]
      BY <2>2 DEF ChainInv, InOrder
    <3>2. CASE v # w
      BY <1>3, <3>1, <3>2
    <3>3. CASE v = w
      <4>1. Handle(o, assigned[task[w]][o]) = h => o = x
        BY <1>6 DEF Handle
      <4> QED
        BY <1>3, <1>7, <3>1, <3>3, <4>1
    <3> QED
      BY <3>2, <3>3
  <2> QED
    BY <1>1, <1>4, <2>1, <2>2 DEF InOrder
<1>9. WaitsHeld'
  BY <1>1, <1>3, <1>4 DEF ChainInv, WaitsHeld
<1>10. SignalsHeld'
  BY <1>1, <1>4 DEF ChainInv, SignalsHeld
<1>11. PermitsDue'
  <2> SUFFICES ASSUME NEW g \in permits, g # h
               PROVE  /\ g = Handle(g[1], g[2]) /\ g[3] # NoTask
                      /\ \E t \in Txns : Done(t) /\ g[1] \in Objects(t) /\ g[2] = Produced(t)
                      /\ \A j \in Txns : g[1] \in Objects(j) /\ assigned[j][g[1]] = g[2] =>
                            ~ Routed(j) /\ \A v \in Worker : task[v] = j => g \in awaiting'[v]
    BY <1>1, <1>4 DEF PermitsDue
  <2>1. /\ g = Handle(g[1], g[2]) /\ g[3] # NoTask
        /\ \E t \in Txns : Done(t) /\ g[1] \in Objects(t) /\ g[2] = Produced(t)
        /\ \A j \in Txns : g[1] \in Objects(j) /\ assigned[j][g[1]] = g[2] =>
              ~ Routed(j) /\ \A v \in Worker : task[v] = j => g \in awaiting[v]
    BY DEF ChainInv, PermitsDue
  <2> QED
    BY <1>3, <2>1
<1>12. EntriesUsed'
  BY <1>1, <1>4 DEF ChainInv, EntriesUsed
<1>13. PermitsKept'
  <2> SUFFICES ASSUME NEW t \in Txns, Done(t), NEW o \in Objects(t)
               PROVE  \/ Handle(o, Produced(t)) \in permits'
                      \/ \E j \in Txns : o \in Objects(j) /\ assigned[j][o] = Produced(t)
    BY <1>1, <1>4 DEF PermitsKept
  <2>1. \/ Handle(o, Produced(t)) \in permits
        \/ \E j \in Txns : o \in Objects(j) /\ assigned[j][o] = Produced(t)
    BY DEF ChainInv, PermitsKept
  <2>2. Handle(o, Produced(t)) = h => o = x /\ assigned[task[w]][x] = Produced(t)
    BY <1>6 DEF Handle
  <2> QED
    BY <1>1, <1>5, <1>6, <2>1, <2>2
<1> QED
  BY <1>8, <1>9, <1>10, <1>11, <1>12, <1>13 DEF ChainInv

\* A worker that holds a transaction keeps it from being done.
LEMMA HeldNotDone ==
    ASSUME NEW w \in Worker
    PROVE  ~ Done(task[w])
BY DEF Done

\* Routing happens after the routing of all predecessors.
LEMMA ChainRoute ==
    ASSUME BaseInv, ChainInv, NEW w \in Worker, RouteTask(w)
    PROVE  ChainInv'
<1>1. PICK t \in Txns :
        /\ t = task[w] /\ pc[w] = "await" /\ awaiting[w] = {}
        /\ obj_task_map' = remove_dependency(obj_task_map, assigned[t])
        /\ pc' = [pc EXCEPT ![w] = IF Mode = "PrimaryPostSeparation" THEN "verify" ELSE "send"]
        /\ UNCHANGED <<assigned, task, awaiting, signals, permits, sent>>
  <2>1. pc[w] = "await"
    BY RouteRest
  <2> QED
    BY <2>1, RouteRest, HeldFacts DEF vaVars
<1>2. /\ pc'[w] \in {"verify", "send"}
      /\ \A v \in Worker : v # w => pc'[v] = pc[v]
  BY <1>1 DEF BaseInv, SFTypeOK
<1>3. /\ Txns' = Txns /\ \A i : Objects(i)' = Objects(i) /\ Produced(i)' = Produced(i)
      /\ \A i : Done(i)' <=> Done(i)
      /\ \A i, o : Settled(i, o)' <=> Settled(i, o)
  BY <1>1 DEF Txns, Objects, Produced, Done, Settled
<1>4. \A v \in Worker : task[v] = t => v = w
  BY <1>1, ChainFacts DEF BaseInv, Placed
<1>5. \A i \in Txns : i # t => (Routed(i)' <=> Routed(i))
  BY <1>1, <1>2 DEF Routed, Outgoing
<1>6. \A o \in Objects(t) : Settled(t, o)
  BY <1>1 DEF ChainInv, InOrder
<1>7. \A o \in Object, v \in Version :
        /\ <<o, v>> \in Keys(assigned[t]) <=> o \in Objects(t) /\ v = assigned[t][o]
        /\ obj_task_map'[<<o, v>>] =
             IF o \in Objects(t) /\ v = assigned[t][o] THEN NoTask ELSE obj_task_map[<<o, v>>]
  <2>1. \A o \in Object, v \in Version :
           <<o, v>> \in Keys(assigned[t]) <=> o \in Objects(t) /\ v = assigned[t][o]
    BY DEF Keys, Objects
  <2>2. obj_task_map' = [k \in Object \X Version |->
                            IF k \in Keys(assigned[t]) THEN NoTask ELSE obj_task_map[k]]
    BY <1>1 DEF remove_dependency, BaseInv, SFTypeOK
  <2> QED
    BY <2>1, <2>2
<1> DEFINE After(o, v) == <<o, v, obj_task_map'[<<o, v>>]>>
<1>8. \A o \in Object, v \in Version :
         ~ (o \in Objects(t) /\ v = assigned[t][o]) => After(o, v) = Handle(o, v)
  BY <1>7 DEF Handle
<1> HIDE DEF After
<1>9. InOrder'
  <2>1. \A i \in Txns : Routed(i)' => \A o \in Objects(i) : Settled(i, o)
    BY <1>5, <1>6 DEF ChainInv, InOrder
  <2>2. ASSUME NEW v \in Worker, pc'[v] = "await", NEW o \in Objects(task[v])
        PROVE  Settled(task[v], o) \/ After(o, assigned[task[v]][o]) \in awaiting[v]
    <3>1. v # w /\ pc[v] = "await"
      BY <1>2, <2>2
    <3>2. task[v] \in Txns /\ task[v] # t
      BY <1>4, <3>1, HeldFacts
    <3>3. ~ (o \in Objects(t) /\ assigned[task[v]][o] = assigned[t][o])
      BY <3>2, <2>2, ChainFacts
    <3>4. After(o, assigned[task[v]][o]) = Handle(o, assigned[task[v]][o])
      BY <1>8, <2>2, <3>2, <3>3, ChainFacts
    <3> QED
      BY <2>2, <3>1, <3>4 DEF ChainInv, InOrder
  <2> QED
    BY <1>1, <1>3, <2>1, <2>2 DEF InOrder, Handle, After
<1>10. WaitsHeld'
  <2> SUFFICES ASSUME NEW v \in Worker, NEW h \in awaiting[v]
               PROVE  \E o \in Objects(task[v]) :
                        h = After(o, assigned[task[v]][o]) /\ h[3] # NoTask
    BY <1>1, <1>3 DEF WaitsHeld, Handle, After
  <2>1. PICK o \in Objects(task[v]) : h = Handle(o, assigned[task[v]][o]) /\ h[3] # NoTask
    BY DEF ChainInv, WaitsHeld
  <2>2. v # w /\ pc[v] = "await"
    BY <1>1 DEF BaseInv, Stages
  <2>3. task[v] \in Txns /\ task[v] # t
    BY <1>4, <2>2, HeldFacts
  <2>4. ~ (o \in Objects(t) /\ assigned[task[v]][o] = assigned[t][o])
    BY <2>3, <2>1, ChainFacts
  <2>5. After(o, assigned[task[v]][o]) = Handle(o, assigned[task[v]][o])
    BY <1>8, <2>1, <2>3, <2>4, ChainFacts
  <2> QED
    BY <2>1, <2>5
<1>11. SignalsHeld'
  <2> SUFFICES ASSUME NEW v \in Worker, pc'[v] # "recv"
               PROVE  /\ \A o \in Objects(task[v]) : After(o, Produced(task[v])) \in signals[v]
                      /\ \A g \in signals[v] : \E o \in Objects(task[v]) :
                            g = After(o, Produced(task[v])) /\ g[3] # NoTask
    BY <1>1, <1>3 DEF SignalsHeld, Handle, After
  <2>1. pc[v] # "recv"
    BY <1>1, <1>2
  <2>2. task[v] \in Txns
    BY <2>1, HeldFacts
  <2>3. \A o \in Objects(task[v]) : ~ (o \in Objects(t) /\ Produced(task[v]) = assigned[t][o])
    <3> SUFFICES ASSUME NEW o \in Objects(task[v]), o \in Objects(t),
                        Produced(task[v]) = assigned[t][o]
                 PROVE  FALSE
      OBVIOUS
    <3>1. task[v] < t
      BY <2>2, ChainFacts
    <3>2. task[v] \in 1..(t - 1)
      BY <2>2, <3>1, ChainFacts
    <3>3. Done(task[v])
      BY <1>6, <3>2 DEF Settled
    <3> QED
      BY <3>3, HeldNotDone
  <2>4. \A o \in Objects(task[v]) : After(o, Produced(task[v])) = Handle(o, Produced(task[v]))
    BY <1>8, <2>2, <2>3, ChainFacts
  <2> QED
    BY <2>1, <2>4 DEF ChainInv, SignalsHeld
<1>12. \A h \in permits : h = After(h[1], h[2]) /\ ~ (h[1] \in Objects(t) /\ h[2] = assigned[t][h[1]])
  <2> TAKE h \in permits
  <2>1. h[1] \in Object /\ h[2] \in Version
    BY DEF BaseInv, SFTypeOK, Notifys
  <2>2. ~ (h[1] \in Objects(t) /\ h[2] = assigned[t][h[1]])
    BY <1>1 DEF ChainInv, PermitsDue
  <2> QED
    BY <1>8, <2>1, <2>2 DEF ChainInv, PermitsDue
<1>13. PermitsDue'
  <2> SUFFICES ASSUME NEW h \in permits
               PROVE  /\ h = After(h[1], h[2]) /\ h[3] # NoTask
                      /\ \E i \in Txns : Done(i) /\ h[1] \in Objects(i) /\ h[2] = Produced(i)
                      /\ \A j \in Txns : h[1] \in Objects(j) /\ assigned[j][h[1]] = h[2] =>
                            ~ Routed(j)' /\ \A v \in Worker : task[v] = j => h \in awaiting[v]
    BY <1>1, <1>3 DEF PermitsDue, Handle, After
  <2>1. /\ h[3] # NoTask
        /\ \E i \in Txns : Done(i) /\ h[1] \in Objects(i) /\ h[2] = Produced(i)
        /\ \A j \in Txns : h[1] \in Objects(j) /\ assigned[j][h[1]] = h[2] =>
              ~ Routed(j) /\ \A v \in Worker : task[v] = j => h \in awaiting[v]
    BY DEF ChainInv, PermitsDue
  <2> QED
    BY <1>5, <1>12, <2>1
<1>14. EntriesUsed'
  <2> SUFFICES ASSUME NEW o \in Object, NEW v \in Version, obj_task_map'[<<o, v>>] # NoTask
               PROVE  /\ \E i \in Txns :
                           /\ o \in Objects(i)
                           /\ \/ v = Produced(i)
                              \/ v = assigned[i][o] /\ \E u \in Worker : task[u] = i /\ pc'[u] = "await"
                      /\ \A j \in Txns : o \in Objects(j) /\ assigned[j][o] = v => ~ Routed(j)'
    BY <1>1, <1>3 DEF EntriesUsed
  <2>1. obj_task_map[<<o, v>>] # NoTask /\ ~ (o \in Objects(t) /\ v = assigned[t][o])
    BY <1>7
  <2>2. /\ \E i \in Txns :
             /\ o \in Objects(i)
             /\ \/ v = Produced(i)
                \/ v = assigned[i][o] /\ \E u \in Worker : task[u] = i /\ pc[u] = "await"
        /\ \A j \in Txns : o \in Objects(j) /\ assigned[j][o] = v => ~ Routed(j)
    BY <2>1 DEF ChainInv, EntriesUsed
  <2> QED
    BY <1>1, <1>2, <1>5, <2>1, <2>2
<1>15. PermitsKept'
  <2> SUFFICES ASSUME NEW i \in Txns, Done(i), NEW o \in Objects(i)
               PROVE  \/ After(o, Produced(i)) \in permits
                      \/ \E j \in Txns : o \in Objects(j) /\ assigned[j][o] = Produced(i)
    BY <1>1, <1>3 DEF PermitsKept, Handle, After
  <2>1. \/ Handle(o, Produced(i)) \in permits
        \/ \E j \in Txns : o \in Objects(j) /\ assigned[j][o] = Produced(i)
    BY DEF ChainInv, PermitsKept
  <2>2. Handle(o, Produced(i)) \in permits => After(o, Produced(i)) = Handle(o, Produced(i))
    BY <1>12 DEF Handle
  <2> QED
    BY <2>1, <2>2
<1> QED
  BY <1>9, <1>10, <1>11, <1>13, <1>14, <1>15 DEF ChainInv

(***************************************************************************)
(* Steps of a worker that sends change nothing the chain speaks of: the    *)
(* transaction was routed before and is not done until the successors are  *)
(* signalled.                                                              *)
(***************************************************************************)
LEMMA ChainSame ==
    ASSUME BaseInv, ChainInv,
           UNCHANGED <<assigned, task, awaiting, signals, obj_task_map, permits>>,
           \A i \in Txns : (Done(i)' <=> Done(i)) /\ (Routed(i)' <=> Routed(i)),
           \A v \in Worker : /\ pc'[v] = "await" <=> pc[v] = "await"
                             /\ pc'[v] = "recv" <=> pc[v] = "recv"
    PROVE  ChainInv'
<1>1. /\ Txns' = Txns /\ \A i : Objects(i)' = Objects(i) /\ Produced(i)' = Produced(i)
      /\ \A o, v : Handle(o, v)' = Handle(o, v)
  BY DEF Txns, Objects, Produced, Handle
<1>2. \A i \in Txns : \A o : Settled(i, o)' <=> Settled(i, o)
  BY <1>1, ChainFacts DEF Settled
<1>3. InOrder'
  <2>1. \A v \in Worker : pc[v] = "await" => task[v] \in Txns
    BY HeldFacts
  <2> QED
    BY <1>1, <1>2, <2>1 DEF ChainInv, InOrder
<1>4. WaitsHeld' /\ SignalsHeld'
  BY <1>1 DEF ChainInv, WaitsHeld, SignalsHeld
<1>5. PermitsDue'
  BY <1>1 DEF ChainInv, PermitsDue
<1>6. EntriesUsed' /\ PermitsKept'
  BY <1>1 DEF ChainInv, EntriesUsed, PermitsKept
<1> QED
  BY <1>3, <1>4, <1>5, <1>6 DEF ChainInv

\* The verification request leaves; the transaction itself is still outgoing.
LEMMA ChainSendStateless ==
    ASSUME BaseInv, ChainInv, NEW w \in Worker, SendStateless(w)
    PROVE  ChainInv'
<1>1. /\ pc[w] = "verify" /\ pc' = [pc EXCEPT ![w] = "send"]
      /\ UNCHANGED <<assigned, task, awaiting, signals, obj_task_map, permits, sent>>
  BY DEF SendStateless, vaVars, controllerVars
<1>2. pc'[w] = "send" /\ \A v \in Worker : v # w => pc'[v] = pc[v]
  BY <1>1 DEF BaseInv, SFTypeOK
<1>3. \A v \in Worker : Outgoing(v)' <=> Outgoing(v)
  BY <1>1, <1>2 DEF Outgoing
<1>4. \A i \in Txns : (Done(i)' <=> Done(i)) /\ (Routed(i)' <=> Routed(i))
  BY <1>1, <1>3 DEF Done, Routed
<1> QED
  BY <1>1, <1>2, <1>4, ChainSame

\* The transaction leaves; its worker still holds it.
LEMMA ChainSendToProxy ==
    ASSUME BaseInv, ChainInv, NEW w \in Worker, SendToProxy(w)
    PROVE  ChainInv'
<1>1. /\ pc[w] = "send" /\ pc' = [pc EXCEPT ![w] = "notify"]
      /\ sent' = [sent EXCEPT ![task[w]] = outbox[w]]
      /\ UNCHANGED <<assigned, task, awaiting, signals, obj_task_map, permits>>
  BY DEF SendToProxy, vaVars, controllerVars
<1>2. pc'[w] = "notify" /\ \A v \in Worker : v # w => pc'[v] = pc[v]
  BY <1>1 DEF BaseInv, SFTypeOK
<1>3. outbox[w] # NoMessage /\ task[w] \in TxnId
  BY <1>1, HeldFacts, ConstantFacts DEF BaseInv, Stages, Outgoing
<1>4. sent'[task[w]] = outbox[w] /\ \A i \in TxnId : i # task[w] => sent'[i] = sent[i]
  BY <1>1, <1>3 DEF BaseInv, SFTypeOK
<1>5. \A i \in Txns : (Done(i)' <=> Done(i)) /\ (Routed(i)' <=> Routed(i))
  <2> TAKE i \in Txns
  <2>1. i \in TxnId
    BY ChainFacts
  <2>2. CASE i = task[w]
    <3>1. ~ Done(i)' /\ ~ Done(i)
      BY <1>1, <2>2 DEF Done
    <3>2. Routed(i)' /\ Routed(i)
      BY <1>1, <1>3, <1>4, <2>2 DEF Routed, Outgoing
    <3> QED
      BY <3>1, <3>2
  <2>3. CASE i # task[w]
    <3>1. sent'[i] = sent[i]
      BY <1>4, <2>1, <2>3
    <3>2. Done(i)' <=> Done(i)
      BY <1>1, <3>1 DEF Done
    <3>3. Routed(i)' <=> Routed(i)
      BY <1>1, <1>2, <2>3, <3>1 DEF Routed, Outgoing
    <3> QED
      BY <3>2, <3>3
  <2> QED
    BY <2>2, <2>3
<1> QED
  BY <1>1, <1>2, <1>5, ChainSame

(***************************************************************************)
(* The transaction is done and its successors are signalled: they cannot   *)
(* have been routed before, so each of them has the Notify still to wait   *)
(* for.                                                                    *)
(***************************************************************************)
LEMMA ChainNotify ==
    ASSUME BaseInv, ChainInv, NEW w \in Worker, NotifyNext(w)
    PROVE  ChainInv'
<1>1. PICK t \in Txns :
        /\ t = task[w] /\ pc[w] = "notify"
        /\ pc' = [pc EXCEPT ![w] = "recv"]
        /\ task' = [task EXCEPT ![w] = NoTxn]
        /\ signals' = [signals EXCEPT ![w] = {}]
        /\ permits' = permits \cup signals[w]
        /\ UNCHANGED <<assigned, awaiting, obj_task_map, sent>>
  <2>1. pc[w] = "notify"
    BY DEF NotifyNext
  <2> QED
    BY <2>1, HeldFacts DEF NotifyNext, vaVars
<1>2. /\ pc'[w] = "recv" /\ task'[w] = NoTxn /\ signals'[w] = {}
      /\ \A v \in Worker : v # w => pc'[v] = pc[v] /\ task'[v] = task[v] /\ signals'[v] = signals[v]
  BY <1>1 DEF BaseInv, SFTypeOK
<1>3. /\ Txns' = Txns /\ \A i : Objects(i)' = Objects(i) /\ Produced(i)' = Produced(i)
      /\ \A o, v : Handle(o, v)' = Handle(o, v)
  BY <1>1 DEF Txns, Objects, Produced, Handle
<1>4. /\ sent[t] # NoMessage /\ awaiting[w] = {}
      /\ \A v \in Worker : task[v] = t => v = w
      /\ \A i \in Txns : i # NoTxn
  BY <1>1, ChainFacts DEF BaseInv, Stages, Placed
<1>5. \A i \in Txns : Done(i)' <=> Done(i) \/ i = t
  BY <1>1, <1>2, <1>4 DEF Done
<1>6. \A i \in Txns : Routed(i)' <=> Routed(i)
  BY <1>1, <1>2, <1>4 DEF Routed, Outgoing
<1>7. \A i \in Txns : \A o : Settled(i, o) => Settled(i, o)'
  BY <1>3, <1>5, ChainFacts DEF Settled
<1>8. ~ Done(t)
  BY <1>1, HeldNotDone
<1>9. InOrder'
  <2>1. \A i \in Txns : Routed(i)' => \A o \in Objects(i) : Settled(i, o)'
    BY <1>6, <1>7 DEF ChainInv, InOrder
  <2>2. ASSUME NEW v \in Worker, pc'[v] = "await", NEW o \in Objects(task[v])
        PROVE  Settled(task[v], o)' \/ Handle(o, assigned[task[v]][o]) \in awaiting[v]
    <3>1. v # w /\ pc[v] = "await"
      BY <1>2, <2>2
    <3>2. task[v] \in Txns
      BY <3>1, HeldFacts
    <3>3. Settled(task[v], o) \/ Handle(o, assigned[task[v]][o]) \in awaiting[v]
      BY <2>2, <3>1 DEF ChainInv, InOrder
    <3>4. Settled(task[v], o) => \A i \in 1..(task[v] - 1) : o \in Objects(i) => Done(i)'
      BY <1>5, <3>2, ChainFacts DEF Settled
    <3>5. task'[v] = task[v]
      BY <1>2, <3>1
    <3> QED
      BY <1>3, <3>3, <3>4, <3>5 DEF Settled
  <2>3. \A v \in Worker : pc'[v] = "await" => v # w /\ task'[v] = task[v]
    BY <1>2
  <2> QED
    BY <1>1, <1>3, <2>1, <2>2, <2>3 DEF InOrder
<1>10. WaitsHeld'
  <2> SUFFICES ASSUME NEW v \in Worker, NEW h \in awaiting[v]
               PROVE  \E o \in Objects(task'[v]) :
                        h = Handle(o, assigned[task'[v]][o]) /\ h[3] # NoTask
    BY <1>1, <1>3 DEF WaitsHeld
  <2>1. v # w
    BY <1>4
  <2> QED
    BY <1>2, <2>1 DEF ChainInv, WaitsHeld
<1>11. SignalsHeld'
  <2> SUFFICES ASSUME NEW v \in Worker, pc'[v] # "recv"
               PROVE  /\ \A o \in Objects(task'[v]) : Handle(o, Produced(task'[v])) \in signals'[v]
                      /\ \A g \in signals'[v] : \E o \in Objects(task'[v]) :
                            g = Handle(o, Produced(task'[v])) /\ g[3] # NoTask
    BY <1>3 DEF SignalsHeld
  <2>1. v # w /\ pc[v] # "recv"
    BY <1>2
  <2> QED
    BY <1>2, <2>1 DEF ChainInv, SignalsHeld
<1>12. ASSUME NEW o \in Objects(t), NEW j \in Txns, o \in Objects(j), assigned[j][o] = Produced(t)
       PROVE  /\ ~ Routed(j)
              /\ \A v \in Worker : task[v] = j => Handle(o, Produced(t)) \in awaiting[v]
  <2>1. t < j
    <3>1. VAInv /\ o \in Objects(t) \cap Objects(j)
      BY <1>12 DEF BaseInv
    <3> QED
      BY <1>12, <3>1, OrderKeys
  <2>2. ~ Settled(j, o)
    BY <1>8, <2>1, ChainFacts DEF Settled
  <2>3. ~ Routed(j)
    BY <1>12, <2>2 DEF ChainInv, InOrder
  <2>4. ASSUME NEW v \in Worker, task[v] = j PROVE Handle(o, Produced(t)) \in awaiting[v]
    <3>1. pc[v] # "recv" /\ pc[v] # "notify" /\ ~ Outgoing(v)
      BY <2>3, <2>4, ChainFacts DEF BaseInv, Stages, Routed
    <3>2. pc[v] = "await"
      BY <3>1 DEF BaseInv, SFTypeOK, Outgoing
    <3> QED
      BY <1>12, <2>2, <2>4, <3>2 DEF ChainInv, InOrder
  <2> QED
    BY <2>3, <2>4
<1>13. PermitsDue'
  <2> SUFFICES ASSUME NEW h \in permits'
               PROVE  /\ h = Handle(h[1], h[2]) /\ h[3] # NoTask
                      /\ \E i \in Txns : Done(i)' /\ h[1] \in Objects(i) /\ h[2] = Produced(i)
                      /\ \A j \in Txns : h[1] \in Objects(j) /\ assigned[j][h[1]] = h[2] =>
                            ~ Routed(j)' /\ \A v \in Worker : task'[v] = j => h \in awaiting[v]
    BY <1>1, <1>3 DEF PermitsDue
  <2>1. CASE h \in permits
    <3>1. /\ h = Handle(h[1], h[2]) /\ h[3] # NoTask
          /\ \E i \in Txns : Done(i) /\ h[1] \in Objects(i) /\ h[2] = Produced(i)
          /\ \A j \in Txns : h[1] \in Objects(j) /\ assigned[j][h[1]] = h[2] =>
                ~ Routed(j) /\ \A v \in Worker : task[v] = j => h \in awaiting[v]
      BY <2>1 DEF ChainInv, PermitsDue
    <3> QED
      BY <1>2, <1>4, <1>5, <1>6, <3>1
  <2>2. CASE h \in signals[w]
    <3>1. PICK o \in Objects(t) : h = Handle(o, Produced(t)) /\ h[3] # NoTask
      BY <1>1, <2>2 DEF ChainInv, SignalsHeld
    <3>2. h[1] = o /\ h[2] = Produced(t)
      BY <3>1 DEF Handle
    <3>3. ASSUME NEW j \in Txns, h[1] \in Objects(j), assigned[j][h[1]] = h[2]
          PROVE  ~ Routed(j)' /\ \A v \in Worker : task'[v] = j => h \in awaiting[v]
      <4>1. ~ Routed(j) /\ \A v \in Worker : task[v] = j => h \in awaiting[v]
        BY <1>12, <3>1, <3>2, <3>3
      <4> QED
        BY <1>2, <1>4, <1>6, <4>1
    <3> QED
      BY <1>5, <3>1, <3>2, <3>3
  <2> QED
    BY <1>1, <2>1, <2>2
<1>14. EntriesUsed'
  <2> SUFFICES ASSUME NEW o \in Object, NEW v \in Version, obj_task_map[<<o, v>>] # NoTask
               PROVE  /\ \E i \in Txns :
                           /\ o \in Objects(i)
                           /\ \/ v = Produced(i)
                              \/ v = assigned[i][o] /\ \E u \in Worker : task'[u] = i /\ pc'[u] = "await"
                      /\ \A j \in Txns : o \in Objects(j) /\ assigned[j][o] = v => ~ Routed(j)'
    BY <1>1, <1>3 DEF EntriesUsed
  <2>1. /\ \E i \in Txns :
             /\ o \in Objects(i)
             /\ \/ v = Produced(i)
                \/ v = assigned[i][o] /\ \E u \in Worker : task[u] = i /\ pc[u] = "await"
        /\ \A j \in Txns : o \in Objects(j) /\ assigned[j][o] = v => ~ Routed(j)
    BY DEF ChainInv, EntriesUsed
  <2>2. \A u \in Worker : pc[u] = "await" => pc'[u] = "await" /\ task'[u] = task[u]
    BY <1>1, <1>2
  <2> QED
    BY <1>6, <2>1, <2>2
<1>15. PermitsKept'
  <2> SUFFICES ASSUME NEW i \in Txns, Done(i)', NEW o \in Objects(i)
               PROVE  \/ Handle(o, Produced(i)) \in permits'
                      \/ \E j \in Txns : o \in Objects(j) /\ assigned[j][o] = Produced(i)
    BY <1>1, <1>3 DEF PermitsKept
  <2>1. CASE Done(i)
    BY <1>1, <2>1 DEF ChainInv, PermitsKept
  <2>2. CASE i = t
    BY <1>1, <2>2 DEF ChainInv, SignalsHeld
  <2> QED
    BY <1>5, <2>1, <2>2
<1> QED
  BY <1>9, <1>10, <1>11, <1>13, <1>14, <1>15 DEF ChainInv

\* Every step of the forwarder keeps the chain.
LEMMA ChainStep == BaseInv /\ ChainInv /\ [SFNext]_sfVars => ChainInv'
<1> SUFFICES ASSUME BaseInv, ChainInv, [SFNext]_sfVars PROVE ChainInv'
  OBVIOUS
<1>1. ASSUME NEW S \in SUBSET Object, Assign(S) PROVE ChainInv'
  BY <1>1, ChainAssign
<1>2. CASE SendTask
  BY <1>2, ChainQuiet DEF SendTask, vaVars, controllerVars
<1>3. ASSUME NEW G \in Subgraphs, NEW p \in Proxy, PlanSubgraph(G, p) PROVE ChainInv'
  BY <1>3, ChainQuiet DEF PlanSubgraph, vaVars, workerVars, controllerVars
<1>4. ASSUME NEW t \in TxnId, NEW p \in Proxy, ForwardStateless(t, p) PROVE ChainInv'
  BY <1>4, ChainQuiet DEF ForwardStateless, vaVars, workerVars, controllerVars
<1>5. ASSUME NEW t \in TxnId, RecordStateless(t) PROVE ChainInv'
  BY <1>5, ChainQuiet DEF RecordStateless, vaVars, workerVars, controllerVars
<1>6. ASSUME NEW w \in Worker, WorkerStep(w) PROVE ChainInv'
  BY <1>6, ChainRecv, ChainAwait, ChainRoute, ChainSendStateless, ChainSendToProxy, ChainNotify
     DEF WorkerStep
<1>7. CASE UNCHANGED sfVars
  BY <1>7, ChainQuiet DEF sfVars, vaVars, workerVars, controllerVars
<1> QED
  BY <1>1, <1>2, <1>3, <1>4, <1>5, <1>6, <1>7 DEF SFNext, Finished

\* The Notifys order conflicting transactions, in every reachable state.
THEOREM ChainInvariant == SFSpec => [](BaseInv /\ ChainInv)
BY BaseInit, BaseStep, ChainInit, ChainStep, PTL DEF SFSpec

\* Whoever is past its waits has only done transactions before it on its objects.
LEMMA RoutingSettled ==
    ASSUME BaseInv, ChainInv, NEW w \in Worker, Routing(w), NEW o \in Objects(task[w])
    PROVE  task[w] \in Txns /\ Settled(task[w], o)
<1>1. pc[w] # "recv"
  BY DEF Routing
<1>2. task[w] \in Txns
  BY <1>1, HeldFacts
<1>3. CASE pc[w] = "await"
  BY <1>2, <1>3 DEF Routing, ChainInv, InOrder
<1>4. CASE pc[w] # "await"
  <2>1. Routed(task[w])
    BY <1>1, <1>4 DEF Routing, Routed, Outgoing, BaseInv, Stages
  <2> QED
    BY <1>2, <2>1 DEF ChainInv, InOrder
<1> QED
  BY <1>3, <1>4

(***************************************************************************)
(* No two workers route transactions with a common object at once, for any *)
(* number of workers: the later one would have seen the earlier one done.  *)
(***************************************************************************)
THEOREM RoutingExcludes == SFSpec => []ExclusiveRouting
<1>1. BaseInv /\ ChainInv => ExclusiveRouting
  <2> SUFFICES ASSUME BaseInv, ChainInv, NEW v \in Worker, NEW w \in Worker, v # w,
                      Routing(v), Routing(w), Conflicts(task[v], task[w])
               PROVE  FALSE
    BY DEF ExclusiveRouting
  <2>1. PICK o \in Objects(task[v]) : o \in Objects(task[w])
    BY DEF Conflicts
  <2>2. /\ task[v] \in Txns /\ Settled(task[v], o)
        /\ task[w] \in Txns /\ Settled(task[w], o)
    BY <2>1, RoutingSettled
  <2>3. task[v] # task[w] /\ task[v] \in Nat /\ task[w] \in Nat
    BY <2>2, ChainFacts DEF BaseInv, Placed
  <2>4. CASE task[v] < task[w]
    <3>1. Done(task[v])
      BY <2>1, <2>2, <2>4, ChainFacts DEF Settled
    <3> QED
      BY <3>1, HeldNotDone
  <2>5. CASE task[w] < task[v]
    <3>1. Done(task[w])
      BY <2>1, <2>2, <2>5, ChainFacts DEF Settled
    <3> QED
      BY <3>1, HeldNotDone
  <2> QED
    BY <2>3, <2>4, <2>5
<1> QED
  BY <1>1, ChainInvariant, PTL

(***************************************************************************)
(* No wake-up is lost: waiter and signaller always hold the same Notify,   *)
(* the one in the map, whoever came first and created it.                  *)
(***************************************************************************)
THEOREM WakeupsKept == SFSpec => []NoLostWakeup
<1>1. BaseInv /\ ChainInv => NoLostWakeup
  <2> SUFFICES ASSUME BaseInv, ChainInv, NEW w \in Worker, NEW h \in awaiting[w]
               PROVE  /\ obj_task_map[<<h[1], h[2]>>] = h[3]
                      /\ \A v \in Worker : \A g \in signals[v] :
                            <<g[1], g[2]>> = <<h[1], h[2]>> => g = h
    BY DEF NoLostWakeup
  <2>1. h = Handle(h[1], h[2])
    <3>1. PICK o \in Objects(task[w]) : h = Handle(o, assigned[task[w]][o])
      BY DEF ChainInv, WaitsHeld
    <3> QED
      BY <3>1 DEF Handle
  <2>2. ASSUME NEW v \in Worker, NEW g \in signals[v] PROVE g = Handle(g[1], g[2])
    <3>1. pc[v] # "recv"
      BY <2>2 DEF BaseInv, Stages
    <3>2. PICK o \in Objects(task[v]) : g = Handle(o, Produced(task[v]))
      BY <2>2, <3>1 DEF ChainInv, SignalsHeld
    <3> QED
      BY <3>2 DEF Handle
  <2> QED
    BY <2>1, <2>2 DEF Handle
<1> QED
  BY <1>1, ChainInvariant, PTL

-----------------------------------------------------------------------------
(***************************************************************************)
(* The ownership map the workers share without a lock: it always names the *)
(* proxy of the last routed transaction on each object, and so the         *)
(* forwarder implements ObjectRouting.                                     *)
(***************************************************************************)

\* t is on its way to p, or was sent there.
GoesTo(t, p) ==
    \/ sent[t] # NoMessage /\ sent[t].proxy = p
    \/ \E w \in Worker : task[w] = t /\ Outgoing(w) /\ outbox[w].proxy = p

\* The last transaction on o that moved the ownership map.
LastRouted(t, o) ==
    /\ t \in Txns /\ o \in Objects(t) /\ Routed(t)
    /\ \A j \in Txns : t < j /\ o \in Objects(j) => ~ Routed(j)

\* What is in the map is what the last routed transaction on the object put there ...
OwnersCurrent ==
    \A o \in Object, v \in Version : states_to_proxy[<<o, v>>] # NoProxy =>
        \E t \in Txns : LastRouted(t, o) /\ v = Produced(t) /\ GoesTo(t, states_to_proxy[<<o, v>>])

\* ... and it is there.
OwnersComplete ==
    \A t \in Txns : \A o \in Objects(t) :
        LastRouted(t, o) => states_to_proxy[<<o, Produced(t)>>] # NoProxy

\* The previous owner a message names for o: where the predecessor was sent, if elsewhere.
NamesOwner(t, p, o, owner) ==
    /\ NoneBetween(0, t, o) => owner = NoProxy
    /\ \A i \in 1..(t - 1) : Predecessor(i, t, o) =>
          owner = IF sent[i].proxy # p THEN sent[i].proxy ELSE NoProxy

\* A message about to leave names the right previous owners.
OwnersNamed ==
    \A w \in Worker : Outgoing(w) =>
        /\ outbox[w].owner = [o \in Objects(task[w]) |-> outbox[w].owner[o]]
        /\ \A o \in Objects(task[w]) :
              NamesOwner(task[w], outbox[w].proxy, o, outbox[w].owner[o])

OwnersInv == OwnersCurrent /\ OwnersComplete /\ OwnersNamed

-----------------------------------------------------------------------------

\* An object has at most one last routed transaction.
LEMMA LastRoutedUnique ==
    ASSUME BaseInv, NEW i, NEW j, NEW o, LastRouted(i, o), LastRouted(j, o)
    PROVE  i = j
BY ChainFacts DEF LastRouted

\* A transaction goes to one proxy.
LEMMA GoesToUnique ==
    ASSUME BaseInv, NEW t \in Txns, sent[t] # NoMessage, NEW p, GoesTo(t, p)
    PROVE  p = sent[t].proxy
<1>1. ~ \E w \in Worker : task[w] = t /\ Outgoing(w)
  BY ChainFacts DEF BaseInv, Stages, Outgoing
<1> QED
  BY <1>1 DEF GoesTo

\* While a worker holds t nobody after t on one of its objects has been routed.
LEMMA HeldBlocks ==
    ASSUME BaseInv, ChainInv, NEW w \in Worker, pc[w] # "recv",
           NEW o \in Objects(task[w]), NEW j \in Txns, o \in Objects(j), Routed(j)
    PROVE  j < task[w] \/ j = task[w]
<1>1. task[w] \in Txns
  BY HeldFacts
<1>2. ASSUME task[w] < j PROVE FALSE
  <2>1. Done(task[w])
    BY <1>1, <1>2, ChainFacts DEF ChainInv, InOrder, Settled
  <2> QED
    BY <2>1, HeldNotDone
<1> QED
  BY <1>1, <1>2, ChainFacts

\* With everybody before t on o done, the last routed one is t's predecessor.
LEMMA LastIsPredecessor ==
    ASSUME BaseInv, ChainInv, NEW w \in Worker, pc[w] = "await",
           NEW o \in Objects(task[w]), Settled(task[w], o)
    PROVE  \A i \in Txns :
              LastRouted(i, o) <=> i \in 1..(task[w] - 1) /\ Predecessor(i, task[w], o)
<1> DEFINE t == task[w]
<1>1. t \in Txns /\ t \in Nat /\ o \in Objects(t) /\ \A i \in Txns : i \in Nat
  BY HeldFacts, ChainFacts
<1>2. ~ Routed(t)
  <2>1. \A v \in Worker : task[v] = t => v = w
    BY <1>1, ChainFacts DEF BaseInv, Placed
  <2> QED
    BY <2>1 DEF Routed, Outgoing, BaseInv, Stages
<1>3. \A j \in Txns : o \in Objects(j) /\ Routed(j) => j < t \/ j = t
  BY HeldBlocks
<1>4. \A k \in 1..(t - 1) : k \in Txns /\ (o \in Objects(k) => Routed(k))
  BY <1>1, ChainFacts DEF Settled, Done, Routed
<1> HIDE DEF t
<1>5. ASSUME NEW i \in Txns, LastRouted(i, o) PROVE i \in 1..(t - 1) /\ Predecessor(i, t, o)
  <2>1. o \in Objects(i) /\ i < t
    BY <1>2, <1>3, <1>5 DEF LastRouted
  <2>2. i \in 1..(t - 1)
    BY <1>1, <2>1, ChainFacts
  <2>3. \A k \in (i + 1)..(t - 1) : k \in 1..(t - 1) /\ i < k
    BY <1>1, <2>2
  <2>4. NoneBetween(i, t, o)
    BY <1>4, <1>5, <2>3 DEF NoneBetween, LastRouted
  <2> QED
    BY <1>1, <2>1, <2>2, <2>4 DEF Predecessor
<1>6. ASSUME NEW i \in Txns, i \in 1..(t - 1), Predecessor(i, t, o) PROVE LastRouted(i, o)
  <2>1. o \in Objects(i) /\ Routed(i)
    BY <1>4, <1>6 DEF Predecessor
  <2>2. ASSUME NEW j \in Txns, i < j, o \in Objects(j), Routed(j) PROVE FALSE
    <3>1. j < t
      BY <1>2, <1>3, <2>2
    <3>2. j \in (i + 1)..(t - 1)
      BY <1>1, <1>6, <2>2, <3>1
    <3> QED
      BY <1>6, <2>2, <3>2 DEF Predecessor, NoneBetween
  <2> QED
    BY <2>1, <2>2 DEF LastRouted
<1> QED
  BY <1>5, <1>6 DEF t
-----------------------------------------------------------------------------
(* Every step keeps the owners.                                            *)

\* Initially nobody owns anything.
LEMMA OwnersInit == SFInit => OwnersInv
<1> SUFFICES ASSUME SFInit PROVE OwnersInv
  OBVIOUS
<1>1. Txns = {} /\ \A w \in Worker : ~ Outgoing(w)
  BY DEF SFInit, VAInit, Txns, Outgoing
<1>2. \A k \in Object \X Version : states_to_proxy[k] = NoProxy
  BY DEF SFInit
<1> QED
  BY <1>1, <1>2 DEF OwnersInv, OwnersCurrent, OwnersComplete, OwnersNamed

(***************************************************************************)
(* Steps that route nothing: transactions may be added, messages sent.     *)
(***************************************************************************)
LEMMA OwnersSame ==
    ASSUME BaseInv, ChainInv, OwnersInv,
           states_to_proxy' = states_to_proxy,
           \A i \in Txns : i \in Txns' /\ assigned'[i] = assigned[i],
           \A i \in Txns' : Routed(i)' => i \in Txns,
           \A i \in Txns : Routed(i)' <=> Routed(i),
           \A i \in Txns : sent[i] # NoMessage => sent'[i] = sent[i],
           \A i \in Txns : \A p : GoesTo(i, p) => GoesTo(i, p)',
           \A w \in Worker : Outgoing(w)' =>
              Outgoing(w) /\ outbox'[w] = outbox[w] /\ task'[w] = task[w]
    PROVE  OwnersInv'
<1>1. \A i \in Txns : Objects(i)' = Objects(i) /\ Produced(i)' = Produced(i)
  BY DEF Objects, Produced
<1>2. \A i, o : LastRouted(i, o)' <=> LastRouted(i, o)
  BY <1>1 DEF LastRouted
<1>3. OwnersCurrent'
  <2> SUFFICES ASSUME NEW o \in Object, NEW v \in Version, states_to_proxy[<<o, v>>] # NoProxy
               PROVE  \E t \in Txns' : /\ LastRouted(t, o)' /\ v = Produced(t)'
                                       /\ GoesTo(t, states_to_proxy[<<o, v>>])'
    BY DEF OwnersCurrent
  <2>1. PICK t \in Txns : /\ LastRouted(t, o) /\ v = Produced(t)
                          /\ GoesTo(t, states_to_proxy[<<o, v>>])
    BY DEF OwnersInv, OwnersCurrent
  <2>2. GoesTo(t, states_to_proxy[<<o, v>>])'
    BY <2>1 DEF GoesTo
  <2> QED
    BY <1>1, <1>2, <2>1, <2>2
<1>4. OwnersComplete'
  <2> SUFFICES ASSUME NEW t \in Txns', NEW o \in Objects(t)', LastRouted(t, o)'
               PROVE  states_to_proxy[<<o, Produced(t)'>>] # NoProxy
    BY DEF OwnersComplete
  <2>1. LastRouted(t, o) /\ t \in Txns /\ o \in Objects(t) /\ Produced(t)' = Produced(t)
    BY <1>1, <1>2 DEF LastRouted
  <2> QED
    BY <2>1 DEF OwnersInv, OwnersComplete
<1>5. OwnersNamed'
  <2> SUFFICES ASSUME NEW w \in Worker, Outgoing(w)'
               PROVE  /\ outbox'[w].owner = [o \in Objects(task[w])' |-> outbox'[w].owner[o]]
                      /\ \A o \in Objects(task[w])' :
                            NamesOwner(task[w], outbox[w].proxy, o, outbox[w].owner[o])'
    BY DEF OwnersNamed
  <2>1. Outgoing(w) /\ outbox'[w] = outbox[w] /\ task'[w] = task[w]
    OBVIOUS
  <2>2. PICK t \in Txns : t = task[w] /\ Routed(t)
    BY <2>1, HeldFacts DEF Outgoing, Routed
  <2>3. /\ outbox[w].owner = [o \in Objects(t) |-> outbox[w].owner[o]]
        /\ \A o \in Objects(t) : NamesOwner(t, outbox[w].proxy, o, outbox[w].owner[o])
    BY <2>1, <2>2 DEF OwnersInv, OwnersNamed
  <2>4. Objects(task[w])' = Objects(t)
    BY <1>1, <2>1, <2>2 DEF Objects
  <2>5. ASSUME NEW o \in Objects(t)
        PROVE  NamesOwner(t, outbox[w].proxy, o, outbox[w].owner[o])'
    <3>1. \A i \in 1..(t - 1) : i \in Txns /\ (o \in Objects(i) => sent'[i] = sent[i])
      BY <2>2, <2>5, ChainFacts DEF ChainInv, InOrder, Settled, Done
    <3>2. \A i \in 0..(t - 1) : NoneBetween(i, t, o)' <=> NoneBetween(i, t, o)
      <4>1. t \in Nat
        BY <2>2, ChainFacts
      <4>2. \A i \in 0..(t - 1) : \A k \in (i + 1)..(t - 1) : k \in 1..(t - 1)
        BY <4>1
      <4> QED
        BY <1>1, <3>1, <4>2 DEF NoneBetween
    <3>3. NoneBetween(0, t, o)' <=> NoneBetween(0, t, o)
      BY <1>1, <3>1 DEF NoneBetween
    <3>4. \A i \in 1..(t - 1) : Predecessor(i, t, o)' <=> Predecessor(i, t, o)
      BY <1>1, <2>2, <3>1, <3>2, ChainFacts DEF Predecessor
    <3> QED
      BY <2>1, <2>3, <2>5, <3>1, <3>3, <3>4 DEF NamesOwner, Predecessor
  <2>6. ASSUME NEW o \in Objects(t)
        PROVE  NamesOwner(task[w], outbox[w].proxy, o, outbox[w].owner[o])'
    BY <2>1, <2>2, <2>5, <2>6 DEF NamesOwner
  <2> QED
    BY <2>1, <2>3, <2>4, <2>6
<1> QED
  BY <1>3, <1>4, <1>5 DEF OwnersInv

(***************************************************************************)
(* Routing t moves the objects of t: their old entries were those of t's   *)
(* predecessors, which is what the message says of them, and the new ones  *)
(* are t's own, since nobody after t can have been routed.                 *)
(***************************************************************************)
LEMMA OwnersRoute ==
    ASSUME BaseInv, ChainInv, OwnersInv, NEW w \in Worker, RouteTask(w)
    PROVE  OwnersInv'
<1>1. PICK p \in Proxy, s \in Proxy : RoutedAs(w, p, s)
  BY RouteFacts
<1>2. PICK t \in Txns :
        /\ t = task[w] /\ pc[w] = "await" /\ awaiting[w] = {}
        /\ pc' = [pc EXCEPT ![w] = IF Mode = "PrimaryPostSeparation" THEN "verify" ELSE "send"]
        /\ UNCHANGED <<assigned, task, sent>>
  <2>1. pc[w] = "await"
    BY RouteRest
  <2> QED
    BY <2>1, RouteRest, HeldFacts DEF vaVars
<1>3. /\ pc'[w] \in {"verify", "send"}
      /\ \A v \in Worker : v # w => pc'[v] = pc[v]
  BY <1>2 DEF BaseInv, SFTypeOK
<1>4. /\ outbox'[w] = RoutedMessage(t, p, s) /\ \A v \in Worker : v # w => outbox'[v] = outbox[v]
  BY <1>1, <1>2 DEF RoutedAs, BaseInv, SFTypeOK
<1>5. /\ Txns' = Txns /\ \A i : Objects(i)' = Objects(i) /\ Produced(i)' = Produced(i)
  BY <1>2 DEF Txns, Objects, Produced
<1>6. /\ \A v \in Worker : task[v] = t => v = w
      /\ sent[t] = NoMessage /\ ~ Routed(t) /\ Routed(t)'
      /\ \A i \in Txns : i # t => (Routed(i)' <=> Routed(i))
  <2>1. \A v \in Worker : task[v] = t => v = w
    BY <1>2, ChainFacts DEF BaseInv, Placed
  <2>2. sent[t] = NoMessage
    BY <1>2 DEF BaseInv, Stages
  <2> QED
    BY <1>2, <1>3, <2>1, <2>2 DEF Routed, Outgoing
<1>7. \A i \in Txns : i # t => \A q : GoesTo(i, q) => GoesTo(i, q)'
  BY <1>2, <1>3, <1>4 DEF GoesTo, Outgoing
<1>8. GoesTo(t, p)'
  BY <1>2, <1>3, <1>4 DEF GoesTo, Outgoing, RoutedMessage
<1>9. \A o \in Objects(t) :
        /\ \A i \in Txns : LastRouted(i, o) <=> i \in 1..(t - 1) /\ Predecessor(i, t, o)
        /\ \A j \in Txns : o \in Objects(j) /\ Routed(j) => j < t \/ j = t
  <2> TAKE o \in Objects(t)
  <2>1. Settled(t, o)
    BY <1>2, RoutingSettled DEF Routing
  <2> QED
    BY <1>2, <2>1, LastIsPredecessor, HeldBlocks
<1>10. \A o \in Objects(t) : \A i \in Txns : LastRouted(i, o)' <=> i = t
  <2> TAKE o \in Objects(t)
  <2> TAKE i \in Txns
  <2>0. t \in Nat /\ \A j \in Txns : j \in Nat
    BY ChainFacts
  <2>1. i = t => LastRouted(i, o)'
    BY <2>0, <1>5, <1>6, <1>9 DEF LastRouted
  <2>2. LastRouted(i, o)' => i = t
    BY <2>0, <1>5, <1>6, <1>9 DEF LastRouted
  <2> QED
    BY <2>1, <2>2
<1>11. \A o : o \notin Objects(t) => \A i \in Txns : LastRouted(i, o)' <=> LastRouted(i, o)
  BY <1>5, <1>6 DEF LastRouted
<1>12. \A o \in Object, v \in Version :
         states_to_proxy'[<<o, v>>] =
           IF o \in Objects(t) /\ v = assigned[t][o] THEN NoProxy
           ELSE IF o \in Objects(t) /\ v = Produced(t) THEN p
           ELSE states_to_proxy[<<o, v>>]
  <2>1. \A o \in Object, v \in Version :
           <<o, v>> \in Keys(assigned[t]) <=> o \in Objects(t) /\ v = assigned[t][o]
    BY DEF Keys, Objects
  <2>2. states_to_proxy' = MoveStates(assigned[t], p)
        /\ DOMAIN states_to_proxy = Object \X Version
    BY <1>1, <1>2 DEF RoutedAs, BaseInv, SFTypeOK
  <2> QED
    BY <2>1, <2>2 DEF MoveStates, Objects, Produced
<1>13. VersionChain
  BY DEF BaseInv, VAInv
<1>14. \A o \in Objects(t) : \A i \in Txns :
         LastRouted(i, o) => assigned[t][o] = Produced(i)
  BY <1>9, <1>13 DEF VersionChain, Produced
<1>15. OwnersCurrent'
  <2> SUFFICES ASSUME NEW o \in Object, NEW v \in Version, states_to_proxy'[<<o, v>>] # NoProxy
               PROVE  \E i \in Txns : /\ LastRouted(i, o)' /\ v = Produced(i)
                                      /\ GoesTo(i, states_to_proxy[<<o, v>>])'
    BY <1>5 DEF OwnersCurrent
  <2>1. CASE o \in Objects(t) /\ v = Produced(t)
    <3>1. states_to_proxy'[<<o, v>>] = p
      BY <1>12, <2>1
    <3>2. GoesTo(t, states_to_proxy[<<o, v>>])'
      BY <1>8, <3>1 DEF GoesTo
    <3> QED
      BY <1>10, <2>1, <3>2
  <2>2. CASE ~ (o \in Objects(t) /\ v = Produced(t))
    <3>1. states_to_proxy'[<<o, v>>] = states_to_proxy[<<o, v>>]
          /\ ~ (o \in Objects(t) /\ v = assigned[t][o])
      BY <1>12, <2>2
    <3>2. PICK i \in Txns : /\ LastRouted(i, o) /\ v = Produced(i)
                            /\ GoesTo(i, states_to_proxy[<<o, v>>])
      BY <3>1 DEF OwnersInv, OwnersCurrent
    <3>3. o \notin Objects(t)
      BY <1>14, <3>1, <3>2
    <3>4. i # t
      BY <3>2, <3>3 DEF LastRouted
    <3>5. GoesTo(i, states_to_proxy[<<o, v>>])'
      BY <1>7, <3>1, <3>2, <3>4 DEF GoesTo
    <3> QED
      BY <1>11, <3>2, <3>3, <3>5
  <2> QED
    BY <2>1, <2>2
<1>16. OwnersComplete'
  <2> SUFFICES ASSUME NEW i \in Txns, NEW o \in Objects(i), LastRouted(i, o)'
               PROVE  states_to_proxy'[<<o, Produced(i)>>] # NoProxy
    BY <1>5 DEF OwnersComplete
  <2>1. o \in Object /\ Produced(i) \in Version
    BY ChainFacts
  <2>2. CASE o \in Objects(t)
    <3>1. i = t
      BY <1>10, <2>2
    <3>2. Produced(t) # assigned[t][o] /\ p # NoProxy
      BY <2>2, ChainFacts, ConstantFacts
    <3> QED
      BY <1>12, <2>1, <2>2, <3>1, <3>2
  <2>3. CASE o \notin Objects(t)
    BY <1>11, <1>12, <2>1, <2>3 DEF OwnersInv, OwnersComplete
  <2> QED
    BY <2>2, <2>3
<1>17. OwnersNamed'
  <2> SUFFICES ASSUME NEW v \in Worker, Outgoing(v)'
               PROVE  /\ outbox'[v].owner = [o \in Objects(task[v]) |-> outbox'[v].owner[o]]
                      /\ \A o \in Objects(task[v]) :
                            NamesOwner(task[v], outbox'[v].proxy, o, outbox'[v].owner[o])
    <3>1. \A i, q, o, x : NamesOwner(i, q, o, x)' <=> NamesOwner(i, q, o, x)
      BY <1>2 DEF NamesOwner, NoneBetween, Predecessor, Objects
    <3> QED
      BY <1>2, <1>5 DEF OwnersNamed, NamesOwner, NoneBetween, Predecessor, Objects
  <2>1. CASE v # w
    <3>1. Outgoing(v) /\ outbox'[v] = outbox[v]
      BY <1>3, <1>4, <2>1 DEF Outgoing
    <3> QED
      BY <3>1 DEF OwnersInv, OwnersNamed
  <2>2. CASE v = w
    <3>1. /\ outbox'[w].proxy = p
          /\ outbox'[w].owner = [o \in Objects(t) |->
                IF states_to_proxy[<<o, assigned[t][o]>>] # p
                THEN states_to_proxy[<<o, assigned[t][o]>>] ELSE NoProxy]
      BY <1>4 DEF RoutedMessage, MissingStates, Objects
    <3>2. ASSUME NEW o \in Objects(t)
          PROVE  NamesOwner(t, p, o, outbox'[w].owner[o])
      <4>0. /\ o \in Object /\ assigned[t][o] \in Version
            /\ outbox'[w].owner[o] = IF states_to_proxy[<<o, assigned[t][o]>>] # p
                                     THEN states_to_proxy[<<o, assigned[t][o]>>] ELSE NoProxy
        BY <3>1, <3>2, ChainFacts
      <4>1. ASSUME NoneBetween(0, t, o) PROVE outbox'[w].owner[o] = NoProxy
        <5>1. assigned[t][o] = InitialVersion
          BY <1>13, <3>2, <4>1 DEF VersionChain
        <5>2. \A i \in Txns : Produced(i) # InitialVersion
          BY ChainFacts, MaxTxnsAssumption DEF Version, InitialVersion
        <5>3. states_to_proxy[<<o, assigned[t][o]>>] = NoProxy
          BY <4>0, <5>1, <5>2 DEF OwnersInv, OwnersCurrent
        <5> QED
          BY <4>0, <5>3
      <4>2. ASSUME NEW i \in 1..(t - 1), Predecessor(i, t, o)
            PROVE  outbox'[w].owner[o] = IF sent[i].proxy # p THEN sent[i].proxy ELSE NoProxy
        <5>1. i \in Txns /\ LastRouted(i, o) /\ o \in Objects(i)
          BY <1>9, <3>2, <4>2, ChainFacts DEF Predecessor
        <5>2. assigned[t][o] = Produced(i)
          BY <1>14, <5>1
        <5>3. states_to_proxy[<<o, Produced(i)>>] # NoProxy
          BY <5>1 DEF OwnersInv, OwnersComplete
        <5>4. PICK k \in Txns : /\ LastRouted(k, o)
                                /\ GoesTo(k, states_to_proxy[<<o, Produced(i)>>])
          BY <4>0, <5>2, <5>3 DEF OwnersInv, OwnersCurrent
        <5>5. k = i
          BY <5>1, <5>4, LastRoutedUnique
        <5>6. sent[i] # NoMessage
          <6>1. Settled(t, o)
            BY <1>2, <3>2, RoutingSettled DEF Routing
          <6> QED
            BY <4>2, <5>1, <6>1 DEF Settled, Done
        <5>7. states_to_proxy[<<o, Produced(i)>>] = sent[i].proxy
          BY <5>1, <5>4, <5>5, <5>6, GoesToUnique
        <5> QED
          BY <4>0, <5>2, <5>7
      <4> QED
        BY <4>1, <4>2 DEF NamesOwner
    <3>3. outbox'[w].owner = [o \in Objects(t) |-> outbox'[w].owner[o]]
      BY <3>1
    <3> QED
      BY <1>2, <2>2, <3>1, <3>2, <3>3
  <2> QED
    BY <2>1, <2>2
<1> QED
  BY <1>15, <1>16, <1>17 DEF OwnersInv

\* Every step of the forwarder keeps the owners.
LEMMA OwnersStep == BaseInv /\ ChainInv /\ OwnersInv /\ [SFNext]_sfVars => OwnersInv'
<1> SUFFICES ASSUME BaseInv, ChainInv, OwnersInv, [SFNext]_sfVars PROVE OwnersInv'
  OBVIOUS
<1>1. ASSUME UNCHANGED <<assigned, states_to_proxy, sent, pc, task, outbox>> PROVE OwnersInv'
  BY <1>1, OwnersSame DEF Txns, Routed, GoesTo, Outgoing
<1>2. ASSUME NEW S \in SUBSET Object, Assign(S) PROVE OwnersInv'
  <2> DEFINE n == Len(assigned) + 1
  <2>1. /\ Txns' = Txns \cup {n}
        /\ \A t \in Txns : assigned'[t] = assigned[t]
        /\ \A w \in Worker : task[w] # n
        /\ sent[n] = NoMessage
        /\ UNCHANGED <<states_to_proxy, sent, pc, task, outbox>>
    BY <1>2, AssignFacts DEF workerVars
  <2> HIDE DEF n
  <2>2. \A i : (Routed(i)' <=> Routed(i)) /\ \A p : GoesTo(i, p)' <=> GoesTo(i, p)
    BY <2>1 DEF Routed, Outgoing, GoesTo
  <2>3. ~ Routed(n)
    BY <2>1 DEF Routed
  <2>4. \A w \in Worker : Outgoing(w)' <=> Outgoing(w)
    BY <2>1 DEF Outgoing
  <2> QED
    BY <2>1, <2>2, <2>3, <2>4, OwnersSame
<1>3. ASSUME NEW w \in Worker, RecvTask(w) PROVE OwnersInv'
  <2>1. /\ pc[w] = "recv" /\ pc' = [pc EXCEPT ![w] = "await"]
        /\ \A v \in Worker : v # w => task'[v] = task[v]
        /\ UNCHANGED <<assigned, states_to_proxy, sent, outbox>>
    BY <1>3 DEF RecvTask, vaVars, BaseInv, SFTypeOK
  <2>2. /\ pc'[w] = "await" /\ \A v \in Worker : v # w => pc'[v] = pc[v]
    BY <2>1 DEF BaseInv, SFTypeOK
  <2>3. \A v \in Worker : (Outgoing(v)' <=> Outgoing(v)) /\ (Outgoing(v) => v # w)
    BY <2>1, <2>2 DEF Outgoing
  <2>4. \A i : (Routed(i)' <=> Routed(i)) /\ \A p : GoesTo(i, p) => GoesTo(i, p)'
    BY <2>1, <2>3 DEF Routed, GoesTo
  <2> QED
    BY <2>1, <2>3, <2>4, OwnersSame DEF Txns
<1>4. ASSUME NEW w \in Worker, SendStateless(w) PROVE OwnersInv'
  <2>1. /\ pc[w] = "verify" /\ pc' = [pc EXCEPT ![w] = "send"]
        /\ UNCHANGED <<assigned, states_to_proxy, sent, outbox, task>>
    BY <1>4 DEF SendStateless, vaVars
  <2>2. \A v \in Worker : Outgoing(v)' <=> Outgoing(v)
    BY <2>1 DEF BaseInv, SFTypeOK, Outgoing
  <2>3. \A i : (Routed(i)' <=> Routed(i)) /\ \A p : GoesTo(i, p) => GoesTo(i, p)'
    BY <2>1, <2>2 DEF Routed, GoesTo
  <2> QED
    BY <2>1, <2>2, <2>3, OwnersSame DEF Txns
<1>5. ASSUME NEW w \in Worker, SendToProxy(w) PROVE OwnersInv'
  <2>1. /\ pc[w] = "send" /\ pc' = [pc EXCEPT ![w] = "notify"]
        /\ sent' = [sent EXCEPT ![task[w]] = outbox[w]]
        /\ outbox' = [outbox EXCEPT ![w] = NoMessage]
        /\ UNCHANGED <<assigned, states_to_proxy, task>>
    BY <1>5 DEF SendToProxy, vaVars
  <2>2. /\ pc'[w] = "notify"
        /\ \A v \in Worker : v # w => pc'[v] = pc[v] /\ outbox'[v] = outbox[v]
    BY <2>1 DEF BaseInv, SFTypeOK
  <2>3. /\ outbox[w] # NoMessage /\ task[w] \in TxnId /\ sent[task[w]] = NoMessage
        /\ \A i \in Txns : i \in TxnId
    BY <2>1, HeldFacts, ChainFacts, ConstantFacts DEF BaseInv, Stages, Outgoing
  <2>4. sent'[task[w]] = outbox[w] /\ \A i \in TxnId : i # task[w] => sent'[i] = sent[i]
    BY <2>1, <2>3 DEF BaseInv, SFTypeOK
  <2>5. \A v \in Worker : Outgoing(v)' => Outgoing(v) /\ v # w
    BY <2>2 DEF Outgoing
  <2>6. \A v \in Worker : Outgoing(v) /\ v # w => Outgoing(v)'
    BY <2>2 DEF Outgoing
  <2>7. \A i \in Txns : \A p : GoesTo(i, p) => GoesTo(i, p)'
    <3> SUFFICES ASSUME NEW i \in Txns, NEW p, GoesTo(i, p) PROVE GoesTo(i, p)'
      OBVIOUS
    <3>1. CASE i = task[w]
      <4>1. PICK v \in Worker : task[v] = i /\ outbox[v].proxy = p
        BY <2>3, <3>1 DEF GoesTo
      <4>2. v = w
        BY <3>1, <4>1, ChainFacts DEF BaseInv, Placed
      <4> QED
        BY <2>3, <2>4, <3>1, <4>1, <4>2 DEF GoesTo
    <3>2. CASE i # task[w]
      BY <2>1, <2>2, <2>3, <2>4, <2>6, <3>2 DEF GoesTo
    <3> QED
      BY <3>1, <3>2
  <2>8. \A i \in Txns : Routed(i)' <=> Routed(i)
    <3> TAKE i \in Txns
    <3>1. CASE i = task[w]
      BY <2>1, <2>3, <2>4, <3>1 DEF Routed, Outgoing
    <3>2. CASE i # task[w]
      BY <2>1, <2>3, <2>4, <2>5, <2>6, <3>2 DEF Routed
    <3> QED
      BY <3>1, <3>2
  <2>9. \A i \in Txns : sent[i] # NoMessage => sent'[i] = sent[i]
    BY <2>3, <2>4
  <2> QED
    BY <2>1, <2>2, <2>5, <2>7, <2>8, <2>9, OwnersSame DEF Txns
<1>6. ASSUME NEW w \in Worker, NotifyNext(w) PROVE OwnersInv'
  <2>1. /\ pc[w] = "notify" /\ pc' = [pc EXCEPT ![w] = "recv"]
        /\ task' = [task EXCEPT ![w] = NoTxn]
        /\ UNCHANGED <<assigned, states_to_proxy, sent, outbox>>
    BY <1>6 DEF NotifyNext, vaVars
  <2>2. /\ pc'[w] = "recv"
        /\ \A v \in Worker : v # w => pc'[v] = pc[v] /\ task'[v] = task[v]
    BY <2>1 DEF BaseInv, SFTypeOK
  <2>3. \A v \in Worker : (Outgoing(v)' <=> Outgoing(v)) /\ (Outgoing(v) => v # w)
    BY <2>1, <2>2 DEF Outgoing
  <2>4. \A i : (Routed(i)' <=> Routed(i)) /\ \A p : GoesTo(i, p) => GoesTo(i, p)'
    BY <2>1, <2>2, <2>3 DEF Routed, GoesTo
  <2> QED
    BY <2>1, <2>2, <2>3, <2>4, OwnersSame DEF Txns
<1>7. ASSUME NEW w \in Worker, WorkerStep(w) PROVE OwnersInv'
  <2>1. CASE AwaitPrior(w)
    BY <1>1, <2>1 DEF AwaitPrior, vaVars
  <2> QED
    BY <1>3, <1>4, <1>5, <1>6, <1>7, <2>1, OwnersRoute DEF WorkerStep
<1>8. CASE SendTask
  BY <1>1, <1>8 DEF SendTask, vaVars
<1>9. ASSUME NEW G \in Subgraphs, NEW p \in Proxy, PlanSubgraph(G, p) PROVE OwnersInv'
  BY <1>1, <1>9 DEF PlanSubgraph, vaVars, workerVars
<1>10. ASSUME NEW t \in TxnId, NEW p \in Proxy, ForwardStateless(t, p) PROVE OwnersInv'
  BY <1>1, <1>10 DEF ForwardStateless, vaVars, workerVars
<1>11. ASSUME NEW t \in TxnId, RecordStateless(t) PROVE OwnersInv'
  BY <1>1, <1>11 DEF RecordStateless, vaVars, workerVars
<1>12. CASE UNCHANGED sfVars
  BY <1>1, <1>12 DEF sfVars, vaVars, workerVars
<1> QED
  BY <1>2, <1>7, <1>8, <1>9, <1>10, <1>11, <1>12 DEF SFNext, Finished

\* The ownership map agrees with the messages, in every reachable state.
THEOREM OwnersInvariant == SFSpec => [](BaseInv /\ ChainInv /\ OwnersInv)
BY BaseInit, BaseStep, ChainInit, ChainStep, OwnersInit, OwnersStep, PTL DEF SFSpec

(***************************************************************************)
(* An object has one owner: get_missing_states_for_transaction removes the *)
(* entry of the version it replaces, whichever worker wrote it.            *)
(***************************************************************************)
THEOREM OneOwner == SFSpec => []OneOwnerPerObject
<1>1. BaseInv /\ OwnersInv => OneOwnerPerObject
  <2> SUFFICES ASSUME BaseInv, OwnersInv, NEW k \in DOMAIN states_to_proxy,
                      NEW l \in DOMAIN states_to_proxy,
                      states_to_proxy[k] # NoProxy, states_to_proxy[l] # NoProxy, k[1] = l[1]
               PROVE  k = l
    BY DEF OneOwnerPerObject
  <2>1. PICK o \in Object, u \in Version, v \in Version : k = <<o, u>> /\ l = <<o, v>>
    BY DEF BaseInv, SFTypeOK
  <2>2. PICK i \in Txns : LastRouted(i, o) /\ u = Produced(i)
    BY <2>1 DEF OwnersInv, OwnersCurrent
  <2>3. PICK j \in Txns : LastRouted(j, o) /\ v = Produced(j)
    BY <2>1 DEF OwnersInv, OwnersCurrent
  <2> QED
    BY <2>1, <2>2, <2>3, LastRoutedUnique
<1> QED
  BY <1>1, OwnersInvariant, PTL

-----------------------------------------------------------------------------
(* The forwarder implements ObjectRouting.                                 *)

\* The messages sent, as ObjectRouting sees them.
Seen == [t \in TxnId |-> [proxy |-> sent[t].proxy, owner |-> sent[t].owner]]

\* Nothing has been sent before the first transaction.
LEMMA RoutesInit == SFInit => Routes!ORInit
<1> SUFFICES ASSUME SFInit PROVE Routes!ORInit
  OBVIOUS
<1>1. Routes!VAInit
  BY DEF SFInit, VAInit, Routes!VAInit, Routes!Absent, Absent
<1>2. [t \in TxnId |-> [proxy |-> sent[t].proxy, owner |-> sent[t].owner]]
        = [t \in TxnId |-> Routes!NotForwarded]
  BY DEF SFInit, NoMessage, NoProxy, Routes!NotForwarded, Routes!NoProxy
<1> QED
  BY <1>1, <1>2 DEF Routes!ORInit, Routes!TxnId, TxnId

\* What a sent message is, and that ObjectRouting tells it from none.
LEMMA SeenSent ==
    ASSUME BaseInv, NEW t \in TxnId
    PROVE  /\ Seen[t] = [proxy |-> sent[t].proxy, owner |-> sent[t].owner]
           /\ sent[t] = NoMessage <=> Seen[t] = Routes!NotForwarded
<1>1. Seen[t] = [proxy |-> sent[t].proxy, owner |-> sent[t].owner]
  BY DEF Seen
<1>2. sent[t] = NoMessage => Seen[t] = Routes!NotForwarded
  BY <1>1 DEF NoMessage, NoProxy, Routes!NotForwarded, Routes!NoProxy
<1>3. sent[t] \in Message => sent[t].proxy # NoProxy
  BY ConstantFacts
<1>4. sent[t] # NoMessage => Seen[t] # Routes!NotForwarded
  <2>1. sent[t] \in {NoMessage} \cup Message
    BY DEF BaseInv, SFTypeOK
  <2>2. Seen[t].proxy = sent[t].proxy /\ Routes!NotForwarded.proxy = NoProxy
    BY <1>1 DEF Routes!NotForwarded, Routes!NoProxy, NoProxy
  <2> QED
    BY <1>3, <2>1, <2>2
<1> QED
  BY <1>1, <1>2, <1>4

(***************************************************************************)
(* A previous owner named as the invariant says is ObjectRouting's.        *)
(***************************************************************************)
LEMMA NamedIsPrevious ==
    ASSUME BaseInv, NEW t \in Txns, NEW o \in Objects(t), NEW p, NEW owner,
           NamesOwner(t, p, o, owner)
    PROVE  owner = Routes!PreviousOwner(t, p, o)
<1> DEFINE pred == CHOOSE i \in 1..(t - 1) : Predecessor(i, t, o)
<1>1. /\ t \in Nat \ {0} /\ \A i \in 1..(t - 1) : i \in TxnId
  BY ChainFacts, ConstantFacts
<1>2. Routes!PreviousOwner(t, p, o) =
        IF \E i \in 1..(t - 1) : Predecessor(i, t, o) /\ Seen[i].proxy # p
        THEN Seen[pred].proxy ELSE NoProxy
  BY DEF Routes!PreviousOwner, Seen, Predecessor, NoneBetween, Objects, Routes!NoProxy, NoProxy,
         Routes!Predecessor, Routes!NoneBetween, Routes!Objects, Routes!TxnId, TxnId
<1>3. \A i \in 1..(t - 1) : Seen[i].proxy = sent[i].proxy
  BY <1>1 DEF Seen
<1>4. CASE NoneBetween(0, t, o)
  <2>1. \A i \in 1..(t - 1) : ~ Predecessor(i, t, o)
    BY <1>1, <1>4 DEF NoneBetween, Predecessor
  <2> QED
    BY <1>2, <1>4, <2>1 DEF NamesOwner
<1>5. CASE ~ NoneBetween(0, t, o)
  <2>1. PICK i \in 1..(t - 1) : Predecessor(i, t, o)
    BY <1>1, <1>5, PredecessorExists
  <2>2. \A k \in 1..(t - 1) : Predecessor(k, t, o) => k = i
    BY <1>1, <2>1, PredecessorUnique
  <2>3. pred = i
    BY <2>1, <2>2
  <2>4. owner = IF sent[i].proxy # p THEN sent[i].proxy ELSE NoProxy
    BY <2>1 DEF NamesOwner
  <2> HIDE DEF pred
  <2> QED
    BY <1>2, <1>3, <2>1, <2>2, <2>3, <2>4
<1> QED
  BY <1>4, <1>5

(***************************************************************************)
(* Sending a transaction is ObjectRouting's Forward.                       *)
(***************************************************************************)
LEMMA SendForwards ==
    ASSUME BaseInv, ChainInv, OwnersInv, NEW w \in Worker, SendToProxy(w)
    PROVE  \E t \in TxnId, p \in Proxy : Routes!Forward(t, p)
<1>1. PICK t \in Txns : t = task[w] /\ pc[w] = "send" /\ sent[t] = NoMessage /\ t \in TxnId
  <2>1. pc[w] = "send"
    BY DEF SendToProxy
  <2> QED
    BY <2>1, HeldFacts DEF BaseInv, Stages
<1>2. Outgoing(w) /\ outbox[w] \in Message /\ Routed(t)
  BY <1>1 DEF Outgoing, BaseInv, Stages, Routed
<1>3. PICK p \in Proxy : p = outbox[w].proxy
  BY <1>2 DEF Message
<1>4. sent' = [sent EXCEPT ![t] = outbox[w]] /\ UNCHANGED vaVars
  BY <1>1 DEF SendToProxy
<1>5. Seen' = [Seen EXCEPT ![t] = [proxy |-> outbox[w].proxy, owner |-> outbox[w].owner]]
  BY <1>1, <1>4 DEF Seen, BaseInv, SFTypeOK
<1>6. outbox[w].owner = [o \in Objects(t) |-> Routes!PreviousOwner(t, p, o)]
  <2>1. /\ outbox[w].owner = [o \in Objects(t) |-> outbox[w].owner[o]]
        /\ \A o \in Objects(t) : NamesOwner(t, p, o, outbox[w].owner[o])
    BY <1>1, <1>2, <1>3 DEF OwnersInv, OwnersNamed
  <2>2. \A o \in Objects(t) : outbox[w].owner[o] = Routes!PreviousOwner(t, p, o)
    BY <2>1, NamedIsPrevious
  <2> QED
    BY <2>1, <2>2
<1>7. Seen[t] = Routes!NotForwarded
  BY <1>1, SeenSent
<1>8. ASSUME NEW i \in 1..(t - 1), Conflicts(i, t) PROVE Seen[i] # Routes!NotForwarded
  <2>1. i \in Txns /\ i \in TxnId
    BY <1>1, <1>8, ChainFacts
  <2>2. PICK o \in Objects(t) : o \in Objects(i)
    BY <1>8 DEF Conflicts
  <2>3. Done(i)
    BY <1>2, <1>8, <2>2 DEF ChainInv, InOrder, Settled
  <2> QED
    BY <2>1, <2>3, SeenSent DEF Done
<1>9. Routes!Forward(t, p)
  <2>1. t \in Routes!Txns
    BY DEF Txns, Routes!Txns
  <2>2. ~ Routes!IsForwarded(t)
    BY <1>7 DEF Routes!IsForwarded, Seen, Routes!TxnId, TxnId
  <2>3. \A i \in 1..(t - 1) : Routes!Conflicts(i, t) => Routes!IsForwarded(i)
    BY <1>8 DEF Routes!IsForwarded, Seen, Routes!Conflicts, Conflicts, Routes!Objects, Objects,
                Routes!TxnId, TxnId
  <2>4. Seen' = [Seen EXCEPT ![t] =
          [proxy |-> p, owner |-> [o \in Objects(t) |-> Routes!PreviousOwner(t, p, o)]]]
    BY <1>3, <1>5, <1>6
  <2> QED
    BY <1>4, <2>1, <2>2, <2>3, <2>4 DEF Routes!Forward, Seen, Routes!Objects, Objects, Routes!vaVars,
                                       vaVars, Routes!TxnId, TxnId
<1> QED
  BY <1>1, <1>3, <1>9

\* Assigning versions is the same step there, and every other step is invisible.
LEMMA RoutesStep ==
    BaseInv /\ ChainInv /\ OwnersInv /\ [SFNext]_sfVars => [Routes!ORNext]_(Routes!orVars)
<1> SUFFICES ASSUME BaseInv, ChainInv, OwnersInv, [SFNext]_sfVars
             PROVE  Routes!ORNext \/ UNCHANGED Routes!orVars
  OBVIOUS
<1>1. ASSUME UNCHANGED <<vaVars, sent>> PROVE UNCHANGED Routes!orVars
  BY <1>1 DEF Routes!orVars, vaVars, Routes!vaVars
<1>2. ASSUME NEW S \in SUBSET Object, Assign(S) PROVE Routes!ORNext
  <2>1. AssignSharedObjectVersions(S) /\ sent' = sent
    BY <1>2 DEF Assign
  <2>2. Routes!AssignSharedObjectVersions(S)
    BY <2>1 DEF AssignSharedObjectVersions, Routes!AssignSharedObjectVersions, CurrentVersion,
                Routes!CurrentVersion, NextVersion, Routes!NextVersion, InitialVersion,
                Routes!InitialVersion, Absent, Routes!Absent, Max, Routes!Max, Range, Routes!Range
  <2> QED
    BY <2>1, <2>2 DEF Routes!ORNext
<1>3. ASSUME NEW w \in Worker, SendToProxy(w) PROVE Routes!ORNext
  BY <1>3, SendForwards DEF Routes!ORNext, TxnId, Routes!TxnId, Proxy, Routes!Proxy
<1>4. ASSUME NEW w \in Worker, WorkerStep(w), ~ SendToProxy(w) PROVE UNCHANGED <<vaVars, sent>>
  BY <1>4 DEF WorkerStep, RecvTask, AwaitPrior, RouteTask, SendStateless, NotifyNext
<1>5. CASE SendTask
  BY <1>1, <1>5 DEF SendTask
<1>6. ASSUME NEW G \in Subgraphs, NEW p \in Proxy, PlanSubgraph(G, p) PROVE UNCHANGED <<vaVars, sent>>
  BY <1>6 DEF PlanSubgraph
<1>7. ASSUME NEW t \in TxnId, NEW p \in Proxy, ForwardStateless(t, p) PROVE UNCHANGED <<vaVars, sent>>
  BY <1>7 DEF ForwardStateless
<1>8. ASSUME NEW t \in TxnId, RecordStateless(t) PROVE UNCHANGED <<vaVars, sent>>
  BY <1>8 DEF RecordStateless
<1>9. CASE UNCHANGED sfVars
  BY <1>1, <1>9 DEF sfVars
<1> QED
  BY <1>1, <1>2, <1>3, <1>4, <1>5, <1>6, <1>7, <1>8, <1>9 DEF SFNext, Finished

(***************************************************************************)
(* The forwarder implements ObjectRouting, for any number of workers: each *)
(* transaction is sent once, after those it conflicts with, and names for  *)
(* each object the proxy its predecessor was sent to.                      *)
(***************************************************************************)
THEOREM ForwarderRoutes == SFSpec => RoutesRefined
BY OwnersInvariant, RoutesInit, RoutesStep, PTL DEF SFSpec, RoutesRefined, Routes!ORSpec

-----------------------------------------------------------------------------
(***************************************************************************)
(* The stateless forwarding table, which the stateless forwarder and the   *)
(* workers share: the forwarder implements VerifierRouting, and neither    *)
(* the table nor the controller keeps entries it should not when all is    *)
(* done.                                                                   *)
(***************************************************************************)

\* An entry of the table says where the request went, and was written after it.
TablesAgree ==
    \A t \in TxnId :
        /\ stateless_forwarding_table[t] # NoProxy =>
              /\ Mode = "PrimaryPreSeparation" /\ stateless_pc[t] = "done"
              /\ stateless_forwarding_table[t] = stateless_at[t]
        /\ stateless_pc[t] # "received" => Mode = "PrimaryPreSeparation"
        /\ Mode = "PrimaryPreSeparation" => (stateless_at[t] # NoProxy <=> stateless_pc[t] # "received")

\* After consensus a request is sent by the worker that holds the transaction.
RequestsAgree ==
    /\ \A w \in Worker : pc[w] = "verify" => Mode = "PrimaryPostSeparation"
    /\ \A t \in TxnId : stateless_at[t] # NoProxy =>
          /\ IsPrimarySeparation
          /\ Mode = "PrimaryPostSeparation" =>
                sent[t] # NoMessage \/ \E w \in Worker : task[w] = t /\ pc[w] = "send"

(***************************************************************************)
(* A message for t that names a verifier other than the default names the  *)
(* one on record, and the record has been taken.                           *)
(***************************************************************************)
NamesVerifier(t, m) ==
    /\ m.kind = IF IsPrimarySeparation THEN "Txn" ELSE "CombinedTxn"
    /\ Mode = "PrimaryPreSeparation" =>
          \/ m.stateless = 0
          \/ /\ m.stateless = stateless_at[t] /\ stateless_pc[t] = "done"
             /\ stateless_forwarding_table[t] = NoProxy
    /\ ~ IsPrimarySeparation => m.stateless = m.proxy

NamesAgree ==
    /\ \A t \in TxnId : sent[t] # NoMessage => NamesVerifier(t, sent[t])
    /\ \A w \in Worker : Outgoing(w) => NamesVerifier(task[w], outbox[w])
    /\ \A w \in Worker : pc[w] = "send" /\ Mode = "PrimaryPostSeparation" =>
          outbox[w].stateless = stateless_at[task[w]]

VerifierInv == TablesAgree /\ RequestsAgree /\ NamesAgree

-----------------------------------------------------------------------------

\* Initially the table is empty and nothing has been requested.
LEMMA VerifierInit == SFInit => VerifierInv
BY ConstantFacts DEF SFInit, VerifierInv, TablesAgree, RequestsAgree, NamesAgree, Outgoing

\* Steps that touch neither the table nor a message.
LEMMA VerifierQuiet ==
    ASSUME VerifierInv,
           UNCHANGED <<deployment, pc, task, outbox, sent, statelessVars>>
    PROVE  VerifierInv'
BY DEF VerifierInv, TablesAgree, RequestsAgree, NamesAgree, NamesVerifier, Outgoing, Mode,
       IsPrimarySeparation, statelessVars

\* A request leaves before consensus.
LEMMA VerifierForwardStateless ==
    ASSUME BaseInv, VerifierInv, NEW t \in TxnId, NEW p \in Proxy, ForwardStateless(t, p)
    PROVE  VerifierInv'
<1>1. /\ Mode = "PrimaryPreSeparation" /\ stateless_pc[t] = "received"
      /\ UNCHANGED <<deployment, pc, task, outbox, sent, stateless_forwarding_table>>
  BY DEF ForwardStateless, workerVars
<1>2. /\ stateless_at'[t] = p /\ \A i \in TxnId : i # t => stateless_at'[i] = stateless_at[i]
      /\ stateless_pc'[t] = "sent" /\ \A i \in TxnId : i # t => stateless_pc'[i] = stateless_pc[i]
  BY DEF ForwardStateless, BaseInv, SFTypeOK
<1>3. /\ Mode' = Mode /\ (IsPrimarySeparation' <=> IsPrimarySeparation)
      /\ Mode # "PrimaryPostSeparation" /\ p # NoProxy /\ IsPrimarySeparation
      /\ \A w \in Worker : Outgoing(w)' <=> Outgoing(w)
  BY <1>1, ConstantFacts DEF Mode, IsPrimarySeparation, Outgoing
<1>4. TablesAgree'
  BY <1>1, <1>2, <1>3 DEF VerifierInv, TablesAgree
<1>5. RequestsAgree'
  BY <1>1, <1>2, <1>3 DEF VerifierInv, RequestsAgree
<1>6. \A i \in TxnId : \A m : NamesVerifier(i, m) => NamesVerifier(i, m)'
  BY <1>1, <1>2, <1>3 DEF NamesVerifier
<1>7. \A w \in Worker : Outgoing(w) => task[w] \in TxnId
  BY HeldFacts DEF Outgoing
<1>8. NamesAgree'
  <2>1. \A i \in TxnId : sent[i] # NoMessage => NamesVerifier(i, sent[i])'
    BY <1>1, <1>3, <1>6 DEF VerifierInv, NamesAgree, NamesVerifier
  <2>2. \A w \in Worker : Outgoing(w) => NamesVerifier(task[w], outbox[w])'
    BY <1>1, <1>3, <1>6, <1>7 DEF VerifierInv, NamesAgree, NamesVerifier
  <2> QED
    BY <1>1, <1>3, <2>1, <2>2 DEF NamesAgree
<1> QED
  BY <1>4, <1>5, <1>8 DEF VerifierInv

\* The request's destination is put on record.
LEMMA VerifierRecordStateless ==
    ASSUME BaseInv, VerifierInv, NEW t \in TxnId, RecordStateless(t)
    PROVE  VerifierInv'
<1>1. /\ stateless_pc[t] = "sent"
      /\ UNCHANGED <<deployment, pc, task, outbox, sent, stateless_at>>
  BY DEF RecordStateless, workerVars
<1>2. /\ stateless_forwarding_table'[t] = stateless_at[t]
      /\ \A i \in TxnId : i # t => stateless_forwarding_table'[i] = stateless_forwarding_table[i]
      /\ stateless_pc'[t] = "done" /\ \A i \in TxnId : i # t => stateless_pc'[i] = stateless_pc[i]
  BY DEF RecordStateless, BaseInv, SFTypeOK
<1>3. /\ Mode' = Mode /\ (IsPrimarySeparation' <=> IsPrimarySeparation)
      /\ Mode = "PrimaryPreSeparation"
      /\ \A w \in Worker : Outgoing(w)' <=> Outgoing(w)
  BY <1>1 DEF Mode, IsPrimarySeparation, Outgoing, VerifierInv, TablesAgree
<1>4. TablesAgree'
  BY <1>1, <1>2, <1>3 DEF VerifierInv, TablesAgree
<1>5. RequestsAgree'
  BY <1>1, <1>2, <1>3 DEF VerifierInv, RequestsAgree
<1>6. \A i \in TxnId : \A m : NamesVerifier(i, m) => NamesVerifier(i, m)'
  BY <1>1, <1>2, <1>3 DEF NamesVerifier
<1>7. \A w \in Worker : Outgoing(w) => task[w] \in TxnId
  BY HeldFacts DEF Outgoing
<1>8. NamesAgree'
  <2>1. \A i \in TxnId : sent[i] # NoMessage => NamesVerifier(i, sent[i])'
    BY <1>1, <1>3, <1>6 DEF VerifierInv, NamesAgree, NamesVerifier
  <2>2. \A w \in Worker : Outgoing(w) => NamesVerifier(task[w], outbox[w])'
    BY <1>1, <1>3, <1>6, <1>7 DEF VerifierInv, NamesAgree, NamesVerifier
  <2> QED
    BY <1>1, <1>3, <2>1, <2>2 DEF NamesAgree
<1> QED
  BY <1>4, <1>5, <1>8 DEF VerifierInv

\* Routing takes the record, if there is one, into the message.
LEMMA VerifierRoute ==
    ASSUME BaseInv, VerifierInv, NEW w \in Worker, RouteTask(w)
    PROVE  VerifierInv'
<1>1. PICK p \in Proxy, s \in Proxy : RoutedAs(w, p, s)
  BY RouteFacts
<1>2. PICK t \in TxnId :
        /\ t = task[w] /\ pc[w] = "await"
        /\ pc' = [pc EXCEPT ![w] = IF Mode = "PrimaryPostSeparation" THEN "verify" ELSE "send"]
        /\ stateless_forwarding_table' =
              IF Mode = "PrimaryPreSeparation"
              THEN [stateless_forwarding_table EXCEPT ![task[w]] = NoProxy]
              ELSE stateless_forwarding_table
        /\ UNCHANGED <<deployment, task, sent, stateless_pc, stateless_at>>
  <2>1. pc[w] = "await"
    BY RouteRest
  <2> QED
    BY <2>1, RouteRest, HeldFacts
<1>3. /\ pc'[w] = (IF Mode = "PrimaryPostSeparation" THEN "verify" ELSE "send")
      /\ \A v \in Worker : v # w => pc'[v] = pc[v]
  BY <1>2 DEF BaseInv, SFTypeOK
<1>4. /\ outbox'[w] = RoutedMessage(t, p, s) /\ \A v \in Worker : v # w => outbox'[v] = outbox[v]
  BY <1>1, <1>2 DEF RoutedAs, BaseInv, SFTypeOK
<1>5. /\ Mode' = Mode /\ (IsPrimarySeparation' <=> IsPrimarySeparation)
      /\ \A v \in Worker : v # w => (Outgoing(v)' <=> Outgoing(v))
  BY <1>2, <1>3 DEF Mode, IsPrimarySeparation, Outgoing
<1>6. /\ Mode = "PrimaryPreSeparation" => stateless_forwarding_table'[t] = NoProxy
      /\ \A i \in TxnId : i # t => stateless_forwarding_table'[i] = stateless_forwarding_table[i]
      /\ \A i \in TxnId : stateless_forwarding_table'[i] # NoProxy =>
            stateless_forwarding_table'[i] = stateless_forwarding_table[i]
  BY <1>2 DEF BaseInv, SFTypeOK
<1>7. /\ sent[t] = NoMessage
      /\ \A v \in Worker : v # w /\ pc[v] # "recv" => task[v] # t /\ task[v] \in TxnId
  BY <1>2, HeldFacts DEF BaseInv, Stages, Placed
<1>8. TablesAgree'
  BY <1>2, <1>5, <1>6 DEF VerifierInv, TablesAgree
<1>9. RequestsAgree'
  BY <1>2, <1>3, <1>5, <1>7 DEF VerifierInv, RequestsAgree
<1>10. \A i \in TxnId : \A m : i # t /\ NamesVerifier(i, m) => NamesVerifier(i, m)'
  BY <1>2, <1>5, <1>6 DEF NamesVerifier
<1>11. NamesVerifier(t, outbox[w])'
  <2>1. /\ outbox'[w].kind = IF IsPrimarySeparation THEN "Txn" ELSE "CombinedTxn"
        /\ outbox'[w].stateless = s /\ outbox'[w].proxy = p
    BY <1>4 DEF RoutedMessage
  <2>2. /\ Mode = "PrimaryPreSeparation" =>
              s = IF stateless_forwarding_table[t] = NoProxy THEN 0 ELSE stateless_forwarding_table[t]
        /\ ~ IsPrimarySeparation => s = p
    BY <1>1, <1>2 DEF RoutedAs
  <2>3. ASSUME Mode = "PrimaryPreSeparation", stateless_forwarding_table[t] # NoProxy
        PROVE  s = stateless_at[t] /\ stateless_pc[t] = "done"
    BY <2>2, <2>3 DEF VerifierInv, TablesAgree
  <2> QED
    BY <1>2, <1>5, <1>6, <2>1, <2>2, <2>3 DEF NamesVerifier
<1>12. NamesAgree'
  <2>1. \A i \in TxnId : sent[i] # NoMessage => NamesVerifier(i, sent[i])'
    <3> SUFFICES ASSUME NEW i \in TxnId, sent[i] # NoMessage PROVE NamesVerifier(i, sent[i])'
      OBVIOUS
    <3>1. i # t /\ NamesVerifier(i, sent[i])
      BY <1>7 DEF VerifierInv, NamesAgree
    <3> QED
      BY <1>2, <1>5, <1>6, <3>1 DEF NamesVerifier
  <2>2. \A v \in Worker : Outgoing(v)' => NamesVerifier(task[v], outbox[v])'
    <3> SUFFICES ASSUME NEW v \in Worker, Outgoing(v)' PROVE NamesVerifier(task[v], outbox[v])'
      OBVIOUS
    <3>1. CASE v = w
      BY <1>2, <1>11, <3>1 DEF NamesVerifier
    <3>2. CASE v # w
      <4>1. Outgoing(v) /\ outbox'[v] = outbox[v] /\ task[v] # t /\ task[v] \in TxnId
        BY <1>4, <1>5, <1>7, <3>2 DEF Outgoing
      <4>2. NamesVerifier(task[v], outbox[v])
        BY <4>1 DEF VerifierInv, NamesAgree
      <4> QED
        BY <1>2, <1>5, <1>6, <4>1, <4>2 DEF NamesVerifier
    <3> QED
      BY <3>1, <3>2
  <2>3. \A v \in Worker : pc'[v] = "send" /\ Mode = "PrimaryPostSeparation" =>
          outbox'[v].stateless = stateless_at[task[v]]
    <3> SUFFICES ASSUME NEW v \in Worker, pc'[v] = "send", Mode = "PrimaryPostSeparation"
                 PROVE  outbox'[v].stateless = stateless_at[task[v]]
      OBVIOUS
    <3>1. v # w
      BY <1>3
    <3> QED
      BY <1>3, <1>4, <3>1 DEF VerifierInv, NamesAgree
  <2> QED
    BY <1>2, <1>5, <2>1, <2>2, <2>3 DEF NamesAgree
<1> QED
  BY <1>8, <1>9, <1>12 DEF VerifierInv

\* The worker sends the request the message will name.
LEMMA VerifierSendStateless ==
    ASSUME BaseInv, VerifierInv, NEW w \in Worker, SendStateless(w)
    PROVE  VerifierInv'
<1>1. PICK t \in TxnId :
        /\ t = task[w] /\ pc[w] = "verify" /\ pc' = [pc EXCEPT ![w] = "send"]
        /\ stateless_at' = [stateless_at EXCEPT ![t] = outbox[w].stateless]
        /\ UNCHANGED <<deployment, task, outbox, sent, stateless_pc, stateless_forwarding_table>>
  <2>1. pc[w] = "verify"
    BY DEF SendStateless
  <2> QED
    BY <2>1, HeldFacts DEF SendStateless
<1>2. /\ pc'[w] = "send" /\ \A v \in Worker : v # w => pc'[v] = pc[v]
      /\ stateless_at'[t] = outbox[w].stateless
      /\ \A i \in TxnId : i # t => stateless_at'[i] = stateless_at[i]
  BY <1>1 DEF BaseInv, SFTypeOK
<1>3. /\ Mode' = Mode /\ (IsPrimarySeparation' <=> IsPrimarySeparation)
      /\ Mode = "PrimaryPostSeparation" /\ Mode # "PrimaryPreSeparation" /\ IsPrimarySeparation
      /\ \A v \in Worker : Outgoing(v)' <=> Outgoing(v)
  BY <1>1, <1>2 DEF Mode, IsPrimarySeparation, Outgoing, VerifierInv, RequestsAgree
<1>4. \A v \in Worker : v # w /\ pc[v] # "recv" => task[v] # t /\ task[v] \in TxnId
  BY <1>1, HeldFacts DEF BaseInv, Placed
<1>5. TablesAgree'
  BY <1>1, <1>2, <1>3 DEF VerifierInv, TablesAgree
<1>6. RequestsAgree'
  BY <1>1, <1>2, <1>3 DEF VerifierInv, RequestsAgree
<1>7. NamesAgree'
  <2>1. \A i \in TxnId : sent[i] # NoMessage => NamesVerifier(i, sent[i])'
    BY <1>1, <1>3 DEF VerifierInv, NamesAgree, NamesVerifier
  <2>2. \A v \in Worker : Outgoing(v) => NamesVerifier(task[v], outbox[v])'
    BY <1>1, <1>3 DEF VerifierInv, NamesAgree, NamesVerifier
  <2>3. \A v \in Worker : pc'[v] = "send" => outbox[v].stateless = stateless_at'[task[v]]
    BY <1>1, <1>2, <1>3, <1>4 DEF VerifierInv, NamesAgree
  <2> QED
    BY <1>1, <1>3, <2>1, <2>2, <2>3 DEF NamesAgree
<1> QED
  BY <1>5, <1>6, <1>7 DEF VerifierInv

\* The message leaves as it is.
LEMMA VerifierSendToProxy ==
    ASSUME BaseInv, VerifierInv, NEW w \in Worker, SendToProxy(w)
    PROVE  VerifierInv'
<1>1. PICK t \in TxnId :
        /\ t = task[w] /\ pc[w] = "send" /\ pc' = [pc EXCEPT ![w] = "notify"]
        /\ sent' = [sent EXCEPT ![t] = outbox[w]]
        /\ outbox' = [outbox EXCEPT ![w] = NoMessage]
        /\ UNCHANGED <<deployment, task, stateless_pc, stateless_forwarding_table, stateless_at>>
  <2>1. pc[w] = "send"
    BY DEF SendToProxy
  <2> QED
    BY <2>1, HeldFacts DEF SendToProxy, statelessVars
<1>2. /\ pc'[w] = "notify" /\ \A v \in Worker : v # w => pc'[v] = pc[v] /\ outbox'[v] = outbox[v]
      /\ sent'[t] = outbox[w] /\ \A i \in TxnId : i # t => sent'[i] = sent[i]
  BY <1>1 DEF BaseInv, SFTypeOK
<1>3. /\ Mode' = Mode /\ (IsPrimarySeparation' <=> IsPrimarySeparation)
      /\ outbox[w] # NoMessage /\ Outgoing(w)
      /\ \A v \in Worker : Outgoing(v)' => Outgoing(v) /\ v # w
  BY <1>1, <1>2, ConstantFacts DEF Mode, IsPrimarySeparation, Outgoing, BaseInv, Stages
<1>4. TablesAgree'
  BY <1>1, <1>3 DEF VerifierInv, TablesAgree
<1>5. RequestsAgree'
  BY <1>1, <1>2, <1>3 DEF VerifierInv, RequestsAgree
<1>6. NamesAgree'
  <2>1. \A i \in TxnId : sent'[i] # NoMessage => NamesVerifier(i, sent[i])'
    BY <1>1, <1>2, <1>3 DEF VerifierInv, NamesAgree, NamesVerifier
  <2>2. \A v \in Worker : Outgoing(v)' => NamesVerifier(task[v], outbox[v])'
    BY <1>1, <1>2, <1>3 DEF VerifierInv, NamesAgree, NamesVerifier
  <2>3. \A v \in Worker : pc'[v] = "send" /\ Mode = "PrimaryPostSeparation" =>
          outbox'[v].stateless = stateless_at[task[v]]
    BY <1>2 DEF VerifierInv, NamesAgree
  <2> QED
    BY <1>1, <1>3, <2>1, <2>2, <2>3 DEF NamesAgree
<1> QED
  BY <1>4, <1>5, <1>6 DEF VerifierInv

\* Taking a task and finishing one leave the tables alone.
LEMMA VerifierRecvNotify ==
    ASSUME BaseInv, VerifierInv, NEW w \in Worker, RecvTask(w) \/ NotifyNext(w)
    PROVE  VerifierInv'
<1>1. /\ pc[w] \in {"recv", "notify"} /\ \E x \in {"await", "recv"} : pc' = [pc EXCEPT ![w] = x]
      /\ \A v \in Worker : v # w => task'[v] = task[v]
      /\ UNCHANGED <<deployment, outbox, sent, stateless_pc, stateless_forwarding_table, stateless_at>>
  BY DEF RecvTask, NotifyNext, statelessVars, BaseInv, SFTypeOK
<1>2. /\ pc'[w] \in {"await", "recv"} /\ \A v \in Worker : v # w => pc'[v] = pc[v]
  BY <1>1 DEF BaseInv, SFTypeOK
<1>3. /\ Mode' = Mode /\ (IsPrimarySeparation' <=> IsPrimarySeparation)
      /\ \A v \in Worker : (Outgoing(v)' <=> Outgoing(v)) /\ (Outgoing(v) => v # w)
  BY <1>1, <1>2 DEF Mode, IsPrimarySeparation, Outgoing
<1>4. TablesAgree'
  BY <1>1, <1>3 DEF VerifierInv, TablesAgree
<1>5. RequestsAgree'
  BY <1>1, <1>2, <1>3 DEF VerifierInv, RequestsAgree
<1>6. NamesAgree'
  <2>1. \A i \in TxnId : sent[i] # NoMessage => NamesVerifier(i, sent[i])'
    BY <1>1, <1>3 DEF VerifierInv, NamesAgree, NamesVerifier
  <2>2. \A v \in Worker : Outgoing(v)' => NamesVerifier(task[v], outbox[v])'
    BY <1>1, <1>3 DEF VerifierInv, NamesAgree, NamesVerifier
  <2>3. \A v \in Worker : pc'[v] = "send" /\ Mode = "PrimaryPostSeparation" =>
          outbox[v].stateless = stateless_at[task'[v]]
    BY <1>1, <1>2 DEF VerifierInv, NamesAgree
  <2> QED
    BY <1>1, <1>3, <2>1, <2>2, <2>3 DEF NamesAgree
<1> QED
  BY <1>4, <1>5, <1>6 DEF VerifierInv

\* Every step of the forwarder keeps table, requests and messages in agreement.
LEMMA VerifierStep == BaseInv /\ VerifierInv /\ [SFNext]_sfVars => VerifierInv'
<1> SUFFICES ASSUME BaseInv, VerifierInv, [SFNext]_sfVars PROVE VerifierInv'
  OBVIOUS
<1>1. ASSUME NEW S \in SUBSET Object, Assign(S) PROVE VerifierInv'
  BY <1>1, VerifierQuiet DEF Assign, workerVars
<1>2. CASE SendTask
  BY <1>2, VerifierQuiet DEF SendTask
<1>3. ASSUME NEW G \in Subgraphs, NEW p \in Proxy, PlanSubgraph(G, p) PROVE VerifierInv'
  BY <1>3, VerifierQuiet DEF PlanSubgraph, workerVars
<1>4. ASSUME NEW w \in Worker, WorkerStep(w) PROVE VerifierInv'
  <2>1. CASE AwaitPrior(w)
    BY <2>1, VerifierQuiet DEF AwaitPrior
  <2> QED
    BY <1>4, <2>1, VerifierRecvNotify, VerifierRoute, VerifierSendStateless, VerifierSendToProxy
       DEF WorkerStep
<1>5. CASE UNCHANGED sfVars
  BY <1>5, VerifierQuiet DEF sfVars, workerVars
<1> QED
  BY <1>1, <1>2, <1>3, <1>4, <1>5, VerifierForwardStateless, VerifierRecordStateless
     DEF SFNext, Finished

\* Table, requests and messages agree in every reachable state.
THEOREM VerifierInvariant == SFSpec => [](BaseInv /\ ChainInv /\ VerifierInv)
BY BaseInit, BaseStep, ChainInit, ChainStep, VerifierInit, VerifierStep, PTL DEF SFSpec

-----------------------------------------------------------------------------
(* The forwarder implements VerifierRouting.                               *)

\* The requests sent and the messages, as VerifierRouting sees them.
Requests == {[txn |-> t, proxy |-> stateless_at[t], by |-> "shared"] :
                t \in {t \in TxnId : stateless_at[t] # NoProxy}}
Messages == [t \in TxnId |-> [kind |-> sent[t].kind, proxy |-> sent[t].proxy,
                              stateless |-> sent[t].stateless]]

\* Where the request of a transaction went.
LEMMA RequestedWhere ==
    ASSUME NEW t \in TxnId
    PROVE  Verifiers!RequestedAt(t, "shared") =
              IF stateless_at[t] = NoProxy THEN {} ELSE {stateless_at[t]}
<1> DEFINE R == {m \in Requests : m.txn = t /\ m.by = "shared"}
<1>1. Verifiers!RequestedAt(t, "shared") = {m.proxy : m \in R}
  BY DEF Verifiers!RequestedAt, Requests
<1>2. \A m \in Requests : \E i \in TxnId :
        stateless_at[i] # NoProxy /\ m = [txn |-> i, proxy |-> stateless_at[i], by |-> "shared"]
  BY DEF Requests
<1>3. \A m \in R : stateless_at[t] # NoProxy /\ m.proxy = stateless_at[t]
  BY <1>2
<1>4. stateless_at[t] # NoProxy =>
        [txn |-> t, proxy |-> stateless_at[t], by |-> "shared"] \in R
  BY DEF Requests
<1>5. stateless_at[t] # NoProxy => \E m \in R : m.proxy = stateless_at[t]
  BY <1>4
<1> HIDE DEF R
<1> QED
  BY <1>1, <1>3, <1>5

\* One request more.
LEMMA RequestAdded ==
    ASSUME NEW t \in TxnId, NEW p \in Proxy, BaseInv, stateless_at[t] = NoProxy,
           stateless_at' = [stateless_at EXCEPT ![t] = p]
    PROVE  Requests' = Requests \cup {[txn |-> t, proxy |-> p, by |-> "shared"]}
<1>1. /\ stateless_at'[t] = p /\ p # NoProxy
      /\ \A i \in TxnId : i # t => stateless_at'[i] = stateless_at[i]
  BY ConstantFacts DEF BaseInv, SFTypeOK
<1> QED
  BY <1>1 DEF Requests

\* Nothing has been requested or sent before the first transaction.
LEMMA VerifiersInit == SFInit => Verifiers!VRInit
<1> SUFFICES ASSUME SFInit PROVE Verifiers!VRInit
  OBVIOUS
<1>1. Requests = {}
  <2>1. {t \in TxnId : stateless_at[t] # NoProxy} = {}
    BY DEF SFInit
  <2> QED
    BY <2>1 DEF Requests
<1>2. Messages = [t \in TxnId |-> Verifiers!NotSent]
  BY DEF SFInit, Messages, NoMessage, NoProxy, Verifiers!NotSent, Verifiers!NoProxy
<1>3. [mode |-> deployment.mode, owned |-> {}, stateless_mode |-> "Synthetic"] \in
        {[mode |-> d.mode, owned |-> {}, stateless_mode |-> "Synthetic"] : d \in Deployments}
  BY DEF SFInit
<1>4. \E d \in {[mode |-> d.mode, owned |-> {}, stateless_mode |-> "Synthetic"] : d \in Deployments} :
        Mode = d.mode /\ {} = d.owned /\ "Synthetic" = d.stateless_mode
  BY <1>3 DEF Mode
<1> QED
  BY <1>1, <1>2, <1>4 DEF Verifiers!VRInit, Requests, Messages

\* A request of the stateless forwarder, or of a worker, is VerifierRouting's.
LEMMA RequestRouted ==
    ASSUME BaseInv, VerifierInv, NEW t \in TxnId, NEW p \in Proxy,
           IsPrimarySeparation, stateless_at[t] = NoProxy,
           stateless_at' = [stateless_at EXCEPT ![t] = p],
           UNCHANGED <<deployment, sent>>
    PROVE  Verifiers!SendStatelessTxn(t, p, "shared")
<1>1. Requests' = Requests \cup {[txn |-> t, proxy |-> p, by |-> "shared"]}
  BY RequestAdded
<1>2. Verifiers!RequestedAt(t, "shared") = {}
  BY RequestedWhere
<1>3. Mode' = Mode /\ Messages' = Messages
  BY DEF Mode, Messages
<1>4. Mode \in {"PrimaryPreSeparation", "PrimaryPostSeparation"}
  BY DEF IsPrimarySeparation
<1> QED
  BY <1>1, <1>2, <1>3, <1>4
     DEF Verifiers!SendStatelessTxn, Requests, Messages, Verifiers!deploymentVars

\* Sending a transaction is VerifierRouting's SendTxn.
LEMMA MessageRouted ==
    ASSUME BaseInv, VerifierInv, NEW w \in Worker, SendToProxy(w)
    PROVE  \E t \in TxnId, p \in Proxy : Verifiers!SendTxn(t, p)
<1>1. PICK t \in TxnId :
        /\ t = task[w] /\ pc[w] = "send" /\ sent[t] = NoMessage
        /\ sent' = [sent EXCEPT ![t] = outbox[w]]
        /\ UNCHANGED <<deployment, stateless_at>>
  <2>1. pc[w] = "send"
    BY DEF SendToProxy
  <2> QED
    BY <2>1, HeldFacts DEF SendToProxy, statelessVars, BaseInv, Stages
<1>2. outbox[w] \in Message /\ NamesVerifier(t, outbox[w])
  BY <1>1 DEF Outgoing, BaseInv, Stages, VerifierInv, NamesAgree
<1>3. PICK p \in Proxy, s \in Proxy : p = outbox[w].proxy /\ s = outbox[w].stateless
  BY <1>2 DEF Message
<1>4. Messages[t] = Verifiers!NotSent
  BY <1>1 DEF Messages, NoMessage, NoProxy, Verifiers!NotSent, Verifiers!NoProxy
<1>5. Messages' = [Messages EXCEPT ![t] =
        [kind |-> outbox[w].kind, proxy |-> p, stateless |-> s]]
  BY <1>1, <1>3 DEF Messages, BaseInv, SFTypeOK
<1>6. Mode' = Mode /\ Requests' = Requests
  BY <1>1 DEF Mode, Requests
<1>7. outbox[w].kind = IF IsPrimarySeparation THEN "Txn" ELSE "CombinedTxn"
  BY <1>2 DEF NamesVerifier
<1>8. s \in Verifiers!Verifiers(t, p)
  <2>1. CASE Mode = "PrimaryPostSeparation"
    <3>1. s = stateless_at[t] /\ s # NoProxy
      BY <1>1, <1>3, <2>1, ConstantFacts DEF VerifierInv, NamesAgree
    <3> QED
      BY <2>1, <3>1, RequestedWhere DEF Verifiers!Verifiers
  <2>2. CASE Mode = "PrimaryPreSeparation"
    <3>1. s = 0 \/ (s = stateless_at[t] /\ s # NoProxy)
      BY <1>2, <1>3, <2>2, ConstantFacts DEF NamesVerifier
    <3> QED
      BY <2>2, <3>1, RequestedWhere DEF Verifiers!Verifiers
  <2>3. CASE ~ IsPrimarySeparation
    <3>1. s = p
      BY <1>2, <1>3, <2>3 DEF NamesVerifier
    <3> QED
      BY <2>3, <3>1 DEF Verifiers!Verifiers, IsPrimarySeparation
  <2> QED
    BY <2>1, <2>2, <2>3 DEF IsPrimarySeparation
<1>9. Verifiers!SendTxn(t, p)
  <2>1. Messages' = [Messages EXCEPT ![t] =
          [kind |-> IF t \in {} \/ Verifiers!IsPrimarySeparation THEN "Txn" ELSE "CombinedTxn",
           proxy |-> p, stateless |-> s]]
    BY <1>5, <1>7 DEF IsPrimarySeparation, Verifiers!IsPrimarySeparation
  <2> QED
    BY <1>4, <1>6, <1>8, <2>1
       DEF Verifiers!SendTxn, Messages, Requests, Verifiers!deploymentVars
<1> QED
  BY <1>9

\* Every other step is invisible to VerifierRouting.
LEMMA VerifiersStep ==
    BaseInv /\ VerifierInv /\ [SFNext]_sfVars => [Verifiers!VRNext]_(Verifiers!vrVars)
<1> SUFFICES ASSUME BaseInv, VerifierInv, [SFNext]_sfVars
             PROVE  Verifiers!VRNext \/ UNCHANGED Verifiers!vrVars
  OBVIOUS
<1>0. "shared" \in Verifiers!Forwarders /\ Verifiers!Proxy = Proxy
  BY DEF Verifiers!Forwarders, Verifiers!Proxy, Proxy
<1>1. ASSUME UNCHANGED <<deployment, stateless_at, sent>> PROVE UNCHANGED Verifiers!vrVars
  BY <1>1 DEF Verifiers!vrVars, Verifiers!deploymentVars, Mode
<1>2. ASSUME NEW t \in TxnId, NEW p \in Proxy, ForwardStateless(t, p) PROVE Verifiers!VRNext
  <2>1. /\ IsPrimarySeparation /\ stateless_at[t] = NoProxy
        /\ stateless_at' = [stateless_at EXCEPT ![t] = p] /\ UNCHANGED <<deployment, sent>>
    BY <1>2 DEF ForwardStateless, IsPrimarySeparation, VerifierInv, TablesAgree
  <2>2. Verifiers!SendStatelessTxn(t, p, "shared")
    BY <2>1, RequestRouted
  <2> QED
    BY <1>0, <2>2 DEF Verifiers!VRNext
<1>3. ASSUME NEW w \in Worker, SendStateless(w) PROVE Verifiers!VRNext
  <2>1. PICK t \in TxnId : t = task[w] /\ pc[w] = "verify"
    BY <1>3, HeldFacts DEF SendStateless
  <2>2. PICK p \in Proxy : p = outbox[w].stateless
    BY <2>1 DEF BaseInv, Stages, Outgoing, Message
  <2>3. /\ stateless_at' = [stateless_at EXCEPT ![t] = p] /\ UNCHANGED <<deployment, sent>>
    BY <1>3, <2>1, <2>2 DEF SendStateless
  <2>4. Mode = "PrimaryPostSeparation" /\ IsPrimarySeparation
    BY <2>1 DEF VerifierInv, RequestsAgree, IsPrimarySeparation
  <2>5. sent[t] = NoMessage /\ \A v \in Worker : task[v] = t => v = w
    BY <2>1, ConstantFacts DEF BaseInv, Stages, Placed
  <2>6. stateless_at[t] = NoProxy
    BY <2>1, <2>4, <2>5 DEF VerifierInv, RequestsAgree
  <2>7. Verifiers!SendStatelessTxn(t, p, "shared")
    BY <2>3, <2>4, <2>6, RequestRouted
  <2> QED
    BY <1>0, <2>7 DEF Verifiers!VRNext
<1>4. ASSUME NEW w \in Worker, SendToProxy(w) PROVE Verifiers!VRNext
  BY <1>0, <1>4, MessageRouted DEF Verifiers!VRNext
<1>5. ASSUME NEW w \in Worker, WorkerStep(w), ~ SendToProxy(w), ~ SendStateless(w)
      PROVE  UNCHANGED <<deployment, stateless_at, sent>>
  BY <1>5 DEF WorkerStep, RecvTask, AwaitPrior, RouteTask, NotifyNext, statelessVars
<1>6. ASSUME NEW S \in SUBSET Object, Assign(S) PROVE UNCHANGED <<deployment, stateless_at, sent>>
  BY <1>6 DEF Assign, statelessVars
<1>7. CASE SendTask
  BY <1>1, <1>7 DEF SendTask, statelessVars
<1>8. ASSUME NEW G \in Subgraphs, NEW p \in Proxy, PlanSubgraph(G, p)
      PROVE  UNCHANGED <<deployment, stateless_at, sent>>
  BY <1>8 DEF PlanSubgraph, statelessVars
<1>9. ASSUME NEW t \in TxnId, RecordStateless(t) PROVE UNCHANGED <<deployment, stateless_at, sent>>
  BY <1>9 DEF RecordStateless
<1>10. CASE UNCHANGED sfVars
  BY <1>1, <1>10 DEF sfVars, statelessVars
<1> QED
  BY <1>1, <1>2, <1>3, <1>4, <1>5, <1>6, <1>7, <1>8, <1>9, <1>10 DEF SFNext, Finished

(***************************************************************************)
(* The forwarder implements VerifierRouting: although the request and the  *)
(* transaction are sent by different workers, a transaction names the      *)
(* proxy its request went to, or the default before that is on record.     *)
(***************************************************************************)
THEOREM ForwarderVerifies == SFSpec => VerifiersRefined
BY VerifierInvariant, VerifiersInit, VerifiersStep, PTL
   DEF SFSpec, VerifiersRefined, Verifiers!VRSpec

-----------------------------------------------------------------------------
(* What is left when all is done.                                          *)

\* Somebody touched the object, so somebody was the last to.
LEMMA LastToucher ==
    ASSUME NEW n \in Nat, NEW o, ~ NoneBetween(0, n + 1, o)
    PROVE  \E i \in 1..n : o \in Objects(i) /\ NoneBetween(i, n + 1, o)
<1> DEFINE T == {i \in 1..n : o \in Objects(i)}
<1>1. T # {} /\ T \subseteq 0..n
  BY DEF NoneBetween
<1>2. PICK m \in T : \A x \in T : m >= x
  <2> HIDE DEF T
  <2> QED
    BY <1>1, BoundedSetHasMax
<1>3. NoneBetween(m, n + 1, o)
  BY <1>2 DEF NoneBetween
<1> QED
  BY <1>2, <1>3

\* Somebody touches the object after t, so somebody is the next to.
LEMMA NextToucher ==
    ASSUME BaseInv, NEW t \in Txns, NEW o \in Objects(t), NEW j \in Txns, t < j, o \in Objects(j)
    PROVE  \E k \in Txns : o \in Objects(k) /\ Predecessor(t, k, o)
<1> DEFINE T == {k \in Txns : t < k /\ o \in Objects(k)}
<1>1. T # {} /\ T \subseteq Nat
  BY ChainFacts
<1>2. PICK k \in T : \A x \in T : k <= x
  <2> HIDE DEF T
  <2> QED
    BY <1>1, NatSetHasMin
<1>3. k \in Txns /\ t \in Nat /\ k \in Nat /\ t < k /\ o \in Objects(k) /\ t \in 1..(k - 1)
      /\ 1..(k - 1) \subseteq Txns
  BY <1>2, ChainFacts
<1>4. \A i \in (t + 1)..(k - 1) : i \in 1..(k - 1) /\ t < i /\ ~ (k <= i)
  BY <1>3
<1>5. NoneBetween(t, k, o)
  BY <1>2, <1>3, <1>4 DEF NoneBetween
<1> QED
  BY <1>3, <1>5 DEF Predecessor

(***************************************************************************)
(* Nothing piles up: when all transactions are through, the controller     *)
(* holds one entry per touched object, for the version the next user would *)
(* wait on, with its permit; an entry left in the stateless forwarding     *)
(* table is of a transaction that named the default verifier.              *)
(***************************************************************************)
THEOREM TailsRemain == SFSpec => []OnlyTailsRemain
<1>1. BaseInv /\ ChainInv /\ VerifierInv => OnlyTailsRemain
  <2> SUFFICES ASSUME BaseInv, ChainInv, VerifierInv, AllForwarded PROVE OnlyTailsRemain
    BY DEF OnlyTailsRemain
  <2>1. /\ \A t \in Txns : sent[t] # NoMessage /\ Routed(t) /\ Done(t)
        /\ \A w \in Worker : pc[w] # "await"
    BY ChainFacts DEF AllForwarded, Routed, Done
  <2>2. VersionChain /\ MapHoldsTail /\ Txns = 1..Len(assigned) /\ Len(assigned) \in Nat
    BY OrderFacts DEF BaseInv, VAInv
  <2>3. ASSUME NEW o \in Object, NEW v \in Version, obj_task_map[<<o, v>>] # NoTask
        PROVE  v = shared_object_versions[o]
    <3>1. PICK t \in Txns : o \in Objects(t) /\ v = Produced(t)
      BY <2>1, <2>3 DEF ChainInv, EntriesUsed
    <3>2. \A j \in Txns : ~ (o \in Objects(j) /\ assigned[j][o] = v)
      BY <2>1, <2>3 DEF ChainInv, EntriesUsed
    <3>3. \A j \in Txns : ~ (t < j /\ o \in Objects(j))
      <4> SUFFICES ASSUME NEW j \in Txns, t < j, o \in Objects(j) PROVE FALSE
        OBVIOUS
      <4>1. PICK k \in Txns : o \in Objects(k) /\ Predecessor(t, k, o)
        BY <3>1, NextToucher
      <4>2. t \in 1..(k - 1)
        BY <4>1 DEF Predecessor
      <4>3. assigned[k][o] = Produced(t)
        BY <2>2, <4>1, <4>2 DEF VersionChain, Produced
      <4> QED
        BY <3>1, <3>2, <4>1, <4>3
    <3>4. NoneBetween(t, Len(assigned) + 1, o)
      BY <2>2, <3>3 DEF NoneBetween
    <3> QED
      BY <2>2, <3>1, <3>4 DEF MapHoldsTail, Produced
  <2>4. ASSUME NEW o \in Object, NEW v \in Version, v = shared_object_versions[o]
        PROVE  Handle(o, v) \in permits
    <3>1. shared_object_versions[o] # Absent
      BY <2>4, MaxTxnsAssumption DEF Version, InitialVersion, Absent
    <3>2. PICK i \in Txns : o \in Objects(i) /\ NoneBetween(i, Len(assigned) + 1, o)
      BY <2>2, <3>1, LastToucher DEF MapHoldsTail
    <3>3. v = Produced(i)
      BY <2>2, <2>4, <3>2 DEF MapHoldsTail, Produced
    <3>4. ~ \E j \in Txns : o \in Objects(j) /\ assigned[j][o] = Produced(i)
      <4> SUFFICES ASSUME NEW j \in Txns, o \in Objects(j), assigned[j][o] = Produced(i) PROVE FALSE
        OBVIOUS
      <4>1. VAInv /\ o \in Objects(i) \cap Objects(j)
        BY <3>2 DEF BaseInv
      <4>2. i < j
        BY <4>1, OrderKeys
      <4>3. j \in (i + 1)..((Len(assigned) + 1) - 1)
        BY <2>2, <4>2
      <4> QED
        BY <3>2, <4>3 DEF NoneBetween
    <3> QED
      BY <2>1, <3>2, <3>3, <3>4 DEF ChainInv, PermitsKept
  <2>5. ASSUME NEW t \in Txns, stateless_forwarding_table[t] # NoProxy
        PROVE  sent[t].stateless = 0
    <3>1. t \in TxnId /\ sent[t] # NoMessage
      BY <2>1, ChainFacts
    <3>2. Mode = "PrimaryPreSeparation" /\ NamesVerifier(t, sent[t])
      BY <2>5, <3>1 DEF VerifierInv, TablesAgree, NamesAgree
    <3> QED
      BY <2>5, <3>2 DEF NamesVerifier
  <2>6. DOMAIN obj_task_map = Object \X Version
    BY DEF BaseInv, SFTypeOK
  <2> QED
    BY <2>3, <2>4, <2>5, <2>6 DEF OnlyTailsRemain, Handle
<1> QED
  BY <1>1, VerifierInvariant, PTL

=============================================================================
