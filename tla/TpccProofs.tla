----------------------------- MODULE TpccProofs -----------------------------
(***************************************************************************)
(* Proofs about the TPC-C executor and its workload, for any number of     *)
(* warehouses, districts, customers, items and transactions, any mix of    *)
(* them and whatever verifications fail.                                   *)
(***************************************************************************)
EXTENDS Tpcc, VersionAssignmentProofs, TLAPS

Produced(t) == NextVersion(assigned[t])

\* How far a task is: past its waits, past its computation, at its end.
Passed(t) == stage[t] \in {"execute", "commit", "done", "skipped"}
Ran(t) == stage[t] \in {"commit", "done"}
Through(t) == stage[t] \in {"done", "skipped"}

\* All that came before t on its objects are through.
Settled(t) == \A i \in 1..(t - 1) : Conflicts(i, t) => Through(i)

Stage == {"absent", "await", "execute", "commit", "done", "skipped"}

\* What the generator produces: an order has one of the drawn numbers of lines.
Generable == {x \in TpccTransaction : x.kind = "NewOrder" => Len(x.items) \in OrderCounts}

-----------------------------------------------------------------------------
(* The inductive invariant.                                                *)

\* The workload, and how it becomes the committed order.
Workload ==
    /\ hotspot_percentage \in Hotspots
    /\ chunk \in [GenTask -> Seq(Generable)]
    /\ \A g \in GenTask : Len(chunk[g]) <= ChunkCount(g)
    /\ submitted \in [GenTask -> Nat]
    /\ \A g \in GenTask : submitted[g] <= Len(chunk[g])
    /\ txns \in Seq(Generable) /\ Len(txns) = Len(assigned)
    /\ \A t \in Txns : Objects(t) = access_set(txns[t])

Shapes ==
    /\ stage \in [TxnId -> Stage]
    /\ \A t \in TxnId : stage[t] = "absent" <=> t \notin Txns
    /\ store = [o \in Object |-> store[o]]
    /\ cache = [t \in TxnId |-> cache[t]]
    /\ new_state = [t \in TxnId |-> new_state[t]]
    /\ inserted = [t \in TxnId |-> inserted[t]]

\* Nobody gets past its waits before those it conflicts with.
InOrder == \A t \in Txns : Passed(t) => Settled(t)

\* The rows of an object; a stock stays within MIN_QUANTITY..MAX_QUANTITY.
DataOK(o, data) ==
    /\ o \in WarehouseIds => data \in Warehouse
    /\ o \in DistrictIds => data \in District
    /\ o \in CustomerIds => data \in Customer
    /\ o \in StockIds => data \in Stock /\ data.s_quantity \in 10..100

WellFormed(o, x) ==
    /\ x = encode_tpcc_object(o, x.version, x.contents.data)
    /\ x.version \in Version /\ DataOK(o, x.contents.data)

\* What a transaction writes, and how much of it is in the store.
Writes(t) ==
    /\ Ran(t) => /\ new_state[t] = [o \in Objects(t) |-> new_state[t][o]]
                 /\ \A o \in Objects(t) :
                       WellFormed(o, new_state[t][o]) /\ new_state[t][o].version = Produced(t)
    /\ ~ Ran(t) => new_state[t] = << >> /\ inserted[t] = {}
    /\ Ran(t) => inserted[t] \subseteq Objects(t)
    /\ stage[t] = "done" => inserted[t] = Objects(t)

AllWrites == \A t \in TxnId : Writes(t)

\* i was the last to insert o.
Inserted(i, o) == o \in inserted[i] /\ \A k \in Txns : k > i => o \notin inserted[k]

Stored(o) ==
    /\ WellFormed(o, store[o])
    /\ (\A i \in Txns : o \notin inserted[i]) => store[o].version = InitialVersion
    /\ \A i \in Txns : Inserted(i, o) => store[o] = new_state[i][o]

AllStored == \A o \in Object : Stored(o)

ExecInv ==
    VAInv /\ Workload /\ Shapes /\ InOrder /\ SkipsCascade /\ AllWrites /\ AllStored

-----------------------------------------------------------------------------
(* Facts about the committed order and about the keys.                     *)

\* What the constants are, for the provers.
LEMMA TpccConstants ==
    /\ MaxTxns \in Nat /\ TxnId = 1..MaxTxns /\ Object = TpccObjects
    /\ Version = 2..(2 + MaxTxns) /\ InitialVersion = 2
    /\ NumTasks \in Nat \ {0} /\ TotalTxns \in Nat /\ NumWarehouses \in Nat \ {0}
BY MaxTxnsAssumption, TpccAssumption, TGAssumption DEF TxnId, Version, InitialVersion

\* The order that consensus fixed, in the terms used here.
LEMMA Order ==
    ASSUME VAInv
    PROVE  /\ Txns \subseteq TxnId /\ Txns = 1..Len(assigned) /\ Len(assigned) \in Nat
           /\ \A t \in Txns :
                 /\ t \in Nat
                 /\ Objects(t) \subseteq Object /\ Objects(t) # {}
                 /\ Produced(t) \in Version /\ Produced(t) > 2
                 /\ \A o \in Objects(t) : assigned[t][o] \in Version /\ assigned[t][o] < Produced(t)
           /\ \A i, j \in Txns : \A o \in Objects(i) \cap Objects(j) :
                 i < j => Produced(i) <= assigned[j][o]
BY OrderFacts, TpccConstants DEF Produced

\* What a transaction reads is what its predecessor produces, or the initial version.
LEMMA ReadsProduced ==
    ASSUME VAInv, NEW t \in Txns, NEW o \in Objects(t)
    PROVE  /\ NoneBetween(0, t, o) => assigned[t][o] = 2
           /\ ~ NoneBetween(0, t, o) => \E i \in 1..(t - 1) : Predecessor(i, t, o)
           /\ \A i \in 1..(t - 1) : Predecessor(i, t, o) =>
                 i \in Txns /\ o \in Objects(i) /\ assigned[t][o] = Produced(i)
<1>1. t \in Nat \ {0}
  BY Order
<1>2. ~ NoneBetween(0, t, o) => \E i \in 1..(t - 1) : Predecessor(i, t, o)
  BY <1>1, PredecessorExists
<1>3. NoneBetween(0, t, o) => assigned[t][o] = 2
  BY TpccConstants DEF VAInv, VersionChain
<1>4. ASSUME NEW i \in 1..(t - 1), Predecessor(i, t, o)
      PROVE  i \in Txns /\ o \in Objects(i) /\ assigned[t][o] = Produced(i)
  <2>1. i \in Txns /\ o \in Objects(i)
    BY <1>1, <1>4, Order DEF Predecessor
  <2>2. assigned[t][o] = Produced(i)
    BY <1>4 DEF VAInv, VersionChain, Produced
  <2> QED
    BY <2>1, <2>2
<1> QED
  BY <1>2, <1>3, <1>4

\* Those past their waits exclude one another on what they share.
LEMMA Exclusive ==
    ASSUME VAInv, InOrder, NEW t \in Txns, NEW u \in Txns, Conflicts(t, u), t < u, Passed(u)
    PROVE  Through(t)
<1>1. t \in 1..(u - 1)
  BY Order
<1> QED
  BY <1>1 DEF InOrder, Settled

\* Of two transactions on an object that are not through, the later waits.
LEMMA NoneLater ==
    ASSUME VAInv, InOrder, AllWrites, NEW t \in Txns, ~ Through(t), NEW o \in Objects(t),
           NEW k \in Txns, k > t
    PROVE  (o \in Objects(k) => ~ Passed(k)) /\ o \notin inserted[k]
<1>1. o \in Objects(k) => ~ Passed(k)
  <2>1. o \in Objects(k) => Conflicts(t, k)
    BY DEF Conflicts
  <2>2. t < k
    BY Order
  <2> QED
    BY <2>1, <2>2, Exclusive
<1>2. k \in TxnId
  BY Order
<1>3. Writes(k)
  BY <1>2 DEF AllWrites
<1> QED
  BY <1>1, <1>3 DEF Writes, Ran, Passed

\* Once its predecessors have notified, everyone before it is through.
LEMMA SettledBy ==
    ASSUME VAInv, InOrder, NEW t \in Txns, PriorNotified(t)
    PROVE  Settled(t)
<1>1. SUFFICES ASSUME NEW i \in 1..(t - 1), Conflicts(i, t) PROVE Through(i)
  BY DEF Settled
<1>2. PICK o \in Objects(i) \cap Objects(t) : TRUE
  BY <1>1 DEF Conflicts
<1>3. t \in Nat /\ i \in Txns /\ i \in Nat /\ i \in (0 + 1)..(t - 1)
  BY <1>1, Order
<1>4. ~ NoneBetween(0, t, o)
  BY <1>2, <1>3 DEF NoneBetween
<1>5. PICK p \in 1..(t - 1) : Predecessor(p, t, o)
  BY <1>2, <1>4, ReadsProduced
<1>6. p \in Txns /\ o \in Objects(p) /\ p \in Nat
  BY <1>2, <1>5, ReadsProduced, Order
<1>7. Through(p)
  BY <1>2, <1>5 DEF PriorNotified, Through
<1>8. ~ (p < i)
  BY <1>2, <1>3, <1>5, <1>6 DEF Predecessor, NoneBetween
<1>9. CASE i = p
  BY <1>7, <1>9
<1>10. CASE i < p
  <2>1. Conflicts(i, p) /\ i \in 1..(p - 1) /\ Passed(p)
    BY <1>2, <1>3, <1>6, <1>7, <1>10 DEF Conflicts, Through, Passed
  <2> QED
    BY <1>6, <2>1 DEF InOrder, Settled
<1> QED
  BY <1>3, <1>6, <1>8, <1>9, <1>10

-----------------------------------------------------------------------------
(* The steps of a task.  What they have in common: the order stays, and    *)
(* one transaction moves on.                                               *)

\* A predecessor of t on one of its objects was skipped.
Cut(t) ==
    \E o \in Objects(t), i \in 1..(t - 1) : Predecessor(i, t, o) /\ stage[i] = "skipped"

Moves(t, s) == UNCHANGED <<tgVars, orderVars>> /\ stage' = [stage EXCEPT ![t] = s]

\* The order of the transactions stays.
LEMMA OrderKept ==
    ASSUME UNCHANGED <<tgVars, orderVars>>
    PROVE  /\ Txns' = Txns
           /\ \A t : Objects(t)' = Objects(t) /\ Produced(t)' = Produced(t)
           /\ \A i, j : Conflicts(i, j)' <=> Conflicts(i, j)
           /\ \A i, j, o : Predecessor(i, j, o)' <=> Predecessor(i, j, o)
           /\ VAInv => VAInv'
           /\ Workload => Workload'
<1>1. assigned' = assigned /\ shared_object_versions' = shared_object_versions /\ txns' = txns
      /\ submitted' = submitted /\ UNCHANGED tgVars
  BY DEF orderVars
<1>2. Txns' = Txns /\ \A t : Objects(t)' = Objects(t) /\ Produced(t)' = Produced(t)
  BY <1>1 DEF Txns, Objects, Produced
<1>3. \A i, j : Conflicts(i, j)' <=> Conflicts(i, j)
  BY <1>2 DEF Conflicts
<1>4. \A i, j, o : Predecessor(i, j, o)' <=> Predecessor(i, j, o)
  BY <1>2 DEF Predecessor, NoneBetween
<1>5. VAInv => VAInv'
  BY <1>1, VAUnchanged DEF vaVars
<1>6. Workload => Workload'
  BY <1>1, <1>2 DEF Workload, tgVars
<1> QED
  BY <1>2, <1>3, <1>4, <1>5, <1>6

\* Only t moves.
LEMMA OthersStay ==
    ASSUME Shapes, NEW t \in TxnId, NEW s \in Stage, Moves(t, s)
    PROVE  /\ stage' \in [TxnId -> Stage] /\ stage'[t] = s
           /\ \A u \in TxnId : u # t => stage'[u] = stage[u]
BY DEF Shapes, Moves

\* The waits are kept when t gets past its own only after those before it.
LEMMA InOrderKept ==
    ASSUME VAInv, Shapes, InOrder, NEW t \in Txns, NEW s \in Stage, Moves(t, s),
           ~ Through(t), s \in {"execute", "commit", "done", "skipped"} => Settled(t)
    PROVE  InOrder'
<1>1. t \in TxnId /\ Txns \subseteq TxnId
  BY Order
<1>2. /\ stage'[t] = s /\ \A u \in TxnId : u # t => stage'[u] = stage[u]
  BY <1>1, OthersStay
<1>3. Txns' = Txns /\ \A i, j : Conflicts(i, j)' <=> Conflicts(i, j)
  BY OrderKept DEF Moves
<1>4. SUFFICES ASSUME NEW u \in Txns, stage'[u] \in {"execute", "commit", "done", "skipped"},
                      NEW i \in 1..(u - 1), Conflicts(i, u)
               PROVE  stage'[i] \in {"done", "skipped"}
  BY <1>3 DEF InOrder, Passed, Settled, Through
<1>5. Settled(u)
  BY <1>1, <1>2, <1>4 DEF InOrder, Passed
<1>6. i \in TxnId /\ Through(i)
  BY <1>1, <1>4, <1>5, Order DEF Settled
<1> QED
  BY <1>2, <1>6 DEF Through

(***************************************************************************)
(* Skips are explained as before when t is: nobody past its waits looks at *)
(* a transaction that is not through.                                      *)
(***************************************************************************)
LEMMA CascadeKept ==
    ASSUME VAInv, Shapes, InOrder, SkipsCascade,
           NEW t \in Txns, NEW s \in Stage, Moves(t, s), ~ Through(t),
           s = "skipped" => Cut(t) \/ t \in MayFail,
           s \in {"execute", "commit", "done"} => ~ Cut(t)
    PROVE  SkipsCascade'
<1>1. t \in TxnId /\ Txns \subseteq TxnId
  BY Order
<1>2. /\ stage'[t] = s /\ \A u \in TxnId : u # t => stage'[u] = stage[u]
  BY <1>1, OthersStay
<1>3. /\ Txns' = Txns /\ \A u : Objects(u)' = Objects(u)
      /\ \A i, j, o : Predecessor(i, j, o)' <=> Predecessor(i, j, o)
  BY OrderKept DEF Moves
<1>4. \A u \in Txns : (Cut(u)' <=>
         \E o \in Objects(u), i \in 1..(u - 1) : Predecessor(i, u, o) /\ stage'[i] = "skipped")
  BY <1>3 DEF Cut
<1>5. ASSUME NEW u \in Txns, u = t \/ Passed(u)
      PROVE  Cut(u)' <=> Cut(u)
  <2>1. ASSUME NEW o \in Objects(u), NEW i \in 1..(u - 1), Predecessor(i, u, o)
        PROVE  stage'[i] = "skipped" <=> stage[i] = "skipped"
    <3>1. i \in Txns /\ o \in Objects(i) /\ i \in Nat /\ u \in Nat /\ i < u
      BY <2>1, ReadsProduced, Order
    <3>2. i # t
      <4>1. SUFFICES ASSUME i = t PROVE FALSE
        OBVIOUS
      <4>2. Passed(u) /\ Conflicts(i, u)
        BY <1>5, <2>1, <3>1, <4>1 DEF Conflicts
      <4> QED
        BY <3>1, <4>1, <4>2, Exclusive
    <3> QED
      BY <1>1, <1>2, <3>1, <3>2
  <2> QED
    BY <1>4, <2>1 DEF Cut
<1>6. ASSUME NEW u \in Txns
      PROVE  /\ stage'[u] = "skipped" => Cut(u)' \/ u \in MayFail
             /\ stage'[u] \in {"execute", "commit", "done"} => ~ Cut(u)'
  <2>1. CASE u = t
    BY <1>2, <1>5, <2>1
  <2>2. CASE u # t
    <3>1. stage'[u] = stage[u]
      BY <1>1, <1>2, <2>2
    <3>2. /\ stage[u] = "skipped" => Cut(u) \/ u \in MayFail
          /\ stage[u] \in {"execute", "commit", "done"} => ~ Cut(u)
      BY DEF SkipsCascade, Cut
    <3>3. Passed(u) => (Cut(u)' <=> Cut(u))
      BY <1>5
    <3> QED
      BY <3>1, <3>2, <3>3 DEF Passed
  <2> QED
    BY <2>1, <2>2
<1> QED
  BY <1>3, <1>6 DEF SkipsCascade, Cut

(***************************************************************************)
(* What a transaction that has not run finds in the store: what its        *)
(* predecessor produced if that has run, and something older if it was     *)
(* skipped.                                                                *)
(***************************************************************************)
LEMMA FindsProduced ==
    ASSUME ExecInv, NEW t \in Txns, NEW o \in Objects(t), ~ Ran(t), ~ Through(t)
    PROVE  /\ NoneBetween(0, t, o) => store[o].version = 2
           /\ \A i \in 1..(t - 1) : Predecessor(i, t, o) =>
                 /\ stage[i] = "done" => store[o].version = Produced(i)
                 /\ stage[i] = "skipped" => store[o].version # Produced(i)
<1>1. /\ VAInv /\ InOrder /\ AllWrites /\ AllStored
  BY DEF ExecInv
<1>2. /\ Txns \subseteq TxnId /\ t \in Nat /\ \A k \in Txns : k \in Nat
      /\ Txns = 1..Len(assigned) /\ Len(assigned) \in Nat
  BY <1>1, Order
<1>3. o \in Object
  BY <1>1, Order
<1>4. Stored(o)
  BY <1>1, <1>3 DEF AllStored
<1>5. \A k \in Txns : Writes(k)
  BY <1>1, <1>2 DEF AllWrites
<1>6. \A k \in Txns : o \in inserted[k] => Ran(k) /\ o \in Objects(k)
  BY <1>5 DEF Writes
<1>7. \A k \in Txns : k >= t => o \notin inserted[k]
  <2>1. o \notin inserted[t]
    BY <1>6
  <2>2. \A k \in Txns : k > t => o \notin inserted[k]
    BY <1>1, NoneLater
  <2> QED
    BY <1>2, <2>1, <2>2
<1>8. ASSUME NoneBetween(0, t, o) PROVE store[o].version = 2
  <2>1. \A k \in Txns : k < t => o \notin Objects(k)
    BY <1>2, <1>8 DEF NoneBetween
  <2>2. \A k \in Txns : o \notin inserted[k]
    BY <1>2, <1>6, <1>7, <2>1
  <2> QED
    BY <1>4, <2>2, TpccConstants DEF Stored
<1>9. ASSUME NEW i \in 1..(t - 1), Predecessor(i, t, o)
      PROVE  /\ stage[i] = "done" => store[o].version = Produced(i)
             /\ stage[i] = "skipped" => store[o].version # Produced(i)
  <2>1. i \in Txns /\ i \in Nat /\ o \in Objects(i) /\ i < t
    BY <1>1, <1>2, <1>9, ReadsProduced
  <2>2. \A k \in Txns : k > i => o \notin inserted[k]
    BY <1>2, <1>6, <1>7, <1>9, <2>1 DEF Predecessor, NoneBetween
  <2>3. ASSUME stage[i] = "done" PROVE store[o].version = Produced(i)
    <3>1. o \in inserted[i] /\ new_state[i][o].version = Produced(i)
      BY <1>5, <2>1, <2>3 DEF Writes, Ran
    <3>2. Inserted(i, o)
      BY <2>2, <3>1 DEF Inserted
    <3> QED
      BY <1>4, <2>1, <3>1, <3>2 DEF Stored
  <2>4. ASSUME stage[i] = "skipped" PROVE store[o].version # Produced(i)
    <3> DEFINE T == {k \in Txns : o \in inserted[k]}
    <3>1. Produced(i) \in Nat /\ Produced(i) > 2
      BY <1>1, <2>1, Order, TpccConstants
    <3>2. CASE T = {}
      <4>1. store[o].version = 2
        BY <1>4, <3>2, TpccConstants DEF Stored
      <4> QED
        BY <3>1, <4>1
    <3>3. CASE T # {}
      <4>1. T \subseteq 0..Len(assigned)
        BY <1>2
      <4>2. PICK j \in T : \A x \in T : j >= x
        <5> HIDE DEF T
        <5> QED
          BY <1>2, <3>3, <4>1, BoundedSetHasMax
      <4>3. j \in Txns /\ j \in Nat /\ Ran(j) /\ o \in Objects(j)
        BY <1>2, <1>6
      <4>4. Inserted(j, o)
        BY <1>2, <4>2, <4>3 DEF Inserted
      <4>5. store[o].version = Produced(j)
        BY <1>4, <1>5, <4>3, <4>4 DEF Stored, Writes
      <4>6. j # i /\ ~ (j > i)
        BY <2>2, <2>4, <4>3 DEF Ran
      <4>7. j < i
        BY <2>1, <4>3, <4>6
      <4>8. Produced(j) <= assigned[i][o] /\ assigned[i][o] < Produced(i)
            /\ Produced(j) \in Nat /\ assigned[i][o] \in Nat
        BY <1>1, <2>1, <4>3, <4>7, Order, TpccConstants
      <4> QED
        BY <3>1, <4>5, <4>8
    <3> QED
      BY <3>2, <3>3
  <2> QED
    BY <2>3, <2>4
<1> QED
  BY <1>8, <1>9

\* The rest of the invariant, for a step that moves t and changes neither objects nor caches.
LEMMA StoreKept ==
    ASSUME VAInv, Shapes, AllWrites, AllStored, NEW t \in Txns, NEW s \in Stage, Moves(t, s),
           UNCHANGED <<store, new_state, inserted>>,
           Ran(t) <=> s \in {"commit", "done"},
           s = "done" => inserted[t] = Objects(t)
    PROVE  AllWrites' /\ AllStored'
<1>1. t \in TxnId /\ Txns \subseteq TxnId
  BY Order
<1>2. /\ stage'[t] = s /\ \A u \in TxnId : u # t => stage'[u] = stage[u]
  BY <1>1, OthersStay
<1>3. Txns' = Txns /\ \A u : Objects(u)' = Objects(u) /\ Produced(u)' = Produced(u)
  BY OrderKept DEF Moves
<1>4. \A u \in TxnId : Ran(u)' <=> Ran(u)
  BY <1>1, <1>2 DEF Ran
<1>5. ASSUME NEW u \in TxnId PROVE Writes(u)'
  <2>1. Writes(u)
    BY DEF AllWrites
  <2>2. stage'[u] = "done" => inserted[u] = Objects(u)
    BY <1>2, <2>1 DEF Writes
  <2> QED
    BY <1>3, <1>4, <2>1, <2>2 DEF Writes
<1>6. ASSUME NEW o \in Object PROVE Stored(o)'
  <2>1. Stored(o)
    BY DEF AllStored
  <2>2. \A i : Inserted(i, o)' <=> Inserted(i, o)
    BY <1>3 DEF Inserted
  <2> QED
    BY <1>3, <2>1, <2>2 DEF Stored
<1> QED
  BY <1>5, <1>6 DEF AllWrites, AllStored

\* The shapes stay when only t moves.
LEMMA ShapesKept ==
    ASSUME VAInv, Shapes, NEW t \in Txns, NEW s \in Stage, s # "absent", Moves(t, s),
           UNCHANGED <<store, cache, new_state, inserted>>
    PROVE  Shapes'
<1>1. t \in TxnId /\ Txns \subseteq TxnId
  BY Order
<1>2. /\ stage' \in [TxnId -> Stage] /\ stage'[t] = s
      /\ \A u \in TxnId : u # t => stage'[u] = stage[u]
  BY <1>1, OthersStay
<1>3. Txns' = Txns
  BY OrderKept DEF Moves
<1>4. \A u \in TxnId : stage'[u] = "absent" <=> u \notin Txns
  BY <1>1, <1>2 DEF Shapes
<1> QED
  BY <1>2, <1>3, <1>4 DEF Shapes

\* The task after its waits keeps the invariant.
LEMMA CheckTxnExec ==
    ASSUME ExecInv, NEW t \in TxnId, CheckTxn(t)
    PROVE  ExecInv'
<1>1. VAInv /\ Workload /\ Shapes /\ InOrder /\ SkipsCascade /\ AllWrites /\ AllStored
  BY DEF ExecInv
<1>2. stage[t] = "await" /\ PriorNotified(t) /\ ~ Ran(t) /\ ~ Through(t) /\ ~ Passed(t)
  BY DEF CheckTxn, Ran, Through, Passed
<1>3. t \in Txns
  BY <1>1, <1>2 DEF Shapes
<1>4. PICK verified \in IF t \in MayFail THEN BOOLEAN ELSE {TRUE} :
         stage' = [stage EXCEPT ![t] =
                     IF verified /\ pre_execute_check(t) THEN "execute" ELSE "skipped"]
  BY DEF CheckTxn
<1>5. PICK s : s = IF verified /\ pre_execute_check(t) THEN "execute" ELSE "skipped"
  OBVIOUS
<1>6. s \in Stage /\ s \in {"execute", "skipped"}
  BY <1>5 DEF Stage
<1>7. Moves(t, s) /\ UNCHANGED <<store, cache, new_state, inserted>>
  BY <1>4, <1>5 DEF CheckTxn, Moves
<1>8. Settled(t)
  BY <1>1, <1>2, <1>3, SettledBy
<1>9. /\ s = "skipped" => Cut(t) \/ t \in MayFail
      /\ s \in {"execute", "commit", "done"} => ~ Cut(t)
  <2>1. ASSUME s = "skipped", t \notin MayFail PROVE Cut(t)
    <3>1. ~ pre_execute_check(t)
      BY <1>4, <1>5, <2>1
    <3>2. PICK o \in Objects(t) : store[o].version # assigned[t][o]
      BY <3>1 DEF pre_execute_check
    <3>3. ~ NoneBetween(0, t, o)
      BY <1>1, <1>2, <1>3, <3>2, FindsProduced, ReadsProduced
    <3>4. PICK i \in 1..(t - 1) : Predecessor(i, t, o)
      BY <1>1, <1>3, <3>3, ReadsProduced
    <3>5. stage[i] \in {"done", "skipped"}
      BY <1>2, <3>4 DEF PriorNotified
    <3>6. stage[i] # "done"
      BY <1>1, <1>2, <1>3, <3>2, <3>4, FindsProduced, ReadsProduced
    <3> QED
      BY <3>4, <3>5, <3>6 DEF Cut
  <2>2. ASSUME s = "execute", Cut(t) PROVE FALSE
    <3>1. pre_execute_check(t)
      BY <1>5, <2>2
    <3>2. PICK o \in Objects(t), i \in 1..(t - 1) : Predecessor(i, t, o) /\ stage[i] = "skipped"
      BY <2>2 DEF Cut
    <3>3. store[o].version # Produced(i)
      BY <1>2, <1>3, <3>2, FindsProduced
    <3>4. assigned[t][o] = Produced(i)
      BY <1>1, <1>3, <3>2, ReadsProduced
    <3> QED
      BY <3>1, <3>2, <3>3, <3>4 DEF pre_execute_check
  <2> QED
    BY <1>6, <2>1, <2>2
<1>10. VAInv' /\ Workload'
  BY <1>1, <1>7, OrderKept DEF Moves
<1>11. Shapes'
  BY <1>1, <1>3, <1>6, <1>7, ShapesKept
<1>12. InOrder'
  BY <1>1, <1>2, <1>3, <1>6, <1>7, <1>8, InOrderKept
<1>13. SkipsCascade'
  BY <1>1, <1>2, <1>3, <1>6, <1>7, <1>9, CascadeKept
<1>14. AllWrites' /\ AllStored'
  BY <1>1, <1>2, <1>3, <1>6, <1>7, StoreKept
<1> QED
  BY <1>10, <1>11, <1>12, <1>13, <1>14 DEF ExecInv

\* The notification keeps the invariant.
LEMMA NotifyTxnExec ==
    ASSUME ExecInv, NEW t \in TxnId, NotifyTxn(t)
    PROVE  ExecInv'
<1>1. VAInv /\ Workload /\ Shapes /\ InOrder /\ SkipsCascade /\ AllWrites /\ AllStored
  BY DEF ExecInv
<1>2. stage[t] = "commit" /\ Objects(t) = inserted[t] /\ ~ Through(t) /\ Ran(t) /\ Passed(t)
  BY DEF NotifyTxn, Through, Ran, Passed
<1>3. t \in Txns
  BY <1>1, <1>2 DEF Shapes
<1>4. PICK s : s = "done"
  OBVIOUS
<1>5. s \in Stage /\ Moves(t, s) /\ UNCHANGED <<store, cache, new_state, inserted>>
  BY <1>4 DEF NotifyTxn, Moves, Stage
<1>6. Settled(t) /\ ~ Cut(t)
  BY <1>1, <1>2, <1>3 DEF InOrder, SkipsCascade, Cut
<1>7. VAInv' /\ Workload'
  BY <1>1, <1>5, OrderKept DEF Moves
<1>8. Shapes'
  BY <1>1, <1>3, <1>4, <1>5, ShapesKept
<1>9. InOrder'
  BY <1>1, <1>2, <1>3, <1>5, <1>6, InOrderKept
<1>10. SkipsCascade'
  BY <1>1, <1>2, <1>3, <1>4, <1>5, <1>6, CascadeKept
<1>11. AllWrites' /\ AllStored'
  BY <1>1, <1>2, <1>3, <1>4, <1>5, StoreKept
<1> QED
  BY <1>7, <1>8, <1>9, <1>10, <1>11 DEF ExecInv

\* Inserting one object keeps the invariant: nobody later has inserted it.
LEMMA CommitObjectExec ==
    ASSUME ExecInv, NEW t \in TxnId, CommitObject(t)
    PROVE  ExecInv'
<1>1. VAInv /\ Workload /\ Shapes /\ InOrder /\ SkipsCascade /\ AllWrites /\ AllStored
  BY DEF ExecInv
<1>2. stage[t] = "commit" /\ ~ Through(t) /\ Ran(t) /\ Writes(t)
  BY <1>1 DEF CommitObject, Through, Ran, AllWrites
<1>3. t \in Txns /\ Txns \subseteq TxnId /\ \A k \in Txns : k \in Nat
  BY <1>1, <1>2, Order DEF Shapes
<1>4. inserted[t] \subseteq Objects(t) /\ Objects(t) \subseteq Object
  BY <1>1, <1>2, <1>3, Order DEF Writes
<1>5. PICK o \in Objects(t) \ inserted[t] :
         /\ store' = [store EXCEPT ![o] = new_state[t][o]]
         /\ inserted' = [inserted EXCEPT ![t] = @ \cup {o}]
  <2>1. Objects(t) \ inserted[t] # {}
    BY <1>4 DEF CommitObject
  <2> QED
    BY <2>1 DEF CommitObject
<1>6. UNCHANGED <<tgVars, orderVars, stage, cache, new_state>>
  BY DEF CommitObject
<1>7. /\ VAInv' /\ Workload' /\ Txns' = Txns
      /\ \A u : Objects(u)' = Objects(u) /\ Produced(u)' = Produced(u)
      /\ \A i, j : Conflicts(i, j)' <=> Conflicts(i, j)
      /\ \A i, j, x : Predecessor(i, j, x)' <=> Predecessor(i, j, x)
  BY <1>1, <1>6, OrderKept
<1>8. o \in Object /\ DOMAIN store = Object /\ DOMAIN inserted = TxnId
  BY <1>1, <1>4, <1>5 DEF Shapes
<1>9. /\ store'[o] = new_state[t][o] /\ \A x \in Object : x # o => store'[x] = store[x]
      /\ inserted'[t] = inserted[t] \cup {o}
      /\ \A u \in TxnId : u # t => inserted'[u] = inserted[u]
  BY <1>5, <1>8
<1>10. Shapes'
  <2>1. DOMAIN store' = Object /\ store' = [x \in Object |-> store'[x]]
    BY <1>5, <1>8
  <2>2. inserted' = [u \in TxnId |-> inserted'[u]]
    BY <1>5, <1>8
  <2> QED
    BY <1>1, <1>6, <1>7, <2>1, <2>2 DEF Shapes
<1>11. InOrder' /\ SkipsCascade'
  <2>1. \A u : (Passed(u)' <=> Passed(u)) /\ (Settled(u)' <=> Settled(u))
    BY <1>6, <1>7 DEF Passed, Settled, Through
  <2>2. InOrder'
    BY <1>1, <1>7, <2>1 DEF InOrder
  <2>3. SkipsCascade'
    BY <1>1, <1>6, <1>7 DEF SkipsCascade
  <2> QED
    BY <2>2, <2>3
<1>12. AllWrites'
  <2>1. ASSUME NEW u \in TxnId PROVE Writes(u)'
    <3>1. Writes(u)
      BY <1>1 DEF AllWrites
    <3>2. Ran(u)' <=> Ran(u)
      BY <1>6 DEF Ran
    <3>3. CASE u # t
      BY <1>6, <1>7, <1>9, <3>1, <3>2, <3>3 DEF Writes
    <3>4. CASE u = t
      BY <1>2, <1>4, <1>5, <1>6, <1>7, <1>9, <3>1, <3>2, <3>4 DEF Writes
    <3> QED
      BY <3>3, <3>4
  <2> QED
    BY <2>1 DEF AllWrites
<1>13. AllStored'
  <2>1. ASSUME NEW x \in Object, x # o PROVE Stored(x)'
    <3>1. \A u \in Txns : x \in inserted'[u] <=> x \in inserted[u]
      BY <1>3, <1>9, <2>1
    <3>2. \A u \in Txns : Inserted(u, x)' <=> Inserted(u, x)
      BY <1>7, <3>1 DEF Inserted
    <3>3. Stored(x) /\ store'[x] = store[x]
      BY <1>1, <1>9, <2>1 DEF AllStored
    <3> QED
      BY <1>6, <1>7, <3>1, <3>2, <3>3 DEF Stored
  <2>2. Stored(o)'
    <3>1. WellFormed(o, store'[o])
      BY <1>2, <1>5, <1>9 DEF Writes
    <3>2. \A k \in Txns : k > t => o \notin inserted[k]
      BY <1>1, <1>2, <1>3, <1>5, NoneLater
    <3>3. \A i \in Txns : Inserted(i, o)' => i = t
      <4>1. SUFFICES ASSUME NEW i \in Txns, Inserted(i, o)' PROVE i = t
        OBVIOUS
      <4>2. o \in inserted'[i] /\ \A k \in Txns : k > i => o \notin inserted'[k]
        BY <1>7, <4>1 DEF Inserted
      <4>3. ~ (t > i)
        BY <1>3, <1>9, <4>2
      <4>4. ~ (i > t)
        BY <1>3, <1>9, <3>2, <4>2
      <4> QED
        BY <1>3, <4>3, <4>4
    <3>4. o \in inserted'[t]
      BY <1>9
    <3> QED
      BY <1>3, <1>6, <1>7, <1>9, <3>1, <3>3, <3>4 DEF Stored
  <2> QED
    BY <2>1, <2>2 DEF AllStored
<1> QED
  BY <1>7, <1>10, <1>11, <1>12, <1>13 DEF ExecInv

-----------------------------------------------------------------------------
(* Transactions and the objects they touch.                                *)

\* The four kinds of keys are told apart.
LEMMA KeyKinds ==
    /\ \A o \in WarehouseIds : o[1] = "W" /\ o \notin DistrictIds /\ o \notin CustomerIds /\ o \notin StockIds
    /\ \A o \in DistrictIds : o[1] = "D" /\ o \notin WarehouseIds /\ o \notin CustomerIds /\ o \notin StockIds
    /\ \A o \in CustomerIds : o[1] = "C" /\ o \notin WarehouseIds /\ o \notin DistrictIds /\ o \notin StockIds
    /\ \A o \in StockIds : o[1] = "S" /\ o \notin WarehouseIds /\ o \notin DistrictIds /\ o \notin CustomerIds
<1>1. \A o \in WarehouseIds : o[1] = "W"
  BY DEF WarehouseIds, object_id_for_warehouse
<1>2. \A o \in DistrictIds : o[1] = "D"
  BY DEF DistrictIds, object_id_for_district
<1>3. \A o \in CustomerIds : o[1] = "C"
  BY DEF CustomerIds, object_id_for_customer
<1>4. \A o \in StockIds : o[1] = "S"
  BY DEF StockIds, object_id_for_stock
<1>5. "W" # "D" /\ "W" # "C" /\ "W" # "S" /\ "D" # "C" /\ "D" # "S" /\ "C" # "S"
  OBVIOUS
<1> QED
  BY <1>1, <1>2, <1>3, <1>4, <1>5

\* What an order touches.
LEMMA NewOrderKeys ==
    ASSUME NEW x \in TpccTransaction, x.kind = "NewOrder"
    PROVE  /\ x.w_id \in Warehouses /\ x.d_id \in Districts /\ x.items \in Seq(OrderItem)
           /\ object_id_for_warehouse(x.w_id) \in WarehouseIds
           /\ object_id_for_district(x.w_id, x.d_id) \in DistrictIds
           /\ CustomerOf(x) \in CustomerIds
           /\ Stocks(x) \subseteq StockIds
           /\ \A i \in DOMAIN x.items : x.items[i] \in OrderItem /\ StockOf(x.items[i]) \in Stocks(x)
<1>1. x \in [kind : {"NewOrder"}, w_id : Warehouses, d_id : Districts, c_id : Customers,
             items : Seq(OrderItem)]
  BY DEF TpccTransaction
<1>2. x.w_id \in Warehouses /\ x.d_id \in Districts /\ x.c_id \in Customers /\ x.items \in Seq(OrderItem)
  BY <1>1
<1>3. Range(x.items) = {x.items[i] : i \in DOMAIN x.items}
  BY DEF Range
<1>4. \A i \in DOMAIN x.items : x.items[i] \in OrderItem
  BY <1>2
<1>5. \A line \in OrderItem : StockOf(line) \in StockIds
  BY DEF OrderItem, StockOf, StockIds
<1>6. Stocks(x) = {StockOf(x.items[i]) : i \in DOMAIN x.items}
  BY <1>3 DEF Stocks
<1>7. Stocks(x) \subseteq StockIds /\ \A i \in DOMAIN x.items : StockOf(x.items[i]) \in Stocks(x)
  BY <1>4, <1>5, <1>6
<1>8. /\ object_id_for_warehouse(x.w_id) \in WarehouseIds
      /\ object_id_for_district(x.w_id, x.d_id) \in DistrictIds
  BY <1>2 DEF WarehouseIds, DistrictIds
<1>9. CustomerOf(x) \in CustomerIds
  BY <1>2 DEF CustomerOf, CustomerIds
<1> QED
  BY <1>2, <1>4, <1>7, <1>8, <1>9

\* What a payment touches.
LEMMA PaymentKeys ==
    ASSUME NEW x \in TpccTransaction, x.kind # "NewOrder"
    PROVE  /\ x.kind = "Payment" /\ x.h_amount \in Nat
           /\ x.w_id \in Warehouses /\ x.d_id \in Districts
           /\ object_id_for_warehouse(x.w_id) \in WarehouseIds
           /\ object_id_for_district(x.w_id, x.d_id) \in DistrictIds
           /\ CustomerOf(x) \in CustomerIds
           /\ Stocks(x) = {}
<1>1. x \in [kind : {"Payment"}, w_id : Warehouses, d_id : Districts, c_id : Customers,
             h_amount : Amounts, customer_of : Warehouses \X Districts]
  BY DEF TpccTransaction
<1>2. /\ x.kind = "Payment" /\ x.w_id \in Warehouses /\ x.d_id \in Districts /\ x.c_id \in Customers
      /\ x.h_amount \in Nat /\ x.customer_of[1] \in Warehouses /\ x.customer_of[2] \in Districts
  BY <1>1, TGAssumption
<1>3. /\ object_id_for_warehouse(x.w_id) \in WarehouseIds
      /\ object_id_for_district(x.w_id, x.d_id) \in DistrictIds
  BY <1>2 DEF WarehouseIds, DistrictIds
<1>4. CustomerOf(x) \in CustomerIds
  BY <1>2 DEF CustomerOf, CustomerIds
<1>5. Stocks(x) = {}
  BY DEF Stocks
<1> QED
  BY <1>2, <1>3, <1>4, <1>5

\* Every transaction touches objects of the database, and at least its warehouse.
LEMMA Accesses ==
    ASSUME NEW x \in TpccTransaction
    PROVE  /\ access_set(x) \subseteq Object /\ access_set(x) # {}
           /\ object_id_for_warehouse(x.w_id) \in access_set(x)
           /\ object_id_for_district(x.w_id, x.d_id) \in access_set(x)
           /\ CustomerOf(x) \in access_set(x)
           /\ Stocks(x) \subseteq access_set(x)
<1>1. /\ object_id_for_warehouse(x.w_id) \in WarehouseIds
      /\ object_id_for_district(x.w_id, x.d_id) \in DistrictIds
      /\ CustomerOf(x) \in CustomerIds
      /\ Stocks(x) \subseteq StockIds
  BY NewOrderKeys, PaymentKeys
<1>2. read_set(x) \subseteq TpccObjects /\ write_set(x) \subseteq TpccObjects
  BY <1>1 DEF read_set, write_set, TpccObjects
<1> QED
  BY <1>2, TpccConstants DEF access_set, read_set

-----------------------------------------------------------------------------
(* The order lines of a transaction, one after the other.                  *)

StockRow == {x \in Stock : x.s_quantity \in 10..100}

\* The position of a line that orders stock x.
LinesOn(items, x) == {i \in DOMAIN items : StockOf(items[i]) = x}

\* The lines order nothing but the stocks S.
OrdersOnly(items, S) == \A i \in DOMAIN items : StockOf(items[i]) \in S

\* All the lines, as execute_new_order does them.
OrderLines(w, base, items) == FoldLeft(LAMBDA s, line : OrderLine(w, s, line), base, items)

\* An order never takes the last ten, and restocking does not overfill.
LEMMA RestockBounds ==
    ASSUME NEW q \in 10..100, NEW n \in 1..10
    PROVE  Restock(q, n) \in 10..100
BY DEF Restock

\* One line counts on its own stock.
LEMMA OrderLineRows ==
    ASSUME NEW S, NEW rows \in [S -> StockRow], NEW line \in OrderItem, StockOf(line) \in S, NEW w
    PROVE  /\ OrderLine(w, rows, line) \in [S -> StockRow]
           /\ \A x \in S : OrderLine(w, rows, line)[x].s_order_cnt =
                 rows[x].s_order_cnt + (IF x = StockOf(line) THEN 1 ELSE 0)
<1> DEFINE s == StockOf(line)
           row == [s_quantity |-> Restock(rows[s].s_quantity, line.quantity),
                   s_ytd |-> rows[s].s_ytd + line.quantity,
                   s_order_cnt |-> rows[s].s_order_cnt + 1,
                   s_remote_cnt |-> IF line.supply_w_id # w THEN rows[s].s_remote_cnt + 1
                                                           ELSE rows[s].s_remote_cnt]
<1>1. OrderLine(w, rows, line) = [rows EXCEPT ![s] = row]
  BY DEF OrderLine
<1>2. line.quantity \in 1..10
  BY TGAssumption DEF OrderItem
<1>3. \A x \in S : /\ rows[x] \in Stock /\ rows[x].s_quantity \in 10..100
                   /\ rows[x].s_ytd \in Nat /\ rows[x].s_order_cnt \in Nat
                   /\ rows[x].s_remote_cnt \in Nat
  <2>1. \A x \in S : rows[x] \in StockRow
    OBVIOUS
  <2> QED
    BY <2>1 DEF StockRow, Stock
<1>4. row \in StockRow /\ row.s_order_cnt = rows[s].s_order_cnt + 1
  <2>1. Restock(rows[s].s_quantity, line.quantity) \in 10..100
    BY <1>2, <1>3, RestockBounds
  <2> HIDE DEF s
  <2>2. row \in Stock /\ row.s_quantity \in 10..100
    BY <1>2, <1>3, <2>1 DEF Stock, s
  <2> QED
    BY <2>2 DEF StockRow
<1> HIDE DEF row, s
<1>5. [rows EXCEPT ![s] = row] \in [S -> StockRow]
  BY <1>4
<1>6. \A x \in S : [rows EXCEPT ![s] = row][x].s_order_cnt =
                 rows[x].s_order_cnt + (IF x = s THEN 1 ELSE 0)
  <2>1. s \in S
    BY DEF s
  <2> QED
    BY <1>3, <1>4, <2>1
<1> QED
  BY <1>1, <1>5, <1>6 DEF s

\* The fold takes the lines from the first to the last.
LEMMA FoldsLines ==
    ASSUME NEW items \in Seq(OrderItem), NEW S, OrdersOnly(items, S),
           NEW base \in [S -> StockRow], NEW w
    PROVE  \E P : /\ OrderLines(w, base, items) = P[Len(items)]
                  /\ P[0] = base
                  /\ \A k \in 1..Len(items) : P[k] = OrderLine(w, P[k - 1], items[k])
<1> DEFINE n == Len(items)
           D == 1..n
           V == [S -> StockRow]
           c == LastPick(n)
           h == [p \in (SUBSET D) \X V |->
                    IF p[1] = {} THEN p[2] ELSE OrderLine(w, p[2], items[Max(p[1])])]
           Eq(F) == F = [s \in SUBSET D |->
                           IF s = {} THEN base ELSE OrderLine(w, F[s \ {Max(s)}], items[Max(s)])]
<1>1. n \in Nat /\ DOMAIN items = D
  OBVIOUS
<1>2. IsFiniteSet(D) /\ Picks(c, D)
  BY <1>1, FS_Interval, LastPicks
<1>3. \A s \in SUBSET D : s # {} => Max(s) \in D /\ c[s] = Max(s)
  <2>1. \A s \in SUBSET D : c[s] = Max(s)
    BY DEF LastPick
  <2> QED
    BY <1>2, <2>1 DEF Picks
<1>4. h \in [(SUBSET D) \X V -> V]
  <2>1. ASSUME NEW p \in (SUBSET D) \X V
        PROVE  (IF p[1] = {} THEN p[2] ELSE OrderLine(w, p[2], items[Max(p[1])])) \in V
    <3>1. p[1] \in SUBSET D /\ p[2] \in V
      OBVIOUS
    <3>2. p[1] # {} => items[Max(p[1])] \in OrderItem /\ StockOf(items[Max(p[1])]) \in S
      BY <1>1, <1>3, <3>1 DEF OrdersOnly
    <3> QED
      BY <3>1, <3>2, OrderLineRows
  <2> QED
    BY <2>1
<1>5. PICK F \in [SUBSET D -> V] : Recursion(F, D, base, h, c)
  <2> HIDE DEF D, V, c, h
  <2>1. base \in V
    BY DEF V
  <2> QED
    BY <1>2, <1>4, <2>1, RecursionExists
<1>6. Eq(F)
  <2>1. \A s \in SUBSET D : F[s] = IF s = {} THEN base ELSE h[<<s, F[s \ {c[s]}]>>]
    <3> HIDE DEF h, c, V
    <3> QED
      BY <1>5 DEF Recursion
  <2>2. \A s \in SUBSET D : s # {} =>
           h[<<s, F[s \ {c[s]}]>>] = OrderLine(w, F[s \ {c[s]}], items[Max(s)])
    <3>1. \A s \in SUBSET D : F[s \ {c[s]}] \in V
      BY <1>5
    <3>2. \A s \in SUBSET D : \A v \in V : s # {} => h[<<s, v>>] = OrderLine(w, v, items[Max(s)])
      OBVIOUS
    <3> HIDE DEF h, c, V
    <3> QED
      BY <3>1, <3>2
  <2> HIDE DEF h, c
  <2>3. \A s \in SUBSET D :
           F[s] = IF s = {} THEN base ELSE OrderLine(w, F[s \ {Max(s)}], items[Max(s)])
    BY <1>3, <2>1, <2>2
  <2> QED
    BY <1>5, <2>3
<1> DEFINE G == CHOOSE X : Eq(X)
<1>7. OrderLines(w, base, items) = G[D]
  BY <1>1 DEF OrderLines, FoldLeft, MapThenFoldSet
<1> HIDE DEF G
<1>8. Eq(G)
  BY <1>6 DEF G
<1>9. \A s \in SUBSET D :
         G[s] = IF s = {} THEN base ELSE OrderLine(w, G[s \ {Max(s)}], items[Max(s)])
  BY <1>8
<1>10. G[1..0] = base
  <2>1. 1..0 = {} /\ 1..0 \in SUBSET D
    OBVIOUS
  <2> QED
    BY <1>9, <2>1
<1>11. ASSUME NEW k \in 1..n PROVE G[1..k] = OrderLine(w, G[1..(k - 1)], items[k])
  <2>1. 1..k \in SUBSET D /\ 1..k # {}
    <3>1. k \in 1..k /\ \A i \in 1..k : i \in 1..n
      BY <1>1
    <3> HIDE DEF n
    <3> QED
      BY <3>1
  <2>2. Max(1..k) = k /\ (1..k) \ {k} = 1..(k - 1)
    BY <1>1, LastPicks
  <2>3. G[1..k] = OrderLine(w, G[(1..k) \ {Max(1..k)}], items[Max(1..k)])
    BY <1>9, <2>1
  <2> QED
    BY <2>2, <2>3
<1> DEFINE P == [k \in 0..n |-> G[1..k]]
<1>12. P[n] = G[D] /\ P[0] = base
  BY <1>1, <1>10
<1>13. \A k \in 1..n : P[k] = OrderLine(w, P[k - 1], items[k])
  BY <1>1, <1>11
<1> HIDE DEF P
<1> QED
  BY <1>7, <1>12, <1>13

\* However often a stock is ordered, it stays in its bounds and every line is counted.
LEMMA LinesCounted ==
    ASSUME NEW items \in Seq(OrderItem), NEW S, OrdersOnly(items, S),
           NEW base \in [S -> StockRow], NEW w, NEW f,
           f = OrderLines(w, base, items)
    PROVE  /\ f \in [S -> StockRow]
           /\ \A x \in S : f[x].s_order_cnt = base[x].s_order_cnt + Cardinality(LinesOn(items, x))
<1>1. PICK P : /\ f = P[Len(items)] /\ P[0] = base
               /\ \A k \in 1..Len(items) : P[k] = OrderLine(w, P[k - 1], items[k])
  BY FoldsLines
<1>2. PICK n \in Nat : n = Len(items) /\ DOMAIN items = 1..n
                      /\ \A i \in 1..n : items[i] \in OrderItem
  OBVIOUS
<1> DEFINE On(k, x) == {i \in 1..k : StockOf(items[i]) = x}
           Good(k) == /\ P[k] \in [S -> StockRow]
                      /\ \A x \in S : P[k][x].s_order_cnt =
                                         base[x].s_order_cnt + Cardinality(On(k, x))
           Bad == {k \in 0..n : ~ Good(k)}
<1>3. \A k \in 0..n : \A x : IsFiniteSet(On(k, x)) /\ Cardinality(On(k, x)) \in Nat
  <2>1. ASSUME NEW k \in 0..n, NEW x PROVE IsFiniteSet(On(k, x))
    <3>1. IsFiniteSet(1..k) /\ On(k, x) \in SUBSET (1..k)
      BY FS_Interval
    <3> HIDE DEF On
    <3> QED
      BY <3>1, FS_Subset
  <2> HIDE DEF On
  <2> QED
    BY <2>1, FS_CardinalityType
<1>4. \A x \in S : base[x].s_order_cnt \in Nat
  <2>1. \A x \in S : base[x] \in StockRow
    OBVIOUS
  <2> QED
    BY <2>1 DEF StockRow, Stock
<1>5. Good(0)
  <2>1. \A x : On(0, x) = {}
    OBVIOUS
  <2>2. \A x : Cardinality(On(0, x)) = 0
    BY <2>1, FS_EmptySet
  <2> HIDE DEF On
  <2> QED
    BY <1>1, <1>4, <2>2
<1>6. ASSUME NEW k \in 1..n, Good(k - 1) PROVE Good(k)
  <2> DEFINE rows == P[k - 1]
             line == items[k]
  <2>1. rows \in [S -> StockRow] /\ line \in OrderItem /\ StockOf(line) \in S
    BY <1>2, <1>6 DEF OrdersOnly
  <2>2. P[k] = OrderLine(w, rows, line)
    BY <1>1, <1>2
  <2>3. /\ P[k] \in [S -> StockRow]
        /\ \A x \in S : P[k][x].s_order_cnt =
              rows[x].s_order_cnt + (IF x = StockOf(line) THEN 1 ELSE 0)
    <3> HIDE DEF rows, line
    <3> QED
      BY <2>1, <2>2, OrderLineRows
  <2>4. ASSUME NEW x \in S
        PROVE  Cardinality(On(k, x)) =
                  Cardinality(On(k - 1, x)) + (IF x = StockOf(line) THEN 1 ELSE 0)
    <3>1. k \notin On(k - 1, x) /\ k - 1 \in 0..n
      BY <1>2
    <3>2. IsFiniteSet(On(k - 1, x)) /\ Cardinality(On(k - 1, x)) \in Nat
      BY <1>3, <3>1
    <3>3. CASE x = StockOf(line)
      <4>1. On(k, x) = On(k - 1, x) \cup {k}
        BY <1>2, <3>3
      <4> HIDE DEF On
      <4>2. Cardinality(On(k - 1, x) \cup {k}) = Cardinality(On(k - 1, x)) + 1
        BY <3>1, <3>2, FS_AddElement
      <4> QED
        BY <3>3, <4>1, <4>2
    <3>4. CASE x # StockOf(line)
      <4>1. On(k, x) = On(k - 1, x)
        BY <1>2, <3>4
      <4> HIDE DEF On, line
      <4> QED
        BY <3>2, <3>4, <4>1
    <3> QED
      BY <3>3, <3>4
  <2>5. ASSUME NEW x \in S
        PROVE  P[k][x].s_order_cnt = base[x].s_order_cnt + Cardinality(On(k, x))
    <3> HIDE DEF On
    <3>0. k - 1 \in 0..n
      BY <1>2
    <3>1. /\ Cardinality(On(k - 1, x)) \in Nat
          /\ rows[x].s_order_cnt = base[x].s_order_cnt + Cardinality(On(k - 1, x))
      BY <1>3, <1>6, <3>0
    <3> HIDE DEF line, rows
    <3> QED
      BY <1>4, <2>3, <2>4, <3>1
  <2> HIDE DEF On
  <2> QED
    BY <2>3, <2>5
<1>7. Bad = {}
  <2> HIDE DEF Good
  <2>1. SUFFICES ASSUME Bad # {} PROVE FALSE
    OBVIOUS
  <2>2. Bad \subseteq Nat
    OBVIOUS
  <2>3. PICK k \in Bad : \A y \in Bad : k <= y
    <3> HIDE DEF Bad
    <3> QED
      BY <2>1, <2>2, NatSetHasMin
  <2>4. k # 0 /\ k \in 1..n /\ k - 1 \notin Bad
    BY <1>2, <1>5, <2>3
  <2>5. Good(k - 1)
    BY <1>2, <2>4
  <2> QED
    BY <1>6, <2>4, <2>5
<1>8. Good(n)
  BY <1>2, <1>7
<1>9. \A x : On(n, x) = LinesOn(items, x)
  BY <1>2 DEF LinesOn
<1> HIDE DEF On
<1> QED
  BY <1>1, <1>2, <1>8, <1>9

-----------------------------------------------------------------------------
(* What a transaction does to the rows it reads.                           *)

\* The row of o afterwards.
After(data, x, o) ==
    IF o \in DOMAIN execute_tpcc_logic(data, x) THEN execute_tpcc_logic(data, x)[o] ELSE data[o]

DistrictOf(x) == object_id_for_district(x.w_id, x.d_id)
WarehouseOf(x) == object_id_for_warehouse(x.w_id)

IsOrder(x) == x.kind = "NewOrder"

\* What x pays at o, its warehouse or its district.
Paid(x, o) == IF ~ IsOrder(x) /\ o \in {WarehouseOf(x), DistrictOf(x)} THEN x.h_amount ELSE 0

\* The rows of what x touches, as they were and as x leaves them.
Effect(before, after, x, o) ==
    /\ DataOK(o, after)
    /\ o \in WarehouseIds => after.w_ytd = before.w_ytd + Paid(x, o)
    /\ o \in DistrictIds => /\ after.d_ytd = before.d_ytd + Paid(x, o)
                            /\ after.d_next_o_id = before.d_next_o_id +
                                  (IF IsOrder(x) /\ o = DistrictOf(x) THEN 1 ELSE 0)
    /\ o \in CustomerIds => after.c_balance + after.c_ytd_payment =
                            before.c_balance + before.c_ytd_payment
    /\ o \in StockIds => after.s_order_cnt = before.s_order_cnt +
                            (IF IsOrder(x) THEN Cardinality(LinesOn(x.items, o)) ELSE 0)

RowsOK(data, x) == DOMAIN data = access_set(x) /\ \A o \in access_set(x) : DataOK(o, data[o])

\* A row nobody writes.
LEMMA NoEffect ==
    ASSUME NEW o \in Object, NEW row, DataOK(o, row), NEW x,
           o \in WarehouseIds \/ o \in DistrictIds => Paid(x, o) = 0,
           ~ (IsOrder(x) /\ o = DistrictOf(x)),
           o \in StockIds => ~ IsOrder(x)
    PROVE  Effect(row, row, x, o)
<1>1. o \in WarehouseIds => row.w_ytd \in Int
  BY DEF DataOK, Warehouse
<1>2. o \in DistrictIds => row.d_ytd \in Int /\ row.d_next_o_id \in Nat
  BY DEF DataOK, District
<1>3. o \in StockIds => row.s_order_cnt \in Nat
  BY DEF DataOK, Stock
<1> QED
  BY <1>1, <1>2, <1>3 DEF Effect

\* An order.
LEMMA OrderEffect ==
    ASSUME NEW x \in TpccTransaction, IsOrder(x), NEW data, RowsOK(data, x), NEW o \in access_set(x)
    PROVE  Effect(data[o], After(data, x, o), x, o)
<1> DEFINE district == DistrictOf(x)
           base == [id \in Stocks(x) |-> data[id]]
           stocks == OrderLines(x.w_id, base, x.items)
           result == [id \in {district} \cup Stocks(x) |->
                        IF id = district THEN [data[id] EXCEPT !.d_next_o_id = @ + 1] ELSE stocks[id]]
<1>0. x.kind = "NewOrder"
  BY DEF IsOrder
<1>1. execute_tpcc_logic(data, x) = result
  BY <1>0 DEF execute_tpcc_logic, execute_new_order, DistrictOf, OrderLines
<1>2. /\ district \in DistrictIds /\ Stocks(x) \subseteq StockIds /\ x.items \in Seq(OrderItem)
      /\ \A i \in DOMAIN x.items : StockOf(x.items[i]) \in Stocks(x)
      /\ WarehouseOf(x) \in WarehouseIds
  BY <1>0, NewOrderKeys DEF DistrictOf, WarehouseOf
<1>3. /\ district \in access_set(x) /\ Stocks(x) \subseteq access_set(x) /\ access_set(x) \subseteq Object
  BY Accesses DEF DistrictOf
<1>4. base \in [Stocks(x) -> StockRow]
  <2>1. \A s \in Stocks(x) : data[s] \in StockRow
    BY <1>2, <1>3 DEF RowsOK, DataOK, StockRow
  <2> QED
    BY <2>1
<1>5. /\ stocks \in [Stocks(x) -> StockRow]
      /\ \A s \in Stocks(x) :
            stocks[s].s_order_cnt = data[s].s_order_cnt + Cardinality(LinesOn(x.items, s))
  <2>1. PICK f : f = stocks
    OBVIOUS
  <2>2. \A s \in Stocks(x) : base[s] = data[s]
    OBVIOUS
  <2>3. /\ f \in [Stocks(x) -> StockRow]
        /\ \A s \in Stocks(x) :
            f[s].s_order_cnt = base[s].s_order_cnt + Cardinality(LinesOn(x.items, s))
    <3>1. f = OrderLines(x.w_id, base, x.items) /\ OrdersOnly(x.items, Stocks(x))
      BY <1>2, <2>1 DEF OrdersOnly
    <3> HIDE DEF base, stocks
    <3> QED
      BY <1>2, <1>4, <3>1, LinesCounted
  <2> HIDE DEF base, stocks
  <2> QED
    BY <2>1, <2>2, <2>3
<1>6. Paid(x, o) = 0
  BY DEF Paid
<1> HIDE DEF stocks
<1>7. CASE o = district
  <2>1. After(data, x, o) = [data[o] EXCEPT !.d_next_o_id = @ + 1]
    BY <1>1, <1>7 DEF After
  <2>2. data[o] \in District
    BY <1>2, <1>3, <1>7 DEF RowsOK, DataOK
  <2>3. [data[o] EXCEPT !.d_next_o_id = @ + 1] \in District
        /\ [data[o] EXCEPT !.d_next_o_id = @ + 1].d_ytd = data[o].d_ytd + 0
        /\ [data[o] EXCEPT !.d_next_o_id = @ + 1].d_next_o_id = data[o].d_next_o_id + 1
    BY <2>2 DEF District
  <2>4. o \notin WarehouseIds /\ o \notin CustomerIds /\ o \notin StockIds
    BY <1>2, <1>7, KeyKinds
  <2> QED
    BY <1>6, <1>7, <2>1, <2>3, <2>4 DEF Effect, DataOK
<1>8. CASE o \in Stocks(x)
  <2>1. o # district
    BY <1>2, <1>8, KeyKinds
  <2>2. After(data, x, o) = stocks[o]
    BY <1>1, <1>8, <2>1 DEF After
  <2>3. stocks[o] \in StockRow
    BY <1>5, <1>8
  <2>4. o \in StockIds /\ o \notin WarehouseIds /\ o \notin CustomerIds /\ o \notin DistrictIds
    BY <1>2, <1>8, KeyKinds
  <2> QED
    BY <1>5, <1>8, <2>2, <2>3, <2>4 DEF Effect, DataOK, StockRow
<1>9. CASE o # district /\ o \notin Stocks(x)
  <2>1. After(data, x, o) = data[o]
    BY <1>1, <1>9 DEF After
  <2>2. DataOK(o, data[o]) /\ o \in Object
    BY <1>3 DEF RowsOK
  <2>3. o \notin StockIds
    <3>1. o \in {WarehouseOf(x), district, CustomerOf(x)}
      BY <1>0, <1>9 DEF access_set, read_set, write_set, WarehouseOf, DistrictOf
    <3>2. CustomerOf(x) \in CustomerIds
      BY <1>0, NewOrderKeys
    <3> QED
      BY <1>2, <3>1, <3>2, KeyKinds
  <2> QED
    BY <1>6, <1>9, <2>1, <2>2, <2>3, NoEffect
<1> QED
  BY <1>7, <1>8, <1>9

\* The customer's row: what leaves the balance is paid.
LEMMA CustomerPays ==
    ASSUME NEW row \in Customer, NEW h \in Nat
    PROVE  LET new == [row EXCEPT !.c_balance = @ - h, !.c_ytd_payment = @ + h,
                                  !.c_payment_cnt = @ + 1]
           IN  new \in Customer /\ new.c_balance + new.c_ytd_payment = row.c_balance + row.c_ytd_payment
<1> DEFINE new == [row EXCEPT !.c_balance = @ - h, !.c_ytd_payment = @ + h, !.c_payment_cnt = @ + 1]
<1>1. row.c_balance \in Int /\ row.c_ytd_payment \in Int /\ row.c_payment_cnt \in Nat
      /\ DOMAIN row = {"c_balance", "c_ytd_payment", "c_payment_cnt"}
  BY DEF Customer
<1>2. /\ new.c_balance = row.c_balance - h /\ new.c_ytd_payment = row.c_ytd_payment + h
      /\ new.c_payment_cnt = row.c_payment_cnt + 1
  BY <1>1
<1>3. new \in Customer
  <2> DEFINE r1 == [row EXCEPT !.c_balance = @ - h]
             r2 == [r1 EXCEPT !.c_ytd_payment = @ + h]
  <2>1. r1 \in Customer
    BY DEF Customer
  <2>2. r2 \in Customer
    <3> HIDE DEF r1
    <3> QED
      BY <2>1 DEF Customer
  <2>3. [r2 EXCEPT !.c_payment_cnt = @ + 1] \in Customer
    <3> HIDE DEF r2
    <3> QED
      BY <2>2 DEF Customer
  <2>4. new = [r2 EXCEPT !.c_payment_cnt = @ + 1]
    BY Zenon
  <2> QED
    BY <2>3, <2>4
<1> HIDE DEF new
<1>4. new \in Customer /\ new.c_balance + new.c_ytd_payment = row.c_balance + row.c_ytd_payment
  BY <1>1, <1>2, <1>3
<1> QED
  BY <1>4 DEF new

\* A payment.
LEMMA PaymentEffect ==
    ASSUME NEW x \in TpccTransaction, ~ IsOrder(x), NEW data, RowsOK(data, x), NEW o \in access_set(x)
    PROVE  Effect(data[o], After(data, x, o), x, o)
<1> DEFINE district == DistrictOf(x)
           warehouse == WarehouseOf(x)
           h == x.h_amount
           result == [id \in {warehouse, district, CustomerOf(x)} |->
            CASE id = warehouse -> [data[id] EXCEPT !.w_ytd = @ + h]
              [] id = district -> [data[id] EXCEPT !.d_ytd = @ + h]
              [] OTHER -> [data[id] EXCEPT !.c_balance = @ - h, !.c_ytd_payment = @ + h,
                                           !.c_payment_cnt = @ + 1]]
<1>0. x.kind # "NewOrder"
  BY DEF IsOrder
<1>1. execute_tpcc_logic(data, x) = result
  BY <1>0 DEF execute_tpcc_logic, execute_payment, DistrictOf, WarehouseOf
<1>2. /\ district \in DistrictIds /\ warehouse \in WarehouseIds /\ CustomerOf(x) \in CustomerIds
      /\ h \in Nat /\ Stocks(x) = {}
  BY <1>0, PaymentKeys DEF DistrictOf, WarehouseOf
<1>3. o \in {warehouse, district, CustomerOf(x)} /\ access_set(x) \subseteq Object
  BY <1>2, Accesses DEF access_set, read_set, write_set, WarehouseOf, DistrictOf
<1>4. DataOK(o, data[o])
  BY DEF RowsOK
<1>5. warehouse # district /\ warehouse # CustomerOf(x) /\ district # CustomerOf(x)
  BY <1>2, KeyKinds
<1>6. CASE o = warehouse
  <2>1. After(data, x, o) = [data[o] EXCEPT !.w_ytd = @ + h]
    BY <1>1, <1>5, <1>6 DEF After
  <2>2. data[o] \in Warehouse /\ Paid(x, o) = h
    BY <1>2, <1>4, <1>6 DEF DataOK, Paid
  <2>3. [data[o] EXCEPT !.w_ytd = @ + h] \in Warehouse
        /\ [data[o] EXCEPT !.w_ytd = @ + h].w_ytd = data[o].w_ytd + h
    BY <1>2, <2>2 DEF Warehouse
  <2>4. o \notin DistrictIds /\ o \notin CustomerIds /\ o \notin StockIds
    BY <1>2, <1>6, KeyKinds
  <2> QED
    BY <2>1, <2>2, <2>3, <2>4 DEF Effect, DataOK
<1>7. CASE o = district
  <2>1. After(data, x, o) = [data[o] EXCEPT !.d_ytd = @ + h]
    BY <1>1, <1>5, <1>7 DEF After
  <2>2. data[o] \in District /\ Paid(x, o) = h
    BY <1>2, <1>4, <1>7 DEF DataOK, Paid
  <2>3. [data[o] EXCEPT !.d_ytd = @ + h] \in District
        /\ [data[o] EXCEPT !.d_ytd = @ + h].d_ytd = data[o].d_ytd + h
        /\ [data[o] EXCEPT !.d_ytd = @ + h].d_next_o_id = data[o].d_next_o_id + 0
    BY <1>2, <2>2 DEF District
  <2>4. o \notin WarehouseIds /\ o \notin CustomerIds /\ o \notin StockIds
    BY <1>2, <1>7, KeyKinds
  <2> QED
    BY <2>1, <2>2, <2>3, <2>4 DEF Effect, DataOK
<1>8. CASE o = CustomerOf(x)
  <2> DEFINE new == [data[o] EXCEPT !.c_balance = @ - h, !.c_ytd_payment = @ + h,
                                    !.c_payment_cnt = @ + 1]
  <2>1. After(data, x, o) = new
    BY <1>1, <1>5, <1>8 DEF After
  <2>2. data[o] \in Customer
    BY <1>2, <1>4, <1>8 DEF DataOK
  <2>3. new \in Customer
        /\ new.c_balance + new.c_ytd_payment = data[o].c_balance + data[o].c_ytd_payment
    BY <1>2, <2>2, CustomerPays
  <2>4. o \notin WarehouseIds /\ o \notin DistrictIds /\ o \notin StockIds
    BY <1>2, <1>8, KeyKinds
  <2> HIDE DEF new
  <2> QED
    BY <2>1, <2>3, <2>4 DEF Effect, DataOK
<1> QED
  BY <1>3, <1>6, <1>7, <1>8

-----------------------------------------------------------------------------
(* The computation of a transaction.                                       *)

\* Transactions have their shape and touch what was locked for them.
LEMMA TxnShape ==
    ASSUME VAInv, Workload, NEW t \in Txns
    PROVE  txns[t] \in TpccTransaction /\ txns[t] \in Generable /\ Objects(t) = access_set(txns[t])
<1>1. t \in 1..Len(txns) /\ txns \in Seq(Generable)
  BY Order DEF Workload
<1>2. txns[t] \in Generable
  BY <1>1
<1> QED
  BY <1>2 DEF Workload, Generable

\* What it reads, what it is going to insert, and how they differ.
LEMMA ExecuteDoes ==
    ASSUME ExecInv, NEW t \in TxnId, ExecuteTxn(t)
    PROVE  /\ t \in Txns /\ stage[t] = "execute" /\ Moves(t, "commit") /\ UNCHANGED <<store, inserted>>
           /\ cache' = [cache EXCEPT ![t] = [o \in Objects(t) |-> read_tpcc_data(o)]]
           /\ DOMAIN new_state' = TxnId /\ new_state' = [u \in TxnId |-> new_state'[u]]
           /\ \A u \in TxnId : u # t => new_state'[u] = new_state[u]
           /\ new_state'[t] = [o \in Objects(t) |-> new_state'[t][o]]
           /\ \A o \in Objects(t) :
                 /\ WellFormed(o, new_state'[t][o]) /\ new_state'[t][o].version = Produced(t)
                 /\ Effect(read_tpcc_data(o), new_state'[t][o].contents.data, txns[t], o)
<1>1. VAInv /\ Workload /\ Shapes /\ AllStored
  BY DEF ExecInv
<1>2. stage[t] = "execute" /\ Moves(t, "commit") /\ UNCHANGED <<store, inserted>>
  BY DEF ExecuteTxn, Moves
<1>3. t \in Txns
  BY <1>1, <1>2 DEF Shapes
<1>4. PICK x \in TpccTransaction : x = txns[t] /\ Objects(t) = access_set(x)
  BY <1>1, <1>3, TxnShape
<1>5. PICK data : data = [o \in Objects(t) |-> read_tpcc_data(o)]
  OBVIOUS
<1>6. PICK v \in Version : v = Produced(t)
  BY <1>1, <1>3, Order
<1>7. /\ cache' = [cache EXCEPT ![t] = [o \in Objects(t) |-> read_tpcc_data(o)]]
      /\ new_state' = [new_state EXCEPT ![t] =
            [o \in Objects(t) |->
                IF o \in DOMAIN execute_tpcc_logic(data, x)
                THEN encode_tpcc_object(o, v, execute_tpcc_logic(data, x)[o])
                ELSE update_object_with_version(store[o], v)]]
  BY <1>4, <1>5, <1>6 DEF ExecuteTxn, Produced
<1>8. \A o \in Objects(t) : o \in Object /\ WellFormed(o, store[o]) /\ data[o] = read_tpcc_data(o)
  BY <1>1, <1>3, <1>5, Order DEF AllStored, Stored
<1>9. \A o \in Objects(t) : DataOK(o, data[o])
  BY <1>8 DEF WellFormed, read_tpcc_data, decode_tpcc_data
<1>10. RowsOK(data, x)
  BY <1>4, <1>5, <1>9 DEF RowsOK
<1>11. \A o \in Objects(t) : Effect(data[o], After(data, x, o), x, o)
  BY <1>4, <1>10, OrderEffect, PaymentEffect
<1>12. \A o \in Objects(t) : update_object_with_version(store[o], v) = encode_tpcc_object(o, v, data[o])
  <2>1. SUFFICES ASSUME NEW o \in Objects(t)
                 PROVE  update_object_with_version(store[o], v) = encode_tpcc_object(o, v, data[o])
    OBVIOUS
  <2>2. PICK a, d : store[o] = encode_tpcc_object(o, a, d) /\ d = data[o]
    BY <1>8 DEF WellFormed, read_tpcc_data, decode_tpcc_data
  <2>3. [encode_tpcc_object(o, a, d) EXCEPT !.version = v] = encode_tpcc_object(o, v, d)
    BY DEF encode_tpcc_object
  <2> QED
    BY <2>2, <2>3 DEF update_object_with_version
<1> DEFINE new == [o \in Objects(t) |-> encode_tpcc_object(o, v, After(data, x, o))]
<1>13. new_state' = [new_state EXCEPT ![t] = new]
  BY <1>7, <1>12 DEF After
<1>14. \A o \in Objects(t) : /\ new[o].version = v /\ new[o].contents.data = After(data, x, o)
                             /\ new[o] = encode_tpcc_object(o, v, After(data, x, o))
  BY DEF encode_tpcc_object
<1>15. \A o \in Objects(t) : WellFormed(o, new[o])
  BY <1>11, <1>14 DEF WellFormed, Effect
<1>16. new = [o \in Objects(t) |-> new[o]]
  OBVIOUS
<1> HIDE DEF new
<1>17. /\ DOMAIN new_state' = TxnId /\ new_state' = [u \in TxnId |-> new_state'[u]]
       /\ new_state'[t] = new
       /\ \A u \in TxnId : u # t => new_state'[u] = new_state[u]
  BY <1>1, <1>13 DEF Shapes
<1>18. \A o \in Objects(t) : Effect(read_tpcc_data(o), new[o].contents.data, txns[t], o)
  BY <1>4, <1>8, <1>11, <1>14
<1> QED
  BY <1>2, <1>3, <1>6, <1>7, <1>14, <1>15, <1>16, <1>17, <1>18

\* It keeps the invariant.
LEMMA ExecuteTxnExec ==
    ASSUME ExecInv, NEW t \in TxnId, ExecuteTxn(t)
    PROVE  ExecInv'
<1>1. VAInv /\ Workload /\ Shapes /\ InOrder /\ SkipsCascade /\ AllWrites /\ AllStored
  BY DEF ExecInv
<1>2. /\ t \in Txns /\ stage[t] = "execute" /\ Moves(t, "commit") /\ UNCHANGED <<store, inserted>>
      /\ cache' = [cache EXCEPT ![t] = [o \in Objects(t) |-> read_tpcc_data(o)]]
      /\ new_state' = [u \in TxnId |-> new_state'[u]]
      /\ \A u \in TxnId : u # t => new_state'[u] = new_state[u]
      /\ new_state'[t] = [o \in Objects(t) |-> new_state'[t][o]]
      /\ \A o \in Objects(t) :
            WellFormed(o, new_state'[t][o]) /\ new_state'[t][o].version = Produced(t)
  BY ExecuteDoes
<1>3. ~ Through(t) /\ ~ Ran(t) /\ Passed(t) /\ Txns \subseteq TxnId
  BY <1>1, <1>2, Order DEF Through, Ran, Passed
<1>4. Settled(t) /\ ~ Cut(t)
  BY <1>1, <1>2, <1>3 DEF InOrder, SkipsCascade, Cut
<1>5. "commit" \in Stage
  BY DEF Stage
<1>6. /\ stage' \in [TxnId -> Stage] /\ stage'[t] = "commit"
      /\ \A u \in TxnId : u # t => stage'[u] = stage[u]
  BY <1>1, <1>2, <1>5, OthersStay
<1>7. /\ VAInv' /\ Workload' /\ Txns' = Txns
      /\ \A u : Objects(u)' = Objects(u) /\ Produced(u)' = Produced(u)
  BY <1>1, <1>2, OrderKept DEF Moves
<1>8. InOrder'
  BY <1>1, <1>2, <1>3, <1>4, <1>5, InOrderKept
<1>9. SkipsCascade'
  BY <1>1, <1>2, <1>3, <1>4, <1>5, CascadeKept
<1>10. Shapes'
  <2>1. cache' = [u \in TxnId |-> cache'[u]]
    BY <1>1, <1>2 DEF Shapes
  <2>2. \A u \in TxnId : stage'[u] = "absent" <=> u \notin Txns
    BY <1>1, <1>2, <1>3, <1>6 DEF Shapes
  <2> QED
    BY <1>1, <1>2, <1>6, <1>7, <2>1, <2>2 DEF Shapes
<1>11. inserted[t] = {}
  BY <1>1, <1>3 DEF AllWrites, Writes
<1>12. AllWrites'
  <2>1. ASSUME NEW u \in TxnId, u # t PROVE Writes(u)'
    <3>1. Writes(u) /\ stage'[u] = stage[u] /\ new_state'[u] = new_state[u] /\ inserted' = inserted
      BY <1>1, <1>2, <1>6, <2>1 DEF AllWrites
    <3> QED
      BY <1>7, <3>1 DEF Writes, Ran
  <2>2. Writes(t)'
    BY <1>2, <1>6, <1>7, <1>11 DEF Writes, Ran
  <2> QED
    BY <2>1, <2>2 DEF AllWrites
<1>13. AllStored'
  <2>1. ASSUME NEW o \in Object PROVE Stored(o)'
    <3>1. Stored(o)
      BY <1>1 DEF AllStored
    <3>2. \A i : Inserted(i, o)' <=> Inserted(i, o)
      BY <1>2, <1>7 DEF Inserted
    <3>3. \A i \in Txns : Inserted(i, o) => i # t
      BY <1>11 DEF Inserted
    <3>4. \A i \in Txns : Inserted(i, o) => new_state'[i] = new_state[i]
      BY <1>2, <1>3, <3>3
    <3> QED
      BY <1>2, <1>7, <3>1, <3>2, <3>4 DEF Stored
  <2> QED
    BY <2>1 DEF AllStored
<1> QED
  BY <1>7, <1>8, <1>9, <1>10, <1>12, <1>13 DEF ExecInv

-----------------------------------------------------------------------------
(* Generating and committing transactions.                                 *)

\* Whatever is drawn is one of the warehouses.
LEMMA DrawsWarehouse ==
    ASSUME NEW n PROVE random_warehouse(n) \subseteq Warehouses
BY DEF random_warehouse, random_warehouse_from_node, warehouses_on_node

\* A line of an order.
LEMMA DrawsLine ==
    ASSUME NEW n, NEW w \in Warehouses PROVE order_lines(n, w) \subseteq OrderItem
BY DrawsWarehouse DEF order_lines, random_warehouse_excluding, OrderItem

\* An order.
LEMMA DrawsOrder ==
    ASSUME NEW n, NEW x \in generate_new_order(n) PROVE x \in Generable
<1>1. PICK w \in random_warehouse(n) :
         x \in [kind : {"NewOrder"}, w_id : {w}, d_id : Districts, c_id : Customers,
                items : UNION {[1..k -> order_lines(n, w)] : k \in OrderCounts}]
  BY DEF generate_new_order
<1>2. w \in Warehouses
  BY DrawsWarehouse
<1>3. PICK k \in OrderCounts : x.items \in [1..k -> order_lines(n, w)]
  BY <1>1
<1>4. k \in Nat
  BY TGAssumption
<1>5. x.items \in [1..k -> OrderItem]
  BY <1>2, <1>3, DrawsLine
<1>6. x.items \in Seq(OrderItem) /\ Len(x.items) = k
  BY <1>4, <1>5
<1>7. PICK d \in Districts, c \in Customers :
         \E items : x = [kind |-> "NewOrder", w_id |-> w, d_id |-> d, c_id |-> c, items |-> items]
  BY <1>1
<1>8. x \in [kind : {"NewOrder"}, w_id : Warehouses, d_id : Districts, c_id : Customers,
             items : Seq(OrderItem)]
  BY <1>2, <1>6, <1>7
<1> QED
  BY <1>6, <1>8 DEF Generable, TpccTransaction

\* A payment.
LEMMA DrawsPayment ==
    ASSUME NEW n, NEW x \in generate_payment(n) PROVE x \in Generable
<1> DEFINE Pay(w, d) ==
       [kind : {"Payment"}, w_id : {w}, d_id : {d}, c_id : Customers, h_amount : Amounts,
        customer_of :
            {<<w, d>>} \cup
            (IF NumWarehouses > 1
             THEN random_warehouse_excluding(n, w) \X Districts ELSE {})]
<1>0. generate_payment(n) = UNION {Pay(w, d) : w \in random_warehouse(n), d \in Districts}
  BY DEF generate_payment
<1>1. PICK w \in random_warehouse(n), d \in Districts : x \in Pay(w, d)
  <2> HIDE DEF Pay
  <2> QED
    BY <1>0
<1>2. w \in Warehouses
  BY DrawsWarehouse
<1>3. random_warehouse_excluding(n, w) \X Districts \subseteq Warehouses \X Districts
  BY DrawsWarehouse DEF random_warehouse_excluding
<1>4. x \in [kind : {"Payment"}, w_id : Warehouses, d_id : Districts, c_id : Customers,
            h_amount : Amounts, customer_of : Warehouses \X Districts]
  BY <1>1, <1>2, <1>3
<1>5. x.kind # "NewOrder"
  BY <1>4
<1> QED
  BY <1>4, <1>5 DEF Generable, TpccTransaction

\* No task generates more than all the transactions.
LEMMA ChunkCountBound == ASSUME NEW g \in GenTask PROVE ChunkCount(g) \in 0..TotalTxns
<1>1. g \in Nat /\ TotalTxns \in Nat /\ NumTasks \in Nat \ {0}
  BY TpccConstants DEF GenTask
<1>2. PICK size \in Nat : size = CeilDiv(TotalTxns, NumTasks)
  BY <1>1 DEF CeilDiv
<1>3. (g + 1) * size \in Nat /\ g * size \in Nat
  BY <1>1
<1>4. PICK a \in Nat, b \in Nat : a = (g + 1) * size /\ b = g * size
  BY <1>3
<1> QED
  BY <1>1, <1>2, <1>4 DEF ChunkCount

\* A step of the generator changes the chunk of one task, by at most one transaction.
LEMMA GenerateStep ==
    ASSUME NEW g \in GenTask, GenerateTransaction(g), chunk \in [GenTask -> Seq(Generable)],
           \A a \in GenTask : Len(chunk[a]) <= ChunkCount(a)
    PROVE  /\ chunk' \in [GenTask -> Seq(Generable)] /\ hotspot_percentage' = hotspot_percentage
           /\ \A a \in GenTask : Len(chunk'[a]) <= ChunkCount(a) /\ Len(chunk[a]) <= Len(chunk'[a])
<1>0. hotspot_percentage' = hotspot_percentage /\ Len(chunk[g]) < ChunkCount(g)
  BY DEF GenerateTransaction
<1>1. CASE chunk' = chunk
  BY <1>0, <1>1
<1>2. CASE chunk' # chunk
  <2>1. PICK n : n = maybe_rotate_hotspot(g).node
    OBVIOUS
  <2>2. PICK x \in generate_new_order(n) \cup generate_payment(n) :
           chunk' = [chunk EXCEPT ![g] = Append(@, x)]
    BY <1>2, <2>1 DEF GenerateTransaction
  <2>3. x \in Generable
    BY DrawsOrder, DrawsPayment
  <2>4. chunk[g] \in Seq(Generable)
    OBVIOUS
  <2>5. /\ Append(chunk[g], x) \in Seq(Generable) /\ Len(Append(chunk[g], x)) = Len(chunk[g]) + 1
        /\ Len(chunk[g]) \in Nat
    BY <2>3, <2>4
  <2>6. Len(chunk[g]) + 1 <= ChunkCount(g)
    <3>1. ChunkCount(g) \in Int
      BY ChunkCountBound, TpccConstants
    <3> QED
      BY <1>0, <2>5, <3>1
  <2>7. \A a \in GenTask : a # g => chunk'[a] = chunk[a]
    BY <2>2
  <2>8. chunk'[g] = Append(chunk[g], x)
    BY <2>2
  <2>9. chunk' \in [GenTask -> Seq(Generable)]
    BY <2>2, <2>5
  <2>10. \A a \in GenTask : Len(chunk[a]) \in Nat
    OBVIOUS
  <2>11. ASSUME NEW a \in GenTask
         PROVE  Len(chunk'[a]) <= ChunkCount(a) /\ Len(chunk[a]) <= Len(chunk'[a])
    <3>1. CASE a = g
      BY <2>5, <2>6, <2>8, <3>1
    <3>2. CASE a # g
      BY <2>7, <2>10, <3>2
    <3> QED
      BY <3>1, <3>2
  <2> QED
    BY <1>0, <2>9, <2>11
<1> QED
  BY <1>1, <1>2

\* Generating keeps the invariant.
LEMMA GenerateExec ==
    ASSUME ExecInv, NEW g \in GenTask, Generate(g)
    PROVE  ExecInv'
<1>1. VAInv /\ Workload /\ Shapes /\ InOrder /\ SkipsCascade /\ AllWrites /\ AllStored
  BY DEF ExecInv
<1>2. GenerateTransaction(g) /\ UNCHANGED <<orderVars, execVars>>
  BY DEF Generate
<1>3. /\ chunk' \in [GenTask -> Seq(Generable)] /\ hotspot_percentage' = hotspot_percentage
      /\ \A a \in GenTask : Len(chunk'[a]) <= ChunkCount(a) /\ Len(chunk[a]) <= Len(chunk'[a])
  BY <1>1, <1>2, GenerateStep DEF Workload
<1>4. /\ assigned' = assigned /\ shared_object_versions' = shared_object_versions /\ txns' = txns
      /\ submitted' = submitted /\ store' = store /\ stage' = stage /\ cache' = cache
      /\ new_state' = new_state /\ inserted' = inserted
  BY <1>2 DEF orderVars, execVars
<1>5. VAInv'
  BY <1>1, <1>4, VAUnchanged DEF vaVars
<1>6. Workload'
  <2>1. \A a \in GenTask : submitted[a] <= Len(chunk'[a])
    <3>1. \A a \in GenTask : submitted[a] \in Nat /\ Len(chunk[a]) \in Nat /\ Len(chunk'[a]) \in Nat
                             /\ submitted[a] <= Len(chunk[a])
      <4>1. \A a \in GenTask : chunk[a] \in Seq(Generable) /\ chunk'[a] \in Seq(Generable)
        BY <1>1, <1>3 DEF Workload
      <4> QED
        BY <1>1, <4>1 DEF Workload
    <3> QED
      BY <1>3, <3>1
  <2>2. Txns' = Txns /\ \A t : Objects(t)' = Objects(t)
    BY <1>4 DEF Txns, Objects
  <2> QED
    BY <1>1, <1>3, <1>4, <2>1, <2>2 DEF Workload
<1>7. Txns' = Txns /\ (\A t : Objects(t)' = Objects(t) /\ Produced(t)' = Produced(t))
      /\ (\A i, j : Conflicts(i, j)' <=> Conflicts(i, j))
      /\ (\A i, j, o : Predecessor(i, j, o)' <=> Predecessor(i, j, o))
  BY <1>4 DEF Txns, Objects, Produced, Conflicts, Predecessor, NoneBetween
<1>8. Shapes'
  BY <1>1, <1>4, <1>7 DEF Shapes
<1>9. InOrder'
  <2>1. \A u : (Passed(u)' <=> Passed(u)) /\ (Settled(u)' <=> Settled(u))
    BY <1>4, <1>7 DEF Passed, Settled, Through
  <2> QED
    BY <1>1, <1>7, <2>1 DEF InOrder
<1>10. SkipsCascade'
  BY <1>1, <1>4, <1>7 DEF SkipsCascade
<1>11. AllWrites'
  BY <1>1, <1>4, <1>7 DEF AllWrites, Writes, Ran
<1>12. AllStored'
  BY <1>1, <1>4, <1>7 DEF AllStored, Stored, Inserted
<1> QED
  BY <1>5, <1>6, <1>8, <1>9, <1>10, <1>11, <1>12 DEF ExecInv

\* What committing adds to the order.
LEMMA CommitDoes ==
    ASSUME ExecInv, NEW g \in GenTask, Commit(g)
    PROVE  \E n \in TxnId, x \in Generable :
              /\ n \notin Txns /\ n = Len(assigned) + 1 /\ VAInv' /\ Txns' = Txns \cup {n}
              /\ txns' = Append(txns, x) /\ Len(txns) = Len(assigned)
              /\ Len(assigned') = Len(assigned) + 1
              /\ \A t \in Txns : /\ Objects(t)' = Objects(t) /\ Produced(t)' = Produced(t)
                                 /\ txns'[t] = txns[t]
              /\ txns'[n] = x /\ Objects(n)' = access_set(x)
              /\ stage' = [stage EXCEPT ![n] = "await"]
              /\ submitted[g] < Len(chunk[g])
              /\ submitted' = [submitted EXCEPT ![g] = @ + 1]
              /\ UNCHANGED <<tgVars, store, cache, new_state, inserted>>
<1>1. VAInv /\ Workload /\ Shapes
  BY DEF ExecInv
<1>2. PICK x : /\ x = chunk[g][submitted[g] + 1] /\ txns' = Append(txns, x)
               /\ AssignSharedObjectVersions(access_set(x))
               /\ stage' = [stage EXCEPT ![Len(txns) + 1] = "await"]
  BY DEF Commit
<1>3. submitted[g] < Len(chunk[g]) /\ submitted' = [submitted EXCEPT ![g] = @ + 1]
      /\ UNCHANGED <<tgVars, store, cache, new_state, inserted>>
  BY DEF Commit
<1>4. x \in Generable /\ x \in TpccTransaction
  <2>1. chunk[g] \in Seq(Generable) /\ submitted[g] \in Nat
    BY <1>1 DEF Workload
  <2>2. submitted[g] + 1 \in 1..Len(chunk[g])
    BY <1>3, <2>1
  <2>3. x \in Generable
    BY <1>2, <2>1, <2>2
  <2> QED
    BY <2>3 DEF Generable
<1>5. access_set(x) \in SUBSET Object
  BY <1>4, Accesses
<1>6. VAInv'
  BY <1>1, <1>2, <1>5, VAStepInv
<1>7. PICK n : n = Len(assigned) + 1
  OBVIOUS
<1>8. PICK required : /\ assigned' = Append(assigned, required) /\ DOMAIN required = access_set(x)
                      /\ Len(assigned) < MaxTxns
  BY <1>2 DEF AssignSharedObjectVersions
<1>9. assigned \in Seq(RequiredVersions) /\ Len(assigned) \in Nat
  BY <1>1 DEF VAInv, VATypeOK
<1>10. txns \in Seq(Generable) /\ Len(txns) = Len(assigned)
  BY <1>1 DEF Workload
<1>11. n \in TxnId /\ n \notin Txns /\ Len(txns) + 1 = n
  BY <1>7, <1>8, <1>9, <1>10, TpccConstants DEF Txns
<1>12. Txns' = Txns \cup {n} /\ Len(assigned') = Len(assigned) + 1
  <2>1. DOMAIN assigned' = 1..(Len(assigned) + 1) /\ DOMAIN assigned = 1..Len(assigned)
    BY <1>8, <1>9
  <2>2. 1..(Len(assigned) + 1) = (1..Len(assigned)) \cup {Len(assigned) + 1}
    BY <1>9
  <2>3. Len(assigned') = Len(assigned) + 1
    BY <1>8, <1>9
  <2> QED
    BY <1>7, <2>1, <2>2, <2>3 DEF Txns
<1>13. \A t \in Txns : assigned'[t] = assigned[t] /\ txns'[t] = txns[t]
  <2>1. Txns = 1..Len(assigned)
    BY <1>9 DEF Txns
  <2>2. \A t \in 1..Len(assigned) : assigned'[t] = assigned[t]
    BY <1>8, <1>9
  <2>3. \A t \in 1..Len(assigned) : txns'[t] = txns[t]
    BY <1>2, <1>10
  <2> QED
    BY <2>1, <2>2, <2>3
<1>14. \A t \in Txns : Objects(t)' = Objects(t) /\ Produced(t)' = Produced(t) /\ txns'[t] = txns[t]
  BY <1>13 DEF Objects, Produced
<1>15. assigned'[n] = required /\ txns'[n] = x
  BY <1>2, <1>7, <1>8, <1>9, <1>10
<1>16. Objects(n)' = access_set(x)
  BY <1>8, <1>15 DEF Objects
<1>17. stage' = [stage EXCEPT ![n] = "await"]
  BY <1>2, <1>11
<1> QED
  BY <1>2, <1>3, <1>4, <1>6, <1>7, <1>10, <1>11, <1>12, <1>14, <1>15, <1>16, <1>17

\* Committing keeps the invariant.
LEMMA CommitExec ==
    ASSUME ExecInv, NEW g \in GenTask, Commit(g)
    PROVE  ExecInv'
<1>1. VAInv /\ Workload /\ Shapes /\ InOrder /\ SkipsCascade /\ AllWrites /\ AllStored
  BY DEF ExecInv
<1>2. PICK n \in TxnId, x \in Generable :
              /\ n \notin Txns /\ n = Len(assigned) + 1 /\ VAInv' /\ Txns' = Txns \cup {n}
              /\ txns' = Append(txns, x) /\ Len(txns) = Len(assigned)
              /\ Len(assigned') = Len(assigned) + 1
              /\ \A t \in Txns : /\ Objects(t)' = Objects(t) /\ Produced(t)' = Produced(t)
                                 /\ txns'[t] = txns[t]
              /\ txns'[n] = x /\ Objects(n)' = access_set(x)
              /\ stage' = [stage EXCEPT ![n] = "await"]
              /\ submitted[g] < Len(chunk[g])
              /\ submitted' = [submitted EXCEPT ![g] = @ + 1]
              /\ UNCHANGED <<tgVars, store, cache, new_state, inserted>>
  BY CommitDoes
<1>3. /\ Txns \subseteq TxnId /\ Txns = 1..Len(assigned) /\ Len(assigned) \in Nat
      /\ \A t \in Txns : t \in Nat /\ \A i \in 1..(t - 1) : i \in Txns
  BY <1>1, Order
<1>4. /\ stage' \in [TxnId -> Stage] /\ stage'[n] = "await"
      /\ \A u \in TxnId : u # n => stage'[u] = stage[u]
  BY <1>1, <1>2 DEF Shapes, Stage
<1>5. Workload'
  <2>1. hotspot_percentage' = hotspot_percentage /\ chunk' = chunk
    BY <1>2 DEF tgVars
  <2>2. txns' \in Seq(Generable) /\ Len(txns') = Len(txns) + 1
    BY <1>1, <1>2 DEF Workload
  <2>3. submitted' \in [GenTask -> Nat] /\ \A a \in GenTask : submitted'[a] <= Len(chunk[a])
    <3>1. /\ submitted \in [GenTask -> Nat] /\ \A a \in GenTask : submitted[a] <= Len(chunk[a])
          /\ Len(chunk[g]) \in Nat
      <4>1. chunk[g] \in Seq(Generable)
        BY <1>1 DEF Workload
      <4> QED
        BY <1>1, <4>1 DEF Workload
    <3> QED
      BY <1>2, <3>1
  <2>4. \A t \in Txns : Objects(t) = access_set(txns[t])
    BY <1>1 DEF Workload
  <2>5. \A t \in Txns' : Objects(t)' = access_set(txns'[t])
    BY <1>2, <2>4
  <2>6. \A t \in Txns' : (Objects(t) = access_set(txns[t]))'
    BY <2>5 DEF access_set, read_set, write_set, CustomerOf, Stocks
  <2> QED
    BY <1>1, <1>2, <2>1, <2>2, <2>3, <2>6 DEF Workload
<1>6. Shapes'
  <2>1. \A u \in TxnId : stage'[u] = "absent" <=> u \notin Txns'
    BY <1>1, <1>2, <1>4 DEF Shapes
  <2> QED
    BY <1>1, <1>2, <1>4, <2>1 DEF Shapes
<1>7. \A t \in Txns : /\ stage'[t] = stage[t]
                      /\ \A i \in 1..(t - 1) : /\ stage'[i] = stage[i]
                                               /\ Conflicts(i, t)' <=> Conflicts(i, t)
                                               /\ \A o : Predecessor(i, t, o)' <=> Predecessor(i, t, o)
  <2>1. ASSUME NEW t \in Txns, NEW i \in 1..(t - 1)
        PROVE  /\ stage'[i] = stage[i] /\ (Conflicts(i, t)' <=> Conflicts(i, t))
               /\ \A o : Predecessor(i, t, o)' <=> Predecessor(i, t, o)
    <3>1. i \in Txns /\ i \in TxnId /\ i # n
      BY <1>2, <1>3
    <3>2. \A k \in 1..(t - 1) : Objects(k)' = Objects(k)
      BY <1>2, <1>3
    <3>3. \A k \in (i + 1)..(t - 1) : Objects(k)' = Objects(k)
      BY <1>3, <3>2
    <3>4. Objects(t)' = Objects(t) /\ Objects(i)' = Objects(i)
      BY <1>2, <3>1
    <3>5. \A o : NoneBetween(i, t, o)' <=> NoneBetween(i, t, o)
      BY <3>3 DEF NoneBetween
    <3>6. Conflicts(i, t)' <=> Conflicts(i, t)
      BY <3>4 DEF Conflicts
    <3> QED
      BY <1>4, <3>1, <3>4, <3>5, <3>6 DEF Predecessor
  <2>2. \A t \in Txns : stage'[t] = stage[t]
    BY <1>2, <1>3, <1>4
  <2> QED
    BY <2>1, <2>2
<1>8. InOrder'
  <2>1. ASSUME NEW t \in Txns', Passed(t)' PROVE Settled(t)'
    <3>1. t \in Txns
      BY <1>2, <1>4, <2>1 DEF Passed
    <3>2. Passed(t)
      BY <1>7, <2>1, <3>1 DEF Passed
    <3>3. Settled(t)
      BY <1>1, <3>1, <3>2 DEF InOrder
    <3> QED
      BY <1>7, <3>1, <3>3 DEF Settled, Through
  <2> QED
    BY <2>1 DEF InOrder
<1>9. SkipsCascade'
  <2>1. ASSUME NEW t \in Txns'
        PROVE  /\ stage'[t] = "skipped" => Cut(t)' \/ t \in MayFail
               /\ stage'[t] \in {"execute", "commit", "done"} => ~ Cut(t)'
    <3>1. CASE t = n
      BY <1>4, <3>1
    <3>2. CASE t \in Txns
      <4>1. Cut(t)' <=> Cut(t)
        BY <1>2, <1>7, <3>2 DEF Cut
      <4>2. /\ stage[t] = "skipped" => Cut(t) \/ t \in MayFail
            /\ stage[t] \in {"execute", "commit", "done"} => ~ Cut(t)
        BY <1>1, <3>2 DEF SkipsCascade, Cut
      <4> QED
        BY <1>7, <3>2, <4>1, <4>2
    <3> QED
      BY <1>2, <3>1, <3>2
  <2> QED
    BY <2>1 DEF SkipsCascade, Cut
<1>10. stage[n] = "absent" /\ inserted[n] = {} /\ new_state[n] = << >>
  BY <1>1, <1>2 DEF Shapes, AllWrites, Writes, Ran
<1>11. AllWrites'
  <2>1. ASSUME NEW u \in TxnId PROVE Writes(u)'
    <3>1. CASE u = n
      BY <1>2, <1>4, <1>10, <3>1 DEF Writes, Ran
    <3>2. CASE u # n
      <4>1. Writes(u) /\ stage'[u] = stage[u] /\ new_state' = new_state /\ inserted' = inserted
        BY <1>1, <1>2, <1>4, <3>2 DEF AllWrites
      <4>2. Ran(u) => Objects(u)' = Objects(u) /\ Produced(u)' = Produced(u)
        BY <1>1, <1>2 DEF Ran, Shapes
      <4>3. Ran(u)' <=> Ran(u)
        BY <4>1 DEF Ran
      <4>4. stage[u] = "done" => Ran(u)
        BY DEF Ran
      <4> QED
        BY <4>1, <4>2, <4>3, <4>4 DEF Writes
    <3> QED
      BY <3>1, <3>2
  <2> QED
    BY <2>1 DEF AllWrites
<1>12. AllStored'
  <2>1. ASSUME NEW o \in Object PROVE Stored(o)'
    <3>1. Stored(o)
      BY <1>1 DEF AllStored
    <3>2. \A i \in Txns' : Inserted(i, o)' => i \in Txns /\ Inserted(i, o)
      BY <1>2, <1>10 DEF Inserted
    <3> QED
      BY <1>2, <3>1, <3>2 DEF Stored
  <2> QED
    BY <2>1 DEF AllStored
<1> QED
  BY <1>2, <1>5, <1>6, <1>8, <1>9, <1>11, <1>12 DEF ExecInv

\* The database as it is populated.
LEMMA InitialRows ==
    ASSUME NEW o \in Object, NEW q \in StockQuantity
    PROVE  /\ DataOK(o, InitialData(o, q))
           /\ o \in WarehouseIds => InitialData(o, q).w_ytd = INITIAL_W_YTD_CENTS
           /\ o \in DistrictIds => /\ InitialData(o, q).d_ytd = INITIAL_D_YTD_CENTS
                                   /\ InitialData(o, q).d_next_o_id = INITIAL_NEXT_O_ID
           /\ o \in CustomerIds => InitialData(o, q).c_balance + InitialData(o, q).c_ytd_payment = 0
           /\ o \in StockIds => InitialData(o, q).s_order_cnt = 0
<1>0. o \in WarehouseIds \/ o \in DistrictIds \/ o \in CustomerIds \/ o \in StockIds
  BY TpccConstants DEF TpccObjects
<1>1. q \in 10..100
  BY TpccAssumption
<1>2. CASE o \in WarehouseIds
  <2>1. o[1] = "W" /\ o \notin DistrictIds /\ o \notin CustomerIds /\ o \notin StockIds
    BY <1>2, KeyKinds
  <2>2. InitialData(o, q) = [w_ytd |-> INITIAL_W_YTD_CENTS]
    BY <2>1 DEF InitialData
  <2> QED
    BY <2>1, <2>2 DEF DataOK, Warehouse, INITIAL_W_YTD_CENTS
<1>3. CASE o \in DistrictIds
  <2>1. o[1] = "D" /\ o \notin WarehouseIds /\ o \notin CustomerIds /\ o \notin StockIds
    BY <1>3, KeyKinds
  <2>2. InitialData(o, q) = [d_ytd |-> INITIAL_D_YTD_CENTS, d_next_o_id |-> INITIAL_NEXT_O_ID]
    BY <2>1 DEF InitialData
  <2> QED
    BY <2>1, <2>2 DEF DataOK, District, INITIAL_D_YTD_CENTS, INITIAL_NEXT_O_ID
<1>4. CASE o \in CustomerIds
  <2>1. o[1] = "C" /\ o \notin WarehouseIds /\ o \notin DistrictIds /\ o \notin StockIds
    BY <1>4, KeyKinds
  <2>2. InitialData(o, q) = [c_balance |-> INITIAL_BALANCE_CENTS,
                             c_ytd_payment |-> INITIAL_YTD_PAYMENT_CENTS, c_payment_cnt |-> 1]
    BY <2>1 DEF InitialData
  <2> QED
    BY <2>1, <2>2 DEF DataOK, Customer, INITIAL_BALANCE_CENTS, INITIAL_YTD_PAYMENT_CENTS
<1>5. CASE o \in StockIds
  <2>1. o[1] = "S" /\ o \notin WarehouseIds /\ o \notin DistrictIds /\ o \notin CustomerIds
    BY <1>5, KeyKinds
  <2>2. InitialData(o, q) = [s_quantity |-> q, s_ytd |-> 0, s_order_cnt |-> 0, s_remote_cnt |-> 0]
    BY <2>1 DEF InitialData
  <2> QED
    BY <1>1, <2>1, <2>2 DEF DataOK, Stock
<1> QED
  BY <1>0, <1>2, <1>3, <1>4, <1>5

\* Initially.
LEMMA InitExec == ASSUME TpccInit PROVE ExecInv
<1>1. VAInv
  BY VAInitInv DEF TpccInit
<1>2. Len(assigned) = 0 /\ Txns = {}
  BY DEF TpccInit, VAInit, Txns
<1>3. Workload
  <2>1. \A g \in GenTask : 0 <= ChunkCount(g)
    BY ChunkCountBound, TpccConstants
  <2>2. chunk = [g \in GenTask |-> << >>] /\ hotspot_percentage \in Hotspots
    BY DEF TpccInit, TGInit
  <2>3. chunk \in [GenTask -> Seq(Generable)] /\ \A g \in GenTask : Len(chunk[g]) = 0
    BY <2>2
  <2> QED
    BY <1>2, <2>1, <2>2, <2>3 DEF TpccInit, Workload
<1>4. PICK q \in StockQuantity :
         store = [id \in TpccObjects |->
                    encode_tpcc_object(id, InitialVersion, InitialData(id, q))]
  BY DEF TpccInit
<1>5. Shapes
  BY <1>2, <1>4, TpccConstants DEF TpccInit, Shapes, Stage
<1>6. InOrder /\ SkipsCascade
  BY <1>2 DEF InOrder, SkipsCascade
<1>7. AllWrites
  BY DEF TpccInit, AllWrites, Writes, Ran
<1>8. ASSUME NEW o \in Object PROVE Stored(o)
  <2>1. store[o] = encode_tpcc_object(o, 2, InitialData(o, q)) /\ 2 \in Version
    BY <1>4, TpccConstants
  <2>2. store[o].version = 2 /\ store[o].contents.data = InitialData(o, q)
    BY <2>1 DEF encode_tpcc_object
  <2>3. WellFormed(o, store[o])
    BY <2>1, <2>2, InitialRows DEF WellFormed
  <2> QED
    BY <1>2, <2>2, <2>3, TpccConstants DEF Stored
<1> QED
  BY <1>1, <1>3, <1>5, <1>6, <1>7, <1>8 DEF ExecInv, AllStored

\* Nothing changes.
LEMMA StutterExec == ASSUME ExecInv, UNCHANGED tpccVars PROVE ExecInv'
<1>1. UNCHANGED <<tgVars, orderVars>> /\ UNCHANGED execVars
  BY DEF tpccVars
<1>2. /\ store' = store /\ stage' = stage /\ cache' = cache /\ new_state' = new_state
      /\ inserted' = inserted
  BY <1>1 DEF execVars
<1>3. VAInv /\ Workload /\ Shapes /\ InOrder /\ SkipsCascade /\ AllWrites /\ AllStored
  BY DEF ExecInv
<1>4. /\ VAInv' /\ Workload' /\ Txns' = Txns
      /\ \A u : Objects(u)' = Objects(u) /\ Produced(u)' = Produced(u)
      /\ \A i, j : Conflicts(i, j)' <=> Conflicts(i, j)
      /\ \A i, j, x : Predecessor(i, j, x)' <=> Predecessor(i, j, x)
  BY <1>1, <1>3, OrderKept
<1>5. Shapes'
  BY <1>2, <1>3, <1>4 DEF Shapes
<1>6. InOrder'
  <2>1. \A u : (Passed(u)' <=> Passed(u)) /\ (Settled(u)' <=> Settled(u))
    BY <1>2, <1>4 DEF Passed, Settled, Through
  <2> QED
    BY <1>3, <1>4, <2>1 DEF InOrder
<1>7. SkipsCascade'
  BY <1>2, <1>3, <1>4 DEF SkipsCascade
<1>8. AllWrites'
  BY <1>2, <1>3, <1>4 DEF AllWrites, Writes, Ran
<1>9. AllStored'
  BY <1>2, <1>3, <1>4 DEF AllStored, Stored, Inserted
<1> QED
  BY <1>4, <1>5, <1>6, <1>7, <1>8, <1>9 DEF ExecInv

\* Every step keeps the invariant.
LEMMA NextExec == ASSUME ExecInv, [TpccNext]_tpccVars PROVE ExecInv'
<1>1. CASE UNCHANGED tpccVars
  BY <1>1, StutterExec
<1>2. ASSUME NEW g \in GenTask, Generate(g) \/ Commit(g) PROVE ExecInv'
  BY <1>2, GenerateExec, CommitExec
<1>3. ASSUME NEW t \in TxnId, TaskStep(t) PROVE ExecInv'
  BY <1>3, CheckTxnExec, ExecuteTxnExec, CommitObjectExec, NotifyTxnExec DEF TaskStep
<1> QED
  BY <1>1, <1>2, <1>3 DEF TpccNext, Finished

(***************************************************************************)
(* However the tasks interleave and whichever verifications fail, the      *)
(* order, the progress and the store of the executor stay as ExecInv says. *)
(***************************************************************************)
THEOREM ExecInvariant == TpccSpec => []ExecInv
<1>1. TpccInit => ExecInv
  BY InitExec
<1>2. ExecInv /\ [TpccNext]_tpccVars => ExecInv'
  BY NextExec
<1> QED
  BY <1>1, <1>2, PTL DEF TpccSpec

(***************************************************************************)
(* A transaction is skipped exactly when it failed verification itself or  *)
(* one of its predecessors was skipped: waiting for the predecessors and   *)
(* checking the versions together lose nothing and let nothing through.    *)
(***************************************************************************)
THEOREM SkipsCascadeAlways == TpccSpec => []SkipsCascade
<1>1. ExecInv => SkipsCascade
  BY DEF ExecInv
<1> QED
  BY <1>1, ExecInvariant, PTL

\* The types follow.
LEMMA TypesFollow == ExecInv => TpccTypeOK
<1> SUFFICES ASSUME ExecInv PROVE TpccTypeOK
  OBVIOUS
<1>1. VAInv /\ Workload /\ Shapes /\ AllWrites /\ AllStored
  BY DEF ExecInv
<1>2. shared_object_versions \in [TpccObjects -> {Absent} \cup Version]
  BY <1>1, TpccConstants DEF VAInv, VATypeOK
<1>3. Len(txns) = Len(assigned) /\ Len(txns) <= MaxTxns
  BY <1>1 DEF VAInv, VATypeOK, Workload
<1>4. \A t \in DOMAIN txns : txns[t] \in TpccTransaction
  <2>1. \A t \in DOMAIN txns : txns[t] \in Generable
    BY <1>1 DEF Workload
  <2> QED
    BY <2>1 DEF Generable
<1>5. submitted \in [GenTask -> 0..TotalTxns]
  <2>1. ASSUME NEW g \in GenTask PROVE submitted[g] \in 0..TotalTxns
    <3>1. chunk[g] \in Seq(Generable) /\ submitted[g] \in Nat /\ submitted[g] <= Len(chunk[g])
          /\ Len(chunk[g]) <= ChunkCount(g)
      BY <1>1 DEF Workload
    <3>2. Len(chunk[g]) \in Nat /\ ChunkCount(g) \in 0..TotalTxns /\ TotalTxns \in Nat
      BY <3>1, ChunkCountBound, TpccConstants
    <3> QED
      BY <3>1, <3>2
  <2> QED
    BY <1>1, <2>1 DEF Workload
<1>6. DOMAIN store = TpccObjects
  BY <1>1, TpccConstants DEF Shapes
<1>7. \A o \in TpccObjects : WellFormed(o, store[o])
  BY <1>1, TpccConstants DEF AllStored, Stored
<1>8. \A o \in TpccObjects : /\ store[o].version \in Version /\ store[o].contents.id = o
                             /\ DataOK(o, read_tpcc_data(o))
  <2>1. \A o, a, d : encode_tpcc_object(o, a, d).contents.id = o
    BY DEF encode_tpcc_object
  <2>2. \A o \in TpccObjects :
           /\ store[o] = encode_tpcc_object(o, store[o].version, store[o].contents.data)
           /\ store[o].version \in Version /\ DataOK(o, store[o].contents.data)
    BY <1>7 DEF WellFormed
  <2>3. \A o \in TpccObjects : store[o].contents.id = o
    <3>1. ASSUME NEW o \in TpccObjects PROVE store[o].contents.id = o
      <4>1. PICK a, d : store[o] = encode_tpcc_object(o, a, d)
        BY <2>2
      <4> QED
        BY <2>1, <4>1
    <3> QED
      BY <3>1
  <2> QED
    BY <2>2, <2>3 DEF read_tpcc_data, decode_tpcc_data
<1>9. WarehouseIds \subseteq TpccObjects /\ DistrictIds \subseteq TpccObjects
      /\ CustomerIds \subseteq TpccObjects /\ StockIds \subseteq TpccObjects
  BY DEF TpccObjects
<1>10. /\ \A o \in WarehouseIds : read_tpcc_data(o) \in Warehouse
       /\ \A o \in DistrictIds : read_tpcc_data(o) \in District
       /\ \A o \in CustomerIds : read_tpcc_data(o) \in Customer
       /\ \A o \in StockIds : read_tpcc_data(o) \in Stock /\ read_tpcc_data(o).s_quantity \in 10..100
  BY <1>8, <1>9 DEF DataOK
<1>11. stage \in [TxnId -> {"absent", "await", "execute", "commit", "done", "skipped"}]
  BY <1>1 DEF Shapes, Stage
<1>12. ASSUME NEW t \in TxnId PROVE stage[t] \in {"commit", "done"} <=> new_state[t] # << >>
  <2>1. Writes(t)
    BY <1>1 DEF AllWrites
  <2>2. Ran(t) => t \in Txns
    BY <1>1 DEF Ran, Shapes
  <2>3. t \in Txns => Objects(t) # {}
    BY <1>1, Order
  <2>4. Ran(t) => DOMAIN new_state[t] # {}
    <3>1. Ran(t) => new_state[t] = [o \in Objects(t) |-> new_state[t][o]]
      BY <2>1 DEF Writes
    <3>2. Ran(t) => DOMAIN new_state[t] = Objects(t)
      BY <3>1
    <3> QED
      BY <2>2, <2>3, <3>2
  <2>5. ~ Ran(t) => new_state[t] = << >>
    BY <2>1 DEF Writes
  <2>6. DOMAIN << >> = {}
    OBVIOUS
  <2> QED
    BY <2>4, <2>5, <2>6 DEF Ran
<1> QED
  BY <1>2, <1>3, <1>4, <1>5, <1>6, <1>8, <1>10, <1>11, <1>12 DEF TpccTypeOK

(***************************************************************************)
(* Types of the executor, in every state: each object holds the rows of    *)
(* its kind under its own identifier, and no stock leaves 10..100 whatever *)
(* is ordered, in whatever interleaving.                                   *)
(***************************************************************************)
THEOREM TpccTypeCorrect == TpccSpec => []TpccTypeOK
BY ExecInvariant, TypesFollow, PTL

-----------------------------------------------------------------------------
(* The books.                                                              *)

(***************************************************************************)
(* The books as of the last computation: while a transaction inserts its   *)
(* objects one by one, what it is going to insert.                         *)
(***************************************************************************)
Writing(t, o) == stage[t] = "commit" /\ o \in Objects(t)

Ledger(o) ==
    IF \E t \in Txns : Writing(t, o)
    THEN decode_tpcc_data(new_state[CHOOSE t \in Txns : Writing(t, o)][o])
    ELSE read_tpcc_data(o)

Books == [o \in Object |-> Ledger(o)]

\* The order lines on stock s that have been executed.
Lines(s) ==
    {p \in Txns \X (1..Max(OrderCounts \cup {0})) : Ran(p[1]) /\ IsLine(txns[p[1]], p[2], s)}

\* The orders at district d that have been executed.
OrdersRun(d) == {t \in Txns : Ran(t) /\ IsOrder(txns[t]) /\ DistrictOf(txns[t]) = d}

\* What the districts of w have taken in.
Takings(books, w) ==
    [d \in Districts |-> books[object_id_for_district(w, d)].d_ytd - INITIAL_D_YTD_CENTS]

DistrictsBalance(books) ==
    \A w \in Warehouses :
        books[object_id_for_warehouse(w)].w_ytd - INITIAL_W_YTD_CENTS =
           SumOver(Takings(books, w), Districts)

CustomersBalance(books) ==
    \A c \in CustomerIds : books[c].c_balance + books[c].c_ytd_payment = 0

StocksCount(books) == \A s \in StockIds : books[s].s_order_cnt = Cardinality(Lines(s))

OrdersCount(books) ==
    \A d \in DistrictIds :
        books[d].d_next_o_id = INITIAL_NEXT_O_ID + Cardinality(OrdersRun(d))

BooksOK(books) == \A o \in Object : DataOK(o, books[o])

LedgerBalances ==
    /\ BooksOK(Books) /\ DistrictsBalance(Books) /\ CustomersBalance(Books)
    /\ StocksCount(Books) /\ OrdersCount(Books)

TpccInv == ExecInv /\ LedgerBalances /\ OrderNumbersDense

(***************************************************************************)
(* What the books say: of a row that is being inserted, and of one that is *)
(* not.                                                                    *)
(***************************************************************************)
BooksAre ==
    \A o \in Object :
        /\ \A t \in Txns : Writing(t, o) => Books[o] = new_state[t][o].contents.data
        /\ (\A t \in Txns : ~ Writing(t, o)) => Books[o] = read_tpcc_data(o)

\* Only one transaction at a time writes an object.
LEMMA OneWriter ==
    ASSUME VAInv, InOrder, NEW t \in Txns, NEW u \in Txns, NEW o, Writing(t, o), Writing(u, o)
    PROVE  u = t
<1>1. Passed(u) /\ Passed(t) /\ ~ Through(u) /\ ~ Through(t) /\ Conflicts(u, t) /\ Conflicts(t, u)
  BY DEF Writing, Passed, Through, Conflicts
<1>2. ~ (u < t) /\ ~ (t < u) /\ u \in Nat /\ t \in Nat
  BY <1>1, Exclusive, Order
<1> QED
  BY <1>2

\* So the books say that.
LEMMA LedgerIs == ExecInv => BooksAre
<1> SUFFICES ASSUME ExecInv PROVE BooksAre
  OBVIOUS
<1>0. VAInv /\ InOrder
  BY DEF ExecInv
<1>1. ASSUME NEW o \in Object, NEW t \in Txns, Writing(t, o)
      PROVE  Books[o] = new_state[t][o].contents.data
  <2>1. PICK u \in Txns : u = (CHOOSE x \in Txns : Writing(x, o)) /\ Writing(u, o)
    BY <1>1
  <2>2. u = t
    BY <1>0, <1>1, <2>1, OneWriter
  <2> QED
    BY <2>1, <2>2 DEF Books, Ledger, decode_tpcc_data
<1>2. ASSUME NEW o \in Object, \A t \in Txns : ~ Writing(t, o) PROVE Books[o] = read_tpcc_data(o)
  BY <1>2 DEF Books, Ledger
<1> QED
  BY <1>1, <1>2 DEF BooksAre

\* An entry stays when its writer goes on, when nobody writes, and when what was written is in the store.
LEMMA EntryKept ==
    ASSUME BooksAre, BooksAre', NEW o \in Object,
           \/ \E t \in Txns : /\ Writing(t, o) /\ t \in Txns' /\ Writing(t, o)'
                              /\ new_state'[t][o] = new_state[t][o]
           \/ /\ \A t \in Txns : ~ Writing(t, o)
              /\ \A t \in Txns' : ~ Writing(t, o)'
              /\ store'[o] = store[o]
           \/ \E t \in Txns : /\ Writing(t, o) /\ \A u \in Txns' : ~ Writing(u, o)'
                              /\ store'[o] = new_state[t][o]
    PROVE  Books'[o] = Books[o]
<1>1. /\ \A t \in Txns : Writing(t, o) => Books[o] = new_state[t][o].contents.data
      /\ (\A t \in Txns : ~ Writing(t, o)) => Books[o] = store[o].contents.data
  BY DEF BooksAre, read_tpcc_data, decode_tpcc_data
<1>2. /\ \A t \in Txns' : Writing(t, o)' => Books'[o] = new_state'[t][o].contents.data
      /\ (\A t \in Txns' : ~ Writing(t, o)') => Books'[o] = store'[o].contents.data
  BY DEF BooksAre, read_tpcc_data, decode_tpcc_data
<1> QED
  BY <1>1, <1>2

\* When no entry changes and nobody runs, the books balance as before.
LEMMA BalancesKept ==
    ASSUME LedgerBalances, \A o \in Object : Books'[o] = Books[o],
           \A s \in StockIds : Lines(s)' = Lines(s),
           \A d \in DistrictIds : OrdersRun(d)' = OrdersRun(d)
    PROVE  LedgerBalances'
<1>1. Books' = Books
  BY DEF Books
<1>2. BooksOK(Books)'
  BY <1>1 DEF LedgerBalances, BooksOK
<1>3. DistrictsBalance(Books)'
  BY <1>1 DEF LedgerBalances, DistrictsBalance
<1>4. CustomersBalance(Books)'
  BY <1>1 DEF LedgerBalances, CustomersBalance
<1>5. StocksCount(Books)'
  BY <1>1 DEF LedgerBalances, StocksCount
<1>6. OrdersCount(Books)'
  BY <1>1 DEF LedgerBalances, OrdersCount
<1> QED
  BY <1>2, <1>3, <1>4, <1>5, <1>6 DEF LedgerBalances

\* Who has run, and with what, stays.
SameRuns ==
    /\ Txns \subseteq Txns'
    /\ \A t \in Txns' : Ran(t)' <=> (t \in Txns /\ Ran(t))
    /\ \A t \in Txns : txns'[t] = txns[t]

\* Then so do the lines and the orders.
LEMMA RunsKept ==
    ASSUME SameRuns
    PROVE  (\A s : Lines(s)' = Lines(s)) /\ (\A d : OrdersRun(d)' = OrdersRun(d))
<1>1. ASSUME NEW s PROVE Lines(s)' = Lines(s)
  <2> DEFINE K == 1..Max(OrderCounts \cup {0})
  <2>1. Lines(s) = {p \in Txns \X K : Ran(p[1]) /\ IsLine(txns[p[1]], p[2], s)}
    BY DEF Lines
  <2>2. Lines(s)' = {p \in Txns' \X K : Ran(p[1])' /\ IsLine(txns'[p[1]], p[2], s)}
    BY DEF Lines, IsLine
  <2> HIDE DEF K
  <2>3. \A p : p \in Txns' \X K /\ Ran(p[1])' /\ IsLine(txns'[p[1]], p[2], s) <=>
               p \in Txns \X K /\ Ran(p[1]) /\ IsLine(txns[p[1]], p[2], s)
    BY DEF SameRuns
  <2> QED
    BY <2>1, <2>2, <2>3
<1>2. ASSUME NEW d PROVE OrdersRun(d)' = OrdersRun(d)
  <2>1. OrdersRun(d) = {t \in Txns : Ran(t) /\ IsOrder(txns[t]) /\ DistrictOf(txns[t]) = d}
    BY DEF OrdersRun
  <2>2. OrdersRun(d)' = {t \in Txns' : Ran(t)' /\ IsOrder(txns'[t]) /\ DistrictOf(txns'[t]) = d}
    BY DEF OrdersRun, IsOrder, DistrictOf
  <2> QED
    BY <2>1, <2>2 DEF SameRuns
<1> QED
  BY <1>1, <1>2

-----------------------------------------------------------------------------
(* The steps that compute nothing leave the books as they are.             *)

\* The orders before t at its district that are not skipped.
Before(t) ==
    {i \in 1..(t - 1) : /\ IsOrder(txns[i]) /\ stage[i] # "skipped"
                        /\ DistrictOf(txns[i]) = DistrictOf(txns[t])}

Numbered(t) ==
    Ran(t) /\ IsOrder(txns[t]) =>
        cache[t][DistrictOf(txns[t])].d_next_o_id = INITIAL_NEXT_O_ID + Cardinality(Before(t))

\* The property, in these words.
LEMMA DenseDef == OrderNumbersDense <=> \A u \in Txns : Numbered(u)
<1>1. ASSUME NEW t \in Txns
      PROVE  Before(t) = {i \in 1..(t - 1) :
                        /\ txns[i].kind = "NewOrder" /\ stage[i] # "skipped"
                        /\ object_id_for_district(txns[i].w_id, txns[i].d_id) =
                           object_id_for_district(txns[t].w_id, txns[t].d_id)}
  BY DEF Before, IsOrder, DistrictOf
<1> QED
  BY <1>1 DEF OrderNumbersDense, Numbered, Ran, IsOrder, DistrictOf

\* The same after a step.
LEMMA DenseNext == (\A u \in Txns' : Numbered(u)') => OrderNumbersDense'
<1>1. (OrderNumbersDense <=> \A u \in Txns : Numbered(u))'
  BY DenseDef, PTL
<1> QED
  BY <1>1

\* Orders at one district are in conflict.
LEMMA SameDistrict ==
    ASSUME VAInv, Workload, NEW i \in Txns, NEW t \in Txns,
           DistrictOf(txns[i]) = DistrictOf(txns[t])
    PROVE  Conflicts(i, t) /\ Conflicts(t, i) /\ DistrictOf(txns[t]) \in Objects(t)
<1>1. /\ DistrictOf(txns[i]) \in Objects(i) /\ DistrictOf(txns[t]) \in Objects(t)
  BY TxnShape, Accesses DEF DistrictOf
<1> QED
  BY <1>1 DEF Conflicts

\* A number once given is not touched by what happens later.
LEMMA NumberKept ==
    ASSUME ExecInv, NEW t \in Txns, Ran(t), Numbered(t), cache'[t] = cache[t], Ran(t)',
           \A i \in 1..t : txns'[i] = txns[i],
           \A i \in 1..(t - 1) : Through(i) => stage'[i] = stage[i]
    PROVE  Numbered(t)'
<1>1. VAInv /\ Workload /\ InOrder /\ t \in Nat /\ t \in 1..t /\ Passed(t)
  BY Order DEF ExecInv, Ran, Passed
<1>2. Before(t)' = Before(t)
  <2>1. ASSUME NEW i \in 1..(t - 1), DistrictOf(txns[i]) = DistrictOf(txns[t])
        PROVE  stage'[i] = stage[i]
    <3>1. i \in Txns
      BY <1>1, Order
    <3>2. Conflicts(i, t)
      BY <1>1, <2>1, <3>1, SameDistrict
    <3>3. Through(i)
      BY <1>1, <3>2 DEF InOrder, Settled
    <3> QED
      BY <3>3
  <2>2. \A i \in 1..(t - 1) : txns'[i] = txns[i]
    BY <1>1
  <2>3. txns'[t] = txns[t]
    BY <1>1
  <2>4. Before(t)' = {i \in 1..(t - 1) :
                        /\ IsOrder(txns'[i]) /\ stage'[i] # "skipped"
                        /\ DistrictOf(txns'[i]) = DistrictOf(txns'[t])}
    BY DEF Before, IsOrder, DistrictOf
  <2> QED
    BY <2>1, <2>2, <2>3, <2>4 DEF Before
<1>3. txns'[t] = txns[t]
  BY <1>1
<1>4. Numbered(t)' <=>
        (Ran(t)' /\ IsOrder(txns'[t]) =>
           cache'[t][DistrictOf(txns'[t])].d_next_o_id = INITIAL_NEXT_O_ID + Cardinality(Before(t)'))
  BY DEF Numbered, IsOrder, DistrictOf, INITIAL_NEXT_O_ID
<1> QED
  BY <1>2, <1>3, <1>4 DEF Numbered

\* All numbers together.
LEMMA DenseKept ==
    ASSUME ExecInv, OrderNumbersDense, SameRuns, \A t \in Txns : cache'[t] = cache[t],
           \A i \in Txns : Through(i) => stage'[i] = stage[i]
    PROVE  OrderNumbersDense'
<1>1. VAInv
  BY DEF ExecInv
<1>2. ASSUME NEW t \in Txns' PROVE Numbered(t)'
  <2>1. CASE ~ Ran(t)'
    BY <2>1 DEF Numbered
  <2>2. CASE Ran(t)'
    <3>1. t \in Txns /\ Ran(t)
      BY <2>2 DEF SameRuns
    <3>2. Numbered(t)
      BY <3>1, DenseDef
    <3>3. t \in Nat /\ \A i \in 1..t : i \in Txns
      BY <1>1, <3>1, Order
    <3>4. \A i \in 1..t : txns'[i] = txns[i]
      BY <3>3 DEF SameRuns
    <3>5. \A i \in 1..(t - 1) : Through(i) => stage'[i] = stage[i]
      BY <3>3
    <3> QED
      BY <2>2, <3>1, <3>2, <3>4, <3>5, NumberKept
  <2> QED
    BY <2>1, <2>2
<1> QED
  BY <1>2, DenseNext

\* The task after its waits.
LEMMA CheckTxnInv == ASSUME TpccInv, NEW t \in TxnId, CheckTxn(t) PROVE TpccInv'
<1>1. ExecInv /\ ExecInv' /\ LedgerBalances /\ OrderNumbersDense
  BY CheckTxnExec DEF TpccInv
<1>2. BooksAre /\ BooksAre'
  BY <1>1, LedgerIs, PTL
<1>3. Shapes /\ VAInv
  BY <1>1 DEF ExecInv
<1>4. PICK s \in {"execute", "skipped"} : stage[t] = "await" /\ stage' = [stage EXCEPT ![t] = s]
                                          /\ UNCHANGED <<tgVars, orderVars, store, cache, new_state, inserted>>
  BY DEF CheckTxn
<1>5. s \in Stage /\ Moves(t, s)
  BY <1>4 DEF Stage, Moves
<1>6. /\ stage'[t] = s /\ \A u \in TxnId : u # t => stage'[u] = stage[u]
  BY <1>3, <1>5, OthersStay
<1>7. Txns' = Txns /\ (\A u : Objects(u)' = Objects(u)) /\ txns' = txns /\ Txns \subseteq TxnId
  BY <1>3, <1>5, OrderKept, Order DEF Moves, orderVars
<1>8. \A u \in Txns : \A o : Writing(u, o)' <=> Writing(u, o)
  BY <1>4, <1>6, <1>7 DEF Writing
<1>9. \A o \in Object : Books'[o] = Books[o]
  <2>1. \A o \in Object :
           \/ \E u \in Txns : /\ Writing(u, o) /\ u \in Txns' /\ Writing(u, o)'
                              /\ new_state'[u][o] = new_state[u][o]
           \/ /\ \A u \in Txns : ~ Writing(u, o)
              /\ \A u \in Txns' : ~ Writing(u, o)'
              /\ store'[o] = store[o]
    BY <1>4, <1>7, <1>8
  <2> QED
    BY <1>2, <2>1, EntryKept
<1>10. SameRuns
  BY <1>4, <1>6, <1>7 DEF SameRuns, Ran
<1>11. LedgerBalances'
  BY <1>1, <1>9, <1>10, RunsKept, BalancesKept
<1>12. OrderNumbersDense'
  <2>1. \A i \in Txns : Through(i) => stage'[i] = stage[i]
    BY <1>4, <1>6, <1>7 DEF Through
  <2> QED
    BY <1>1, <1>4, <1>10, <2>1, DenseKept
<1> QED
  BY <1>1, <1>11, <1>12 DEF TpccInv

\* Inserting one object.
LEMMA CommitObjectInv == ASSUME TpccInv, NEW t \in TxnId, CommitObject(t) PROVE TpccInv'
<1>1. ExecInv /\ ExecInv' /\ LedgerBalances /\ OrderNumbersDense
  BY CommitObjectExec DEF TpccInv
<1>2. BooksAre /\ BooksAre'
  BY <1>1, LedgerIs, PTL
<1>3. Shapes /\ VAInv /\ AllWrites
  BY <1>1 DEF ExecInv
<1>4. stage[t] = "commit" /\ UNCHANGED <<tgVars, orderVars, stage, cache, new_state>>
  BY DEF CommitObject
<1>5. t \in Txns
  BY <1>3, <1>4 DEF Shapes
<1>6. PICK x \in Objects(t) : store' = [store EXCEPT ![x] = new_state[t][x]]
  <2>1. inserted[t] \subseteq Objects(t)
    BY <1>3, <1>4 DEF AllWrites, Writes, Ran
  <2>2. Objects(t) \ inserted[t] # {}
    BY <2>1 DEF CommitObject
  <2> QED
    BY <2>2 DEF CommitObject
<1>7. Txns' = Txns /\ (\A u : Objects(u)' = Objects(u)) /\ txns' = txns
  BY <1>4, OrderKept DEF orderVars
<1>8. \A u, o : Writing(u, o)' <=> Writing(u, o)
  BY <1>4, <1>7 DEF Writing
<1>9. \A o \in Object : o # x => store'[o] = store[o]
  BY <1>3, <1>6 DEF Shapes
<1>10. Writing(t, x)
  BY <1>4 DEF Writing
<1>11. \A o \in Object : Books'[o] = Books[o]
  <2>1. \A o \in Object :
           \/ \E u \in Txns : /\ Writing(u, o) /\ u \in Txns' /\ Writing(u, o)'
                              /\ new_state'[u][o] = new_state[u][o]
           \/ /\ \A u \in Txns : ~ Writing(u, o)
              /\ \A u \in Txns' : ~ Writing(u, o)'
              /\ store'[o] = store[o]
    BY <1>4, <1>5, <1>7, <1>8, <1>9, <1>10
  <2> QED
    BY <1>2, <2>1, EntryKept
<1>12. SameRuns
  BY <1>4, <1>7 DEF SameRuns, Ran
<1>13. LedgerBalances'
  BY <1>1, <1>11, <1>12, RunsKept, BalancesKept
<1>14. OrderNumbersDense'
  BY <1>1, <1>4, <1>12, DenseKept
<1> QED
  BY <1>1, <1>13, <1>14 DEF TpccInv

\* The notification: everything that was written is in the store.
LEMMA NotifyTxnInv == ASSUME TpccInv, NEW t \in TxnId, NotifyTxn(t) PROVE TpccInv'
<1>1. ExecInv /\ ExecInv' /\ LedgerBalances /\ OrderNumbersDense
  BY NotifyTxnExec DEF TpccInv
<1>2. BooksAre /\ BooksAre'
  BY <1>1, LedgerIs, PTL
<1>3. Shapes /\ VAInv /\ InOrder /\ AllWrites /\ AllStored
  BY <1>1 DEF ExecInv
<1>4. /\ stage[t] = "commit" /\ Objects(t) = inserted[t] /\ stage' = [stage EXCEPT ![t] = "done"]
      /\ UNCHANGED <<tgVars, orderVars, store, cache, new_state, inserted>>
  BY DEF NotifyTxn
<1>5. "done" \in Stage /\ Moves(t, "done")
  BY <1>4 DEF Stage, Moves
<1>6. /\ stage'[t] = "done" /\ \A u \in TxnId : u # t => stage'[u] = stage[u]
  BY <1>3, <1>5, OthersStay
<1>7. t \in Txns /\ Txns' = Txns /\ (\A u : Objects(u)' = Objects(u)) /\ txns' = txns /\ Txns \subseteq TxnId
  BY <1>3, <1>4, <1>5, OrderKept, Order DEF Moves, orderVars, Shapes
<1>8. \A u \in Txns : \A o : Writing(u, o)' <=> Writing(u, o) /\ u # t
  BY <1>4, <1>6, <1>7 DEF Writing
<1>9. ASSUME NEW o \in Object PROVE Books'[o] = Books[o]
  <2>1. CASE o \in Objects(t)
    <3>1. Writing(t, o)
      BY <1>4, <2>1 DEF Writing
    <3>2. \A u \in Txns' : ~ Writing(u, o)'
      BY <1>3, <1>7, <1>8, <3>1, OneWriter
    <3>3. Inserted(t, o)
      <4>1. ~ Through(t)
        BY <1>4 DEF Through
      <4>2. \A k \in Txns : k > t => o \notin inserted[k]
        BY <1>3, <1>7, <2>1, <4>1, NoneLater
      <4> QED
        BY <1>4, <2>1, <4>2 DEF Inserted
    <3>4. store'[o] = new_state[t][o]
      BY <1>3, <1>4, <1>7, <3>3 DEF AllStored, Stored
    <3> QED
      BY <1>2, <1>7, <3>1, <3>2, <3>4, EntryKept
  <2>2. CASE o \notin Objects(t)
    <3>1. \A u \in Txns : Writing(u, o)' <=> Writing(u, o)
      BY <1>8, <2>2 DEF Writing
    <3>2. \/ \E u \in Txns : /\ Writing(u, o) /\ u \in Txns' /\ Writing(u, o)'
                             /\ new_state'[u][o] = new_state[u][o]
          \/ /\ \A u \in Txns : ~ Writing(u, o)
             /\ \A u \in Txns' : ~ Writing(u, o)'
             /\ store'[o] = store[o]
      BY <1>4, <1>7, <3>1
    <3> QED
      BY <1>2, <3>2, EntryKept
  <2> QED
    BY <2>1, <2>2
<1>10. SameRuns
  BY <1>4, <1>6, <1>7 DEF SameRuns, Ran
<1>11. LedgerBalances'
  BY <1>1, <1>9, <1>10, RunsKept, BalancesKept
<1>12. OrderNumbersDense'
  <2>1. \A i \in Txns : Through(i) => stage'[i] = stage[i]
    BY <1>4, <1>6, <1>7 DEF Through
  <2> QED
    BY <1>1, <1>4, <1>10, <2>1, DenseKept
<1> QED
  BY <1>1, <1>11, <1>12 DEF TpccInv

\* Committing adds a transaction that has not run.
LEMMA CommitInv == ASSUME TpccInv, NEW g \in GenTask, Commit(g) PROVE TpccInv'
<1>1. ExecInv /\ ExecInv' /\ LedgerBalances /\ OrderNumbersDense
  BY CommitExec DEF TpccInv
<1>2. BooksAre /\ BooksAre'
  BY <1>1, LedgerIs, PTL
<1>3. Shapes /\ VAInv
  BY <1>1 DEF ExecInv
<1>4. PICK n \in TxnId :
         /\ n \notin Txns /\ Txns' = Txns \cup {n} /\ stage' = [stage EXCEPT ![n] = "await"]
         /\ \A t \in Txns : Objects(t)' = Objects(t) /\ txns'[t] = txns[t]
         /\ UNCHANGED <<store, cache, new_state, inserted>>
  BY <1>1, CommitDoes
<1>5. /\ Txns \subseteq TxnId /\ stage'[n] = "await" /\ \A u \in TxnId : u # n => stage'[u] = stage[u]
  BY <1>3, <1>4, Order DEF Shapes
<1>6. \A t \in Txns : stage'[t] = stage[t]
  BY <1>4, <1>5
<1>7. (\A t \in Txns : \A o : Writing(t, o)' <=> Writing(t, o)) /\ (\A o : ~ Writing(n, o)')
  BY <1>4, <1>5, <1>6 DEF Writing
<1>8. \A o \in Object : Books'[o] = Books[o]
  <2>1. \A o \in Object :
           \/ \E u \in Txns : /\ Writing(u, o) /\ u \in Txns' /\ Writing(u, o)'
                              /\ new_state'[u][o] = new_state[u][o]
           \/ /\ \A u \in Txns : ~ Writing(u, o)
              /\ \A u \in Txns' : ~ Writing(u, o)'
              /\ store'[o] = store[o]
    BY <1>4, <1>7
  <2> QED
    BY <1>2, <2>1, EntryKept
<1>9. SameRuns
  BY <1>4, <1>5, <1>6 DEF SameRuns, Ran
<1>10. LedgerBalances'
  BY <1>1, <1>8, <1>9, RunsKept, BalancesKept
<1>11. OrderNumbersDense'
  BY <1>1, <1>4, <1>6, <1>9, DenseKept
<1> QED
  BY <1>1, <1>10, <1>11 DEF TpccInv

\* A step that leaves the order and the execution alone.
LEMMA IdleInv ==
    ASSUME TpccInv, ExecInv', UNCHANGED <<orderVars, execVars>>
    PROVE  TpccInv'
<1>1. ExecInv /\ LedgerBalances /\ OrderNumbersDense
  BY DEF TpccInv
<1>2. BooksAre /\ BooksAre'
  BY <1>1, LedgerIs, PTL
<1>3. /\ assigned' = assigned /\ txns' = txns /\ store' = store /\ stage' = stage /\ cache' = cache
      /\ new_state' = new_state
  BY DEF orderVars, execVars
<1>4. Txns' = Txns /\ \A u, o : Writing(u, o)' <=> Writing(u, o)
  BY <1>3 DEF Txns, Writing, Objects
<1>5. \A o \in Object : Books'[o] = Books[o]
  <2>1. \A o \in Object :
           \/ \E u \in Txns : /\ Writing(u, o) /\ u \in Txns' /\ Writing(u, o)'
                              /\ new_state'[u][o] = new_state[u][o]
           \/ /\ \A u \in Txns : ~ Writing(u, o)
              /\ \A u \in Txns' : ~ Writing(u, o)'
              /\ store'[o] = store[o]
    BY <1>3, <1>4
  <2> QED
    BY <1>2, <2>1, EntryKept
<1>6. SameRuns
  BY <1>3, <1>4 DEF SameRuns, Ran
<1>7. LedgerBalances'
  BY <1>1, <1>5, <1>6, RunsKept, BalancesKept
<1>8. OrderNumbersDense'
  BY <1>1, <1>3, <1>6, DenseKept
<1> QED
  BY <1>1, <1>7, <1>8 DEF TpccInv

-----------------------------------------------------------------------------
(* A computation keeps the books balanced.                                 *)

\* The entries after transaction x.
Entered(b, c, x) ==
    \A o \in Object : IF o \in access_set(x) THEN Effect(b[o], c[o], x, o) ELSE c[o] = b[o]

\* District keys name their warehouse and district.
LEMMA DistrictKeys ==
    /\ \A w, d, w2, d2 : object_id_for_district(w, d) = object_id_for_district(w2, d2) => w = w2 /\ d = d2
    /\ \A w, w2 : object_id_for_warehouse(w) = object_id_for_warehouse(w2) => w = w2
    /\ \A w \in Warehouses : /\ object_id_for_warehouse(w) \in WarehouseIds
                             /\ object_id_for_warehouse(w) \in Object
    /\ \A w \in Warehouses : \A d \in Districts : /\ object_id_for_district(w, d) \in DistrictIds
                                                 /\ object_id_for_district(w, d) \in Object
BY TpccConstants DEF object_id_for_district, object_id_for_warehouse, WarehouseIds, DistrictIds, TpccObjects

\* A payment is booked at its warehouse and at its district, and nowhere else.
LEMMA YtdMoves ==
    ASSUME NEW x \in TpccTransaction, NEW b, BooksOK(b), NEW c, BooksOK(c), Entered(b, c, x),
           NEW o \in Object
    PROVE  /\ o \in WarehouseIds => /\ b[o].w_ytd \in Int /\ c[o].w_ytd = b[o].w_ytd + Paid(x, o)
           /\ o \in DistrictIds => /\ b[o].d_ytd \in Int /\ c[o].d_ytd = b[o].d_ytd + Paid(x, o)
           /\ Paid(x, o) \in Nat
<1>1. o \in WarehouseIds => b[o].w_ytd \in Int
  BY DEF BooksOK, DataOK, Warehouse
<1>2. o \in DistrictIds => b[o].d_ytd \in Int
  BY DEF BooksOK, DataOK, District
<1>3. Paid(x, o) \in Nat
  BY PaymentKeys DEF Paid, IsOrder
<1>4. CASE o \in access_set(x)
  BY <1>1, <1>2, <1>3, <1>4 DEF Entered, Effect
<1>5. CASE o \notin access_set(x)
  <2>1. Paid(x, o) = 0 /\ c[o] = b[o]
    BY <1>5, Accesses DEF Paid, Entered, WarehouseOf, DistrictOf
  <2> QED
    BY <1>1, <1>2, <2>1
<1> QED
  BY <1>4, <1>5

\* Warehouses and their districts stay in step.
LEMMA DistrictsStillBalance ==
    ASSUME NEW x \in TpccTransaction, NEW b, BooksOK(b), NEW c, BooksOK(c), Entered(b, c, x),
           DistrictsBalance(b)
    PROVE  DistrictsBalance(c)
<1>1. SUFFICES ASSUME NEW w \in Warehouses
               PROVE  c[object_id_for_warehouse(w)].w_ytd - INITIAL_W_YTD_CENTS =
                         SumOver(Takings(c, w), Districts)
  BY DEF DistrictsBalance
<1> DEFINE o == object_id_for_warehouse(w)
           f == Takings(b, w)
           g == Takings(c, w)
<1>2. o \in WarehouseIds /\ o \in Object
  BY DistrictKeys
<1>3. b[o].w_ytd \in Int /\ c[o].w_ytd = b[o].w_ytd + Paid(x, o) /\ Paid(x, o) \in Nat
  BY <1>2, YtdMoves
<1>4. ASSUME NEW d \in Districts
      PROVE  /\ f[d] \in Int /\ g[d] \in Int
             /\ g[d] = f[d] + Paid(x, object_id_for_district(w, d))
  <2> DEFINE k == object_id_for_district(w, d)
  <2>1. k \in DistrictIds /\ k \in Object
    BY DistrictKeys
  <2>2. b[k].d_ytd \in Int /\ c[k].d_ytd = b[k].d_ytd + Paid(x, k) /\ Paid(x, k) \in Nat
    <3> HIDE DEF k
    <3> QED
      BY <2>1, YtdMoves
  <2>3. f[d] = b[k].d_ytd - INITIAL_D_YTD_CENTS /\ g[d] = c[k].d_ytd - INITIAL_D_YTD_CENTS
    BY DEF Takings
  <2>4. INITIAL_D_YTD_CENTS \in Int
    BY DEF INITIAL_D_YTD_CENTS
  <2> HIDE DEF k, f, g
  <2>5. f[d] \in Int /\ g[d] \in Int /\ g[d] = f[d] + Paid(x, k)
    BY <2>2, <2>3, <2>4
  <2> QED
    BY <2>5 DEF k
<1>5. f \in [Districts -> Int] /\ g \in [Districts -> Int]
  <2>1. \A d \in Districts : f[d] \in Int /\ g[d] \in Int
    BY <1>4
  <2>2. f = [d \in Districts |-> f[d]] /\ g = [d \in Districts |-> g[d]]
    BY DEF Takings
  <2> HIDE DEF f, g
  <2> QED
    BY <2>1, <2>2
<1>6. b[o].w_ytd - INITIAL_W_YTD_CENTS = SumOver(f, Districts)
  BY DEF DistrictsBalance
<1>7. IsFiniteSet(Districts) /\ INITIAL_W_YTD_CENTS \in Int
  BY TGAssumption DEF INITIAL_W_YTD_CENTS
<1>8. x.w_id \in Warehouses /\ x.d_id \in Districts
  BY NewOrderKeys, PaymentKeys
<1> HIDE DEF f, g
<1>9. SumOver(f, Districts) \in Int
  BY <1>5, <1>7, SumTableUnique
<1>10. CASE Paid(x, o) = 0
  <2>1. ASSUME NEW d \in Districts PROVE Paid(x, object_id_for_district(w, d)) = 0
    <3>1. CASE IsOrder(x)
      BY <3>1 DEF Paid
    <3>2. CASE w # x.w_id
      <4>1. object_id_for_district(w, d) # DistrictOf(x)
        BY <3>2, DistrictKeys DEF DistrictOf
      <4>2. object_id_for_district(w, d) # WarehouseOf(x)
        BY <1>8, DistrictKeys, KeyKinds DEF WarehouseOf
      <4> QED
        BY <4>1, <4>2 DEF Paid
    <3>3. CASE ~ IsOrder(x) /\ w = x.w_id
      <4>1. x.h_amount = 0
        BY <1>10, <3>3 DEF Paid, WarehouseOf
      <4> QED
        BY <4>1 DEF Paid
    <3> QED
      BY <3>1, <3>2, <3>3
  <2>2. \A d \in Districts : g[d] = f[d]
    BY <1>4, <2>1
  <2>3. g = f
    BY <1>5, <2>2
  <2> QED
    BY <1>3, <1>6, <1>10, <2>3 DEF g
<1>11. CASE Paid(x, o) # 0
  <2>1. ~ IsOrder(x) /\ o \in {WarehouseOf(x), DistrictOf(x)}
    BY <1>11 DEF Paid
  <2>2. w = x.w_id
    <3>1. DistrictOf(x) \in DistrictIds
      BY <1>8, DistrictKeys DEF DistrictOf
    <3>2. o = WarehouseOf(x)
      BY <1>2, <2>1, <3>1, KeyKinds
    <3> QED
      BY <3>2, DistrictKeys DEF WarehouseOf
  <2>3. Paid(x, o) = x.h_amount
    BY <2>1 DEF Paid
  <2>4. Paid(x, object_id_for_district(w, x.d_id)) = x.h_amount
    BY <2>1, <2>2 DEF Paid, DistrictOf
  <2>5. ASSUME NEW d \in Districts, d # x.d_id PROVE Paid(x, object_id_for_district(w, d)) = 0
    <3>1. object_id_for_district(w, d) # DistrictOf(x)
      BY <2>5, DistrictKeys DEF DistrictOf
    <3>2. object_id_for_district(w, d) # WarehouseOf(x)
      BY <1>8, DistrictKeys, KeyKinds DEF WarehouseOf
    <3> QED
      BY <3>1, <3>2 DEF Paid
  <2>6. PICK h \in Int : h = x.h_amount
    BY <1>3, <2>3
  <2>7. g[x.d_id] = f[x.d_id] + h /\ \A d \in Districts : d # x.d_id => g[d] = f[d]
    BY <1>4, <1>8, <2>4, <2>5, <2>6
  <2>8. SumOver(g, Districts) = SumOver(f, Districts) + h
    BY <1>5, <1>7, <1>8, <2>7, SumAdds
  <2>9. c[o].w_ytd - INITIAL_W_YTD_CENTS = SumOver(g, Districts)
    BY <1>3, <1>6, <1>7, <1>9, <2>3, <2>6, <2>8
  <2> QED
    BY <2>9 DEF g
<1> QED
  BY <1>10, <1>11

\* The lines of one transaction are counted with the others.
LEMMA LinesOfTxn ==
    ASSUME NEW x \in Generable, NEW s
    PROVE  LET K == 1..Max(OrderCounts \cup {0})
               L == {i \in K : IsLine(x, i, s)}
           IN  /\ IsFiniteSet(K) /\ IsFiniteSet(L)
               /\ IsOrder(x) => L = LinesOn(x.items, s)
               /\ ~ IsOrder(x) => L = {}
               /\ s \notin Stocks(x) => L = {}
<1> DEFINE M == Max(OrderCounts \cup {0})
           K == 1..M
           L == {i \in K : IsLine(x, i, s)}
<1>1. M \in Nat /\ \A n \in OrderCounts : n <= M /\ n \in Nat
  <2>1. OrderCounts \cup {0} \subseteq Nat /\ IsFiniteSet(OrderCounts \cup {0})
    BY TGAssumption, FS_AddElement
  <2>2. M \in OrderCounts \cup {0} /\ \A n \in OrderCounts \cup {0} : n <= M
    BY <2>1, FiniteHasMax
  <2> QED
    BY <2>1, <2>2
<1> HIDE DEF M
<1>2. IsFiniteSet(K)
  BY <1>1, FS_Interval
<1>3. IsFiniteSet(L)
  <2>1. L \in SUBSET K
    OBVIOUS
  <2> HIDE DEF L, K
  <2> QED
    BY <1>2, <2>1, FS_Subset
<1>4. ASSUME IsOrder(x) PROVE L = LinesOn(x.items, s)
  <2>1. x \in TpccTransaction /\ x.kind = "NewOrder" /\ Len(x.items) \in OrderCounts
    BY <1>4 DEF IsOrder, Generable
  <2>2. x.items \in Seq(OrderItem)
    BY <2>1, NewOrderKeys
  <2>3. Len(x.items) \in Nat /\ Len(x.items) <= M /\ DOMAIN x.items = 1..Len(x.items)
    BY <1>1, <2>1, <2>2
  <2>4. DOMAIN x.items \subseteq K
    BY <1>1, <2>3
  <2> QED
    BY <2>1, <2>4 DEF IsLine, LinesOn
<1>5. ~ IsOrder(x) => L = {}
  BY DEF IsOrder, IsLine
<1>6. ASSUME s \notin Stocks(x) PROVE L = {}
  <2>1. SUFFICES ASSUME NEW i \in K, IsLine(x, i, s) PROVE FALSE
    OBVIOUS
  <2>2. x \in TpccTransaction /\ x.kind = "NewOrder" /\ i \in DOMAIN x.items
    BY <2>1 DEF IsLine, Generable
  <2>3. StockOf(x.items[i]) \in Stocks(x)
    BY <2>2, NewOrderKeys
  <2> QED
    BY <1>6, <2>1, <2>3 DEF IsLine
<1> HIDE DEF L, K
<1>7. QED
  BY <1>2, <1>3, <1>4, <1>5, <1>6 DEF K, L, M

\* No pair of the set starts with t.
FirstIsnt(P, t) == \A p \in P : p[1] # t

\* A set of pairs that gains those with a new first component.
LEMMA PairsGrow ==
    ASSUME NEW A, NEW K, IsFiniteSet(A), IsFiniteSet(K), NEW P \in SUBSET (A \X K),
           NEW t, FirstIsnt(P, t), NEW L \in SUBSET K
    PROVE  /\ IsFiniteSet(P) /\ Cardinality(P) \in Nat /\ Cardinality(L) \in Nat
           /\ Cardinality(P \cup ({t} \X L)) = Cardinality(P) + Cardinality(L)
<1>1. IsFiniteSet(P) /\ IsFiniteSet(L)
  BY FS_Product, FS_Subset
<1>2. Cardinality(P) \in Nat /\ Cardinality(L) \in Nat
  BY <1>1, FS_CardinalityType
<1>3. IsFiniteSet({t}) /\ Cardinality({t}) = 1
  BY FS_Singleton
<1>4. IsFiniteSet({t} \X L) /\ Cardinality({t} \X L) = 1 * Cardinality(L)
  BY <1>1, <1>3, FS_Product
<1>5. P \cap ({t} \X L) = {}
  BY DEF FirstIsnt
<1>6. Cardinality(P \cap ({t} \X L)) = 0
  BY <1>5, FS_EmptySet
<1>7. Cardinality(P \cup ({t} \X L)) =
         Cardinality(P) + Cardinality({t} \X L) - Cardinality(P \cap ({t} \X L))
  BY <1>1, <1>4, FS_Union
<1> QED
  BY <1>1, <1>2, <1>4, <1>6, <1>7

\* Transactions are finitely many.
LEMMA TxnsFinite == ASSUME VAInv PROVE IsFiniteSet(Txns)
<1>1. Txns = 1..Len(assigned) /\ Len(assigned) \in Nat
  BY Order
<1> QED
  BY <1>1, FS_Interval

\* The entries before and after a computation.
LEMMA ExecuteEnters ==
    ASSUME ExecInv, ExecInv', NEW t \in TxnId, ExecuteTxn(t)
    PROVE  /\ \A o \in Objects(t) : Books[o] = read_tpcc_data(o)
           /\ \A o \in Object : IF o \in Objects(t) THEN Effect(Books[o], Books'[o], txns[t], o)
                                                   ELSE Books'[o] = Books[o]
<1>1. BooksAre /\ BooksAre' /\ VAInv /\ InOrder /\ Shapes
  BY LedgerIs, PTL DEF ExecInv
<1>2. /\ t \in Txns /\ stage[t] = "execute" /\ Moves(t, "commit") /\ UNCHANGED <<store, inserted>>
      /\ \A u \in TxnId : u # t => new_state'[u] = new_state[u]
      /\ \A o \in Objects(t) :
            Effect(read_tpcc_data(o), new_state'[t][o].contents.data, txns[t], o)
  BY ExecuteDoes
<1>3. "commit" \in Stage
  BY DEF Stage
<1>4. stage'[t] = "commit" /\ \A u \in TxnId : u # t => stage'[u] = stage[u]
  BY <1>1, <1>2, <1>3, OthersStay
<1>5. Txns' = Txns /\ (\A u : Objects(u)' = Objects(u)) /\ Txns \subseteq TxnId /\ Objects(t) \subseteq Object
  BY <1>1, <1>2, OrderKept, Order DEF Moves
<1>6. ASSUME NEW o \in Objects(t) PROVE \A u \in Txns : ~ Writing(u, o)
  <2>1. SUFFICES ASSUME NEW u \in Txns, Writing(u, o) PROVE FALSE
    OBVIOUS
  <2>2. /\ Passed(u) /\ Passed(t) /\ ~ Through(u) /\ ~ Through(t) /\ u # t
        /\ Conflicts(u, t) /\ Conflicts(t, u)
    BY <1>2, <1>6, <2>1 DEF Writing, Passed, Through, Conflicts
  <2>3. ~ (u < t) /\ ~ (t < u) /\ u \in Nat /\ t \in Nat
    BY <1>1, <1>2, <2>1, <2>2, Exclusive, Order
  <2> QED
    BY <2>2, <2>3
<1>7. \A o \in Objects(t) : Books[o] = read_tpcc_data(o)
  BY <1>1, <1>5, <1>6 DEF BooksAre
<1>8. \A o \in Objects(t) : Books'[o] = new_state'[t][o].contents.data
  <2>1. \A o \in Objects(t) : Writing(t, o)'
    BY <1>4, <1>5 DEF Writing
  <2>2. \A o \in Object : \A u \in Txns' : Writing(u, o)' => Books'[o] = new_state'[u][o].contents.data
    BY <1>1 DEF BooksAre
  <2> QED
    BY <1>2, <1>5, <2>1, <2>2
<1>9. ASSUME NEW o \in Object, o \notin Objects(t) PROVE Books'[o] = Books[o]
  <2>1. \A u \in Txns : Writing(u, o)' <=> Writing(u, o)
    BY <1>2, <1>4, <1>5, <1>9 DEF Writing
  <2>2. \A u \in Txns : Writing(u, o) => u # t
    BY <1>9 DEF Writing
  <2>3. \/ \E u \in Txns : /\ Writing(u, o) /\ u \in Txns' /\ Writing(u, o)'
                           /\ new_state'[u][o] = new_state[u][o]
        \/ /\ \A u \in Txns : ~ Writing(u, o)
           /\ \A u \in Txns' : ~ Writing(u, o)'
           /\ store'[o] = store[o]
    BY <1>2, <1>5, <2>1, <2>2
  <2> QED
    BY <1>1, <2>3, EntryKept
<1> QED
  BY <1>2, <1>7, <1>8, <1>9

\* The orders before a computation at its district are those that have run.
LEMMA RunBefore ==
    ASSUME ExecInv, NEW t \in Txns, stage[t] = "execute"
    PROVE  OrdersRun(DistrictOf(txns[t])) = Before(t)
<1>1. VAInv /\ Workload /\ InOrder /\ t \in Nat /\ Passed(t) /\ ~ Through(t) /\ ~ Ran(t)
  BY Order DEF ExecInv, Passed, Through, Ran
<1>2. ASSUME NEW i \in OrdersRun(DistrictOf(txns[t])) PROVE i \in Before(t)
  <2>1. i \in Txns /\ Ran(i) /\ IsOrder(txns[i]) /\ DistrictOf(txns[i]) = DistrictOf(txns[t])
    BY DEF OrdersRun
  <2>2. i \in Nat /\ i >= 1 /\ Passed(i) /\ i # t /\ Conflicts(t, i)
    BY <1>1, <2>1, Order, SameDistrict DEF Ran, Passed
  <2>3. ~ (t < i)
    BY <1>1, <2>1, <2>2, Exclusive
  <2>4. i \in 1..(t - 1)
    BY <1>1, <2>2, <2>3
  <2> QED
    BY <2>1, <2>4 DEF Before, Ran
<1>3. ASSUME NEW i \in Before(t) PROVE i \in OrdersRun(DistrictOf(txns[t]))
  <2>1. i \in 1..(t - 1) /\ IsOrder(txns[i]) /\ stage[i] # "skipped"
        /\ DistrictOf(txns[i]) = DistrictOf(txns[t])
    BY DEF Before
  <2>2. i \in Txns
    BY <1>1, <2>1, Order
  <2>3. Conflicts(i, t)
    BY <1>1, <2>1, <2>2, SameDistrict
  <2>4. Through(i)
    BY <1>1, <2>1, <2>3 DEF InOrder, Settled
  <2> QED
    BY <2>1, <2>2, <2>4 DEF OrdersRun, Ran, Through
<1> QED
  BY <1>2, <1>3

\* A computation keeps the books balanced and numbers its order.
LEMMA ExecuteTxnInv == ASSUME TpccInv, NEW t \in TxnId, ExecuteTxn(t) PROVE TpccInv'
<1>1. ExecInv /\ ExecInv' /\ LedgerBalances /\ OrderNumbersDense
  BY ExecuteTxnExec DEF TpccInv
<1>2. VAInv /\ Workload /\ Shapes
  BY <1>1 DEF ExecInv
<1>3. /\ t \in Txns /\ stage[t] = "execute" /\ Moves(t, "commit")
      /\ cache' = [cache EXCEPT ![t] = [o \in Objects(t) |-> read_tpcc_data(o)]]
  BY <1>1, ExecuteDoes
<1>4. /\ \A o \in Objects(t) : Books[o] = read_tpcc_data(o)
      /\ \A o \in Object : IF o \in Objects(t) THEN Effect(Books[o], Books'[o], txns[t], o)
                                              ELSE Books'[o] = Books[o]
  BY <1>1, ExecuteEnters
<1>5. PICK x \in Generable : x = txns[t] /\ x \in TpccTransaction /\ Objects(t) = access_set(x)
  BY <1>2, <1>3, TxnShape
<1>6. PICK b, c : b = Books /\ c = Books'
  OBVIOUS
<1>7. Entered(b, c, x)
  BY <1>4, <1>5, <1>6 DEF Entered
<1>8. BooksOK(b) /\ DistrictsBalance(b) /\ CustomersBalance(b) /\ StocksCount(b) /\ OrdersCount(b)
  BY <1>1, <1>6 DEF LedgerBalances
<1>9. BooksOK(c)
  BY <1>7, <1>8 DEF BooksOK, Entered, Effect
<1>10. DistrictsBalance(c)
  BY <1>5, <1>7, <1>8, <1>9, DistrictsStillBalance
<1>11. CustomersBalance(c)
  <2>1. CustomerIds \subseteq Object
    BY TpccConstants DEF TpccObjects
  <2> QED
    BY <1>7, <1>8, <2>1 DEF CustomersBalance, Entered, Effect
<1>12. "commit" \in Stage
  BY DEF Stage
<1>13. stage'[t] = "commit" /\ \A u \in TxnId : u # t => stage'[u] = stage[u]
  BY <1>2, <1>3, <1>12, OthersStay
<1>14. Txns' = Txns /\ txns' = txns /\ Txns \subseteq TxnId
  BY <1>2, <1>3, OrderKept, Order DEF Moves, orderVars
<1>15. ~ Ran(t) /\ \A u \in Txns : Ran(u)' <=> Ran(u) \/ u = t
  BY <1>3, <1>13, <1>14 DEF Ran
<1>16. ASSUME NEW s \in StockIds PROVE c[s].s_order_cnt = Cardinality(Lines(s)')
  <2> DEFINE K == 1..Max(OrderCounts \cup {0})
             L == {i \in K : IsLine(x, i, s)}
             P == Lines(s)
  <2>1. Lines(s) = {p \in Txns \X K : Ran(p[1]) /\ IsLine(txns[p[1]], p[2], s)}
    BY DEF Lines
  <2>2. Lines(s)' = {p \in Txns \X K : Ran(p[1])' /\ IsLine(txns[p[1]], p[2], s)}
    BY <1>14 DEF Lines, IsLine
  <2>3. /\ IsFiniteSet(K) /\ IsFiniteSet(L)
        /\ IsOrder(x) => L = LinesOn(x.items, s)
        /\ ~ IsOrder(x) => L = {}
        /\ s \notin Stocks(x) => L = {}
    BY LinesOfTxn
  <2>4. Lines(s)' = P \cup ({t} \X L)
    <3> HIDE DEF K
    <3> QED
      BY <1>3, <1>5, <1>15, <2>1, <2>2
  <2>5. P \in SUBSET (Txns \X K) /\ \A p \in P : p[1] # t
    <3> HIDE DEF K
    <3> QED
      BY <1>15, <2>1
  <2>6. L \in SUBSET K
    OBVIOUS
  <2>7. IsFiniteSet(Txns)
    BY <1>2, TxnsFinite
  <2> HIDE DEF K, L, P
  <2>8. /\ Cardinality(P) \in Nat /\ Cardinality(L) \in Nat
        /\ Cardinality(P \cup ({t} \X L)) = Cardinality(P) + Cardinality(L)
    <3>1. PICK a, k, p, l : a = Txns /\ k = K /\ p = P /\ l = L
      OBVIOUS
    <3>2. /\ IsFiniteSet(a) /\ IsFiniteSet(k) /\ p \in SUBSET (a \X k) /\ l \in SUBSET k
          /\ FirstIsnt(p, t)
      BY <2>3, <2>5, <2>6, <2>7, <3>1 DEF FirstIsnt
    <3>3. /\ Cardinality(p) \in Nat /\ Cardinality(l) \in Nat
          /\ Cardinality(p \cup ({t} \X l)) = Cardinality(p) + Cardinality(l)
      BY <3>2, PairsGrow
    <3> QED
      BY <3>1, <3>3
  <2>9. b[s].s_order_cnt = Cardinality(P)
    BY <1>8 DEF StocksCount, P
  <2>10. s \in Object
    BY TpccConstants DEF TpccObjects
  <2>11. c[s].s_order_cnt = b[s].s_order_cnt + Cardinality(L)
    <3>1. Cardinality({}) = 0
      BY FS_EmptySet
    <3>2. CASE s \in access_set(x)
      <4>1. c[s].s_order_cnt = b[s].s_order_cnt +
                            (IF IsOrder(x) THEN Cardinality(LinesOn(x.items, s)) ELSE 0)
        BY <1>7, <2>10, <3>2 DEF Entered, Effect
      <4> QED
        BY <2>3, <3>1, <4>1
    <3>3. CASE s \notin access_set(x)
      <4>1. s \notin Stocks(x)
        BY <1>5, <3>3, Accesses
      <4>2. c[s] = b[s]
        BY <1>7, <2>10, <3>3 DEF Entered
      <4> QED
        BY <2>3, <2>8, <2>9, <3>1, <4>1, <4>2
    <3> QED
      BY <3>2, <3>3
  <2> QED
    BY <2>4, <2>8, <2>9, <2>11
<1>17. \A d : /\ IsFiniteSet(OrdersRun(d)) /\ Cardinality(OrdersRun(d)) \in Nat
              /\ t \notin OrdersRun(d)
              /\ OrdersRun(d)' = IF IsOrder(x) /\ DistrictOf(x) = d THEN OrdersRun(d) \cup {t}
                                                                  ELSE OrdersRun(d)
  <2>1. ASSUME NEW d PROVE IsFiniteSet(OrdersRun(d)) /\ Cardinality(OrdersRun(d)) \in Nat
    <3>1. OrdersRun(d) \in SUBSET Txns
      BY DEF OrdersRun
    <3>2. IsFiniteSet(OrdersRun(d))
      BY <1>2, <3>1, TxnsFinite, FS_Subset
    <3> QED
      BY <3>2, FS_CardinalityType
  <2>2. ASSUME NEW d
        PROVE  /\ t \notin OrdersRun(d)
               /\ OrdersRun(d)' = IF IsOrder(x) /\ DistrictOf(x) = d THEN OrdersRun(d) \cup {t}
                                                                   ELSE OrdersRun(d)
    <3>1. OrdersRun(d)' = {u \in Txns : Ran(u)' /\ IsOrder(txns[u]) /\ DistrictOf(txns[u]) = d}
      BY <1>14 DEF OrdersRun, IsOrder, DistrictOf
    <3>2. OrdersRun(d) = {u \in Txns : Ran(u) /\ IsOrder(txns[u]) /\ DistrictOf(txns[u]) = d}
      BY DEF OrdersRun
    <3> QED
      BY <1>3, <1>5, <1>15, <3>1, <3>2
  <2> QED
    BY <2>1, <2>2
<1>18. ASSUME NEW d \in DistrictIds
       PROVE  c[d].d_next_o_id = INITIAL_NEXT_O_ID + Cardinality(OrdersRun(d)')
  <2>1. b[d].d_next_o_id = INITIAL_NEXT_O_ID + Cardinality(OrdersRun(d)) /\ d \in Object
    BY <1>8, TpccConstants DEF OrdersCount, TpccObjects
  <2>2. c[d].d_next_o_id = b[d].d_next_o_id + (IF IsOrder(x) /\ d = DistrictOf(x) THEN 1 ELSE 0)
    <3>1. CASE d \in access_set(x)
      BY <1>7, <2>1, <3>1 DEF Entered, Effect
    <3>2. CASE d \notin access_set(x)
      <4>1. d # DistrictOf(x)
        BY <1>5, <3>2, Accesses DEF DistrictOf
      <4>2. c[d] = b[d] /\ b[d].d_next_o_id \in Nat
        BY <1>7, <1>8, <2>1, <3>2 DEF Entered, BooksOK, DataOK, District
      <4> QED
        BY <4>1, <4>2
    <3> QED
      BY <3>1, <3>2
  <2>3. Cardinality(OrdersRun(d)) \in Nat /\ INITIAL_NEXT_O_ID \in Nat
    BY <1>17 DEF INITIAL_NEXT_O_ID
  <2>4. CASE IsOrder(x) /\ d = DistrictOf(x)
    <3>1. Cardinality(OrdersRun(d)') = Cardinality(OrdersRun(d)) + 1
      BY <1>17, <2>4, FS_AddElement
    <3> QED
      BY <2>1, <2>2, <2>3, <2>4, <3>1
  <2>5. CASE ~ (IsOrder(x) /\ d = DistrictOf(x))
    <3>1. OrdersRun(d)' = OrdersRun(d)
      BY <1>17, <2>5
    <3> QED
      BY <2>1, <2>2, <2>3, <2>5, <3>1
  <2> QED
    BY <2>4, <2>5
<1>19. LedgerBalances'
  <2>1. BooksOK(Books)' /\ CustomersBalance(Books)' /\ DistrictsBalance(Books)'
    BY <1>6, <1>9, <1>10, <1>11 DEF BooksOK, CustomersBalance, DistrictsBalance
  <2>2. StocksCount(Books)'
    BY <1>6, <1>16 DEF StocksCount
  <2>3. OrdersCount(Books)'
    BY <1>6, <1>18 DEF OrdersCount
  <2> QED
    BY <2>1, <2>2, <2>3 DEF LedgerBalances
<1>20. ASSUME NEW u \in Txns PROVE Numbered(u)'
  <2>1. CASE ~ Ran(u)'
    BY <2>1 DEF Numbered
  <2>2. CASE Ran(u) /\ Ran(u)'
    <3>1. u # t /\ u \in Nat
      BY <1>2, <1>15, <2>2, Order
    <3>2. cache'[u] = cache[u]
      BY <1>2, <1>3, <1>14, <3>1 DEF Shapes
    <3>3. Numbered(u)
      BY <1>1, DenseDef
    <3>4. \A i \in 1..(u - 1) : Through(i) => stage'[i] = stage[i]
      <4>1. \A i \in 1..(u - 1) : i \in TxnId
        BY <1>2, <1>14, Order
      <4>2. ~ Through(t)
        BY <1>3 DEF Through
      <4> QED
        BY <1>13, <4>1, <4>2
    <3> QED
      BY <1>1, <1>14, <2>2, <3>2, <3>3, <3>4, NumberKept
  <2>3. CASE u = t
    <3> DEFINE d == DistrictOf(x)
    <3>1. d \in Objects(t) /\ d \in DistrictIds
      BY <1>5, Accesses, NewOrderKeys, PaymentKeys DEF DistrictOf
    <3>2. cache'[t][d] = read_tpcc_data(d)
      BY <1>2, <1>3, <3>1 DEF Shapes
    <3>3. read_tpcc_data(d) = b[d]
      BY <1>4, <1>6, <3>1
    <3>4. b[d].d_next_o_id = INITIAL_NEXT_O_ID + Cardinality(OrdersRun(d))
      BY <1>8, <3>1 DEF OrdersCount
    <3>5. OrdersRun(d) = Before(t)
      BY <1>1, <1>3, <1>5, RunBefore
    <3>6. Before(t)' = Before(t)
      <4>1. \A i \in 1..(t - 1) : stage'[i] = stage[i]
        <5>1. \A i \in 1..(t - 1) : i \in TxnId /\ i # t
          BY <1>2, <1>3, <1>14, Order
        <5> QED
          BY <1>13, <5>1
      <4>2. Before(t)' = {i \in 1..(t - 1) :
                        /\ IsOrder(txns[i]) /\ stage'[i] # "skipped"
                        /\ DistrictOf(txns[i]) = DistrictOf(txns[t])}
        BY <1>14 DEF Before, IsOrder, DistrictOf
      <4> QED
        BY <4>1, <4>2 DEF Before
    <3>7. Numbered(t)' <=>
        (Ran(t)' /\ IsOrder(x) =>
           cache'[t][d].d_next_o_id = INITIAL_NEXT_O_ID + Cardinality(Before(t)'))
      BY <1>5, <1>14 DEF Numbered, IsOrder, DistrictOf, INITIAL_NEXT_O_ID
    <3> HIDE DEF d
    <3> QED
      BY <2>3, <3>2, <3>3, <3>4, <3>5, <3>6, <3>7
  <2> QED
    BY <1>15, <2>1, <2>2, <2>3
<1>21. OrderNumbersDense'
  BY <1>14, <1>20, DenseNext
<1> QED
  BY <1>1, <1>19, <1>21 DEF TpccInv


\* The books of the loaded database.
LEMMA InitLedger == ASSUME TpccInit PROVE TpccInv
<1>1. ExecInv /\ Txns = {}
  BY InitExec DEF TpccInit, VAInit, Txns
<1>2. BooksAre
  BY <1>1, LedgerIs
<1>3. PICK q \in StockQuantity :
         store = [id \in TpccObjects |->
                    encode_tpcc_object(id, InitialVersion, InitialData(id, q))]
  BY DEF TpccInit
<1>4. PICK b : b = Books
  OBVIOUS
<1>5. ASSUME NEW o \in Object PROVE b[o] = InitialData(o, q)
  <2>1. b[o] = read_tpcc_data(o)
    BY <1>1, <1>2, <1>4 DEF BooksAre
  <2> QED
    BY <1>3, <2>1, TpccConstants DEF read_tpcc_data, decode_tpcc_data, encode_tpcc_object
<1>6. BooksOK(b) /\ CustomersBalance(b)
  <2>1. CustomerIds \subseteq Object
    BY TpccConstants DEF TpccObjects
  <2> QED
    BY <1>5, <2>1, InitialRows DEF BooksOK, CustomersBalance
<1>7. Cardinality({}) = 0
  BY FS_EmptySet
<1>8. \A s \in StockIds : b[s].s_order_cnt = Cardinality(Lines(s))
  <2>1. \A s : Lines(s) = {}
    BY <1>1 DEF Lines
  <2>2. StockIds \subseteq Object
    BY TpccConstants DEF TpccObjects
  <2> QED
    BY <1>5, <1>7, <2>1, <2>2, InitialRows
<1>9. \A d \in DistrictIds : b[d].d_next_o_id = INITIAL_NEXT_O_ID + Cardinality(OrdersRun(d))
  <2>1. \A d : OrdersRun(d) = {}
    BY <1>1 DEF OrdersRun
  <2>2. DistrictIds \subseteq Object
    BY TpccConstants DEF TpccObjects
  <2>3. \A d \in DistrictIds : b[d].d_next_o_id = INITIAL_NEXT_O_ID
    BY <1>5, <2>2, InitialRows
  <2>4. INITIAL_NEXT_O_ID + 0 = INITIAL_NEXT_O_ID
    BY DEF INITIAL_NEXT_O_ID
  <2> QED
    BY <1>7, <2>1, <2>3, <2>4
<1>10. ASSUME NEW w \in Warehouses
       PROVE  b[object_id_for_warehouse(w)].w_ytd - INITIAL_W_YTD_CENTS =
                 SumOver(Takings(b, w), Districts)
  <2>1. object_id_for_warehouse(w) \in WarehouseIds /\ WarehouseIds \subseteq Object
        /\ DistrictIds \subseteq Object
    BY TpccConstants DEF TpccObjects, WarehouseIds
  <2>2. \A d \in Districts : object_id_for_district(w, d) \in DistrictIds
    BY DEF DistrictIds
  <2>3. \A d \in Districts : b[object_id_for_district(w, d)].d_ytd = INITIAL_D_YTD_CENTS
    BY <1>5, <2>1, <2>2, InitialRows
  <2>4. \A d \in Districts : Takings(b, w)[d] = 0
    BY <2>3 DEF Takings, INITIAL_D_YTD_CENTS
  <2>5. Takings(b, w) \in [Districts -> Int]
    BY <2>4 DEF Takings
  <2>6. SumOver(Takings(b, w), Districts) = 0
    BY <2>4, <2>5, SumOfZeros, TGAssumption
  <2>7. b[object_id_for_warehouse(w)].w_ytd = INITIAL_W_YTD_CENTS
    BY <1>5, <2>1, InitialRows
  <2> QED
    BY <2>6, <2>7 DEF INITIAL_W_YTD_CENTS
<1>11. LedgerBalances
  BY <1>4, <1>6, <1>8, <1>9, <1>10
     DEF LedgerBalances, DistrictsBalance, StocksCount, OrdersCount
<1>12. OrderNumbersDense
  BY <1>1 DEF OrderNumbersDense
<1> QED
  BY <1>1, <1>11, <1>12 DEF TpccInv

\* Every step keeps the books.
LEMMA NextInv == ASSUME TpccInv, [TpccNext]_tpccVars PROVE TpccInv'
<1>1. ExecInv /\ ExecInv'
  BY NextExec DEF TpccInv
<1>2. CASE UNCHANGED tpccVars
  <2>1. UNCHANGED <<orderVars, execVars>>
    BY <1>2 DEF tpccVars
  <2> QED
    BY <1>1, <2>1, IdleInv
<1>3. ASSUME NEW g \in GenTask, Generate(g) \/ Commit(g) PROVE TpccInv'
  <2>1. CASE Generate(g)
    <3>1. UNCHANGED <<orderVars, execVars>>
      BY <2>1 DEF Generate
    <3> QED
      BY <1>1, <3>1, IdleInv
  <2> QED
    BY <1>3, <2>1, CommitInv
<1>4. ASSUME NEW t \in TxnId, TaskStep(t) PROVE TpccInv'
  BY <1>4, CheckTxnInv, ExecuteTxnInv, CommitObjectInv, NotifyTxnInv DEF TaskStep
<1> QED
  BY <1>2, <1>3, <1>4 DEF TpccNext, Finished

(***************************************************************************)
(* The books of the executor: the store, with the rows of the transactions *)
(* that have computed but not yet inserted everything in their new state.  *)
(* In every state of every interleaving they balance, and the order        *)
(* numbers are dense.                                                      *)
(***************************************************************************)
THEOREM BooksInvariant == TpccSpec => []TpccInv
<1>1. TpccInit => TpccInv
  BY InitLedger
<1>2. TpccInv /\ [TpccNext]_tpccVars => TpccInv'
  BY NextInv
<1> QED
  BY <1>1, <1>2, PTL DEF TpccSpec

(***************************************************************************)
(* The order numbers a district hands out are consecutive from 3001 in the *)
(* committed order.                                                        *)
(***************************************************************************)
THEOREM OrderNumbersAlwaysDense == TpccSpec => []OrderNumbersDense
<1>1. TpccInv => OrderNumbersDense
  BY DEF TpccInv
<1> QED
  BY <1>1, BooksInvariant, PTL

\* The districts of warehouse w, as BooksBalance adds them up.
DistrictSum(w) ==
    FoldSet(LAMBDA d, sum : sum - INITIAL_D_YTD_CENTS
                                + read_tpcc_data(object_id_for_district(w, d)).d_ytd,
            0, Districts)

\* It is the sum of what they have taken in.
LEMMA DistrictsAdded ==
    ASSUME NEW w, \A d \in Districts : read_tpcc_data(object_id_for_district(w, d)).d_ytd \in Int
    PROVE  DistrictSum(w) =
              SumOver([d \in Districts |->
                          read_tpcc_data(object_id_for_district(w, d)).d_ytd - INITIAL_D_YTD_CENTS],
                      Districts)
<1>1. PICK y : y = [d \in Districts |-> read_tpcc_data(object_id_for_district(w, d)).d_ytd]
  OBVIOUS
<1>2. /\ y \in [Districts -> Int]
      /\ \A d \in Districts : read_tpcc_data(object_id_for_district(w, d)).d_ytd = y[d]
  BY <1>1
<1> DEFINE f == [d \in Districts |-> y[d] - INITIAL_D_YTD_CENTS]
           Pick(s) == CHOOSE x \in s : TRUE
           Eq(G) == G = [s \in SUBSET Districts |->
                          IF s = {} THEN 0
                          ELSE G[s \ {CHOOSE x \in s : TRUE}] - INITIAL_D_YTD_CENTS +
                               read_tpcc_data(object_id_for_district(w, CHOOSE x \in s : TRUE)).d_ytd]
           G == CHOOSE X : Eq(X)
<1>3. f \in [Districts -> Int]
  BY <1>2 DEF INITIAL_D_YTD_CENTS
<1>4. \A s \in SUBSET Districts : s # {} => Pick(s) \in Districts
  OBVIOUS
<1>5. DistrictSum(w) = G[Districts]
  BY DEF DistrictSum, FoldSet, MapThenFoldSet
<1>6. IsFiniteSet(Districts)
  BY TGAssumption
<1>7. Eq(G)
  <2>1. PICK F : SumTable(F, f, Districts)
    <3> HIDE DEF f
    <3> QED
      BY <1>3, <1>6, SumTableUnique
  <2>2. F \in [SUBSET Districts -> Int]
    BY <2>1 DEF SumTable
  <2>3. /\ F[{}] = 0
        /\ \A s \in SUBSET Districts : s # {} => F[s] = F[s \ {Pick(s)}] + f[Pick(s)]
    <3> HIDE DEF f
    <3>1. /\ F[{}] = 0
          /\ \A s \in SUBSET Districts : s # {} =>
                LET x == CHOOSE z \in s : TRUE IN F[s] = F[s \ {x}] + f[x]
      BY <1>3, <2>1, <2>2, SumTableDef
    <3> QED
      BY <3>1
  <2>4. ASSUME NEW s \in SUBSET Districts, s # {}
        PROVE  F[s] = F[s \ {Pick(s)}] - INITIAL_D_YTD_CENTS +
                      read_tpcc_data(object_id_for_district(w, Pick(s))).d_ytd
    <3>1. PICK x \in Districts : x = Pick(s)
      BY <1>4, <2>4
    <3>2. F[s] = F[s \ {x}] + f[x] /\ F[s \ {x}] \in Int /\ s \ {x} \in SUBSET Districts
      BY <2>2, <2>3, <2>4, <3>1
    <3>3. f[x] = y[x] - INITIAL_D_YTD_CENTS /\ y[x] \in Int /\ INITIAL_D_YTD_CENTS \in Int
      BY <1>2 DEF INITIAL_D_YTD_CENTS
    <3>4. read_tpcc_data(object_id_for_district(w, x)).d_ytd = y[x]
      BY <1>2
    <3> HIDE DEF f
    <3>5. F[s] = F[s \ {x}] - INITIAL_D_YTD_CENTS + y[x]
      BY <3>2, <3>3
    <3> QED
      BY <3>1, <3>4, <3>5
  <2>5. Eq(F)
    BY <2>2, <2>3, <2>4
  <2> HIDE DEF Eq
  <2> QED
    BY <2>5
<1> HIDE DEF G
<1>8. Sums(G, f, Districts)
  <2>1. G[{}] = 0
    BY <1>7
  <2>2. ASSUME NEW s \in SUBSET Districts, s # {}
        PROVE  /\ G[s] = G[s \ {Pick(s)}] - INITIAL_D_YTD_CENTS + y[Pick(s)]
               /\ y[Pick(s)] \in Int /\ s \ {Pick(s)} \in SUBSET Districts
    BY <1>2, <1>4, <1>7, <2>2
  <2>3. StaysInt(G, Districts)
    BY <2>1, <2>2 DEF StaysInt, INITIAL_D_YTD_CENTS
  <2>4. \A s \in SUBSET Districts : G[s] \in Int
    BY <1>6, <2>3, SumsInt
  <2>5. ASSUME NEW s \in SUBSET Districts, s # {}
        PROVE  G[s] = G[s \ {Pick(s)}] + f[Pick(s)]
    <3>1. PICK x \in Districts : x = Pick(s)
      BY <1>4, <2>5
    <3>2. /\ G[s] = G[s \ {x}] - INITIAL_D_YTD_CENTS + y[x] /\ y[x] \in Int
          /\ G[s \ {x}] \in Int
      BY <2>2, <2>4, <2>5, <3>1
    <3>3. f[x] = y[x] - INITIAL_D_YTD_CENTS /\ INITIAL_D_YTD_CENTS \in Int
      BY DEF INITIAL_D_YTD_CENTS
    <3> HIDE DEF f
    <3> QED
      BY <3>1, <3>2, <3>3
  <2> QED
    BY <2>1, <2>5 DEF Sums
<1>9. G[Districts] = SumOver(f, Districts)
  <2> HIDE DEF f
  <2> QED
    BY <1>3, <1>6, <1>8, SumIs
<1> QED
  BY <1>1, <1>5, <1>9


\* What BooksBalance asks, part by part.
BalanceOf(w) ==
    read_tpcc_data(object_id_for_warehouse(w)).w_ytd - INITIAL_W_YTD_CENTS = DistrictSum(w)

LinesDone(s) ==
    {p \in Txns \X (1..Max(OrderCounts \cup {0})) :
        stage[p[1]] = "done" /\ IsLine(txns[p[1]], p[2], s)}

\* It asks that.
LEMMA BalanceParts ==
    ASSUME (\A t \in Txns : stage[t] # "commit") =>
              /\ \A w \in Warehouses : BalanceOf(w)
              /\ \A c \in CustomerIds :
                    read_tpcc_data(c).c_balance + read_tpcc_data(c).c_ytd_payment = 0
              /\ \A s \in StockIds : read_tpcc_data(s).s_order_cnt = Cardinality(LinesDone(s))
    PROVE  BooksBalance
BY DEF BooksBalance, BalanceOf, LinesDone, DistrictSum, FoldSet, MapThenFoldSet

\* When nobody is inserting, the store is what the books say.
LEMMA BalanceFollows == TpccInv => BooksBalance
<1> SUFFICES ASSUME TpccInv PROVE BooksBalance
  OBVIOUS
<1>1. ExecInv /\ LedgerBalances /\ BooksAre
  BY LedgerIs DEF TpccInv
<1> SUFFICES ASSUME \A t \in Txns : stage[t] # "commit"
             PROVE  /\ \A w \in Warehouses : BalanceOf(w)
                    /\ \A c \in CustomerIds :
                          read_tpcc_data(c).c_balance + read_tpcc_data(c).c_ytd_payment = 0
                    /\ \A s \in StockIds : read_tpcc_data(s).s_order_cnt = Cardinality(LinesDone(s))
  BY BalanceParts
<1>2. PICK b : b = Books
  OBVIOUS
<1>3. \A o \in Object : read_tpcc_data(o) = b[o]
  BY <1>1, <1>2 DEF BooksAre, Writing
<1>4. /\ BooksOK(b) /\ DistrictsBalance(b) /\ CustomersBalance(b) /\ StocksCount(b)
      /\ WarehouseIds \subseteq Object /\ DistrictIds \subseteq Object
      /\ CustomerIds \subseteq Object /\ StockIds \subseteq Object
  BY <1>1, <1>2, TpccConstants DEF LedgerBalances, TpccObjects
<1>5. ASSUME NEW w \in Warehouses PROVE BalanceOf(w)
  <2>1. object_id_for_warehouse(w) \in Object
        /\ \A d \in Districts : object_id_for_district(w, d) \in DistrictIds
    BY <1>4 DEF WarehouseIds, DistrictIds
  <2>2. \A d \in Districts :
           /\ read_tpcc_data(object_id_for_district(w, d)) = b[object_id_for_district(w, d)]
           /\ b[object_id_for_district(w, d)].d_ytd \in Int
    BY <1>3, <1>4, <2>1 DEF BooksOK, DataOK, District
  <2>3. DistrictSum(w) = SumOver([d \in Districts |->
            read_tpcc_data(object_id_for_district(w, d)).d_ytd - INITIAL_D_YTD_CENTS], Districts)
    BY <2>2, DistrictsAdded
  <2>4. [d \in Districts |->
            read_tpcc_data(object_id_for_district(w, d)).d_ytd - INITIAL_D_YTD_CENTS] = Takings(b, w)
    BY <2>2 DEF Takings
  <2>5. b[object_id_for_warehouse(w)].w_ytd - INITIAL_W_YTD_CENTS =
           SumOver(Takings(b, w), Districts)
    BY <1>4 DEF DistrictsBalance
  <2> QED
    BY <1>3, <2>1, <2>3, <2>4, <2>5 DEF BalanceOf
<1>6. ASSUME NEW c \in CustomerIds
      PROVE  read_tpcc_data(c).c_balance + read_tpcc_data(c).c_ytd_payment = 0
  BY <1>3, <1>4 DEF CustomersBalance
<1>7. ASSUME NEW s \in StockIds PROVE read_tpcc_data(s).s_order_cnt = Cardinality(LinesDone(s))
  <2>1. \A t \in Txns : Ran(t) <=> stage[t] = "done"
    BY DEF Ran
  <2>2. LinesDone(s) = Lines(s)
    <3> DEFINE K == 1..Max(OrderCounts \cup {0})
    <3>1. Lines(s) = {p \in Txns \X K : Ran(p[1]) /\ IsLine(txns[p[1]], p[2], s)}
      BY DEF Lines
    <3>2. LinesDone(s) = {p \in Txns \X K : stage[p[1]] = "done" /\ IsLine(txns[p[1]], p[2], s)}
      BY DEF LinesDone
    <3> HIDE DEF K
    <3> QED
      BY <2>1, <3>1, <3>2
  <2> QED
    BY <1>3, <1>4, <2>2 DEF StocksCount
<1> QED
  BY <1>5, <1>6, <1>7

(***************************************************************************)
(* TPC-C consistency, whatever the interleaving and whatever is skipped:   *)
(* when no transaction is in the middle of its inserts, a warehouse's      *)
(* year-to-date payments are the sum over its districts, no money is       *)
(* created at a customer, and a stock counts exactly the order lines on    *)
(* it.                                                                     *)
(***************************************************************************)
THEOREM BooksAlwaysBalance == TpccSpec => []BooksBalance
<1>1. TpccInv => BooksBalance
  BY BalanceFollows
<1> QED
  BY <1>1, BooksInvariant, PTL


-----------------------------------------------------------------------------
(* The generator.                                                          *)

\* The chunks of all tasks together hold everything.
LEMMA CeilDivCovers ==
    ASSUME NEW T \in Nat, NEW N \in Nat \ {0}
    PROVE  CeilDiv(T, N) \in Nat /\ CeilDiv(T, N) * N >= T /\ (T >= 1 => CeilDiv(T, N) >= 1)
BY DEF CeilDiv

\* Task g generates the positions after g chunks, up to the end of its own chunk or of them all.
LEMMA ChunkIs ==
    ASSUME NEW g \in GenTask, NEW i \in Nat, i >= 1, NEW s, s = CeilDiv(TotalTxns, NumTasks)
    PROVE  i <= ChunkCount(g) <=> i <= s /\ g * s + i <= TotalTxns
<1>1. g \in Nat /\ s \in Nat /\ TotalTxns \in Nat
  BY CeilDivCovers, TpccConstants, TGAssumption DEF GenTask
<1>2. PICK a \in Nat : a = g * s /\ (g + 1) * s = a + s
  BY <1>1, Multiples
<1>3. ChunkCount(g) = LET end == IF a + s < TotalTxns THEN a + s ELSE TotalTxns
                      IN  IF end > a THEN end - a ELSE 0
  BY <1>2 DEF ChunkCount
<1> QED
  BY <1>1, <1>2, <1>3

\* The positions of all tasks, and what each generates.
Positions == {p \in GenTask \X (1..TotalTxns) : p[2] <= ChunkCount(p[1])}

\* Every position from 1 to the total is generated by one task, once.
LEMMA PositionsCounted == Cardinality(Positions) = TotalTxns
<1> DEFINE s == CeilDiv(TotalTxns, NumTasks)
           f == [p \in Positions |-> p[1] * s + p[2]]
<1>1. /\ s \in Nat /\ TotalTxns \in Nat /\ s * NumTasks >= TotalTxns /\ NumTasks \in Nat
      /\ TotalTxns >= 1 => s >= 1
  BY CeilDivCovers, TpccConstants, TGAssumption
<1>2. ASSUME NEW p \in Positions
      PROVE  /\ p[1] \in GenTask /\ p[1] \in Nat /\ p[2] \in 1..TotalTxns /\ p = <<p[1], p[2]>>
             /\ p[1] * s \in Nat /\ 1 <= p[2] /\ p[2] <= s /\ p[1] * s + p[2] <= TotalTxns
  <2>1. /\ p[1] \in GenTask /\ p[2] \in 1..TotalTxns /\ p = <<p[1], p[2]>>
        /\ p[2] <= ChunkCount(p[1])
    BY DEF Positions
  <2>2. p[1] \in Nat /\ p[2] \in Nat /\ p[2] >= 1
    BY <1>1, <2>1 DEF GenTask
  <2>3. p[2] <= s /\ p[1] * s + p[2] <= TotalTxns
    BY <2>1, <2>2, ChunkIs
  <2>4. p[1] * s \in Nat
    BY <1>1, <2>2, Multiples
  <2> QED
    BY <2>1, <2>2, <2>3, <2>4
<1>3. ASSUME NEW k \in 1..TotalTxns
      PROVE  \E p \in Positions : p[1] * s + p[2] = k
  <2>1. k \in Nat /\ k >= 1 /\ k - 1 \in Nat /\ s >= 1 /\ k <= TotalTxns
    BY <1>1
  <2> DEFINE A == {g \in 0..(k - 1) : g * s <= k - 1}
  <2>2. 0 \in A /\ A \subseteq 0..(k - 1)
    BY <1>1, <2>1
  <2>3. PICK g \in A : \A x \in A : g >= x
    <3> HIDE DEF A
    <3> QED
      BY <2>1, <2>2, BoundedSetHasMax
  <2>4. g \in Nat /\ g * s \in Nat /\ g * s <= k - 1 /\ (g + 1) * s = g * s + s
    BY <1>1, <2>1, Multiples
  <2>5. g * s + s > k - 1
    <3> SUFFICES ASSUME g * s + s <= k - 1 PROVE FALSE
      BY <1>1, <2>1, <2>4
    <3>1. g + 1 \in Nat /\ (g + 1) * s <= k - 1
      BY <2>4
    <3>2. g + 1 <= (g + 1) * s
      BY <1>1, <2>1, <3>1, Multiples
    <3>3. g + 1 \in 0..(k - 1)
      <4>1. PICK m \in Nat : m = (g + 1) * s
        BY <1>1, <3>1, Multiples
      <4> QED
        BY <2>1, <2>4, <3>1, <3>2, <4>1
    <3>4. g + 1 \in A
      BY <3>1, <3>3
    <3> HIDE DEF A
    <3> QED
      BY <2>3, <2>4, <3>4
  <2>6. g \in GenTask
    <3>1. ~ (NumTasks <= g)
      <4> SUFFICES ASSUME NumTasks <= g PROVE FALSE
        OBVIOUS
      <4>1. NumTasks * s <= g * s
        BY <1>1, <2>4, Multiples
      <4>2. NumTasks * s = s * NumTasks
        BY <1>1
      <4> QED
        BY <1>1, <2>1, <2>4, <4>1, <4>2
    <3> QED
      BY <1>1, <2>4, <3>1 DEF GenTask
  <2>7. PICK i \in Nat : i = k - g * s /\ i >= 1 /\ i <= s /\ g * s + i = k /\ i <= k
    BY <1>1, <2>1, <2>4, <2>5
  <2>8. i <= ChunkCount(g)
    BY <2>1, <2>6, <2>7, ChunkIs
  <2>9. <<g, i>> \in Positions
    <3>1. i \in 1..TotalTxns
      BY <1>1, <2>1, <2>7
    <3> HIDE DEF s
    <3> QED
      BY <2>6, <2>8, <3>1 DEF Positions
  <2> QED
    BY <2>7, <2>9
<1>4. ASSUME NEW p \in Positions, NEW q \in Positions, p[1] * s + p[2] = q[1] * s + q[2]
      PROVE  p = q
  <2>1. ASSUME NEW x \in Positions, NEW y \in Positions, x[1] < y[1]
        PROVE  x[1] * s + x[2] < y[1] * s + y[2]
    <3>1. PICK a \in Nat, b \in Nat, i \in Nat, j \in Nat :
             /\ a = x[1] /\ b = y[1] /\ i = x[2] /\ j = y[2] /\ 1 <= j /\ i <= s
             /\ a * s \in Nat /\ b * s \in Nat
      BY <1>2
    <3>2. a + 1 <= b /\ a + 1 \in Nat
      BY <2>1, <3>1
    <3>3. (a + 1) * s <= b * s /\ (a + 1) * s = a * s + s
      BY <1>1, <3>2, Multiples
    <3>4. PICK m \in Nat, n \in Nat : m = a * s /\ n = b * s
      BY <3>1
    <3>5. m + i < n + j
      BY <1>1, <3>1, <3>3, <3>4
    <3> QED
      BY <3>1, <3>4, <3>5
  <2>2. p[1] * s + p[2] \in Nat
    BY <1>2
  <2>3. p[1] = q[1]
    BY <1>2, <1>4, <2>1, <2>2
  <2>4. p[2] = q[2]
    <3>1. PICK m \in Nat, i \in Nat, j \in Nat : m = p[1] * s /\ i = p[2] /\ j = q[2]
      BY <1>2
    <3> QED
      BY <1>4, <2>3, <3>1
  <2> QED
    BY <1>2, <2>3, <2>4
<1> HIDE DEF s
<1>5. f \in [Positions -> 1..TotalTxns]
  <2>1. ASSUME NEW p \in Positions PROVE p[1] * s + p[2] \in 1..TotalTxns
    BY <1>1, <1>2
  <2> QED
    BY <2>1
<1>6. \A p \in Positions, q \in Positions : f[p] = f[q] => p = q
  BY <1>4
<1>7. \A k \in 1..TotalTxns : \E p \in Positions : f[p] = k
  BY <1>3
<1> HIDE DEF f
<1>8. f \in Bijection(Positions, 1..TotalTxns)
  BY <1>5, <1>6, <1>7 DEF Bijection, Injection, Surjection, IsInjective
<1>9. IsFiniteSet(Positions)
  <2>1. IsFiniteSet(GenTask) /\ IsFiniteSet(1..TotalTxns)
    BY <1>1, FS_Interval DEF GenTask
  <2>2. IsFiniteSet(GenTask \X (1..TotalTxns))
    BY <2>1, FS_Product
  <2>3. Positions \in SUBSET (GenTask \X (1..TotalTxns))
    BY DEF Positions
  <2> QED
    BY <2>2, <2>3, FS_Subset
<1>10. Cardinality(1..TotalTxns) = Cardinality(Positions)
  BY <1>8, <1>9, FS_Bijection DEF ExistsBijection
<1>11. Cardinality(1..TotalTxns) = TotalTxns
  BY <1>1, FS_Interval
<1> QED
  BY <1>10, <1>11

\* Only draws confined to the hotspot can go on for ever.
HungOnHotspot == hung # {} => hotspot_percentage = "all"

\* A generator step keeps that.
LEMMA HungStep ==
    ASSUME NEW g \in GenTask, GenerateTransaction(g), hotspot_percentage \in Hotspots, HungOnHotspot
    PROVE  HungOnHotspot'
<1>1. hotspot_percentage' = hotspot_percentage
  BY DEF GenerateTransaction
<1>2. CASE hung' = hung
  BY <1>1, <1>2 DEF HungOnHotspot
<1>3. CASE hung' # hung
  <2>1. PICK n : n = maybe_rotate_hotspot(g).node
    OBVIOUS
  <2>2. NumWarehouses > 1 /\ \E w \in random_warehouse(n) : random_warehouse_excluding(n, w) = {}
    BY <1>3, <2>1 DEF GenerateTransaction
  <2>3. 1 \in Warehouses /\ 2 \in Warehouses
    BY <2>2, TGAssumption DEF Warehouses
  <2>4. ~ (Warehouses \subseteq random_warehouse(n))
    BY <2>2, <2>3 DEF random_warehouse_excluding
  <2>5. hotspot_percentage = "all"
    BY <2>4, TGAssumption DEF random_warehouse
  <2> QED
    BY <1>1, <2>5 DEF HungOnHotspot
<1> QED
  BY <1>2, <1>3

(***************************************************************************)
(* Unless all draws go to the hotspot no generator task draws for ever,    *)
(* and when all tasks are done they have produced exactly the configured   *)
(* total, whatever the numbers of tasks and transactions.                  *)
(***************************************************************************)
THEOREM GenerationAlwaysExact == TpccSpec => []GenerationExact
<1>1. TpccInit => HungOnHotspot
  BY DEF TpccInit, TGInit, HungOnHotspot
<1>2. ExecInv /\ HungOnHotspot /\ [TpccNext]_tpccVars => HungOnHotspot'
  <2> SUFFICES ASSUME ExecInv, HungOnHotspot, [TpccNext]_tpccVars PROVE HungOnHotspot'
    OBVIOUS
  <2>1. hotspot_percentage \in Hotspots
    BY DEF ExecInv, Workload
  <2>2. CASE \E g \in GenTask : Generate(g)
    BY <2>1, <2>2, HungStep DEF Generate
  <2>3. CASE UNCHANGED tgVars
    BY <2>3 DEF HungOnHotspot, tgVars
  <2>4. (\E g \in GenTask : Generate(g)) \/ UNCHANGED tgVars
    <3>1. ASSUME NEW g \in GenTask, Commit(g) PROVE UNCHANGED tgVars
      BY <3>1 DEF Commit
    <3>2. ASSUME NEW t \in TxnId, TaskStep(t) PROVE UNCHANGED tgVars
      BY <3>2 DEF TaskStep, CheckTxn, ExecuteTxn, CommitObject, NotifyTxn
    <3>3. UNCHANGED tpccVars => UNCHANGED tgVars
      BY DEF tpccVars
    <3> QED
      BY <3>1, <3>2, <3>3 DEF TpccNext, Finished
  <2> QED
    BY <2>2, <2>3, <2>4
<1>3. HungOnHotspot => GenerationExact
  <2> SUFFICES ASSUME HungOnHotspot, Generated
               PROVE  Cardinality({p \in GenTask \X (1..TotalTxns) : p[2] <= Len(chunk[p[1]])}) =
                         TotalTxns
    BY DEF GenerationExact, HungOnHotspot
  <2>1. {p \in GenTask \X (1..TotalTxns) : p[2] <= Len(chunk[p[1]])} = Positions
    BY DEF Generated, Positions
  <2> QED
    BY <2>1, PositionsCounted
<1> QED
  BY <1>1, <1>2, <1>3, ExecInvariant, PTL DEF TpccSpec

=============================================================================
