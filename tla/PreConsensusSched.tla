-------------------------- MODULE PreConsensusSched --------------------------
(***************************************************************************)
(* The pre-consensus scheduler of the primary.  While a sealed batch waits *)
(* for consensus, a thread of its own groups the batch's transactions into *)
(* the connected components of their conflict graph, scores the proxies    *)
(* for every component of two or more by locality and load, and leaves the *)
(* chosen proxy in a routing plan.  The forwarder's workers take their     *)
(* transaction's entry out of the plan, or fall back to a proxy of their   *)
(* own choice when there is none yet: the two race on the plan and on the  *)
(* loads, both concurrent maps.  Where the primary separates, the picks of *)
(* a proxy for the verification count in the same loads.                   *)
(*                                                                         *)
(* An object is an account number, as the fake workloads draw them.  A     *)
(* load is one unit per transaction, and one per verification.             *)
(* Transactions without a shared object are routed by another forwarder;   *)
(* the order among conflicting ones is SharedForwarder's subject and is    *)
(* left open here, as is the fallback's choice.                            *)
(***************************************************************************)
EXTENDS Integers, Sequences, FiniteSets, FiniteSetsExt

CONSTANTS
    WorkloadType, \* the fake workloads to draw transactions from
    Accounts,     \* account numbers that are drawn
    NumInputs,    \* number_of_inputs of the Zipfian workload
    NumTxns,      \* transactions in the client's stream
    BatchSize,    \* transactions of a full batch
    NumProxies,   \* connected proxies, numbered from 0
    SeparationMode, \* separation modes the primary may be started in
    NumSeparated  \* bound: transactions of the stream where the primary separates

ASSUME PSAssumption ==
    /\ Accounts \subseteq Nat
    /\ NumInputs \in Nat \ {0}
    /\ NumTxns \in Nat
    /\ BatchSize \in Nat \ {0}
    /\ NumProxies \in Nat
    /\ NumSeparated \in 0..NumTxns

TxnId == 1..NumTxns
Object == Accounts
Proxy == 0..(NumProxies - 1)
NoProxy == -1
\* The proxies with an entry in proxy_loads: a pick without a proxy says 0.
Charged == Proxy \cup {0}

VARIABLES
    separation_mode,
    objects,       \* transaction -> its shared objects (the input)
    engine,        \* the consensus task: "up" or "panicked"
    batches,       \* batches sealed so far, each a set of transactions
    committed,     \* transactions consensus has delivered
    channel,       \* batches on their way to the scheduler
    pc,            \* where the scheduler thread is
    graph,         \* dependency graph of the batch in hand
    unassigned,    \* large subgraphs without a proxy
    inserting,     \* digests of the current subgraph still to enter the plan
    assignments,   \* proxies chosen but not yet accounted for, in order
    pre_consensus_routing_plan,
    proxy_loads,
    object_last_proxy,
    routed,        \* transaction -> [proxy, planned] once its proxy is chosen
    verifier       \* transaction -> the proxy picked to verify it

inputVars == <<separation_mode, objects, batches, committed>>
batchVars == <<graph, unassigned, inserting, assignments>>
psVars == <<inputVars, engine, channel, pc, batchVars, pre_consensus_routing_plan,
            proxy_loads, object_last_proxy, routed, verifier>>

\* The transactions the client submits.
Submitted ==
    IF separation_mode \in {"PrimaryPreSeparation", "PrimaryPostSeparation"}
    THEN 1..NumSeparated ELSE TxnId

NotRouted == [proxy |-> NoProxy, planned |-> FALSE]

-----------------------------------------------------------------------------

TableSize == 2^24

\* The identifier of an account holds its number's bytes, lowest first.
ObjectId(o) == [i \in 0..3 |-> (o \div 256^i) % 256]

\* object_id_24bit_index: of the first three bytes.
Index(o) ==
    LET bytes == ObjectId(o)
    IN  bytes[0] + 2^8 * bytes[1] + 2^16 * bytes[2] - 1

\* The accounts one transaction may draw; how often each is drawn is external.
load(workload) ==
    LET UpTo(n) == {A \in SUBSET Accounts : Cardinality(A) \in 1..n}
    IN  CASE workload \in {"FakeUniswapNormal", "FakeUniswapPeak"} -> UpTo(1)
          [] workload \in {"FakeEthereumTransfers", "FakeEthereumNftMint"} -> UpTo(2)
          [] workload = "FakeZipfian" -> UpTo(NumInputs)
          [] workload = "FakeSolanaTransactions" -> UpTo(Cardinality(Accounts))

\* The stream of one workload: the accounts of every transaction are drawn anew.
Workloads == UNION {[Submitted -> load(workload)] : workload \in WorkloadType}

InTable(o) == Index(o) \in 0..(TableSize - 1)

PSInit ==
    /\ separation_mode \in SeparationMode
    /\ objects \in Workloads
    /\ engine = "up"
    /\ batches = {}
    /\ committed = {}
    /\ channel = << >>
    /\ pc = "recv"
    /\ graph = {}
    /\ unassigned = {}
    /\ inserting = {}
    /\ assignments = << >>
    /\ pre_consensus_routing_plan = [t \in TxnId |-> NoProxy]
    /\ proxy_loads = [p \in Charged |-> 0]
    /\ object_last_proxy = [i \in {Index(o) : o \in {o \in Object : InTable(o)}} |-> NoProxy]
    /\ routed = [t \in TxnId |-> NotRouted]
    /\ verifier = [t \in TxnId |-> NoProxy]

-----------------------------------------------------------------------------
(* The consensus engine around the scheduler.                              *)

\* A batch is sealed when it is full or the timer fires, and is sent to the
\* scheduler; the send's unwrap panics, and the engine with it, when the
\* scheduler has dropped its receiver.  All that arrived goes into the batch,
\* what is being verified among it.
Seal(n) ==
    LET first == Cardinality(UNION batches) + 1
        T == first..(first + n - 1)
    IN
    /\ engine = "up"
    /\ T \subseteq Submitted
    /\ \A t \in TxnId : verifier[t] # NoProxy => t < first + n
    /\ batches' = batches \cup {T}
    /\ IF pc = "panicked"
       THEN engine' = "panicked" /\ UNCHANGED channel
       ELSE channel' = Append(channel, T) /\ UNCHANGED engine
    /\ UNCHANGED <<separation_mode, objects, committed, pc, batchVars,
                   pre_consensus_routing_plan, proxy_loads, object_last_proxy, routed, verifier>>

\* The delay of a sealed batch is over and its transactions are delivered.
Commit(T) ==
    /\ engine = "up"
    /\ T \cap committed = {}
    /\ committed' = committed \cup T
    /\ UNCHANGED <<separation_mode, objects, engine, batches, channel, pc, batchVars,
                   pre_consensus_routing_plan, proxy_loads, object_last_proxy, routed, verifier>>

-----------------------------------------------------------------------------
(* Building the graph and its subgraphs.                                   *)

\* The accessor of o that object_to_last_accessor holds when t is reached.
LastAccessor(T, t, o) == {u \in T : u < t /\ o \in objects[u]
                                     /\ \A v \in T : u < v /\ v < t => o \notin objects[v]}

\* Mutant: only a transaction's first object is looked up.
build_dependency_graph_FirstObject(T) ==
    {e \in T \X T : \E o \in objects[e[2]] :
        (\A x \in objects[e[2]] : o <= x) /\ e[1] \in LastAccessor(T, e[2], o)}

\* build_dependency_graph: an edge from the last accessor of each object.
build_dependency_graph(T) ==
    {e \in T \X T : \E o \in objects[e[2]] : e[1] \in LastAccessor(T, e[2], o)}

\* What the depth-first search from a node visits: after n rounds, the nodes
\* at distance at most n in the graph taken as undirected.
Visited(T, E, t) ==
    LET reach[n \in 0..Cardinality(T)] ==
          IF n = 0 THEN {t}
          ELSE LET prev == reach[n - 1]
               IN  prev \cup {u \in T : \E v \in prev : <<u, v>> \in E \/ <<v, u>> \in E}
    IN  reach[Cardinality(T)]

find_all_subgraphs(T, E) == {Visited(T, E, t) : t \in T}

\* schedule_transaction_batch up to the assignment: with no proxy the batch is
\* dropped, subgraphs of one transaction are left to the forwarder.
ScheduleBatch ==
    /\ pc = "recv"
    /\ channel # << >>
    /\ channel' = Tail(channel)
    /\ IF NumProxies = 0
       THEN UNCHANGED <<pc, graph, unassigned>>
       ELSE LET T == Head(channel)
                E == build_dependency_graph(T)
            IN  /\ graph' = E
                /\ unassigned' = {G \in find_all_subgraphs(T, E) : Cardinality(G) >= 2}
                /\ pc' = "assign"
    /\ UNCHANGED <<inputVars, engine, inserting, assignments, pre_consensus_routing_plan,
                   proxy_loads, object_last_proxy, routed, verifier>>

-----------------------------------------------------------------------------
(* Assigning a proxy to each large subgraph.                               *)

Accesses(G) == {a \in G \X Object : a[2] \in objects[a[1]]}

Locality(G, p) == Cardinality({a \in Accesses(G) : object_last_proxy[Index(a[2])] = p})

AtLeastOne(n) == IF n = 0 THEN 1 ELSE n

\* The combined score with its two denominators multiplied out.
Score(G, p) ==
    LET maxLocality == AtLeastOne(Max({Locality(G, q) : q \in Proxy}))
        maxLoad == AtLeastOne(Max({proxy_loads[q] : q \in Proxy}))
    IN  Locality(G, p) * maxLoad + (maxLoad - proxy_loads[p]) * maxLocality

BestProxies(G) == {p \in Proxy : \A q \in Proxy : Score(G, q) <= Score(G, p)}

\* Largest first; the sort is stable, so ties keep the order of discovery.
NextSubgraph ==
    CHOOSE G \in unassigned : \A H \in unassigned :
        \/ Cardinality(H) < Cardinality(G)
        \/ Cardinality(H) = Cardinality(G) /\ Min(G) <= Min(H)

\* assign_large_subgraph_proxy up to the choice.  Loads are those before the
\* batch: they are updated only once every subgraph has its proxy.
AssignSubgraph ==
    /\ pc = "assign"
    /\ inserting = {}
    /\ unassigned # {}
    /\ LET G == NextSubgraph IN
       IF \E a \in Accesses(G) : ~ InTable(a[2])
       THEN /\ pc' = "panicked"
            /\ channel' = << >>
            /\ UNCHANGED <<unassigned, inserting, assignments>>
       ELSE /\ \E p \in BestProxies(G) :
                  assignments' = Append(assignments, [txns |-> G, proxy |-> p])
            /\ unassigned' = unassigned \ {G}
            /\ inserting' = G
            /\ UNCHANGED <<pc, channel>>
    /\ UNCHANGED <<inputVars, engine, graph, pre_consensus_routing_plan, proxy_loads,
                   object_last_proxy, routed, verifier>>

\* The plan is filled digest by digest, in the order of a hash set.
InsertPlan(t) ==
    /\ t \in inserting
    /\ inserting' = inserting \ {t}
    /\ pre_consensus_routing_plan' =
          [pre_consensus_routing_plan EXCEPT ![t] = assignments[Len(assignments)].proxy]
    /\ UNCHANGED <<inputVars, engine, channel, pc, graph, unassigned, assignments,
                   proxy_loads, object_last_proxy, routed, verifier>>

\* update_state_for_sds, one subgraph after the other.
UpdateState ==
    /\ pc = "assign"
    /\ inserting = {}
    /\ unassigned = {}
    /\ assignments # << >>
    /\ LET a == Head(assignments) IN
       /\ proxy_loads' = [proxy_loads EXCEPT ![a.proxy] = @ + Cardinality(a.txns)]
       /\ object_last_proxy' =
             [i \in DOMAIN object_last_proxy |->
                 IF \E x \in Accesses(a.txns) : Index(x[2]) = i THEN a.proxy
                                                                ELSE object_last_proxy[i]]
    /\ assignments' = Tail(assignments)
    /\ UNCHANGED <<inputVars, engine, channel, pc, graph, unassigned, inserting,
                   pre_consensus_routing_plan, routed, verifier>>

BatchDone ==
    /\ pc = "assign"
    /\ inserting = {}
    /\ unassigned = {}
    /\ assignments = << >>
    /\ pc' = "recv"
    /\ graph' = {}
    /\ UNCHANGED <<inputVars, engine, channel, unassigned, inserting, assignments,
                   pre_consensus_routing_plan, proxy_loads, object_last_proxy, routed, verifier>>

-----------------------------------------------------------------------------
(* The forwarder's side: the first lines of what follows a worker's waits. *)

\* Mutant: the entry is read and left in the plan.
RouteTxn_KeepsPlan(t) ==
    LET isPlanned == pre_consensus_routing_plan[t] # NoProxy IN
    /\ t \in committed
    /\ objects[t] # {}
    /\ routed[t] = NotRouted
    /\ \E p \in Proxy :
          /\ isPlanned => p = pre_consensus_routing_plan[t]
          /\ routed' = [routed EXCEPT ![t] = [proxy |-> p, planned |-> isPlanned]]
          /\ proxy_loads' = IF isPlanned THEN proxy_loads ELSE [proxy_loads EXCEPT ![p] = @ + 1]
    /\ UNCHANGED <<inputVars, engine, channel, pc, batchVars, object_last_proxy, verifier,
                   pre_consensus_routing_plan>>

RouteTxn(t) ==
    LET isPlanned == pre_consensus_routing_plan[t] # NoProxy IN
    /\ t \in committed
    /\ objects[t] # {}
    /\ routed[t] = NotRouted
    /\ pre_consensus_routing_plan' = [pre_consensus_routing_plan EXCEPT ![t] = NoProxy]
    /\ \E p \in Proxy :
          /\ isPlanned => p = pre_consensus_routing_plan[t]
          /\ routed' = [routed EXCEPT ![t] = [proxy |-> p, planned |-> isPlanned]]
          /\ proxy_loads' = IF isPlanned THEN proxy_loads ELSE [proxy_loads EXCEPT ![p] = @ + 1]
    /\ UNCHANGED <<inputVars, engine, channel, pc, batchVars, object_last_proxy, verifier>>

\* A transaction has reached the engine: sealed, or in the batch being filled.
Arrived(t) ==
    \/ t \in UNION batches
    \/ engine = "up" /\ t \in Submitted /\ t <= Cardinality(UNION batches) + BatchSize

\* Where pick_stateless_proxy is called: by the stateless forwarder for what
\* arrives, or by the worker that has chosen the transaction's own proxy.
NeedsVerifier(t) ==
    /\ verifier[t] = NoProxy
    /\ \/ separation_mode = "PrimaryPreSeparation" /\ Arrived(t)
       \/ separation_mode = "PrimaryPostSeparation" /\ routed[t] # NotRouted

\* pick_stateless_proxy.  The minimum is looked for proxy by proxy while the
\* loads change, so any may come out; the pick then counts in its load.
PickStatelessProxy(t) ==
    /\ NeedsVerifier(t)
    /\ \E p \in IF Proxy = {} THEN {0} ELSE Proxy :
          /\ verifier' = [verifier EXCEPT ![t] = p]
          /\ proxy_loads' = [proxy_loads EXCEPT ![p] = @ + 1]
    /\ UNCHANGED <<inputVars, engine, channel, pc, batchVars, pre_consensus_routing_plan,
                   object_last_proxy, routed>>

-----------------------------------------------------------------------------

\* A run of the model ends when the stream is through, or the engine is gone.
Ended ==
    /\ engine = "up" => pc # "assign" /\ channel = << >> /\ committed = Submitted
    /\ \A t \in TxnId : t \in committed /\ objects[t] # {} => routed[t] # NotRouted
    /\ \A t \in TxnId : ~ NeedsVerifier(t)
    /\ UNCHANGED psVars

SchedulerStep ==
    \/ ScheduleBatch
    \/ AssignSubgraph
    \/ \E t \in TxnId : InsertPlan(t)
    \/ UpdateState
    \/ BatchDone

PSNext ==
    \/ \E n \in 1..BatchSize : Seal(n)
    \/ \E T \in batches : Commit(T)
    \/ SchedulerStep
    \/ \E t \in TxnId : RouteTxn(t) \/ PickStatelessProxy(t)
    \/ Ended

PSSpec == PSInit /\ [][PSNext]_psVars

-----------------------------------------------------------------------------

Conflict(t, u) == objects[t] \cap objects[u] # {}

(***************************************************************************)
(* What is handed to the assignment are exactly the conflict components of *)
(* the batch with two or more transactions: although each object remembers *)
(* only its last accessor, two conflicting transactions are never split,   *)
(* and no subgraph falls into two parts without a conflict between them.   *)
(***************************************************************************)
SubgraphsAreComponents ==
    [][ScheduleBatch =>
         LET T == Head(channel) IN
         /\ \A t, u \in T : t # u /\ Conflict(t, u) =>
               \E G \in unassigned' : {t, u} \subseteq G
         /\ \A G \in unassigned' : G \subseteq T /\
               \A S \in SUBSET G : S # {} /\ S # G =>
                   \E t \in S, u \in G \ S : Conflict(t, u)]_psVars

(***************************************************************************)
(* The race between plan and forwarder does no more harm than this.        *)
(* Conflicting transactions of a batch that both follow the plan go to one *)
(* proxy, however the insertions interleave with the routing.  An entry    *)
(* that outlives its transaction belongs to one routed ahead of its plan.  *)
(* And between batches a proxy's load is the transactions routed to it and *)
(* the verifications picked for it, plus the plan's entries that name it:  *)
(* what is counted twice is exactly what was planned too late.             *)
(***************************************************************************)
PlanExplained ==
    /\ \A T \in batches : \A t, u \in T :
          Conflict(t, u) /\ routed[t].planned /\ routed[u].planned
            => routed[t].proxy = routed[u].proxy
    /\ \A t \in TxnId :
          routed[t] # NotRouted /\ pre_consensus_routing_plan[t] # NoProxy => ~ routed[t].planned
    /\ pc = "recv" =>
          \A p \in Proxy :
              proxy_loads[p] = Cardinality({t \in TxnId : routed[t].proxy = p})
                             + Cardinality({t \in TxnId : pre_consensus_routing_plan[t] = p})
                             + Cardinality({t \in TxnId : verifier[t] = p})

(***************************************************************************)
(* The table of last proxies has an entry for every index the scheduler    *)
(* computes ("2^24 to match object_id_24bit_index range"), so no object    *)
(* identifier ends the scheduler's thread and, through the next send to    *)
(* it, the consensus engine.                                               *)
(***************************************************************************)
EngineKeepsRunning == engine = "up"

=============================================================================
