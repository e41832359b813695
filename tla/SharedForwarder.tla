--------------------------- MODULE SharedForwarder ---------------------------
(***************************************************************************)
(* The primary's forwarder of shared-object transactions: a dispatcher     *)
(* that deals transactions round-robin to a pool of worker threads, and    *)
(* the workers, each of which takes one task at a time, waits until the    *)
(* transactions it conflicts with have been forwarded, picks a proxy,      *)
(* works out which states that proxy misses, sends the transaction and     *)
(* wakes the successors.                                                   *)
(*                                                                         *)
(* A load is one unit per transaction.  The pre-consensus scheduler is     *)
(* reduced to its effect on the shared maps: at some point, before or      *)
(* after the forwarder looks, a subgraph gets a proxy.  Channels to the    *)
(* proxies always drain, so a send only delays.                            *)
(***************************************************************************)
EXTENDS VersionAssignment, VersionedDependencyController, Integers

CONSTANTS
    NumProxies,      \* connected proxies, numbered from 0
    NumWorkers,      \* worker threads of the pool
    BufferSize,      \* capacity of a worker's task channel
    Deployments      \* settings to start from, see Deployment

TxnId == 1..MaxTxns

Modes == {"NoSeparation", "ProxySeparation",
          "PrimaryPreSeparation", "PrimaryPostSeparation"}

(***************************************************************************)
(* One setting: the SeparationMode, the PreConsensusSchedulingPolicy, the  *)
(* large subgraphs the pre-consensus scheduler plans, and a bound on the   *)
(* transactions of the run.                                                *)
(***************************************************************************)
Deployment ==
    [mode : Modes, policy : {"LSDS", "RSDS"}, subgraphs : SUBSET SUBSET TxnId, txns : TxnId]

\* Object identifiers are totally ordered; numbers stand for them.
ASSUME SFAssumption ==
    /\ Object \subseteq Nat
    /\ IsFiniteSet(Object)
    /\ NumProxies \in Nat \ {0}
    /\ NumWorkers \in Nat \ {0}
    /\ BufferSize \in Nat \ {0}
    /\ Deployments \subseteq Deployment
    /\ \A d \in Deployments : \A G, H \in d.subgraphs : G # H => G \cap H = {}

Proxy == 0..(NumProxies - 1)
NoProxy == -1
Worker == 0..(NumWorkers - 1)
NoTxn == 0

VARIABLES
    deployment,    \* the setting of this run, fixed from the start
    dispatched,    \* transactions handed to the pool (the code's counter)
    next_worker,   \* round-robin pointer of the pool
    queue,         \* worker -> its task channel
    pc,            \* worker -> where it is in process_forwarding_task
    task,          \* worker -> the transaction it works on
    awaiting,      \* worker -> Notifys it has still to wait for
    signals,       \* worker -> Notifys it will signal
    outbox,        \* worker -> the message it is about to send
    obj_task_map,  \* the dependency controller
    permits,       \* Notifys holding a permit
    pre_consensus_routing_plan,
    planned,       \* subgraphs the scheduler has been through
    states_to_proxy,
    proxy_loads,
    stateless_forwarding_table,
    stateless_pc,  \* transaction -> progress of its StatelessForwardingTask
    stateless_at,  \* transaction -> proxy its StatelessTxn was sent to
    sent           \* transaction -> message sent for it

workerVars == <<queue, pc, task, awaiting, signals, outbox>>
controllerVars == <<obj_task_map, permits>>
planVars == <<pre_consensus_routing_plan, planned>>
statelessVars == <<stateless_forwarding_table, stateless_pc, stateless_at>>

sfVars == <<deployment, vaVars, dispatched, next_worker, workerVars, controllerVars, planVars,
            states_to_proxy, proxy_loads, statelessVars, sent>>

Mode == deployment.mode
Policy == deployment.policy
Subgraphs == deployment.subgraphs

IsPrimarySeparation == Mode \in {"PrimaryPreSeparation", "PrimaryPostSeparation"}

NoMessage == [kind |-> "none", proxy |-> NoProxy, stateless |-> NoProxy, owner |-> << >>]

\* The identity under which a transaction's task creates Notifys.
TaskOf(t) == <<"txn", t>>

SFInit ==
    /\ VAInit
    /\ deployment \in Deployments
    /\ dispatched = 0
    /\ next_worker = 0
    /\ queue = [w \in Worker |-> << >>]
    /\ pc = [w \in Worker |-> "recv"]
    /\ task = [w \in Worker |-> NoTxn]
    /\ awaiting = [w \in Worker |-> {}]
    /\ signals = [w \in Worker |-> {}]
    /\ outbox = [w \in Worker |-> NoMessage]
    /\ obj_task_map = NewController(Object, Version)
    /\ permits = {}
    /\ pre_consensus_routing_plan = [t \in TxnId |-> NoProxy]
    /\ planned = {}
    /\ states_to_proxy = [k \in Object \X Version |-> NoProxy]
    /\ proxy_loads = [p \in Proxy |-> 0]
    /\ stateless_forwarding_table = [t \in TxnId |-> NoProxy]
    /\ stateless_pc = [t \in TxnId |-> "received"]
    /\ stateless_at = [t \in TxnId |-> NoProxy]
    /\ sent = [t \in TxnId |-> NoMessage]

-----------------------------------------------------------------------------
(* The version assignment task feeds the forwarder.                        *)

Assign(S) ==
    /\ Len(assigned) < deployment.txns
    /\ AssignSharedObjectVersions(S)
    /\ UNCHANGED <<deployment, dispatched, next_worker, workerVars, controllerVars, planVars,
                   states_to_proxy, proxy_loads, statelessVars, sent>>

\* The pool's round robin; the mutant forgets to wrap around.
NextWorker_NoWrap == next_worker + 1

NextWorker == (next_worker + 1) % NumWorkers

(***************************************************************************)
(* process_shared_txns and send_task: the next transaction goes to the     *)
(* next worker in turn; the send waits while that worker's channel is full.*)
(***************************************************************************)
SendTask ==
    /\ dispatched < Len(assigned)
    /\ Len(queue[next_worker]) < BufferSize
    /\ queue' = [queue EXCEPT ![next_worker] = Append(@, dispatched + 1)]
    /\ dispatched' = dispatched + 1
    /\ next_worker' = NextWorker
    /\ UNCHANGED <<deployment, vaVars, pc, task, awaiting, signals, outbox, controllerVars,
                   planVars, states_to_proxy, proxy_loads, statelessVars, sent>>

(***************************************************************************)
(* The pre-consensus scheduler assigns a subgraph to some proxy.           *)
(***************************************************************************)
PlanSubgraph(G, p) ==
    /\ G \notin planned
    /\ planned' = planned \cup {G}
    /\ pre_consensus_routing_plan' =
          [t \in TxnId |-> IF t \in G THEN p ELSE pre_consensus_routing_plan[t]]
    /\ proxy_loads' = [proxy_loads EXCEPT ![p] = @ + Cardinality(G)]
    /\ UNCHANGED <<deployment, vaVars, dispatched, next_worker, workerVars, controllerVars,
                   states_to_proxy, statelessVars, sent>>

-----------------------------------------------------------------------------
(* The stateless forwarder, in PrimaryPreSeparation mode only.             *)

\* The proxies pick_stateless_proxy may return: least loaded, ties in map order.
LeastLoaded == {p \in Proxy : \A q \in Proxy : proxy_loads[p] <= proxy_loads[q]}

\* StatelessForwardingTask::process up to and including the send ...
ForwardStateless(t, p) ==
    /\ Mode = "PrimaryPreSeparation"
    /\ t <= deployment.txns
    /\ stateless_pc[t] = "received"
    /\ p \in LeastLoaded
    /\ proxy_loads' = [proxy_loads EXCEPT ![p] = @ + 1]
    /\ stateless_at' = [stateless_at EXCEPT ![t] = p]
    /\ stateless_pc' = [stateless_pc EXCEPT ![t] = "sent"]
    /\ UNCHANGED <<deployment, vaVars, dispatched, next_worker, workerVars, controllerVars, planVars,
                   states_to_proxy, stateless_forwarding_table, sent>>

\* Mutant: the proxy is picked once more for the table.
RecordStateless_Repick(t) ==
    /\ stateless_pc[t] = "sent"
    /\ stateless_pc' = [stateless_pc EXCEPT ![t] = "done"]
    /\ \E p \in LeastLoaded :
          stateless_forwarding_table' = [stateless_forwarding_table EXCEPT ![t] = p]
    /\ UNCHANGED <<deployment, vaVars, dispatched, next_worker, workerVars, controllerVars, planVars,
                   states_to_proxy, proxy_loads, stateless_at, sent>>

\* ... and the table update that follows it.
RecordStateless(t) ==
    /\ stateless_pc[t] = "sent"
    /\ stateless_pc' = [stateless_pc EXCEPT ![t] = "done"]
    /\ stateless_forwarding_table' =
          [stateless_forwarding_table EXCEPT ![t] = stateless_at[t]]
    /\ UNCHANGED <<deployment, vaVars, dispatched, next_worker, workerVars, controllerVars, planVars,
                   states_to_proxy, proxy_loads, stateless_at, sent>>

-----------------------------------------------------------------------------
(* The workers: process_forwarding_task.                                   *)

\* Take a task from the channel; get the Notifys to wait on and to signal.
RecvTask(w) ==
    /\ pc[w] = "recv"
    /\ queue[w] # << >>
    /\ LET t == Head(queue[w])
           got == get_prior_dependency_and_update(obj_task_map, TaskOf(t), assigned[t],
                                                  FALSE, FALSE)
       IN  /\ task' = [task EXCEPT ![w] = t]
           /\ obj_task_map' = got.map
           /\ awaiting' = [awaiting EXCEPT ![w] = got.prior]
           /\ signals' = [signals EXCEPT ![w] = got.next]
    /\ queue' = [queue EXCEPT ![w] = Tail(@)]
    /\ pc' = [pc EXCEPT ![w] = "await"]
    /\ UNCHANGED <<deployment, vaVars, dispatched, next_worker, outbox, permits, planVars,
                   states_to_proxy, proxy_loads, statelessVars, sent>>

\* prior_notify.notified().await, one handle after the other.
AwaitPrior(w) ==
    /\ pc[w] = "await"
    /\ awaiting[w] # {}
    /\ LET h == FirstHandle(awaiting[w])
       IN  /\ h \in permits
           /\ permits' = permits \ {h}
           /\ awaiting' = [awaiting EXCEPT ![w] = @ \ {h}]
    /\ UNCHANGED <<deployment, vaVars, dispatched, next_worker, queue, pc, task, signals, outbox,
                   obj_task_map, planVars, states_to_proxy, proxy_loads, statelessVars, sent>>

\* How many of the required states each proxy already hosts.
HostedBy(required, p) ==
    Cardinality({k \in Keys(required) : states_to_proxy[k] = p})

\* get_proxy_for_shared_objects_most_states: ties broken by the counter.
MostStatesProxy(required, counter) ==
    LET best == {p \in Proxy : \A q \in Proxy : HostedBy(required, q) <= HostedBy(required, p)}
    IN  CHOOSE p \in best :
            Cardinality({q \in best : q < p}) = counter % Cardinality(best)

\* The proxy for a transaction the scheduler left out of its plan.
FallbackProxy(required, counter) ==
    IF Policy = "LSDS" THEN MostStatesProxy(required, counter) ELSE counter % NumProxies

\* Mutants: asking for states the proxy has itself, and keeping the old entry.
MissingStates_Own(required, p) ==
    [o \in DOMAIN required |-> states_to_proxy[<<o, required[o]>>]]

MoveStates_NoRemove(required, p) ==
    [k \in DOMAIN states_to_proxy |->
        IF k[1] \in DOMAIN required /\ k[2] = NextVersion(required) THEN p
        ELSE states_to_proxy[k]]

\* get_missing_states_for_transaction: who to fetch each required state from ...
MissingStates(required, p) ==
    [o \in DOMAIN required |->
        IF states_to_proxy[<<o, required[o]>>] # p
        THEN states_to_proxy[<<o, required[o]>>] ELSE NoProxy]

\* ... and the ownership map once p is due to produce the next versions.
MoveStates(required, p) ==
    [k \in DOMAIN states_to_proxy |->
        IF k \in Keys(required) THEN NoProxy
        ELSE IF k[1] \in DOMAIN required /\ k[2] = NextVersion(required) THEN p
        ELSE states_to_proxy[k]]

\* The proxies that may be named as the one verifying the transaction, given
\* the loads after the transaction itself has been placed on p.
StatelessChoices(t, p, loads) ==
    CASE Mode = "PrimaryPostSeparation" ->
            {s \in Proxy : \A q \in Proxy : loads[s] <= loads[q]}
      [] Mode = "PrimaryPreSeparation" ->
            {IF stateless_forwarding_table[t] = NoProxy THEN 0
                                                        ELSE stateless_forwarding_table[t]}
      [] OTHER -> {p}

\* Everything between the last wait and the send.
RouteTask(w) ==
    LET t == task[w]
        required == assigned[t]
        isPlanned == pre_consensus_routing_plan[t] # NoProxy
        p == IF isPlanned THEN pre_consensus_routing_plan[t]
                          ELSE FallbackProxy(required, t - 1)
        loads == IF isPlanned THEN proxy_loads ELSE [proxy_loads EXCEPT ![p] = @ + 1]
    IN
    /\ pc[w] = "await"
    /\ awaiting[w] = {}
    /\ obj_task_map' = remove_dependency(obj_task_map, required)
    /\ pre_consensus_routing_plan' = [pre_consensus_routing_plan EXCEPT ![t] = NoProxy]
    /\ states_to_proxy' = MoveStates(required, p)
    /\ \E s \in StatelessChoices(t, p, loads) :
          /\ outbox' = [outbox EXCEPT ![w] =
                [kind |-> IF IsPrimarySeparation THEN "Txn" ELSE "CombinedTxn",
                 proxy |-> p, stateless |-> s, owner |-> MissingStates(required, p)]]
          /\ proxy_loads' = IF Mode = "PrimaryPostSeparation"
                            THEN [loads EXCEPT ![s] = @ + 1] ELSE loads
    /\ stateless_forwarding_table' =
          IF Mode = "PrimaryPreSeparation"
          THEN [stateless_forwarding_table EXCEPT ![t] = NoProxy]
          ELSE stateless_forwarding_table
    /\ pc' = [pc EXCEPT ![w] = IF Mode = "PrimaryPostSeparation" THEN "verify" ELSE "send"]
    /\ UNCHANGED <<deployment, vaVars, dispatched, next_worker, queue, task, awaiting, signals,
                   permits, planned, stateless_pc, stateless_at, sent>>

\* In PrimaryPostSeparation the worker sends the verification request itself.
SendStateless(w) ==
    /\ pc[w] = "verify"
    /\ stateless_at' = [stateless_at EXCEPT ![task[w]] = outbox[w].stateless]
    /\ pc' = [pc EXCEPT ![w] = "send"]
    /\ UNCHANGED <<deployment, vaVars, dispatched, next_worker, queue, task, awaiting, signals, outbox,
                   controllerVars, planVars, states_to_proxy, proxy_loads,
                   stateless_forwarding_table, stateless_pc, sent>>

\* Mutant: the request is still unsent when the transaction leaves.
SendToProxy_Early(w) ==
    /\ pc[w] = "verify"
    /\ sent' = [sent EXCEPT ![task[w]] = outbox[w]]
    /\ UNCHANGED <<deployment, vaVars, dispatched, next_worker, workerVars, controllerVars, planVars,
                   states_to_proxy, proxy_loads, statelessVars>>

SendToProxy(w) ==
    /\ pc[w] = "send"
    /\ sent' = [sent EXCEPT ![task[w]] = outbox[w]]
    /\ outbox' = [outbox EXCEPT ![w] = NoMessage]
    /\ pc' = [pc EXCEPT ![w] = "notify"]
    /\ UNCHANGED <<deployment, vaVars, dispatched, next_worker, queue, task, awaiting, signals,
                   controllerVars, planVars, states_to_proxy, proxy_loads, statelessVars>>

\* notify_one on every successor's Notify, then back to the channel.
NotifyNext(w) ==
    /\ pc[w] = "notify"
    /\ permits' = permits \cup signals[w]
    /\ signals' = [signals EXCEPT ![w] = {}]
    /\ task' = [task EXCEPT ![w] = NoTxn]
    /\ pc' = [pc EXCEPT ![w] = "recv"]
    /\ UNCHANGED <<deployment, vaVars, dispatched, next_worker, queue, awaiting, outbox, obj_task_map,
                   planVars, states_to_proxy, proxy_loads, statelessVars, sent>>

\* A run of the model ends when all its transactions have been forwarded.
AllForwarded ==
    /\ Len(assigned) = deployment.txns
    /\ \A t \in Txns : sent[t] # NoMessage
    /\ \A w \in Worker : pc[w] = "recv"

Finished == AllForwarded /\ UNCHANGED sfVars

WorkerStep(w) ==
    \/ RecvTask(w)
    \/ AwaitPrior(w)
    \/ RouteTask(w)
    \/ SendStateless(w)
    \/ SendToProxy(w)
    \/ NotifyNext(w)

SFNext ==
    \/ \E S \in SUBSET Object : Assign(S)
    \/ SendTask
    \/ \E G \in Subgraphs, p \in Proxy : PlanSubgraph(G, p)
    \/ \E t \in TxnId, p \in Proxy : ForwardStateless(t, p)
    \/ \E t \in TxnId : RecordStateless(t)
    \/ \E w \in Worker : WorkerStep(w)
    \/ Finished

(***************************************************************************)
(* The dispatcher and every worker are threads of their own that keep      *)
(* polling; nothing obliges consensus or the scheduler to do anything.     *)
(***************************************************************************)
SFFairness ==
    /\ WF_sfVars(SendTask)
    /\ \A w \in Worker : WF_sfVars(WorkerStep(w))

SFSpec == SFInit /\ [][SFNext]_sfVars /\ SFFairness

-----------------------------------------------------------------------------

Message ==
    [kind : {"Txn", "CombinedTxn"}, proxy : Proxy, stateless : Proxy,
     owner : UNION {[S -> Proxy \cup {NoProxy}] : S \in (SUBSET Object) \ {{}}}]

Notifys == {<<o, v, TaskOf(t)>> : o \in Object, v \in Version, t \in TxnId}

(* The types of the variables. The index of the next worker stays below the
   number of workers, so send_task never indexes past its senders. *)
SFTypeOK ==
    /\ VATypeOK
    /\ deployment \in Deployments
    /\ dispatched \in 0..Len(assigned)
    /\ next_worker \in Worker
    /\ queue \in [Worker -> Seq(TxnId)]
    /\ pc \in [Worker -> {"recv", "await", "verify", "send", "notify"}]
    /\ task \in [Worker -> {NoTxn} \cup TxnId]
    /\ awaiting \in [Worker -> SUBSET Notifys]
    /\ signals \in [Worker -> SUBSET Notifys]
    /\ outbox \in [Worker -> {NoMessage} \cup Message]
    /\ obj_task_map \in [Object \X Version -> {NoTask} \cup {TaskOf(t) : t \in TxnId}]
    /\ permits \subseteq Notifys
    /\ pre_consensus_routing_plan \in [TxnId -> {NoProxy} \cup Proxy]
    /\ planned \subseteq Subgraphs
    /\ states_to_proxy \in [Object \X Version -> {NoProxy} \cup Proxy]
    /\ proxy_loads \in [Proxy -> Nat]
    /\ stateless_forwarding_table \in [TxnId -> {NoProxy} \cup Proxy]
    /\ stateless_pc \in [TxnId -> {"received", "sent", "done"}]
    /\ stateless_at \in [TxnId -> {NoProxy} \cup Proxy]
    /\ sent \in [TxnId -> {NoMessage} \cup Message]

\* A worker past its waits holds its transaction's objects exclusively.
Routing(w) == pc[w] \in {"verify", "send", "notify"} \/ (pc[w] = "await" /\ awaiting[w] = {})

(***************************************************************************)
(* The ownership map is read and written by all workers without a lock     *)
(* (states_to_proxy, RouteTask); only the Notify chain keeps them apart.   *)
(* Two workers must never route transactions with a common object at once. *)
(***************************************************************************)
ExclusiveRouting ==
    \A v, w \in Worker :
        v # w /\ Routing(v) /\ Routing(w) => ~ Conflicts(task[v], task[w])

(***************************************************************************)
(* No lost wake-up: a Notify somebody waits on is still the one the map    *)
(* holds, or the waiter's signal is already on its way to that very        *)
(* Notify.  Since an entry is created by whichever side comes first and    *)
(* removed by the waiter, a removal at the wrong time would leave waiter   *)
(* and signaller with two different Notifys and the waiter asleep.         *)
(***************************************************************************)
NoLostWakeup ==
    \A w \in Worker : \A h \in awaiting[w] :
        /\ obj_task_map[<<h[1], h[2]>>] = h[3]
        /\ \A v \in Worker : \A g \in signals[v] :
              <<g[1], g[2]>> = <<h[1], h[2]>> => g = h

(***************************************************************************)
(* The ownership map holds one entry per object that was ever routed, for  *)
(* its latest routed version: get_missing_states removes what it replaces, *)
(* so the map does not grow with the number of transactions.               *)
(***************************************************************************)
OneOwnerPerObject ==
    \A k, l \in DOMAIN states_to_proxy :
        states_to_proxy[k] # NoProxy /\ states_to_proxy[l] # NoProxy /\ k[1] = l[1] => k = l

(***************************************************************************)
(* Nothing piles up in the controller: when all transactions are through,  *)
(* what is left is one entry per object, the one its next user would wait  *)
(* on, with its permit already there.  Likewise the only entries left in   *)
(* the stateless forwarding table are of transactions that were routed     *)
(* before their entry was written and named the default verifier.          *)
(***************************************************************************)
OnlyTailsRemain ==
    /\ AllForwarded =>
          \A k \in DOMAIN obj_task_map :
              /\ obj_task_map[k] # NoTask => k[2] = shared_object_versions[k[1]]
              /\ k[2] = shared_object_versions[k[1]]
                   => <<k[1], k[2], obj_task_map[k]>> \in permits
    /\ AllForwarded =>
          \A t \in Txns : stateless_forwarding_table[t] # NoProxy => sent[t].stateless = 0

(***************************************************************************)
(* The forwarder implements the routing the proxies rely on.               *)
(***************************************************************************)
Routes == INSTANCE ObjectRouting WITH
    forwarded <- [t \in TxnId |-> [proxy |-> sent[t].proxy, owner |-> sent[t].owner]]

RoutesRefined == Routes!ORSpec

(***************************************************************************)
(* The forwarder names verifiers the way the proxies rely on: with primary *)
(* separation after consensus, only a proxy that has been sent the         *)
(* verification request; before consensus, that proxy or the default.      *)
(***************************************************************************)
Verifiers == INSTANCE VerifierRouting WITH
    Deployments <- {[mode |-> d.mode, owned |-> {}, stateless_mode |-> "Synthetic"] :
                        d \in Deployments},
    mode <- Mode, owned <- {}, stateless_mode <- "Synthetic",
    stateless_sent <- {[txn |-> t, proxy |-> stateless_at[t], by |-> "shared"] :
                          t \in {t \in TxnId : stateless_at[t] # NoProxy}},
    txn_sent <- [t \in TxnId |-> [kind |-> sent[t].kind, proxy |-> sent[t].proxy,
                                  stateless |-> sent[t].stateless]]

VerifiersRefined == Verifiers!VRSpec

(***************************************************************************)
(* Every transaction that got its versions is forwarded, although workers  *)
(* block on each other and the dispatcher blocks on a full channel.  The   *)
(* bound silences consensus in the end, so "again and again all are        *)
(* forwarded" says that each one is.                                       *)
(***************************************************************************)
EveryTxnForwarded == []<>(\A t \in Txns : sent[t] # NoMessage)

=============================================================================
