------------------------------ MODULE ProxyCore ------------------------------
(***************************************************************************)
(* The proxies: they receive shared-object transactions from the primary   *)
(* (abstracted to ObjectRouting, which the forwarder implements), fetch    *)
(* the states they miss from the proxies that produce them, order          *)
(* conflicting transactions through a dependency controller each, check    *)
(* versions, execute and report.                                           *)
(*                                                                         *)
(* Every spawned task is a process of its own; messages between nodes are  *)
(* delivered in any order (a connection hands messages to 16 concurrent    *)
(* handlers).  Stateless verification is reduced to its result, invalid    *)
(* being the transactions for which it is false.  The content of an object *)
(* is the transaction that wrote it last, 0 for its initial content, which *)
(* every proxy generates for itself at start-up.                           *)
(***************************************************************************)
EXTENDS ObjectRouting, VersionedDependencyController

CONSTANT MayFail   \* transactions whose verification may fail

ASSUME MayFailAssumption == MayFail \subseteq TxnId

VARIABLES
    invalid,       \* transactions whose stateless verification fails
    stage,         \* transaction -> progress of its task at its proxy
    awaiting,      \* transaction -> Notifys it has still to wait for
    signals,       \* transaction -> Notifys it will signal
    outcome,       \* transaction -> "pending", "success" or "skipped"
    reads,         \* transaction -> what it read of each object
    store,         \* proxy -> object -> the copy in its store
    obj_task_map,  \* proxy -> its dependency controller
    permits,       \* proxy -> Notifys holding a permit
    network,       \* messages between proxies, in flight
    serving,       \* tasks spawned by handle_stateful_request
    installing,    \* tasks spawned by handle_stateful_reply
    listening,     \* proxies whose ProxyMessageProcessor is alive
    up             \* proxies whose process is alive

inputVars == <<orVars, invalid>>
txnVars == <<stage, awaiting, signals, outcome, reads>>
controllerVars == <<obj_task_map, permits>>
migrationVars == <<network, serving, installing>>
healthVars == <<listening, up>>

pxVars == <<inputVars, txnVars, store, controllerVars, migrationVars, healthVars>>

ProxyOf(t) == forwarded[t].proxy

InitialCopy == [version |-> InitialVersion, writer |-> 0]

\* A reply that carries no object.
NoObject == [version |-> 0, writer |-> 0]

PXInit ==
    /\ ORInit
    /\ invalid \in SUBSET MayFail
    /\ stage = [t \in TxnId |-> "none"]
    /\ awaiting = [t \in TxnId |-> {}]
    /\ signals = [t \in TxnId |-> {}]
    /\ outcome = [t \in TxnId |-> "pending"]
    /\ reads = [t \in TxnId |-> << >>]
    /\ store = [p \in Proxy |-> [o \in Object |-> InitialCopy]]
    /\ obj_task_map = [p \in Proxy |-> NewController(Object, Version)]
    /\ permits = [p \in Proxy |-> {}]
    /\ network = {}
    /\ serving = {}
    /\ installing = {}
    /\ listening = Proxy
    /\ up = Proxy

-----------------------------------------------------------------------------
(* The primary.                                                            *)

Primary ==
    /\ ORNext
    /\ UNCHANGED <<invalid, txnVars, store, controllerVars, migrationVars, healthVars>>

-----------------------------------------------------------------------------
(* PrimaryMessageProcessor.                                                *)

\* Every other proxy has a connection; messages may be handled in any order.
send_msg_to_proxy(messages) == network' = network \cup messages


\* A list with one object.
Single(o, v) == [x \in {o} |-> v]

\* One request per required state that another proxy produces.
StatefulRequests(t) ==
    {[kind |-> "request", from |-> ProxyOf(t), to |-> forwarded[t].owner[o],
      object_id |-> o, version |-> assigned[t][o]] :
        o \in {o \in Objects(t) : forwarded[t].owner[o] # NoProxy}}

\* handle_primary_message, down to spawning the transaction's task.
HandlePrimaryMessage(t) ==
    /\ IsForwarded(t)
    /\ ProxyOf(t) \in up
    /\ stage[t] = "none"
    /\ send_msg_to_proxy(StatefulRequests(t))
    /\ stage' = [stage EXCEPT ![t] = "spawned"]
    /\ UNCHANGED <<inputVars, awaiting, signals, outcome, reads, store, controllerVars,
                   serving, installing, healthVars>>

-----------------------------------------------------------------------------
(* The task of a transaction: spawn_stateful_txn.                          *)

GetDependencies(t) ==
    /\ stage[t] = "spawned"
    /\ ProxyOf(t) \in up
    /\ LET p == ProxyOf(t)
           got == get_prior_dependency_and_update(obj_task_map[p], <<"txn", t>>,
                                                  assigned[t], FALSE, FALSE)
       IN  /\ obj_task_map' = [obj_task_map EXCEPT ![p] = got.map]
           /\ awaiting' = [awaiting EXCEPT ![t] = got.prior]
           /\ signals' = [signals EXCEPT ![t] = got.next]
    /\ stage' = [stage EXCEPT ![t] = "await"]
    /\ UNCHANGED <<inputVars, outcome, reads, store, permits, migrationVars, healthVars>>

AwaitPrior(t) ==
    /\ stage[t] = "await"
    /\ ProxyOf(t) \in up
    /\ awaiting[t] # {}
    /\ LET h == FirstHandle(awaiting[t])
       IN  /\ h \in permits[ProxyOf(t)]
           /\ permits' = [permits EXCEPT ![ProxyOf(t)] = @ \ {h}]
           /\ awaiting' = [awaiting EXCEPT ![t] = @ \ {h}]
    /\ UNCHANGED <<inputVars, stage, signals, outcome, reads, store, obj_task_map,
                   migrationVars, healthVars>>

\* Mutant: only presence is checked.
pre_execute_check_Present(t) == \A o \in Objects(t) : o \in DOMAIN store[ProxyOf(t)]

\* pre_execute_check: the store holds the required version of every object.
pre_execute_check(t) ==
    \A o \in Objects(t) : store[ProxyOf(t)][o].version = assigned[t][o]

\* All waits over: drop the entries, decide between executing and skipping.
CheckTxn(t) ==
    /\ stage[t] = "await"
    /\ ProxyOf(t) \in up
    /\ awaiting[t] = {}
    /\ obj_task_map' = [obj_task_map EXCEPT ![ProxyOf(t)] = remove_dependency(@, assigned[t])]
    /\ IF t \notin invalid /\ pre_execute_check(t)
       THEN /\ stage' = [stage EXCEPT ![t] = "execute"]
            /\ UNCHANGED outcome
       ELSE /\ stage' = [stage EXCEPT ![t] = "notify"]
            /\ outcome' = [outcome EXCEPT ![t] = "skipped"]
    /\ UNCHANGED <<inputVars, awaiting, signals, reads, store, permits, migrationVars, healthVars>>

\* Mutants: the version not moved on, or computed from the lowest input.
Written_SameVersion(t) == [version |-> NextVersion(assigned[t]) - 1, writer |-> t]
Written_Lowest(t) == [version |-> Min(Range(assigned[t])) + 1, writer |-> t]

\* The copy of each input that a transaction leaves behind.
Written(t) == [version |-> NextVersion(assigned[t]), writer |-> t]

\* The store of p after the new copies have been inserted.
commit_objects(p, new_state) ==
    [store EXCEPT ![p] = [o \in Object |-> IF o \in DOMAIN new_state THEN new_state[o] ELSE @[o]]]

\* Executor::execute: read every input, write every input at the next version.
ExecuteTxn(t) ==
    /\ stage[t] = "execute"
    /\ ProxyOf(t) \in up
    /\ reads' = [reads EXCEPT ![t] =
          [o \in Objects(t) |-> store[ProxyOf(t)][o].writer]]
    /\ store' = commit_objects(ProxyOf(t), [o \in Objects(t) |-> Written(t)])
    /\ outcome' = [outcome EXCEPT ![t] = "success"]
    /\ stage' = [stage EXCEPT ![t] = "notify"]
    /\ UNCHANGED <<inputVars, awaiting, signals, controllerVars, migrationVars, healthVars>>

\* Wake the successors and hand the result to the node.
NotifyAndReport(t) ==
    /\ stage[t] = "notify"
    /\ ProxyOf(t) \in up
    /\ permits' = [permits EXCEPT ![ProxyOf(t)] = @ \cup signals[t]]
    /\ signals' = [signals EXCEPT ![t] = {}]
    /\ stage' = [stage EXCEPT ![t] = "reported"]
    /\ UNCHANGED <<inputVars, awaiting, outcome, reads, store, obj_task_map, migrationVars,
                   healthVars>>

\* The node asserts that every result is a success.
CollectResult(t) ==
    /\ stage[t] = "reported"
    /\ ProxyOf(t) \in up
    /\ stage' = [stage EXCEPT ![t] = "done"]
    /\ up' = IF outcome[t] = "success" THEN up ELSE up \ {ProxyOf(t)}
    /\ UNCHANGED <<inputVars, awaiting, signals, outcome, reads, store, controllerVars,
                   migrationVars, listening>>

-----------------------------------------------------------------------------
(* ProxyMessageProcessor.                                                  *)

Listens(p) == p \in listening \cap up

\* handle_stateful_request: wait for the producer before answering.
HandleStatefulRequest(m) ==
    /\ m.kind = "request"
    /\ Listens(m.to)
    /\ LET got == get_prior_dependency_and_update(obj_task_map[m.to],
                      <<"request", m.object_id, m.version>>,
                      Single(m.object_id, m.version), FALSE, TRUE)
       IN  /\ obj_task_map' = [obj_task_map EXCEPT ![m.to] = got.map]
           /\ serving' = serving \cup
                 {[at |-> m.to, from |-> m.from, object_id |-> m.object_id,
                   version |-> m.version, awaiting |-> got.prior]}
    /\ network' = network \ {m}
    /\ UNCHANGED <<inputVars, txnVars, store, permits, installing, healthVars>>

AwaitProducer(s) ==
    /\ s.at \in up
    /\ s.awaiting # {}
    /\ s.awaiting \subseteq permits[s.at]
    /\ permits' = [permits EXCEPT ![s.at] = @ \ s.awaiting]
    /\ serving' = (serving \ {s}) \cup {[s EXCEPT !.awaiting = {}]}
    /\ UNCHANGED <<inputVars, txnVars, store, obj_task_map, network, installing, healthVars>>

\* Read the object; a copy at another version is left out of the reply.
ReplyStateful(s) ==
    /\ s.at \in up
    /\ s.awaiting = {}
    /\ obj_task_map' = [obj_task_map EXCEPT ![s.at] =
          remove_dependency(@, Single(s.object_id, s.version))]
    /\ LET copy == store[s.at][s.object_id]
       IN  send_msg_to_proxy(
              {[kind |-> "reply", from |-> s.at, to |-> s.from, object_id |-> s.object_id,
                object |-> IF copy.version = s.version THEN copy ELSE NoObject]})
    /\ serving' = serving \ {s}
    /\ UNCHANGED <<inputVars, txnVars, store, permits, installing, healthVars>>

(***************************************************************************)
(* handle_stateful_reply treats the object as produced by a transaction    *)
(* from the version before it.  On an empty reply the controller finds no  *)
(* maximum and panics, which ends the proxy's message loop.                *)
(***************************************************************************)
HandleStatefulReply(m) ==
    /\ m.kind = "reply"
    /\ Listens(m.to)
    /\ network' = network \ {m}
    /\ IF m.object = NoObject
       THEN /\ listening' = listening \ {m.to}
            /\ UNCHANGED <<obj_task_map, installing>>
       ELSE LET got == get_prior_dependency_and_update(obj_task_map[m.to],
                           <<"reply", m.object_id, m.object.version>>,
                           Single(m.object_id, m.object.version - 1), TRUE, FALSE)
            IN  /\ obj_task_map' = [obj_task_map EXCEPT ![m.to] = got.map]
                /\ installing' = installing \cup
                      {[at |-> m.to, object_id |-> m.object_id, object |-> m.object,
                        signals |-> got.next, committed |-> FALSE]}
                /\ UNCHANGED listening
    /\ UNCHANGED <<inputVars, txnVars, store, permits, serving, up>>

\* The task spawned for a reply: commit the object ...
CommitMigrated(i) ==
    /\ i.at \in up
    /\ ~ i.committed
    /\ store' = commit_objects(i.at, Single(i.object_id, i.object))
    /\ installing' = (installing \ {i}) \cup {[i EXCEPT !.committed = TRUE]}
    /\ UNCHANGED <<inputVars, txnVars, controllerVars, network, serving, healthVars>>

\* ... and wake the transaction that waits for it.
NotifyMigrated(i) ==
    /\ i.at \in up
    /\ i.committed
    /\ permits' = [permits EXCEPT ![i.at] = @ \cup i.signals]
    /\ installing' = installing \ {i}
    /\ UNCHANGED <<inputVars, txnVars, store, obj_task_map, network, serving, healthVars>>

-----------------------------------------------------------------------------

TxnStep(t) ==
    \/ HandlePrimaryMessage(t)
    \/ GetDependencies(t)
    \/ AwaitPrior(t)
    \/ CheckTxn(t)
    \/ ExecuteTxn(t)
    \/ NotifyAndReport(t)
    \/ CollectResult(t)

MigrationStep ==
    \/ \E m \in network : HandleStatefulRequest(m) \/ HandleStatefulReply(m)
    \/ \E s \in serving : AwaitProducer(s) \/ ReplyStateful(s)
    \/ \E i \in installing : CommitMigrated(i) \/ NotifyMigrated(i)

AllDone ==
    /\ Len(assigned) = MaxTxns
    /\ \A t \in TxnId : stage[t] = "done"

\* A skipped result has ended a process, or an empty reply a message loop.
Crashed == up # Proxy \/ listening # Proxy

\* The system may come to rest when all is done, and after a crash.
Finished == (AllDone \/ Crashed) /\ UNCHANGED pxVars

PXNext ==
    \/ Primary
    \/ \E t \in TxnId : TxnStep(t)
    \/ MigrationStep
    \/ Finished

(***************************************************************************)
(* The runtime polls every task that can make progress, the network        *)
(* delivers, and the primary forwards every transaction it has assigned    *)
(* (which the forwarder's own liveness establishes).  No task can take     *)
(* infinitely many steps, so fairness of the three groups of tasks is      *)
(* fairness of each task.                                                  *)
(***************************************************************************)
Forwarding ==
    /\ \E t \in TxnId, p \in Proxy : Forward(t, p)
    /\ UNCHANGED <<invalid, txnVars, store, controllerVars, migrationVars, healthVars>>

PXFairness ==
    /\ WF_pxVars(Forwarding)
    /\ WF_pxVars(\E t \in TxnId : TxnStep(t))
    /\ WF_pxVars(MigrationStep)

PXSpec == PXInit /\ [][PXNext]_pxVars /\ PXFairness

-----------------------------------------------------------------------------

Copy == [version : {0} \cup Version, writer : {0} \cup TxnId]

Creator ==
    {<<"txn", t>> : t \in TxnId}
      \cup {<<k, o, v>> : k \in {"request", "reply"}, o \in Object, v \in Version}

Notifys == {<<o, v, c>> : o \in Object, v \in Version, c \in Creator}

(* The types of the variables: the stores hold versions the primary can have
   assigned, the controllers map (object, version) pairs to Notifys. *)
PXTypeOK ==
    /\ VATypeOK
    /\ invalid \subseteq MayFail
    /\ \A t \in TxnId : IsForwarded(t) => ProxyOf(t) \in Proxy
    /\ stage \in [TxnId -> {"none", "spawned", "await", "execute", "notify", "reported", "done"}]
    /\ awaiting \in [TxnId -> SUBSET Notifys]
    /\ signals \in [TxnId -> SUBSET Notifys]
    /\ outcome \in [TxnId -> {"pending", "success", "skipped"}]
    /\ \A t \in TxnId : outcome[t] = "success" => reads[t] \in [Objects(t) -> {0} \cup TxnId]
    /\ store \in [Proxy -> [Object -> Copy]]
    /\ obj_task_map \in [Proxy -> [Object \X Version -> {NoTask} \cup Creator]]
    /\ permits \in [Proxy -> SUBSET Notifys]
    /\ \A m \in network : m.kind \in {"request", "reply"} /\ m.from \in Proxy /\ m.to \in Proxy
    /\ \A s \in serving : s.at \in Proxy /\ s.awaiting \subseteq Notifys
    /\ \A i \in installing : i.at \in Proxy /\ i.object \in Copy /\ i.signals \subseteq Notifys
    /\ listening \subseteq Proxy /\ up \subseteq Proxy

(***************************************************************************)
(* Two proxies that hold the same version of an object hold the same       *)
(* content, although copies travel while transactions keep executing.      *)
(***************************************************************************)
CopiesAgree ==
    \A p, q \in Proxy, o \in Object :
        store[p][o].version = store[q][o].version => store[p][o] = store[q][o]

(***************************************************************************)
(* All parties that meet at an (object, version) of one proxy - the local  *)
(* or remote producer and the transaction or request that needs it - use   *)
(* the same Notify, whoever of them asked the controller first.            *)
(***************************************************************************)
HandlesAt(p) ==
    permits[p] \cup
    UNION ({awaiting[t] \cup signals[t] : t \in {t \in TxnId : ProxyOf(t) = p}}
           \cup {s.awaiting : s \in {s \in serving : s.at = p}}
           \cup {i.signals : i \in {i \in installing : i.at = p}})

SameNotify ==
    \A p \in Proxy : \A g, h \in HandlesAt(p) :
        <<g[1], g[2]>> = <<h[1], h[2]>> => g = h

(***************************************************************************)
(* A proxy's copy never goes back to an older version: handle_stateful_    *)
(* reply commits a migrated object without waiting for anything, and still *)
(* never overwrites something newer.                                       *)
(***************************************************************************)
StoreMovesForward ==
    [][\A p \in Proxy, o \in Object : store'[p][o].version >= store[p][o].version]_store

(***************************************************************************)
(* When everything is done each object's controller entry is left exactly  *)
(* once, at the proxy that produced the last version: the entries of both  *)
(* ends of every migration are gone.                                       *)
(***************************************************************************)
OnlyTailsRemain ==
    AllDone /\ up = Proxy =>
        /\ network = {} /\ serving = {} /\ installing = {}
        /\ \A p \in Proxy : \A k \in DOMAIN obj_task_map[p] :
              obj_task_map[p][k] # NoTask <=>
                 /\ k[2] = shared_object_versions[k[1]]
                 /\ store[p][k[1]].version = k[2]

(***************************************************************************)
(* The proxies together implement the serial database.  The database's     *)
(* content of an object is the newest copy any proxy holds.                *)
(***************************************************************************)
LatestWriter(o) ==
    LET newest == CHOOSE p \in Proxy :
                      \A q \in Proxy : store[q][o].version <= store[p][o].version
    IN  store[newest][o].writer

Serial == INSTANCE SerialExecution WITH db <- [o \in Object |-> LatestWriter(o)]

SerialRefined == Serial!SESpec

(***************************************************************************)
(* While no verification fails, every transaction that consensus ordered   *)
(* is executed and its result collected, through all the waiting on each   *)
(* other and on migrations.                                                *)
(* (In the bounded model consensus falls silent in the end, so "again and  *)
(* again all are complete" says that each one completes.)                  *)
(***************************************************************************)
EveryTxnCompletes ==
    invalid = {} => []<>(\A t \in Txns : stage[t] = "done" /\ outcome[t] = "success")

(***************************************************************************)
(* core.rs: "check the version ID for shared objects / skip if versions    *)
(* don't match": every transaction is executed or skipped, whatever        *)
(* happened to the ones before it.                                         *)
(***************************************************************************)
EveryTxnExecutedOrSkipped ==
    \A t \in TxnId : t \in Txns ~> outcome[t] # "pending"

=============================================================================
