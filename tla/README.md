# Remora in TLA+

Remora executes the transactions of a blockchain validator on several machines.
A *primary* receives ordered transactions from consensus, gives every access to a
shared object a version, and forwards transactions to *proxies*. A proxy fetches
the object states it misses from other proxies, orders conflicting transactions
among themselves, checks versions, executes and reports. This directory models
that pipeline, checks it with TLC on small instances and proves parts of it with
TLAPS. Paths below are relative to `src/src/` of the repository unless they start
with `docs/`.

## 1. Inventory

| Component (code) | State | Operations | Talks to |
|---|---|---|---|
| Consensus engine (`primary/mock_consensus.rs`) | batch in the making, batches in flight and their counter, timer | receive, timer, commit | clients; stateless forwarder, pre-consensus scheduler, load balancer (channels) |
| Load balancer (`primary/load_balancer.rs`) | senders to the two paths | split a commit into owned and shared transactions | the tasks below, each on a thread of its own |
| Version assignment (`primary/shared_obj_txn_forwarder.rs` 429-525) | object -> version | assign the versions of one transaction | shared-object forwarder |
| Pre-consensus scheduler (same file, 49-427) | routing plan, ownership, loads | plan a proxy for each large subgraph | shared-object forwarder (shared maps) |
| Shared-object forwarder (same file, 527-932) | `states_to_proxy`, loads, table of verifiers, dependency controller | dispatch to workers, wait for predecessors, pick a proxy, list missing states, send | proxies |
| Stateless forwarder (same file, 566-609, 934-1006) | table of verifiers, loads | send a verification request, record where | proxies |
| Owned-object forwarder (`primary/owned_obj_txn_forwarder.rs`) | round-robin index | send request and transaction to one proxy | proxies |
| Worker pool (`executor/worker_pool.rs`) | channels, round-robin index, thread handles | `send_task`, worker loop, drop | its owner |
| Versioned dependency controller (`executor/versioned_dependency_controller.rs`) | (object, version) -> Notify | get-or-create for prior and next versions, remove | forwarder workers, proxy tasks |
| Oneshot dependency controller (`executor/oneshot_dependency_controller.rs`) | transaction -> ends of a oneshot channel | set local/remote, get, take, remove | proxy tasks |
| Proxy core (`proxy/core.rs`) | store, the two controllers, tasks | messages from the primary and from peers, one task per transaction, request and reply | other proxies, node |
| Proxy node, primary node (`proxy/node.rs`, `primary/node.rs`) | connections | collect results, wire channels | network |
| Executors (`executor/fake.rs`, `sui.rs`) | object store | verify, check versions, execute | proxy core |
| TPC-C executor (`executor/tpcc/`) | rows as versioned objects; per generator task a hotspot | generate transactions, NEW_ORDER, PAYMENT, commit object by object | proxy core |
| Stateless crypto (`executor/stateless_crypto.rs`) | one key pair per scheme | make a request, verify it | executors |
| Networking (`networking/`) | per connection: queue, stream, read buffer | accept, connect (retried until it succeeds once), batched write, framed read | nodes |
| Load generator (`client/`, `bin/load_generator.rs`) | chunks of transactions | connect, deal, submit, exit | primary |

What is hard here. Versions are recomputed in four places from the required
versions of a transaction. Workers block on each other while they share maps
without a lock, and only Notify chains keep them apart. The entry of a Notify or
of a oneshot channel is created by whichever side comes first. States migrate while
transactions execute. Nothing orders the messages of two connections, or of one
connection (frames are handed to concurrent handlers). A transaction and its
verification request are separate messages, and the result may be owed by a third
machine. Plans are made while their transactions may already be routed. Connections
break and are not made again, and the client exits with messages still queued. TPC-C
rows are read, changed and written back as a whole, object by object, beside other
tasks. `PROJECT.json` lists these hazards at their lines.

What makes each part correct: versions form one unbroken chain per object
(version assignment); conflicting transactions are routed one at a time, in order,
with the right owner for every state, and all of them are routed (forwarder); no
wake-up is lost and nothing is left behind (both controllers); the proxies together
behave as one serial database (proxy core); nothing executes before it is verified
(stateless path); the limit on batches in flight holds and nothing is lost or
committed twice (consensus); a plan keeps conflicting transactions together
(scheduler); nothing arrives twice, and what was written arrives unless something broke
(client path); the books balance (TPC-C).

## 2. Modules

    VersionAssignment <-- VersionAssignmentProofs
        |-- ObjectRouting        what the primary promises about routing
        |       ^ refined by SharedForwarder (RoutesRefined)
        |       '-- ProxyCore    extends it: the proxies see only the promise <-- MCProxyCore
        |               ^-- ProxyCoreProofs
        |-- SerialExecution      what the proxies promise
        |       ^ refined by ProxyCore (SerialRefined)
        |-- SharedForwarder <-- MCSharedForwarder
        |       ^-- SharedForwarderProofs
        |       | refines (VerifiersRefined)
        |       v
        |   VerifierRouting      what the primary promises about verification
        |       '-- StatelessPath <-- MCStatelessPath, StatelessPathProofs
        '-- Tpcc                 extends it, over TPC-C rows, and TpccGenerator <-- TpccProofs
    MockConsensus
        '-- ClientPath           composes it with LoadGenerator, which extends Network
                ^-- MockConsensusProofs
    PreConsensusSched               the scheduler between consensus and forwarder
        ^-- PreConsensusSchedProofs
    DataLemmas                      numbers, finite sets and folds, for all proof modules
    WorkerPool                      life cycle of a pool
    VersionedDependencyController   used by SharedForwarder and ProxyCore
    OneshotDependencyController     used by StatelessPath
    StatelessCrypto                 used by VerifierRouting and StatelessPath

The pipeline is checked in parts: the forwarder is shown to implement
`ObjectRouting` and `VerifierRouting`, and the proxies are composed with these
instead of the forwarder.

**VersionAssignment.** `shared_object_versions` is the task's map, `assigned` the
required versions handed on. A transaction is its position in the consensus order;
one action is one iteration of `assign_shared_object_versions`. `NextVersion` is the
computation that `get_missing_states_for_transaction` and the executors repeat.

**VersionedDependencyController, OneshotDependencyController.** Libraries of
operators, one per method. A Notify is named by its key and its creator, so an entry
removed and created again is another Notify, as another `Arc<Notify>` is; the same
goes for channels. `tokio::sync::Notify` itself is external: `notify_one` leaves a
permit, `notified().await` takes it.

**SharedForwarder.** The dispatcher (`SendTask`), and per worker the steps of
`process_forwarding_task` between its await points: `RecvTask` (handles from the
controller), `AwaitPrior`, `RouteTask` (proxy, missing states, ownership, loads,
verifier), `SendStateless`, `SendToProxy`, `NotifyNext`. The deployment (separation mode,
policy, planned subgraphs) is fixed at the start; `MCSharedForwarder` lists the two that are
checked. A transaction's objects are a set, since `TransactionWithTimestamp::new` collects
them into a map. `RouteTask` takes all its
accesses to shared maps in one step. For the ownership map `ExclusiveRouting`
justifies that; plan, table and loads only influence which proxy is picked, and
`PlanSubgraph`, `ForwardStateless` and `RecordStateless` interleave anywhere else. A
load is one unit per transaction. The scheduler appears here as its effect on the plan;
it has a module of its own. `SendToProxy` always succeeds: the proxies and their connections
are taken to be up. What a connection that is gone does to a message, which
`send_to_proxy` logs and drops, is in `ClientPath` (`Forward`).

**ProxyCore.** One action per handler and per segment of a spawned task between
awaits. The content of an object is its last writer. `invalid` are the transactions
whose verification fails, `MayFail` which ones may. `listening` and `up` record the
panics: an empty reply ends a proxy's peer loop, a skipped result its process.
Nothing in the module tells one proxy from another, so `MCProxyCore` explores only
behaviours that use the proxies for the first time in the order of their numbers; any
other behaviour is one of these with the proxies renamed.

**VerifierRouting, StatelessPath.** Who is sent the verification request and which
proxy the transaction names; then the controllers, the verification tasks, the waits,
requests and replies. The separation mode is fixed at the start; `MCStatelessPath`
lists the deployments. A primary message processor takes one message at a time, and
stops after the request is sent until the remote dependency is registered (`Idle`).
The verdict of a check is computed by `StatelessCrypto` from the request that the
executor makes in the deployment's stateless mode, and travels through channels and
replies; a transaction may end "verified" or "refused". Signature schemes are ideal:
a signature is its scheme, key and digest.

**MockConsensus.** One action per branch of `select!`, plus `DropReceiver` for a thread at
the other end of one of the engine's three channels that goes away. Without the load
balancer the engine breaks off its loop; without the scheduler or, in PrimaryPreSeparation,
the stateless forwarder, the `unwrap` of its next send panics it, after the batch has gone to
the delay model or before the transaction has entered the batch. Delays are arbitrary: any
batch in flight may be next.

**PreConsensusSched.** `build_dependency_graph`, `find_all_subgraphs`, the score with its
denominators multiplied out, the plan filled digest by digest, the loads updated after all
subgraphs of the batch have their proxy. Accounts are numbers and `ObjectId` their
little-endian bytes, so that `Index` is the code's arithmetic; `load` gives the accounts
that each fake workload may draw. `RouteTxn` is the forwarder's side of the race, and
`PickStatelessProxy` that of whoever looks for a verifier: it adds to the same `proxy_loads`,
in PrimaryPreSeparation from the stateless forwarder, for every transaction that has arrived,
and in PrimaryPostSeparation from the worker that has just routed the transaction. Its search
for the least load reads proxy by proxy while the others write, so the model lets any proxy
come out. A load is one unit per transaction and per verification. A panic
of the scheduler thread closes its channel, and the engine's next `send` unwraps the error.

**Network, LoadGenerator, ClientPath.** A link is one connection with its queue, writer,
bytes under way, reader and the frames of the last read. `ClientPath` puts the load
generator, the links, the consensus engine and the primary's link to a proxy together;
the forwarder between the last two forwards in committed order. A bounded number of
faults (a socket that fails, a connection that breaks, a frame that is too long, a thread of
the primary that goes away) may happen at any time. Once the engine has stopped, its channel
is closed and `HandOnToPrimary` drops what it reads, as `handle_read_stream` does with a
warning. That every frame deserializes is assumed: both ends of a connection are this
program, with one format.

**TpccGenerator, Tpcc.** What the generator tasks can draw, and the executor on a proxy:
rows reduced to the fields that transactions change, objects with version and contents,
the two transactions as functions from rows to rows, and a task per transaction that
waits, checks, reads, computes and inserts its objects one by one. A committed
transaction gets its versions from `VersionAssignment`, over the objects of its
`access_set`. The generator tasks are joined (`Generated`); the arm of that join for a task
that panicked is left out, since no step of a task panics in the model. Predecessors are awaited directly: that the dependency controller amounts
to this is what `ProxyCore` shows.

**WorkerPool.** `send_task`, `worker_loop` and `Drop`, with the senders the pool owns.

Operators named `Definition_Variant` (`PriorKeys_OffByOne`) are slips of the kind
that code could have, kept beside the definition they vary: put in its place, they
make TLC refute the property `PROJECT.json` pairs them with. No specification uses
them.

## 3. Runs

| Run | Instance | Shows |
|---|---|---|
| `forwarder` | 2 objects, 2 proxies, 2 workers, channels of 1; 4 transactions with PrimaryPostSeparation, LSDS and one planned subgraph, 3 with PrimaryPreSeparation, RSDS and the stateless forwarder racing for table and loads | `VersionsIncrease`, `VersionChain`, `MapHoldsTail` on versions; `ExclusiveRouting`, `NoLostWakeup`, `OneOwnerPerObject`, `OnlyTailsRemain`, `RoutesRefined`, `VerifiersRefined`, `EveryTxnForwarded`; no deadlock |
| `proxies` | 2 objects, 3 transactions, 3 proxies, the first transaction's verification may fail | `CopiesAgree`, `SameNotify`, `StoreMovesForward`, `OnlyTailsRemain`; `SerialRefined` across skips and crashes; without a failure, `EveryTxnCompletes`; no deadlock |
| `stateless` | 2 transactions, 3 proxies, every separation mode, every stateless mode | `VerifiedFirst`, `ReceiversNotAbandoned`, `NoEntryLeft`, `NoProcessorPanics`, `EveryLocalTxnVerified` |
| `client_path` | 3 transactions, 2 clients, 1 proxy, batches of 2, 2 in flight, PrimaryPreSeparation, engine channel of 1, at most one fault | `InflightBounded`, `ExactlyOnce`, `PreparedFirst`, `EveryArrivalCommitted` of the engine; `NeverTwice`, `WrittenReachesProxy` of the path |
| `scheduler` | 4 transactions without separation, 3 in PrimaryPreSeparation and in PrimaryPostSeparation, on 2 accounts that share a table index, any split into batches, 2 proxies | `SubgraphsAreComponents`, `PlanExplained`; no deadlock |
| `tpcc` | 2 warehouses on 3 nodes, 3 transactions from 2 generator tasks, orders of one or two lines, the first transaction may fail | `SkipsCascade`, `BooksBalance`, `OrderNumbersDense`, `GenerationExact`; no deadlock |

Six runs refute what the repository says of the program:

- `proxies_skip`: "skip if versions don't match" (`proxy/core.rs`). A transaction whose
  check fails (the requests the program makes itself do verify) is skipped, but the node asserts success on its result and dies;
  a successor elsewhere gets an empty reply, on which the controller panics in the
  peer loop. Later transactions are neither executed nor skipped.
- `stateless_lost_reply`: the request for a remote result is sent before the sender
  for the reply is registered. A reply handled in between is dropped, and the
  transaction waits for ever.
- `stateless_wrong_proxy`: in PrimaryPreSeparation the table of verifiers is written
  after the verification request is sent; a transaction routed before that names
  proxy 0, which may never verify it.
- `stateless_owned_panic`: owned-object transactions are sent as `StatelessTxn` and
  `Txn` in every mode; in the modes without separation at the primary the proxy panics.
- `scheduler_zero_prefix`: the table has "2^24 to match object_id_24bit_index range", but an
  identifier that starts with three zero bytes (account 0, or a multiple of 2^24) has index
  -1. The first conflict that involves one ends the scheduler thread, and the next batch
  panics the engine, which unwraps its send to the scheduler.
- `worker_pool`: "Wait for all worker threads to finish". The pool joins its threads while
  it still owns the senders they receive from, so dropping it never ends.

A leak shows in the model without being refuted by a document: in
PrimaryPreSeparation an owned-object transaction is verified twice (once for
consensus, once for its forwarder), and the controller entry of the second
verification may stay, as may table entries written after they were looked up.
`NoEntryLeft` leaves out the transactions concerned, and `OnlyTailsRemain` says which
table entries stay. `PlanExplained` says the same of the routing plan: an entry that stays
belongs to a transaction routed ahead of its plan, and is counted twice in the loads.
`GenerationExact` allows a generator task to draw for ever when every draw goes to a
hotspot node with a single warehouse, which the code then does.

Some properties exclude one half of what can go wrong and describe the other. `NeverTwice`
excludes repetition under any fault, and loss only as long as nothing has broken and the
generator runs. `WrittenReachesProxy` speaks of what was written: a queue that the exit of
the load generator takes with it, or that a broken connection leaves behind, is lost without
a violation, since nothing in the code acknowledges or retries a message. What it excludes is
that a fault on one connection stops another, or that something other than a broken
connection to the proxy or a stopped engine keeps an arrival from the proxy. The proxy's
accept loop ends after its one connection from the primary; the primary never tries a second
one, so nothing depends on it. `EveryArrivalCommitted` allows the engine to stop only when
one of its three receivers has gone; the run `scheduler_zero_prefix` shows that the scheduler
does go.

**Bounds.** Each names what it limits: `MaxTxns`, `MaxArrivals`, `NumTxns`, `TotalTxns`,
`NumSeparated`, `BufferSize`, `ChannelSize`, `NumWorkers`, `NumProxies`, `NumClients`, `MaxFaults`. Two
objects and three transactions give chains, forks and joins of conflicts and versions that
jump (a transaction on both objects lifts the lower one by more than one). Four
transactions over two workers with one-place channels fill every channel while both
workers wait. Three proxies allow an object to migrate twice to new places and let
executor, verifier and default proxy differ. Transactions on the stateless path meet only
at the processors, so two are enough. Three transactions over two clients leave one client
with a short chunk, fill a batch and leave another to the timer, and make an engine channel
of one place hold frames back. Four transactions of the scheduler form two components of
two, one of four, and batches that compete for a proxy; three, where the primary separates,
still form a component beside a single transaction, with picks of a verifier at every moment
(`NumSeparated`); accounts 1 and 16777217 share an
index of the table. A stock of 19 and lines of 10 units meet the restocking threshold,
two lines may order from one stock, and with two warehouses on three nodes one node has
none. Conflicts among more transactions on more objects are out of these runs' reach; the
theorems of section 4 have no such bound. The forwarder's deployments leave out
NoSeparation and ProxySeparation, where it takes the same steps except
`SendStateless`, and names the executing proxy.

**Fairness.** Weak fairness of the dispatcher and of each worker (threads that poll),
of the tasks and the message handlers at proxies (the tokio runtime polls every ready
task and the channels deliver), of the timer and the delays in consensus. In `ClientPath`
no step can repeat for ever, so weak fairness of "some step" is fairness of each task;
faults are never owed. In `WorkerPool` threads run and tasks end. Nothing is
assumed of consensus or of the scheduler where the forwarder is checked; the primary's part in `ProxyCore` is fair
because `EveryTxnForwarded` says so. A bounded instance falls silent in the end, so
`[]<>(all are through)` says that each gets through. Where a run says
`CHECK_DEADLOCK FALSE`, its instance may rightly stop: arrivals are used up, a connection
or a process has died, or the primary sends nothing more. `forwarder`, `proxies`,
`scheduler` and `tpcc` check deadlock: there an explicit step (`Finished`, `Ended`) marks
the states in which the instance may rest.

## 4. Proofs

Each theorem holds for every value of the constants that satisfies the assumption named
with it. Every invariant below was first checked by TLC on the instance of its run.

**`DataLemmas`** holds what the proofs need about data. The provers cannot instantiate the
library's induction theorems, so each induction is written out: take the least
counterexample (`NatSetHasMin`, from the well-foundedness of the naturals) and step back
from it. In this way `RecursionExists` and `RecursionUnique` give meaning to a function that
recurs by taking one element out of a finite set, and from them follow `SumIs`, which says
that a fold of the community modules is such a sum, `SumAdds`, which says how a sum changes
when one summand does, and `IteratesExist`, which is recursion over the naturals.

**`VersionAssignmentProofs`**, for any set of objects and any number of transactions,
from `MaxTxnsAssumption` (`MaxTxns \in Nat`):

- `UniqueVersions`: the versions an object is accessed at strictly increase along the
  consensus order (`docs/architecture.md`: "unique versions"). Not inductive: the step
  must know that the map is above all that was assigned.
- `ChainedVersions`: each access requires what its predecessor produces, computed from
  the predecessor's own requirements.
- `TailHeld`: the map holds what the last transaction on an object produces.
- `VATypeCorrect`: types, and versions bounded by the number of transactions. The types are
  part of those of the forwarder and of the proxies, and are not checked separately.

The inductive invariant `VAInv` adds to these `Dominance` (the map is at least what any
transaction on the object produced) and `VersionsBounded`. `NextVersionBounds` and
the lemmas on finite ranges give what `Max` returns.

**`SharedForwarderProofs`**, for any number of proxies, workers, places in a channel and
every deployment, from `SFAssumption`: the objects are finitely many numbers (their
identifiers are byte arrays, ordered, and a `BTreeMap` awaits them in that order), and the
planned subgraphs are disjoint, as components of a graph are.

- `SFTypeCorrect`: types. `BaseInv` adds `Placed` (a transaction is in one place: not yet
  sent, in one channel, with one worker, or done) and `Stages` (what a worker holds at each
  program counter).
- `RoutingExcludes`: workers that route at the same time have no object in common.
- `WakeupsKept`: no wake-up is lost.

Both follow from `ChainInv`, which says what the Notify chain is: who waits, waits on the
Notify in the map for the version it reads (`WaitsHeld`); who will signal, signals the one
in the map for the version it produces (`SignalsHeld`); a permit was given by the producer
and its reader has yet to take it (`PermitsDue`, `PermitsKept`); an entry is one somebody
still needs (`EntriesUsed`); and a transaction is past its waits only when all before it on
its objects are done (`InOrder`). The six parts need each other: an entry removed too early
(`EntriesUsed`) would break the agreement of waiter and signaller, and without that
agreement a permit says nothing about the order.

`OwnersInv` adds the data: the ownership map names exactly the last routed transaction on
each object, and a message about to leave names the right previous owners.

- `OneOwner`: one entry per object.
- `ForwarderRoutes`: the forwarder implements `ObjectRouting`. `SendToProxy` maps to
  `Forward`, version assignment to itself, every other step to a stutter. That `RouteTask`
  reads the map while others write it is where `InOrder` is needed.

`VerifierInv` ties the table of verifiers, the requests sent and the verifier each message
names to each other.

- `ForwarderVerifies`: both forwarders together implement `VerifierRouting`.
- `TailsRemain`: what is left in controller and table when all is forwarded.

**`MockConsensusProofs`**, for every batch size, limit and number of arrivals, from
`MCAssumption`:

- `InflightLimit`: the counter equals the number of batches in flight and never
  exceeds the limit, although the timer seals without looking at it. `MCInv` adds
  `BatchesApart`: a batch in the making ends with the latest arrival and the batches in
  flight are older, so a sealed batch is a new element of the set and counter and
  cardinality move together.
- `NoArrivalLostOrRepeated`: every arrival is in exactly one place. `Separate` says that
  the batch in the making is the latest arrivals in order and that no two sealed batches
  share one; `Covered` that each arrival is somewhere.
- `ShownBeforeCommit`: a batch is shown to the scheduler before it commits, or the engine
  stops. `Asked` adds that in PrimaryPreSeparation the batch in the making has been sent to verification.
- `EngineOnPath`, `MCTypeCorrect`: all of these hold on the whole client path (`CPSpec`),
  because each of its steps is a step of the engine or leaves the engine's variables alone.
- `NeverInTwoPlaces`: no transaction is ever in two places between the load generator and
  the proxy, for any number of clients, transactions and faults, any bound on frames in a
  write, and from `CPAssumption` (one link per client and one to the proxy; the frames that
  may be too long are transactions).

`NeverTwice` counts, over all links, so its invariant counts as well. `PathInv` has four
parts. `SourceInv` is the clients' side: chunks, queues, wires, frames and the engine's
channel together hold a transaction at most once, and exactly once while the generator runs
and nothing has broken (`OnePlaceEach`); without a fault no writer ends before its client
(`Lossless`); and while clients connect, one after the other (`InTurn`), nothing has been
submitted (`Quiet`). `EngineInv` adds to the engine's invariants that the
committed transactions, as one row, repeat nothing (`FlatInv`). `ForwardInv` bounds what is
on the proxy's side by the commits already forwarded. And `Awake` says that without a fault
the engine runs, so that a frame it can no longer take was lost after one. A step of a link moves one message or
loses some, so a sum over the clients changes in one summand (`SumAdds`) or only goes down
(`SumMonotone`).

**`PreConsensusSchedProofs`**, for any accounts, number of transactions, batch size and
number of proxies, from `PSAssumption`:

- `ComponentsHandedOut`: the subgraphs handed to the assignment are the conflict components
  of the batch with two or more transactions (`SubgraphsAreComponents`), if at least one
  proxy is connected; with none the code drops the batch. The search is closed after as
  many rounds as there are transactions, since each round before that adds one
  (`RoundsEnd`); the accessors of an object are all on one side of a closed set, since each
  is linked to the one before (`AccessorsTogether`); and a part that holds the start and
  that no edge leaves is everything visited (`VisitedConnected`).
- `PlanAlwaysExplained`: `PlanExplained`. It speaks of routed transactions and of quiet
  moments; `SchedInv` says what holds in between. Batches are cut from the stream one after
  the other and wait in the channel once (`Sealed`, `Queued`); the subgraphs in hand are
  whole components without a transaction in common (`InHand`); what is still to come up has
  left no trace in plan or routes (`Fresh`); while a subgraph is entered, its transactions
  are planned for its proxy or not at all (`Filling`); and a load plus what is owed to it is
  what was routed, what is in the plan, what is about to be entered and what was picked for
  verification (`LoadsAdd`). It holds in every separation mode: a pick of a verifier adds one
  to a load and to the picks at once (`PickKeeps`).

**`StatelessPathProofs`**, for any number of transactions and proxies and every
deployment, from `VRAssumption`:

- `NeverUnverified`, `NoReceiverAbandoned`, `EntriesCleared`, `SPTypeCorrect`.
- `ProcessorsSurvive`: no processor panics, where owned-object transactions are sent only in
  the modes that separate at the primary (`OwnedOnlySeparated`). The run
  `stateless_owned_panic` shows that the hypothesis is needed; the deployments of
  `stateless` satisfy it.

The inductive invariant is one predicate per transaction, `TxnInv(t)`: how far it has got
(`Progress`), which verifications run and what they hold (`Verifications`), which channel
ends its entries may have (`Slots`), that a result anywhere says "verified" (`Results`),
that no receiver is without a sender (`Ends`), and where entries may be (`Left`). A step of
a proxy is about one transaction (`Only`), and `TxnInv` of the others survives because
nothing of theirs changed (`Untouched`).

**`ProxyCoreProofs`**, for any number of proxies, objects and transactions and whatever
verifications fail, from the assumptions of `VersionAssignment`, `ObjectRouting` and
`ProxyCore`:

- `PXTypeCorrect`: types.
- `NotifysAgree`: all parties that meet at a version of an object use one Notify.

Both follow from `NotifyInv`. `Base` holds the types, the routes (a message names the proxy
of each predecessor) and the stages of a task. `Moves` says that whatever is on the network,
being served or being installed belongs to a request of some started transaction, and
`OneMove` that a version migrates at most once and is in one of these places at a time:
this makes the controller keys of a migration its own. `AllHeld` is the agreement itself:
every Notify in anybody's hands is the one the map holds. It survives removals because of
the order: a task is past its waits only when all before it on its objects are through
(`InOrder`), which in turn rests on `PermitsDue` (a permit was given by the producer, or by
the installation of what it produced, and its one reader has yet to take it) and on
`OwnKeys` (a task waits and signals at its own versions). Failed verifications are
included: a skipped transaction signals as well, and what an empty reply cuts off keeps
its Notifys and never uses them.

`StoreInv` adds the data: every copy, in a store or on the move,
was left behind by a transaction that succeeded (`StoreOK`, `CargoOK`); what a transaction
needs is in its proxy's store when the migrated copy is committed (`CommittedOK`), when the
permit is there (`PermitsOK`) and when the wait is over (`AllArrived`); a proxy keeps what
it produced until a successor overwrites it (`HoldsLast`); and who executes has its versions
checked (`AllChecked`).

- `CopiesAlwaysAgree`: equal versions at two proxies have equal contents.
- `StoresMoveForward`: no store goes back to an older version. A migrated copy is committed
  without waiting for anything; that it never overwrites something newer follows from
  `OneMove` and `InOrder`, since its reader has yet to run.
- `ProxiesAreSerial`: the proxies implement `SerialExecution`. `ExecuteTxn` maps to the
  execution of the transaction, a failing `CheckTxn` to its skip, and every other step to a
  stutter or a step of the primary. The newest copy (`LatestWriter`) is the last
  successful write (`LastWritten`), and it is what the transaction reads.
- `ProxyTailsRemain`: when all is done and no process has ended, nothing is under way and
  the controllers keep exactly the entries of the last versions (`OnlyTailsRemain`). Two
  halves of a further invariant, `TailInv`, say it. Nothing more is left: every entry has a
  producer or a started reader at its proxy or at the other end of the migration, and that
  reader, if any, has yet to pass or its request to be answered (`EntriesUsed`), which needs
  that a request stays open until the producer is through (`StillAsked`). Nothing less: the
  entry of what a transaction produces stays until somebody reads it (`EntriesKept`), and a
  copy that nobody reads on is where it was written (`CopiesPlaced`). An empty reply can
  only linger if a transaction was skipped (`EmptyExplained`).

**`TpccProofs`**, for any number of warehouses, nodes, districts, customers, items, generator
tasks and transactions and whatever verifications fail, from `TGAssumption`,
`TpccAssumption` and the assumption of `VersionAssignment`. What `TGAssumption` says of the
draws are the ranges of the generator: quantities of 1..10, amounts and numbers of lines that
are not negative.

- `SkipsCascadeAlways`, `TpccTypeCorrect`: who is skipped, and the types of the rows, with
  every stock within 10..100.
- `OrderNumbersAlwaysDense`, `BooksAlwaysBalance`: order numbers and books.
- `GenerationAlwaysExact`: the generator's total, a sum of chunks that differ by one.

`ExecInv` is the executor as a database: the order is that of `VersionAssignment` (`VAInv`),
a task is past its waits only when all before it on its objects are through (`InOrder`), what
a transaction has computed are rows of its objects at the version it produces (`AllWrites`),
and an object of the store is what the last transaction to insert it computed (`AllStored`).
The books balance only between commits, which is not inductive: while a transaction inserts
its objects one by one, the store is halfway. `TpccInv` therefore keeps `Books`, the store
with the rows that running transactions are about to insert; they change only when a
transaction computes, all at once, and `LedgerBalances` says that they balance in every
state. `SumAdds` gives the sum over the districts, and the order lines are taken one after
the other, since two lines may order from one stock.

**Only model-checked.** Liveness: `EveryTxnForwarded`, `EveryTxnCompletes`,
`EveryLocalTxnVerified`, `EveryArrivalCommitted` and `WrittenReachesProxy`, since fairness and
ENABLED are out of the prover's reach. Every other property of a run that passes is a theorem;
`SubgraphsAreComponents` is one under the hypothesis that a proxy is connected, and
`NoProcessorPanics` under the one named above.

## 5. Not modelled

Thread and runtime set-up, metrics, configuration parsing and calibration carry no
control that a property is about. The Sui executor delegates to the Sui execution layer,
which is not in the repository; its store and version check have the shape of the fake
executor's. The other policies of the owned-object forwarder are never selected, and its
round-robin index only says which proxy is next, for which the models allow any. The
distributions of workloads and of arrival times are choices from their support. The
metadata manager, the persistence layer and elasticity of `docs/architecture.md` have no
code here, so there is no recovery to model: a process that has died stays dead.
Connections between proxies do not break in `ProxyCore`; `Network` shows what a broken
connection loses.

## 6. State of the plan

Done: version assignment, controllers, shared-object and stateless forwarders, proxies,
stateless path with its requests, consensus, scheduler, worker pool, networking, load
generator, client path, TPC-C; and every safety property of the passing runs as a theorem.
What could follow: a refinement from `PreConsensusSched` to the plan as `SharedForwarder`
sees it, so that the disjointness of planned subgraphs is no longer an assumption there; and
the Sui executor, once its execution layer is at hand.
