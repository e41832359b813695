---------------------------- MODULE MockConsensus ----------------------------
(***************************************************************************)
(* The mock consensus engine of the primary: one loop that assembles       *)
(* client transactions into batches, seals a batch when it is full or when *)
(* the timer fires, shows it to the pre-consensus scheduler, and delivers  *)
(* it to the load balancer after a delay.  Delays are arbitrary, so        *)
(* batches may be delivered in another order than they were sealed in.     *)
(* The engine stops when the load balancer no longer receives, and panics  *)
(* when the scheduler or the stateless forwarder does not.                 *)
(*                                                                         *)
(* A transaction is its number of arrival; a batch is a sequence of them.  *)
(***************************************************************************)
EXTENDS Naturals, Sequences, FiniteSets

CONSTANTS
    BatchSize,           \* batch_size
    MaxInflightBatches,  \* max_inflight_batches
    PreSeparation,       \* separation_mode == PrimaryPreSeparation
    MaxArrivals          \* bound: transactions the clients submit

ASSUME MCAssumption ==
    /\ BatchSize \in Nat \ {0}
    /\ MaxInflightBatches \in Nat \ {0}
    /\ PreSeparation \in BOOLEAN
    /\ MaxArrivals \in Nat

VARIABLES
    arrived,                   \* transactions taken from the client channel
    stateless,                 \* transactions whose verification was requested
    current_batch,
    current_inflight_batches,
    waiter,                    \* batches waiting to be committed
    scheduled,                 \* batches shown to the pre-consensus scheduler
    committed,                 \* batches delivered to the load balancer, in order
    receiver_open,             \* the load balancer still receives
    scheduler_open,            \* so does the pre-consensus scheduler
    stateless_open,            \* so does the stateless forwarder
    running

mcVars == <<arrived, stateless, current_batch, current_inflight_batches, waiter,
            scheduled, committed, receiver_open, scheduler_open, stateless_open, running>>

receivers == <<receiver_open, scheduler_open, stateless_open>>

MCInit ==
    /\ arrived = 0
    /\ stateless = {}
    /\ current_batch = << >>
    /\ current_inflight_batches = 0
    /\ waiter = {}
    /\ scheduled = {}
    /\ committed = << >>
    /\ receiver_open = TRUE
    /\ scheduler_open = TRUE
    /\ stateless_open = TRUE
    /\ running = TRUE

\* Mutant: the scheduler is not told.
Seal_Unannounced(batch) ==
    /\ current_inflight_batches' = current_inflight_batches + 1
    /\ current_batch' = << >>
    /\ waiter' = waiter \cup {batch}
    /\ UNCHANGED <<scheduled, running>>

\* A batch leaves current_batch for the delay model and then the scheduler;
\* the unwrap of that send panics when the scheduler has gone.
Seal(batch) ==
    /\ current_inflight_batches' = current_inflight_batches + 1
    /\ current_batch' = << >>
    /\ waiter' = waiter \cup {batch}
    /\ scheduled' = IF scheduler_open THEN scheduled \cup {batch} ELSE scheduled
    /\ running' = scheduler_open

\* Mutant: the limit on batches in flight is checked too late by one.
HasRoom_Late == current_inflight_batches <= MaxInflightBatches

\* The guard of the receiving branch.
HasRoom == current_inflight_batches < MaxInflightBatches

\* Mutant: one more transaction than fits.
IsFull_Late(batch) == Len(batch) > BatchSize

IsFull(batch) == Len(batch) >= BatchSize

\* The verification cannot be requested: the unwrap panics, the arrival is lost.
RequestFails == PreSeparation /\ ~ stateless_open

\* A client transaction arrives; the batch is sealed when it is full.
ReceiveTransaction ==
    /\ running
    /\ HasRoom
    /\ arrived < MaxArrivals
    /\ arrived' = arrived + 1
    /\ IF RequestFails
       THEN /\ running' = FALSE
            /\ UNCHANGED <<stateless, current_batch, current_inflight_batches, waiter, scheduled>>
       ELSE /\ stateless' = IF PreSeparation THEN stateless \cup {arrived'} ELSE stateless
            /\ LET batch == Append(current_batch, arrived')
               IN  IF IsFull(batch)
                   THEN Seal(batch)
                   ELSE /\ current_batch' = batch
                        /\ UNCHANGED <<current_inflight_batches, waiter, scheduled, running>>
    /\ UNCHANGED <<committed, receivers>>

\* Mutant: a part-filled batch waits for more transactions.
SealOnTimer_Never == FALSE

\* The condition under which the timer seals.
SealOnTimer == current_batch # << >>

\* The timer fires: seal what there is, or notice that nobody listens any more.
TimerFires ==
    /\ running
    /\ IF SealOnTimer
       THEN Seal(current_batch)
       ELSE /\ running' = receiver_open
            /\ UNCHANGED <<current_batch, current_inflight_batches, waiter, scheduled>>
    /\ UNCHANGED <<arrived, stateless, committed, receivers>>

\* Mutant: the batch stays in the set of waiting ones.
Committed_Kept(batch) == waiter

\* The batches that wait on once one is done.
Committed(batch) == waiter \ {batch}

\* The delay of a batch is over; a failed delivery ends the engine.
DeliverCommit(batch) ==
    /\ running
    /\ batch \in waiter
    /\ waiter' = Committed(batch)
    /\ current_inflight_batches' = current_inflight_batches - 1
    /\ committed' = IF receiver_open THEN Append(committed, batch) ELSE committed
    /\ running' = receiver_open
    /\ UNCHANGED <<arrived, stateless, current_batch, scheduled, receivers>>

\* A thread at the other end of a channel goes away, at any time.
DropReceiver ==
    /\ \/ /\ receiver_open
          /\ receiver_open' = FALSE
          /\ UNCHANGED <<scheduler_open, stateless_open>>
       \/ /\ scheduler_open
          /\ scheduler_open' = FALSE
          /\ UNCHANGED <<receiver_open, stateless_open>>
       \/ /\ stateless_open
          /\ stateless_open' = FALSE
          /\ UNCHANGED <<receiver_open, scheduler_open>>
    /\ UNCHANGED <<arrived, stateless, current_batch, current_inflight_batches, waiter,
                   scheduled, committed, running>>

MCNext ==
    \/ ReceiveTransaction
    \/ TimerFires
    \/ \E batch \in waiter : DeliverCommit(batch)
    \/ DropReceiver

(***************************************************************************)
(* select! picks among its ready branches at random, the timer stays ready *)
(* once it has fired and every delay ends.  A full batch resets the timer, *)
(* but clients submit finitely many transactions.  Clients owe nothing.    *)
(***************************************************************************)
MCFairness ==
    /\ WF_mcVars(TimerFires)
    /\ WF_mcVars(\E batch \in waiter : DeliverCommit(batch))

MCSpec == MCInit /\ [][MCNext]_mcVars /\ MCFairness

-----------------------------------------------------------------------------

Arrival == 1..MaxArrivals

(* The types of the variables. The batch being filled is never longer than the
   batch size, because run seals it in the step that fills it. *)
MCTypeOK ==
    /\ arrived \in 0..MaxArrivals
    /\ stateless \subseteq Arrival
    /\ current_batch \in Seq(Arrival) /\ Len(current_batch) < BatchSize
    /\ current_inflight_batches \in Nat
    /\ waiter \subseteq Seq(Arrival)
    /\ scheduled \subseteq Seq(Arrival)
    /\ committed \in Seq(Seq(Arrival))
    /\ {receiver_open, scheduler_open, stateless_open} \subseteq BOOLEAN
    /\ running \in BOOLEAN

(***************************************************************************)
(* "The maximum number of batches that can be in-flight at the same time"  *)
(* holds although the timer seals without looking at the limit: a batch    *)
(* in the making implies room for it, and the counter, decremented without *)
(* a check, is the number of batches in flight.                            *)
(***************************************************************************)
InflightBounded ==
    /\ current_inflight_batches = Cardinality(waiter)
    /\ current_inflight_batches <= MaxInflightBatches
    /\ current_batch # << >> => HasRoom

\* A transaction is held by a batch.
In(t, batch) == \E i \in DOMAIN batch : batch[i] = t

(***************************************************************************)
(* While the engine runs and is heard, no transaction is lost or           *)
(* duplicated: each one that arrived is in exactly one of the batch in the *)
(* making, the batches in flight and the commits.                          *)
(***************************************************************************)
Places(t) ==
    Cardinality({i \in DOMAIN current_batch : current_batch[i] = t})
      + Cardinality({b \in waiter : In(t, b)})
      + Cardinality({i \in DOMAIN committed : In(t, committed[i])})

ExactlyOnce == running /\ receiver_open => \A t \in 1..arrived : Places(t) = 1

(***************************************************************************)
(* A batch that is committed, or in flight in a running engine, was shown  *)
(* to the pre-consensus scheduler (and its verification requested, in      *)
(* PrimaryPreSeparation) before: the batch goes to the delay model first,  *)
(* and a scheduler that has gone ends the engine before it can commit.     *)
(***************************************************************************)
PreparedFirst ==
    /\ running => waiter \subseteq scheduled
    /\ {committed[i] : i \in DOMAIN committed} \subseteq scheduled
    /\ PreSeparation => \A b \in scheduled : \A i \in DOMAIN b : b[i] \in stateless

(***************************************************************************)
(* Every transaction that arrived is committed, unless the engine stops.   *)
(* It stops only when the load balancer, the scheduler or the stateless    *)
(* forwarder has gone, and always when the load balancer has.              *)
(***************************************************************************)
EveryArrivalCommitted ==
    []<>(\/ /\ receiver_open
            /\ \A t \in 1..arrived : \E i \in DOMAIN committed : In(t, committed[i])
         \/ /\ ~ running
            /\ ~ (receiver_open /\ scheduler_open /\ (PreSeparation => stateless_open)))

=============================================================================
