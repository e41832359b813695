------------------------- MODULE MockConsensusProofs -------------------------
(***************************************************************************)
(* The mock consensus engine respects its limit on batches in flight,      *)
(* loses and repeats no arrival and shows every batch before it commits,   *)
(* for every batch size, every limit and any number of transactions, alone *)
(* and on the client path; and from the load generator to the proxy no     *)
(* transaction is ever in two places.                                      *)
(***************************************************************************)
EXTENDS ClientPath, DataLemmas, SequenceTheorems

(***************************************************************************)
(* What the limit rests on.  The counter goes down by one with every       *)
(* delivery, so it must go up by one with every batch that joins the set:  *)
(* a sealed batch is a new one, because it ends with the latest arrival    *)
(* and the batches in flight are older than the batch in the making.       *)
(***************************************************************************)
BatchesApart ==
    /\ IsFiniteSet(waiter)
    /\ running /\ current_batch # << >> => current_batch[Len(current_batch)] = arrived
    /\ \A i \in DOMAIN current_batch : current_batch[i] <= arrived
    /\ \A b \in waiter : \A i \in DOMAIN b : b[i] <= arrived - Len(current_batch)

MCInv == MCTypeOK /\ InflightBounded /\ BatchesApart

\* Sealing a batch that ends with the latest arrival adds one to the set.
LEMMA SealedIsNew ==
    ASSUME MCTypeOK, IsFiniteSet(waiter),
           NEW b \in Seq(Arrival), b # << >>,
           NEW n \in Nat, b[Len(b)] = n,
           \A c \in waiter : \A i \in DOMAIN c : c[i] < n
    PROVE  /\ IsFiniteSet(waiter \cup {b})
           /\ Cardinality(waiter \cup {b}) = Cardinality(waiter) + 1
<1>1. Len(b) \in DOMAIN b
  OBVIOUS
<1>2. b \notin waiter
  BY <1>1
<1>3. QED
  BY <1>2, FS_AddElement

\* A batch that an arrival joins ends with it and is longer by one.
LEMMA AppendArrival ==
    ASSUME NEW b \in Seq(Arrival), NEW n \in Arrival
    PROVE  /\ Append(b, n) \in Seq(Arrival)
           /\ Len(Append(b, n)) = Len(b) + 1
           /\ Append(b, n) # << >>
           /\ Append(b, n)[Len(Append(b, n))] = n
  OBVIOUS

\* What Append leaves where it was, and what it adds.
LEMMA AppendElements ==
    ASSUME NEW S, NEW s \in Seq(S), NEW x \in S
    PROVE  /\ DOMAIN Append(s, x) = DOMAIN s \cup {Len(s) + 1}
           /\ \A i \in DOMAIN s : Append(s, x)[i] = s[i]
           /\ Append(s, x)[Len(s) + 1] = x
           /\ Len(s) + 1 \notin DOMAIN s
  OBVIOUS

\* A batch holds numbers.
LEMMA BatchOfNumbers ==
    ASSUME NEW b \in Seq(Arrival) PROVE \A i \in DOMAIN b : b[i] \in Nat
<1>1. Arrival \subseteq Nat
  BY DEF Arrival
<1>2. \A i \in DOMAIN b : b[i] \in Arrival
  OBVIOUS
<1>3. QED
  BY <1>1, <1>2

\* Initially nothing is in flight.
LEMMA MCInitInv == MCInit => MCInv
<1> SUFFICES ASSUME MCInit PROVE MCInv
  OBVIOUS
<1>1. MCTypeOK
  BY MCAssumption DEF MCInit, MCTypeOK
<1>2. InflightBounded
  BY MCAssumption, FS_EmptySet DEF MCInit, InflightBounded, HasRoom
<1>3. BatchesApart
  BY FS_EmptySet DEF MCInit, BatchesApart
<1>4. QED
  BY <1>1, <1>2, <1>3 DEF MCInv

\* A transaction arrives: the batch grows, and may be sealed.
LEMMA ReceiveInv == MCInv /\ ReceiveTransaction => MCInv'
<1> SUFFICES ASSUME MCInv, ReceiveTransaction PROVE MCInv'
  OBVIOUS
<1> USE MCAssumption DEF MCInv
<1> DEFINE batch == Append(current_batch, arrived')
<1>1. arrived' = arrived + 1 /\ arrived \in Nat /\ arrived' \in 0..MaxArrivals
      /\ arrived' \in Arrival /\ arrived' \in Nat
  BY DEF ReceiveTransaction, MCTypeOK, Arrival
<1>2. batch \in Seq(Arrival) /\ Len(batch) = Len(current_batch) + 1
      /\ batch # << >> /\ batch[Len(batch)] = arrived'
  <2>1. current_batch \in Seq(Arrival)
    BY DEF MCTypeOK
  <2>2. QED
    BY <1>1, <2>1, AppendArrival
<1>3. \A i \in DOMAIN batch : batch[i] <= arrived'
  BY <1>1, <1>2 DEF MCTypeOK, BatchesApart, Arrival
<1>4. stateless' \subseteq Arrival
  BY <1>1 DEF ReceiveTransaction, MCTypeOK
<1>5. \A b \in waiter : \A i \in DOMAIN b : b[i] \in Nat /\ b[i] <= arrived - Len(current_batch)
  BY DEF MCTypeOK, BatchesApart, Arrival
<1>6. Len(current_batch) \in Nat
  BY DEF MCTypeOK
<1>10. UNCHANGED <<committed, receiver_open, scheduler_open, stateless_open>>
  BY DEF ReceiveTransaction, receivers
<1>11. /\ committed' \in Seq(Seq(Arrival))
       /\ {receiver_open', scheduler_open', stateless_open'} \subseteq BOOLEAN
  BY <1>10 DEF MCTypeOK
<1>7. CASE ~ RequestFails /\ IsFull(batch)
  <2>1. Seal(batch)
    BY <1>7 DEF ReceiveTransaction
  <2> HIDE DEF batch
  <2>2. \A b \in waiter : \A i \in DOMAIN b : b[i] < arrived'
    BY <1>1, <1>5, <1>6
  <2>3. /\ IsFiniteSet(waiter \cup {batch})
        /\ Cardinality(waiter \cup {batch}) = Cardinality(waiter) + 1
    BY <1>1, <1>2, <2>2, SealedIsNew DEF BatchesApart
  <2>4. MCTypeOK'
    <3>1. running' \in BOOLEAN
      BY <2>1 DEF Seal, MCTypeOK
    <3>2. waiter' \subseteq Seq(Arrival) /\ scheduled' \subseteq Seq(Arrival)
      BY <1>2, <2>1 DEF Seal, MCTypeOK
    <3>3. /\ current_batch' \in Seq(Arrival) /\ Len(current_batch') < BatchSize
          /\ current_inflight_batches' \in Nat
      BY <2>1 DEF Seal, MCTypeOK
    <3> QED
      BY <1>1, <1>4, <1>11, <3>1, <3>2, <3>3 DEF MCTypeOK
  <2>5. InflightBounded'
    BY <2>1, <2>3 DEF ReceiveTransaction, MCTypeOK, Seal, InflightBounded, HasRoom
  <2>6. current_batch' = << >> /\ Len(current_batch') = 0 /\ waiter' = waiter \cup {batch}
    BY <2>1 DEF Seal
  <2>7. \A b \in waiter' : \A i \in DOMAIN b : b[i] <= arrived' - Len(current_batch')
    BY <1>1, <1>3, <1>5, <1>6, <2>6
  <2>8. BatchesApart'
    BY <2>3, <2>6, <2>7 DEF BatchesApart
  <2>9. QED
    BY <2>4, <2>5, <2>8
<1>8. CASE ~ RequestFails /\ ~ IsFull(batch)
  <2>1. /\ current_batch' = batch
        /\ UNCHANGED <<current_inflight_batches, waiter, scheduled, running>>
    BY <1>8 DEF ReceiveTransaction
  <2> HIDE DEF batch
  <2>2. MCTypeOK'
    <3>1. /\ current_batch' \in Seq(Arrival) /\ Len(current_batch') < BatchSize
          /\ UNCHANGED <<current_inflight_batches, waiter, scheduled, running>>
      BY <1>2, <1>8, <2>1 DEF IsFull, MCTypeOK
    <3> QED
      BY <1>1, <1>4, <1>11, <3>1 DEF MCTypeOK
  <2>3. InflightBounded'
    BY <2>1 DEF ReceiveTransaction, MCTypeOK, InflightBounded, HasRoom
  <2>4. \A b \in waiter' : \A i \in DOMAIN b : b[i] <= arrived' - Len(current_batch')
    BY <1>1, <1>2, <1>5, <1>6, <2>1
  <2>5. BatchesApart'
    BY <1>2, <1>3, <2>1, <2>4 DEF BatchesApart
  <2>6. QED
    BY <2>2, <2>3, <2>5
<1>9. CASE RequestFails
  <2>1. ~ running' /\ UNCHANGED <<current_batch, current_inflight_batches, waiter, scheduled>>
    BY <1>9 DEF ReceiveTransaction
  <2>2. MCTypeOK'
    BY <1>1, <1>4, <1>9, <1>11 DEF ReceiveTransaction, MCTypeOK
  <2>3. InflightBounded'
    BY <2>1 DEF InflightBounded, HasRoom
  <2>4. \A b \in waiter' : \A i \in DOMAIN b : b[i] <= arrived' - Len(current_batch')
    BY <1>1, <1>5, <1>6, <2>1
  <2>5. \A i \in DOMAIN current_batch' : current_batch'[i] <= arrived'
    BY <1>1, <2>1, BatchOfNumbers DEF MCTypeOK, BatchesApart
  <2>6. BatchesApart'
    BY <2>1, <2>4, <2>5 DEF BatchesApart
  <2> QED
    BY <2>2, <2>3, <2>6
<1> QED
  BY <1>7, <1>8, <1>9

\* The timer seals only what the receiving branch had room for.
LEMMA TimerInv == MCInv /\ TimerFires => MCInv'
<1> SUFFICES ASSUME MCInv, TimerFires PROVE MCInv'
  OBVIOUS
<1> USE MCAssumption DEF MCInv
<1>1. CASE SealOnTimer
  <2>1. /\ Seal(current_batch) /\ running
        /\ UNCHANGED <<arrived, stateless, committed, receiver_open, scheduler_open, stateless_open>>
    BY <1>1 DEF TimerFires, receivers
  <2>2. HasRoom /\ current_batch # << >>
    BY <1>1 DEF SealOnTimer, InflightBounded
  <2>3. arrived \in Nat /\ Len(current_batch) \in Nat \ {0}
    BY <2>2 DEF MCTypeOK
  <2>4. \A b \in waiter : \A i \in DOMAIN b :
           b[i] \in Nat /\ b[i] < arrived /\ b[i] <= arrived
    BY <2>3 DEF MCTypeOK, BatchesApart, Arrival
  <2>5. /\ IsFiniteSet(waiter \cup {current_batch})
        /\ Cardinality(waiter \cup {current_batch}) = Cardinality(waiter) + 1
    BY <2>1, <2>2, <2>3, <2>4, SealedIsNew DEF BatchesApart, MCTypeOK
  <2>6. MCTypeOK'
    BY <2>1 DEF MCTypeOK, Seal
  <2>7. InflightBounded'
    BY <2>1, <2>2, <2>5 DEF MCTypeOK, Seal, InflightBounded, HasRoom
  <2>8. current_batch' = << >> /\ Len(current_batch') = 0
        /\ waiter' = waiter \cup {current_batch}
    BY <2>1 DEF Seal
  <2>9. \A b \in waiter' : \A i \in DOMAIN b : b[i] <= arrived' - Len(current_batch')
    BY <2>1, <2>3, <2>4, <2>8 DEF BatchesApart
  <2>10. BatchesApart'
    BY <2>5, <2>8, <2>9 DEF BatchesApart
  <2>11. QED
    BY <2>6, <2>7, <2>10
<1>2. CASE ~ SealOnTimer
  <2>1. /\ running' = receiver_open /\ running
        /\ UNCHANGED <<arrived, stateless, current_batch, current_inflight_batches, waiter, scheduled,
                       committed, receiver_open, scheduler_open, stateless_open>>
    BY <1>2 DEF TimerFires, receivers
  <2>2. MCTypeOK'
    BY <2>1 DEF MCTypeOK
  <2> QED
    BY <2>1, <2>2 DEF InflightBounded, HasRoom, BatchesApart
<1>3. QED
  BY <1>1, <1>2

\* A delivery takes one batch from the set and one from the counter.
LEMMA DeliverInv ==
    ASSUME MCInv, NEW batch \in waiter, DeliverCommit(batch)
    PROVE  MCInv'
<1> USE MCAssumption DEF MCInv
<1>1. waiter' = waiter \ {batch} /\ UNCHANGED <<arrived, current_batch>>
  BY DEF DeliverCommit, Committed
<1>2. IsFiniteSet(waiter) /\ Cardinality(waiter) \in Nat
  BY FS_CardinalityType DEF BatchesApart
<1>3. IsFiniteSet(waiter') /\ Cardinality(waiter') = Cardinality(waiter) - 1
      /\ Cardinality(waiter') \in Nat
  BY <1>1, <1>2, FS_RemoveElement, FS_CardinalityType
<1>4. current_inflight_batches' = Cardinality(waiter')
  BY <1>3 DEF DeliverCommit, InflightBounded
<1>5. MCTypeOK'
  <2>1. /\ running' = receiver_open
        /\ UNCHANGED <<stateless, scheduled, receiver_open, scheduler_open, stateless_open>>
        /\ committed' = committed \/ committed' = Append(committed, batch)
    BY DEF DeliverCommit, receivers
  <2>2. committed \in Seq(Seq(Arrival)) /\ batch \in Seq(Arrival)
    BY DEF MCTypeOK
  <2>3. Append(committed, batch) \in Seq(Seq(Arrival))
    BY <2>2, AppendProperties
  <2>4. committed' \in Seq(Seq(Arrival))
    BY <2>1, <2>2, <2>3
  <2> QED
    BY <1>1, <1>3, <1>4, <2>1, <2>4 DEF MCTypeOK
<1>6. InflightBounded'
  BY <1>1, <1>2, <1>3, <1>4 DEF InflightBounded, HasRoom
<1>7. BatchesApart'
  BY <1>1, <1>3 DEF BatchesApart, DeliverCommit
<1>8. QED
  BY <1>5, <1>6, <1>7

\* Every branch of the loop keeps the invariant.
LEMMA MCStepInv == MCInv /\ [MCNext]_mcVars => MCInv'
<1> SUFFICES ASSUME MCInv, [MCNext]_mcVars PROVE MCInv'
  OBVIOUS
<1>1. CASE ReceiveTransaction
  BY <1>1, ReceiveInv
<1>2. CASE TimerFires
  BY <1>2, TimerInv
<1>3. CASE \E batch \in waiter : DeliverCommit(batch)
  BY <1>3, DeliverInv
<1>4. CASE DropReceiver
  BY <1>4 DEF DropReceiver, MCInv, MCTypeOK, InflightBounded, HasRoom, BatchesApart
<1>5. CASE UNCHANGED mcVars
  BY <1>5 DEF mcVars, MCInv, MCTypeOK, InflightBounded, HasRoom, BatchesApart
<1>6. QED
  BY <1>1, <1>2, <1>3, <1>4, <1>5 DEF MCNext

(***************************************************************************)
(* The number of batches in flight never exceeds max_inflight_batches and  *)
(* the counter in mock_consensus.rs, decremented without a check, never    *)
(* underflows.                                                             *)
(***************************************************************************)
THEOREM InflightLimit == MCSpec => [](MCTypeOK /\ InflightBounded)
<1>1. MCInv => MCTypeOK /\ InflightBounded
  BY DEF MCInv
<1>2. QED
  BY MCInitInv, MCStepInv, <1>1, PTL DEF MCSpec

-----------------------------------------------------------------------------
(* Nothing is sealed unannounced.                                          *)

\* What a delivery adds to the commits: one place, unless nobody listens.
DeliveryAdds(b) ==
    \/ /\ receiver_open
       /\ \E n : /\ n \notin DOMAIN committed
                 /\ DOMAIN committed' = DOMAIN committed \cup {n}
                 /\ committed'[n] = b
       /\ \A i \in DOMAIN committed : committed'[i] = committed[i]
    \/ ~ receiver_open /\ ~ running' /\ committed' = committed

\* A delivery adds at most the batch delivered, at the end.
LEMMA DeliverAdds ==
    ASSUME MCTypeOK, NEW b \in waiter, DeliverCommit(b)
    PROVE  DeliveryAdds(b)
<1>1. committed \in Seq(Seq(Arrival)) /\ b \in Seq(Arrival)
  BY DEF MCTypeOK
<1>2. CASE receiver_open
  <2> DEFINE more == Append(committed, b)
  <2>1. /\ DOMAIN more = DOMAIN committed \cup {Len(committed) + 1}
        /\ \A i \in DOMAIN committed : more[i] = committed[i]
        /\ more[Len(committed) + 1] = b
        /\ Len(committed) + 1 \notin DOMAIN committed
    BY <1>1, AppendElements
  <2>2. committed' = more
    BY <1>2 DEF DeliverCommit
  <2> HIDE DEF more
  <2>3. QED
    BY <1>2, <2>1, <2>2 DEF DeliveryAdds
<1>3. CASE ~ receiver_open
  BY <1>3 DEF DeliverCommit, DeliveryAdds, MCTypeOK
<1>4. QED
  BY <1>2, <1>3

\* In PrimaryPreSeparation the batch in the making has been sent to verification.
Asked == PreSeparation => \A i \in DOMAIN current_batch : current_batch[i] \in stateless

PreparedInv == MCTypeOK /\ PreparedFirst /\ Asked

\* A sealed batch is shown, and its transactions had been sent to verification.
LEMMA SealPrepared ==
    ASSUME MCTypeOK, PreparedFirst, NEW b \in Seq(Arrival), Seal(b),
           UNCHANGED committed, stateless \subseteq stateless', running,
           PreSeparation => \A i \in DOMAIN b : b[i] \in stateless'
    PROVE  PreparedFirst' /\ Asked'
<1>1. PreparedFirst'
  <2>1. CASE scheduler_open
    <3>1. scheduled' = scheduled \cup {b} /\ waiter' = waiter \cup {b}
      BY <2>1 DEF Seal
    <3> QED
      BY <3>1 DEF PreparedFirst
  <2>2. CASE ~ scheduler_open
    <3>1. scheduled' = scheduled /\ ~ running'
      BY <2>2 DEF Seal
    <3> QED
      BY <3>1 DEF PreparedFirst
  <2> QED
    BY <2>1, <2>2
<1>2. Asked'
  BY DEF Asked, Seal
<1>3. QED
  BY <1>1, <1>2

\* Every branch of the loop keeps what was prepared prepared.
LEMMA PreparedStep == MCInv /\ PreparedInv /\ [MCNext]_mcVars => PreparedFirst' /\ Asked'
<1> SUFFICES ASSUME MCInv, PreparedInv, [MCNext]_mcVars PROVE PreparedFirst' /\ Asked'
  OBVIOUS
<1> USE MCAssumption DEF PreparedInv
<1>1. CASE ReceiveTransaction
  <2> DEFINE batch == Append(current_batch, arrived')
  <2>1. arrived' \in Arrival
    BY <1>1 DEF ReceiveTransaction, MCTypeOK, Arrival
  <2>2. current_batch \in Seq(Arrival)
    BY DEF MCTypeOK
  <2>3. batch \in Seq(Arrival) /\ UNCHANGED committed /\ stateless \subseteq stateless'
    BY <1>1, <2>1, <2>2, AppendArrival DEF ReceiveTransaction
  <2>4. ~ RequestFails /\ PreSeparation => \A i \in DOMAIN batch : batch[i] \in stateless'
    <3> SUFFICES ASSUME ~ RequestFails, PreSeparation, NEW i \in DOMAIN batch PROVE batch[i] \in stateless'
      OBVIOUS
    <3>1. stateless' = stateless \cup {arrived'}
      BY <1>1 DEF ReceiveTransaction
    <3>2. i \in DOMAIN current_batch \/ batch[i] = arrived'
      BY <2>1, <2>2
    <3>3. i \in DOMAIN current_batch => batch[i] = current_batch[i]
      BY <2>1, <2>2
    <3>4. QED
      BY <3>1, <3>2, <3>3 DEF Asked
  <2>5. CASE ~ RequestFails /\ IsFull(batch)
    <3>1. Seal(batch) /\ running
      BY <1>1, <2>5 DEF ReceiveTransaction
    <3> HIDE DEF batch
    <3>2. QED
      BY <2>3, <2>4, <2>5, <3>1, SealPrepared
  <2>6. CASE ~ RequestFails /\ ~ IsFull(batch)
    <3>1. current_batch' = batch /\ UNCHANGED <<waiter, scheduled, running>>
      BY <1>1, <2>6 DEF ReceiveTransaction
    <3> HIDE DEF batch
    <3>2. QED
      BY <2>3, <2>4, <2>6, <3>1 DEF PreparedFirst, Asked
  <2>7. CASE RequestFails
    <3>1. ~ running' /\ UNCHANGED <<current_batch, stateless, scheduled>>
      BY <1>1, <2>7 DEF ReceiveTransaction
    <3>2. QED
      BY <2>3, <3>1 DEF PreparedFirst, Asked
  <2>8. QED
    BY <2>5, <2>6, <2>7
<1>2. CASE TimerFires
  <2>1. CASE SealOnTimer
    <3>1. Seal(current_batch) /\ running /\ UNCHANGED <<committed, stateless>>
      BY <1>2, <2>1 DEF TimerFires
    <3>2. QED
      BY <3>1, SealPrepared DEF MCTypeOK, Asked
  <2>2. CASE ~ SealOnTimer
    BY <1>2, <2>2 DEF TimerFires, PreparedFirst, Asked
  <2>3. QED
    BY <2>1, <2>2
<1>3. CASE \E b \in waiter : DeliverCommit(b)
  <2>1. PICK b \in waiter : DeliverCommit(b)
    BY <1>3
  <2>2. waiter' \subseteq waiter /\ running /\ UNCHANGED <<current_batch, stateless, scheduled>>
    BY <2>1 DEF DeliverCommit, Committed
  <2>3. DeliveryAdds(b)
    BY <2>1, DeliverAdds
  <2>4. \A i \in DOMAIN committed' : \/ committed'[i] = b
                                     \/ i \in DOMAIN committed /\ committed'[i] = committed[i]
    BY <2>3 DEF DeliveryAdds
  <2>5. \A i \in DOMAIN committed' : committed'[i] \in scheduled
    BY <2>2, <2>4 DEF PreparedFirst
  <2>6. QED
    BY <2>2, <2>5 DEF PreparedFirst, Asked
<1>4. CASE DropReceiver
  BY <1>4 DEF DropReceiver, PreparedFirst, Asked
<1>5. CASE UNCHANGED mcVars
  BY <1>5 DEF mcVars, PreparedFirst, Asked
<1>6. QED
  BY <1>1, <1>2, <1>3, <1>4, <1>5 DEF MCNext

(***************************************************************************)
(* The pre-consensus scheduler has seen every batch that is committed, or  *)
(* in flight in a running engine, and, in PrimaryPreSeparation,            *)
(* verification was requested for each of its transactions, whichever      *)
(* branch of the loop sealed it and whichever receiver goes away.          *)
(***************************************************************************)
THEOREM ShownBeforeCommit == MCSpec => []PreparedFirst
<1>1. MCInit => MCInv /\ PreparedFirst /\ Asked
  BY MCInitInv DEF MCInit, PreparedFirst, Asked
<1>2. MCInv /\ PreparedFirst /\ Asked /\ [MCNext]_mcVars => MCInv' /\ PreparedFirst' /\ Asked'
  BY MCStepInv, PreparedStep DEF PreparedInv, MCInv
<1>3. QED
  BY <1>1, <1>2, PTL DEF MCSpec

-----------------------------------------------------------------------------
(* Nothing is lost or duplicated.                                          *)

\* Two batches that share no transaction.
Apart(b, c) == \A t : ~ (In(t, b) /\ In(t, c))

\* A batch that is older than the batch in the making.
Older(b) == \A i \in DOMAIN b : b[i] \in Nat /\ b[i] <= arrived - Len(current_batch)

(***************************************************************************)
(* The batch in the making is the latest arrivals in their order, so what  *)
(* is sealed is younger than all that was sealed before; and no two        *)
(* batches in flight or committed have a transaction in common.            *)
(***************************************************************************)
Separate ==
    /\ running => \A i \in DOMAIN current_batch : current_batch[i] = (arrived - Len(current_batch)) + i
    /\ \A i \in DOMAIN committed : Older(committed[i])
    /\ \A b, c \in waiter : b # c => Apart(b, c)
    /\ \A i, j \in DOMAIN committed : i # j => Apart(committed[i], committed[j])
    /\ \A b \in waiter : \A i \in DOMAIN committed : Apart(b, committed[i])

\* A transaction that arrived is somewhere.
Held(t) ==
    \/ In(t, current_batch)
    \/ \E b \in waiter : In(t, b)
    \/ \E i \in DOMAIN committed : In(t, committed[i])

Covered == running /\ receiver_open => \A t \in 1..arrived : Held(t)

\* The batches in flight are older than the one in the making.
LEMMA WaitingOlder == MCInv => \A b \in waiter : Older(b)
  BY BatchOfNumbers DEF MCInv, MCTypeOK, BatchesApart, Older

\* A sealed batch of the latest arrivals shares nothing with the older ones.
LEMMA SealSeparate ==
    ASSUME MCInv, Separate, NEW b \in Seq(Arrival), Seal(b), UNCHANGED committed,
           arrived \in Nat, arrived' \in Nat, arrived <= arrived',
           \A i \in DOMAIN b : b[i] > arrived - Len(current_batch) /\ b[i] <= arrived'
    PROVE  Separate'
<1>1. Len(current_batch) \in Nat /\ Len(current_batch') = 0 /\ current_batch' = << >>
  BY DEF Seal, MCInv, MCTypeOK
<1>2. waiter' = waiter \cup {b}
  BY DEF Seal
<1>3. \A c \in waiter : Older(c)
  BY WaitingOlder
<1>4. \A i \in DOMAIN b : b[i] \in Nat
  BY BatchOfNumbers
<1>5. ASSUME NEW c, Older(c) PROVE Apart(b, c) /\ Apart(c, b)
  BY <1>1, <1>4, <1>5 DEF Older, Apart, In
<1>6. \A i \in DOMAIN committed' : Older(committed[i])'
  BY <1>1 DEF Separate, Older
<1>7. \A c, d \in waiter' : c # d => Apart(c, d)
  BY <1>2, <1>3, <1>5 DEF Separate
<1>8. \A c \in waiter' : \A i \in DOMAIN committed : Apart(c, committed[i])
  BY <1>2, <1>5 DEF Separate
<1>9. QED
  BY <1>1, <1>6, <1>7, <1>8 DEF Separate

\* Sealing what was in the making loses nothing.
LEMMA SealCovered ==
    ASSUME Covered, NEW b, Seal(b), running, UNCHANGED <<committed, receiver_open>>,
           \A t : In(t, current_batch) => In(t, b),
           \A t \in 1..arrived' : t \in 1..arrived \/ In(t, b)
    PROVE  Covered'
<1> SUFFICES ASSUME running, receiver_open, NEW t \in 1..arrived' PROVE Held(t)'
  BY DEF Covered
<1>1. Held(t) \/ In(t, b)
  BY DEF Covered
<1>2. waiter' = waiter \cup {b}
  BY DEF Seal
<1>3. QED
  BY <1>1, <1>2 DEF Held, In

\* A transaction arrives.
LEMMA ReceiveSeparate ==
    ASSUME MCInv, Separate, Covered, ReceiveTransaction PROVE Separate' /\ Covered'
<1> DEFINE batch == Append(current_batch, arrived')
           n == Len(current_batch)
<1>1. arrived' = arrived + 1 /\ arrived \in Nat /\ arrived' \in Nat /\ arrived' \in Arrival
      /\ running /\ UNCHANGED <<committed, receiver_open>>
  BY MCAssumption DEF ReceiveTransaction, receivers, MCInv, MCTypeOK, Arrival
<1>2. current_batch \in Seq(Arrival) /\ n \in Nat
  BY DEF MCInv, MCTypeOK
<1>3. /\ batch \in Seq(Arrival) /\ Len(batch) = n + 1
      /\ DOMAIN current_batch = 1..n /\ DOMAIN batch = 1..(n + 1)
      /\ \A i \in DOMAIN current_batch : batch[i] = current_batch[i]
      /\ batch[n + 1] = arrived'
  BY <1>1, <1>2
<1>4. \A i \in DOMAIN batch : batch[i] = (arrived - n) + i
  BY <1>1, <1>2, <1>3 DEF Separate
<1>5. \A t : In(t, current_batch) => In(t, batch)
  BY <1>2, <1>3 DEF In
<1>6. \A t \in 1..arrived' : t \in 1..arrived \/ In(t, batch)
  BY <1>1, <1>2, <1>3 DEF In
<1>7. CASE ~ RequestFails /\ IsFull(batch)
  <2>1. Seal(batch)
    BY <1>7 DEF ReceiveTransaction
  <2> HIDE DEF batch
  <2>2. \A i \in DOMAIN batch : batch[i] > arrived - Len(current_batch) /\ batch[i] <= arrived'
    BY <1>1, <1>2, <1>3, <1>4
  <2>3. QED
    BY <1>1, <1>3, <1>5, <1>6, <2>1, <2>2, SealSeparate, SealCovered
<1>8. CASE ~ RequestFails /\ ~ IsFull(batch)
  <2>1. current_batch' = batch /\ waiter' = waiter
    BY <1>8 DEF ReceiveTransaction
  <2> HIDE DEF batch
  <2>2. Len(current_batch') = n + 1
    BY <1>3, <2>1
  <2>3. arrived' - Len(current_batch') = arrived - n
    BY <1>1, <1>2, <2>2
  <2>4. Separate'
    BY <1>1, <1>4, <2>1, <2>3 DEF Separate, Older
  <2>5. Covered'
    <3> SUFFICES ASSUME running, receiver_open, NEW t \in 1..arrived' PROVE Held(t)'
      BY <1>1 DEF Covered
    <3>1. Held(t) \/ In(t, batch)
      BY <1>6 DEF Covered
    <3>2. QED
      BY <1>1, <1>5, <2>1, <3>1 DEF Held, In
  <2>6. QED
    BY <2>4, <2>5
<1>9. CASE RequestFails
  <2>1. ~ running' /\ UNCHANGED <<current_batch, waiter>>
    BY <1>9 DEF ReceiveTransaction
  <2>2. \A b : Older(b) => Older(b)'
    BY <1>1, <1>2, <2>1 DEF Older
  <2> QED
    BY <1>1, <2>1, <2>2 DEF Separate, Covered
<1> QED
  BY <1>7, <1>8, <1>9

\* The timer fires.
LEMMA TimerSeparate ==
    ASSUME MCInv, Separate, Covered, TimerFires PROVE Separate' /\ Covered'
<1>1. running /\ UNCHANGED <<arrived, committed, receiver_open>> /\ arrived \in Nat
  BY DEF TimerFires, receivers, MCInv, MCTypeOK
<1>2. CASE SealOnTimer
  <2>1. Seal(current_batch)
    BY <1>2 DEF TimerFires
  <2>2. current_batch \in Seq(Arrival)
    BY DEF MCInv, MCTypeOK
  <2>3. \A i \in DOMAIN current_batch :
           current_batch[i] > arrived - Len(current_batch) /\ current_batch[i] <= arrived
    BY <1>1, <2>2 DEF Separate
  <2>4. Separate'
    BY <1>1, <2>1, <2>2, <2>3, SealSeparate
  <2>5. Covered'
    BY <1>1, <2>1, SealCovered
  <2>6. QED
    BY <2>4, <2>5
<1>3. CASE ~ SealOnTimer
  <2>1. UNCHANGED <<current_batch, waiter>> /\ (running' => receiver_open) /\ running
    BY <1>3 DEF TimerFires, MCInv, MCTypeOK
  <2>2. QED
    BY <1>1, <2>1 DEF Separate, Older, Covered, Held
<1>4. QED
  BY <1>2, <1>3

\* A batch is delivered: it leaves the waiting ones for the end of the commits.
LEMMA DeliverSeparate ==
    ASSUME MCInv, Separate, Covered, NEW b \in waiter, DeliverCommit(b)
    PROVE  Separate' /\ Covered'
<1>1. waiter' = waiter \ {b} /\ UNCHANGED <<arrived, current_batch, receiver_open>> /\ running
  BY DEF DeliverCommit, Committed, receivers
<1>2. DeliveryAdds(b)
  BY DeliverAdds DEF MCInv
<1>3. Older(b)
  BY WaitingOlder
<1>4. CASE receiver_open
  <2>1. PICK n : /\ n \notin DOMAIN committed
                 /\ DOMAIN committed' = DOMAIN committed \cup {n}
                 /\ committed'[n] = b
    BY <1>2, <1>4 DEF DeliveryAdds
  <2>2. \A i \in DOMAIN committed : committed'[i] = committed[i]
    BY <1>2, <1>4 DEF DeliveryAdds
  <2>3. \A i \in DOMAIN committed' : Older(committed[i])'
    BY <1>1, <1>3, <2>1, <2>2 DEF Separate, Older
  <2>4. \A i, j \in DOMAIN committed' : i # j => Apart(committed'[i], committed'[j])
    BY <2>1, <2>2 DEF Separate, Apart
  <2>5. \A c \in waiter' : \A i \in DOMAIN committed' : Apart(c, committed'[i])
    BY <1>1, <2>1, <2>2 DEF Separate
  <2>6. Separate'
    BY <1>1, <2>3, <2>4, <2>5 DEF Separate
  <2>7. ASSUME NEW t, Held(t) PROVE Held(t)'
    BY <1>1, <2>1, <2>2, <2>7 DEF Held
  <2>8. Covered'
    BY <1>1, <1>4, <2>7 DEF Covered
  <2>9. QED
    BY <2>6, <2>8
<1>5. CASE ~ receiver_open
  <2>1. committed' = committed /\ ~ running'
    BY <1>2, <1>5 DEF DeliveryAdds
  <2>2. QED
    BY <1>1, <2>1 DEF Separate, Older, Covered
<1>6. QED
  BY <1>4, <1>5

\* Every branch of the loop keeps the batches apart and the arrivals held.
LEMMA SeparateStep ==
    MCInv /\ Separate /\ Covered /\ [MCNext]_mcVars => Separate' /\ Covered'
<1> SUFFICES ASSUME MCInv, Separate, Covered, [MCNext]_mcVars PROVE Separate' /\ Covered'
  OBVIOUS
<1>1. CASE DropReceiver
  <2>1. /\ UNCHANGED <<arrived, current_batch, waiter, committed, running>>
        /\ receiver_open' => receiver_open
    BY <1>1 DEF DropReceiver
  <2> QED
    BY <2>1 DEF Separate, Older, Covered, Held
<1>2. CASE UNCHANGED mcVars
  BY <1>2 DEF mcVars, Separate, Older, Covered, Held
<1>3. QED
  BY <1>1, <1>2, ReceiveSeparate, TimerSeparate, DeliverSeparate DEF MCNext

\* A set with exactly one element has cardinality one.
LEMMA OneElement ==
    ASSUME NEW S, NEW x \in S, \A y \in S : y = x PROVE Cardinality(S) = 1
<1>1. S = {x}
  OBVIOUS
<1>2. QED
  BY <1>1, FS_Singleton

\* Batches apart and arrivals held: each arrival has one place.
LEMMA OnePlace == MCInv /\ Separate /\ Covered => ExactlyOnce
<1> SUFFICES ASSUME MCInv, Separate, Covered, running, receiver_open, NEW t \in 1..arrived
             PROVE  Places(t) = 1
  BY DEF ExactlyOnce
<1> DEFINE A == {i \in DOMAIN current_batch : current_batch[i] = t}
           W == {b \in waiter : In(t, b)}
           C == {i \in DOMAIN committed : In(t, committed[i])}
<1>1. arrived \in Nat /\ Len(current_batch) \in Nat /\ current_batch \in Seq(Arrival)
  BY DEF MCInv, MCTypeOK
<1>2. \A b \in waiter : Older(b)
  BY WaitingOlder
<1>3. A # {} => W = {} /\ C = {}
  <2> SUFFICES ASSUME NEW i \in DOMAIN current_batch, current_batch[i] = t
               PROVE  \A b : Older(b) => ~ In(t, b)
    BY <1>2 DEF Separate
  <2>1. t > arrived - Len(current_batch)
    BY <1>1 DEF Separate
  <2>2. QED
    BY <1>1, <2>1 DEF Older, In
<1>4. W # {} => C = {}
  BY DEF Separate, Apart
<1>5. \A i, j \in A : i = j
  BY <1>1 DEF Separate
<1>6. \A b, c \in W : b = c
  BY DEF Separate, Apart
<1>7. \A i, j \in C : i = j
  BY DEF Separate, Apart
<1>8. A # {} \/ W # {} \/ C # {}
  BY DEF Covered, Held, In
<1>9. Places(t) = Cardinality(A) + Cardinality(W) + Cardinality(C)
  BY DEF Places
<1> HIDE DEF A, W, C
<1>10. Cardinality({}) = 0
  BY FS_EmptySet
<1>11. CASE A # {}
  <2>1. Cardinality(A) = 1 /\ W = {} /\ C = {}
    BY <1>3, <1>5, <1>11, OneElement
  <2>2. QED
    BY <1>9, <1>10, <2>1
<1>12. CASE A = {} /\ W # {}
  <2>1. Cardinality(W) = 1 /\ C = {}
    BY <1>4, <1>6, <1>12, OneElement
  <2>2. QED
    BY <1>9, <1>10, <1>12, <2>1
<1>13. CASE A = {} /\ W = {} /\ C # {}
  <2>1. Cardinality(C) = 1
    BY <1>7, <1>13, OneElement
  <2>2. QED
    BY <1>9, <1>10, <1>13, <2>1
<1>14. QED
  BY <1>8, <1>11, <1>12, <1>13

(***************************************************************************)
(* While the engine runs and the load balancer listens, a transaction that *)
(* arrived is in exactly one place: the batch in the making, one batch in  *)
(* flight, or one commit.  Sealing, the timer and deliveries in any order  *)
(* neither drop nor repeat one.                                            *)
(***************************************************************************)
THEOREM NoArrivalLostOrRepeated == MCSpec => []ExactlyOnce
<1>1. MCInit => MCInv /\ Separate /\ Covered
  BY MCInitInv DEF MCInit, Separate, Covered
<1>2. MCInv /\ Separate /\ Covered /\ [MCNext]_mcVars => MCInv' /\ Separate' /\ Covered'
  BY MCStepInv, SeparateStep
<1>3. QED
  BY <1>1, <1>2, OnePlace, PTL DEF MCSpec

-----------------------------------------------------------------------------
(* The engine between the load generator and the proxies.                  *)

\* A step of the path is a step of the engine or leaves the engine alone.
LEMMA PathStepsEngine == [CPNext]_cpVars => [MCNext]_mcVars
<1> SUFFICES ASSUME [CPNext]_cpVars PROVE [MCNext]_mcVars
  OBVIOUS
<1>1. CASE StartServers
  BY <1>1, Zenon DEF StartServers
<1>2. CASE Generate
  BY <1>2, Zenon DEF Generate
<1>3. CASE Transfer
  BY <1>3, Zenon DEF Transfer
<1>4. CASE \E c \in Client : HandOnToPrimary(c)
  BY <1>4, Zenon DEF HandOnToPrimary
<1>5. CASE HandOnToProxy
  BY <1>5, Zenon DEF HandOnToProxy
<1>6. CASE Consensus
  BY <1>6, Zenon DEF Consensus, MCNext
<1>7. CASE Forward
  BY <1>7 DEF Forward
<1>8. CASE Fault
  BY <1>8, Zenon DEF Fault, MCNext
<1>9. CASE UNCHANGED cpVars
  BY <1>9, Zenon DEF cpVars
<1>10. QED
  BY <1>1, <1>2, <1>3, <1>4, <1>5, <1>6, <1>7, <1>8, <1>9, Zenon DEF CPNext, CPStep

(***************************************************************************)
(* What the engine promises it keeps between the load generator and the    *)
(* proxies, over connections that break and channels that fill up: the     *)
(* limit on batches in flight, one place for each arrival, and no commit   *)
(* that was not prepared.                                                  *)
(***************************************************************************)
THEOREM EngineOnPath ==
    CPSpec => [](MCTypeOK /\ InflightBounded /\ ExactlyOnce /\ PreparedFirst)
<1> DEFINE I == MCInv /\ Separate /\ Covered /\ PreparedFirst /\ Asked
<1>1. MCInit => I
  BY MCInitInv DEF MCInit, Separate, Covered, PreparedFirst, Asked
<1>2. CPInit => I
  BY <1>1, Zenon DEF CPInit
<1>3. I /\ [CPNext]_cpVars => I'
  BY PathStepsEngine, MCStepInv, SeparateStep, PreparedStep DEF PreparedInv, MCInv
<1>4. I => MCTypeOK /\ InflightBounded /\ ExactlyOnce /\ PreparedFirst
  BY OnePlace DEF MCInv
<1>5. QED
  BY <1>2, <1>3, <1>4, PTL DEF CPSpec


(***************************************************************************)
(* The limit again, as the types: the batch in the making is never longer  *)
(* than a batch may be, on the path as alone.                              *)
(***************************************************************************)
THEOREM MCTypeCorrect == CPSpec => []MCTypeOK
BY EngineOnPath, PTL

-----------------------------------------------------------------------------
(* How often a message occurs in a queue.                                  *)

\* Nothing occurs in the empty queue.
LEMMA OccursNone == ASSUME NEW t PROVE Occurs(t, << >>) = 0
<1>1. {i \in DOMAIN << >> : << >>[i] = t} = {}
  OBVIOUS
<1> QED
  BY <1>1, FS_EmptySet DEF Occurs

\* A queue is finite, and so is the number of occurrences.
LEMMA OccursNat ==
    ASSUME NEW S, NEW s \in Seq(S), NEW t
    PROVE  /\ IsFiniteSet({i \in DOMAIN s : s[i] = t}) /\ Occurs(t, s) \in Nat
<1>1. IsFiniteSet(DOMAIN s)
  <2>1. DOMAIN s = 1..Len(s) /\ Len(s) \in Nat
    OBVIOUS
  <2> QED
    BY <2>1, FS_Interval
<1>2. IsFiniteSet({i \in DOMAIN s : s[i] = t})
  BY <1>1, FS_Subset
<1> QED
  BY <1>2, FS_CardinalityType DEF Occurs

\* What is in two queues is in one after the other.
LEMMA OccursConcat ==
    ASSUME NEW S, NEW a \in Seq(S), NEW b \in Seq(S), NEW t
    PROVE  Occurs(t, a \o b) = Occurs(t, a) + Occurs(t, b)
<1>1. PICK n \in Nat, m \in Nat : n = Len(a) /\ m = Len(b)
  OBVIOUS
<1> DEFINE A == {i \in DOMAIN a : a[i] = t}
           B == {i \in DOMAIN b : b[i] = t}
           C == {i \in DOMAIN (a \o b) : (a \o b)[i] = t}
           M == {i \in (n + 1)..(n + m) : (a \o b)[i] = t}
           f == [i \in B |-> n + i]
<1>2. /\ DOMAIN a = 1..n /\ DOMAIN b = 1..m /\ DOMAIN (a \o b) = 1..(n + m)
      /\ \A i \in 1..n : (a \o b)[i] = a[i]
      /\ \A i \in 1..m : (a \o b)[n + i] = b[i]
  BY <1>1
<1>3. C = A \cup M /\ A \cap M = {}
  <2>1. \A i \in 1..(n + m) : i \in 1..n \/ i \in (n + 1)..(n + m)
    BY <1>1
  <2>2. \A i \in (n + 1)..(n + m) : i \notin 1..n /\ i \in 1..(n + m)
    BY <1>1
  <2>3. \A i \in 1..n : i \in 1..(n + m)
    BY <1>1
  <2> QED
    BY <1>2, <2>1, <2>2, <2>3
<1>4. f \in Bijection(B, M)
  <2>1. \A i \in B : i \in Nat /\ i >= 1 /\ i <= m
    BY <1>1, <1>2
  <2>2. \A i \in B : n + i \in M
    BY <1>1, <1>2, <2>1
  <2>3. ASSUME NEW k \in M PROVE \E i \in B : f[i] = k
    <3>1. k - n \in 1..m /\ n + (k - n) = k
      BY <1>1
    <3>2. k - n \in B
      BY <1>2, <3>1
    <3> QED
      BY <3>1, <3>2
  <2>4. \A i, j \in B : f[i] = f[j] => i = j
    BY <1>1, <2>1
  <2>5. f \in [B -> M]
    BY <2>2
  <2> HIDE DEF f, B, M
  <2> QED
    BY <2>3, <2>4, <2>5 DEF Bijection, Injection, Surjection, IsInjective
<1>5. IsFiniteSet(A) /\ IsFiniteSet(B) /\ Cardinality(A) \in Nat /\ Cardinality(B) \in Nat
  BY OccursNat DEF Occurs
<1>6. Occurs(t, a) = Cardinality(A) /\ Occurs(t, b) = Cardinality(B) /\ Occurs(t, a \o b) = Cardinality(C)
  BY DEF Occurs
<1> HIDE DEF A, B, C, M, f
<1>7. IsFiniteSet(M) /\ Cardinality(M) = Cardinality(B)
  BY <1>4, <1>5, FS_Bijection DEF ExistsBijection
<1>8. Cardinality(A \cup M) = Cardinality(A) + Cardinality(M)
  <2>1. Cardinality(A \cap M) = 0
    BY <1>3, FS_EmptySet
  <2>2. Cardinality(A \cup M) = Cardinality(A) + Cardinality(M) - Cardinality(A \cap M)
    BY <1>5, <1>7, FS_Union
  <2> QED
    BY <1>5, <1>7, <2>1, <2>2
<1> QED
  BY <1>3, <1>6, <1>7, <1>8

\* One message.
LEMMA OccursOnce == ASSUME NEW x, NEW t PROVE Occurs(t, <<x>>) = IF x = t THEN 1 ELSE 0
<1>1. {i \in DOMAIN <<x>> : <<x>>[i] = t} = IF x = t THEN {1} ELSE {}
  OBVIOUS
<1> QED
  BY <1>1, FS_EmptySet, FS_Singleton DEF Occurs

\* A message more at the end.
LEMMA OccursAppend ==
    ASSUME NEW S, NEW s \in Seq(S), NEW x \in S, NEW t
    PROVE  Occurs(t, Append(s, x)) = Occurs(t, s) + (IF x = t THEN 1 ELSE 0)
<1>0. <<x>> \in Seq(S)
  OBVIOUS
<1>1. PICK u \in Seq(S) : u = <<x>>
  BY <1>0
<1>2. Append(s, x) = s \o u
  BY <1>1
<1>3. Occurs(t, s \o u) = Occurs(t, s) + Occurs(t, u)
  BY OccursConcat
<1>4. Occurs(t, u) = IF x = t THEN 1 ELSE 0
  BY <1>1, OccursOnce
<1> QED
  BY <1>2, <1>3, <1>4

\* A queue, cut in two.
LEMMA OccursCut ==
    ASSUME NEW S, NEW s \in Seq(S), NEW k \in 0..Len(s), NEW t
    PROVE  /\ SubSeq(s, 1, k) \in Seq(S) /\ SubSeq(s, k + 1, Len(s)) \in Seq(S)
           /\ Occurs(t, s) = Occurs(t, SubSeq(s, 1, k)) + Occurs(t, SubSeq(s, k + 1, Len(s)))
<1>1. SubSeq(s, 1, k) \in Seq(S) /\ SubSeq(s, k + 1, Len(s)) \in Seq(S)
  OBVIOUS
<1>2. s = SubSeq(s, 1, k) \o SubSeq(s, k + 1, Len(s))
  <2>1. Len(s) \in Nat /\ SubSeq(s, 1, Len(s)) = s
    BY SubSeqFull
  <2>2. SubSeq(s, 1, k) \o SubSeq(s, k + 1, Len(s)) = SubSeq(s, 1, Len(s))
    <3>1. 1 \in 1..Len(s)+1 /\ k \in 1-1..Len(s) /\ Len(s) \in k..Len(s)
      BY <2>1
    <3> QED
      BY <3>1, ConcatAdjacentSubSeq
  <2> QED
    BY <2>1, <2>2
<1> QED
  BY <1>1, <1>2, OccursConcat

\* The first message and the rest.
LEMMA OccursHead ==
    ASSUME NEW S, NEW s \in Seq(S), s # << >>, NEW t
    PROVE  /\ Head(s) \in S /\ Tail(s) \in Seq(S)
           /\ Occurs(t, s) = (IF Head(s) = t THEN 1 ELSE 0) + Occurs(t, Tail(s))
<1>1. Head(s) \in S /\ Tail(s) \in Seq(S) /\ <<Head(s)>> \in Seq(S)
  OBVIOUS
<1>2. s = <<Head(s)>> \o Tail(s)
  OBVIOUS
<1>3. PICK u \in Seq(S) : u = <<Head(s)>>
  BY <1>1
<1>4. Occurs(t, u \o Tail(s)) = Occurs(t, u) + Occurs(t, Tail(s))
  BY <1>1, OccursConcat
<1>5. Occurs(t, u) = IF Head(s) = t THEN 1 ELSE 0
  BY <1>3, OccursOnce
<1> QED
  BY <1>1, <1>2, <1>3, <1>4, <1>5

\* A message less, wherever it was.
LEMMA OccursRemove ==
    ASSUME NEW S, NEW s \in Seq(S), NEW i \in DOMAIN s, NEW t
    PROVE  /\ RemoveAt(s, i) \in Seq(S) /\ s[i] \in S
           /\ Occurs(t, s) = Occurs(t, RemoveAt(s, i)) + (IF s[i] = t THEN 1 ELSE 0)
<1>1. PICK n \in Nat : n = Len(s) /\ i \in 1..n /\ i \in Nat /\ i - 1 \in 0..n /\ s[i] \in S
  OBVIOUS
<1> DEFINE a == SubSeq(s, 1, i - 1)
           b == SubSeq(s, i + 1, Len(s))
           c == SubSeq(s, i, Len(s))
<1>2. a \in Seq(S) /\ b \in Seq(S) /\ c \in Seq(S) /\ <<s[i]>> \in Seq(S)
  BY <1>1
<1>3. c = <<s[i]>> \o b
  <2>1. i \in 1..Len(s) /\ Len(s) \in i..Len(s)
    BY <1>1
  <2> QED
    BY <2>1, SubSeqRecursiveFirst
<1>4. (i - 1) + 1 = i
  BY <1>1
<1>5. Occurs(t, s) = Occurs(t, a) + Occurs(t, SubSeq(s, (i - 1) + 1, Len(s)))
  BY <1>1, OccursCut
<1>6. RemoveAt(s, i) = a \o b
  BY DEF RemoveAt
<1>7. Occurs(t, a) \in Nat /\ Occurs(t, b) \in Nat
  BY <1>2, OccursNat
<1>8. Occurs(t, c) = (IF s[i] = t THEN 1 ELSE 0) + Occurs(t, b)
  <2>1. PICK u \in Seq(S) : u = <<s[i]>>
    BY <1>2
  <2> HIDE DEF a, b, c
  <2>2. Occurs(t, u \o b) = Occurs(t, u) + Occurs(t, b)
    BY <1>2, OccursConcat
  <2>3. Occurs(t, u) = IF s[i] = t THEN 1 ELSE 0
    BY <2>1, OccursOnce
  <2> QED
    BY <1>3, <2>1, <2>2, <2>3
<1>9. Occurs(t, s) = Occurs(t, a) + Occurs(t, c)
  BY <1>4, <1>5
<1> HIDE DEF a, b, c
<1>10. Occurs(t, a \o b) = Occurs(t, a) + Occurs(t, b) /\ a \o b \in Seq(S)
  BY <1>2, OccursConcat
<1> QED
  BY <1>1, <1>6, <1>7, <1>8, <1>9, <1>10


-----------------------------------------------------------------------------
(* Queues in a row.                                                        *)

\* The table behind FlattenSeq.
Flattening(f, s) == f = [i \in 1..Len(s) |-> IF i = 1 THEN s[i] ELSE f[i - 1] \o s[i]]

\* FlattenSeq reads it.
LEMMA FlattenDef ==
    ASSUME NEW s
    PROVE  FlattenSeq(s) = IF Len(s) = 0 THEN s ELSE (CHOOSE f : Flattening(f, s))[Len(s)]
BY DEF FlattenSeq, Flattening

\* The first n entries of such a table.
FlatTo(f, s, S, n) ==
    /\ f \in [1..n -> Seq(S)]
    /\ \A i \in 1..n : f[i] = IF i = 1 THEN s[i] ELSE f[i - 1] \o s[i]

\* There is one, built up entry by entry.
LEMMA FlattenExists ==
    ASSUME NEW S, NEW s \in Seq(Seq(S))
    PROVE  \E f : Flattening(f, s)
<1>1. PICK m \in Nat : m = Len(s)
  OBVIOUS
<1> DEFINE Bad == {n \in 0..m : ~ \E f : FlatTo(f, s, S, n)}
<1>2. Bad = {}
  <2> SUFFICES ASSUME Bad # {} PROVE FALSE
    OBVIOUS
  <2>1. PICK n \in Bad : \A x \in Bad : n <= x
    <3>1. Bad \subseteq Nat
      BY <1>1
    <3> HIDE DEF Bad
    <3> QED
      BY <3>1, NatSetHasMin
  <2>2. n \in 0..m /\ n \in Nat /\ ~ \E f : FlatTo(f, s, S, n)
    BY <1>1
  <2>3. n # 0
    <3>1. FlatTo([i \in 1..0 |-> s], s, S, 0)
      BY DEF FlatTo
    <3> QED
      BY <2>2, <3>1
  <2>4. PICK g : FlatTo(g, s, S, n - 1)
    <3>1. n - 1 \in 0..m /\ n - 1 \in Nat /\ ~ (n <= n - 1)
      BY <1>1, <2>2, <2>3
    <3> QED
      BY <2>1, <3>1
  <2>5. /\ g \in [1..(n - 1) -> Seq(S)]
        /\ \A i \in 1..(n - 1) : g[i] = IF i = 1 THEN s[i] ELSE g[i - 1] \o s[i]
    BY <2>4 DEF FlatTo
  <2> DEFINE last == IF n = 1 THEN s[n] ELSE g[n - 1] \o s[n]
             f == [i \in 1..n |-> IF i = n THEN last ELSE g[i]]
  <2>6. s[n] \in Seq(S) /\ (n # 1 => g[n - 1] \in Seq(S))
    BY <1>1, <2>2, <2>3, <2>5
  <2>7. last \in Seq(S)
    BY <2>6
  <2>8. \A i \in 1..n : i # n => i \in 1..(n - 1)
    BY <2>2, <2>3
  <2> HIDE DEF last
  <2>9. f \in [1..n -> Seq(S)]
    BY <2>5, <2>7, <2>8
  <2>10. ASSUME NEW i \in 1..n PROVE f[i] = IF i = 1 THEN s[i] ELSE f[i - 1] \o s[i]
    <3>1. CASE i = n
      <4>1. n # 1 => n - 1 \in 1..n /\ n - 1 # n
        BY <2>2, <2>3
      <4>2. n # 1 => f[n - 1] = g[n - 1]
        BY <4>1
      <4>3. f[n] = last
        BY <2>2, <2>3
      <4> HIDE DEF f
      <4> QED
        BY <3>1, <4>2, <4>3 DEF last
    <3>2. CASE i # n
      <4>1. i \in 1..(n - 1) /\ (i # 1 => i - 1 \in 1..n /\ i - 1 # n)
        BY <2>2, <2>8, <3>2
      <4>2. f[i] = g[i] /\ (i # 1 => f[i - 1] = g[i - 1])
        BY <3>2, <4>1
      <4> HIDE DEF f
      <4> QED
        BY <2>5, <4>1, <4>2
    <3> QED
      BY <3>1, <3>2
  <2>11. FlatTo(f, s, S, n)
    <3> HIDE DEF f
    <3> QED
      BY <2>9, <2>10 DEF FlatTo
  <2> QED
    BY <2>2, <2>11
<1>3. PICK f : FlatTo(f, s, S, m)
  <2>1. m \in 0..m
    BY <1>1
  <2> QED
    BY <1>2, <2>1
<1>4. Flattening(f, s)
  BY <1>1, <1>3 DEF FlatTo, Flattening
<1> QED
  BY <1>4

\* Queues that start alike.
Alike(s, u, n) == \A i \in 1..n : s[i] = u[i]

\* Their tables start alike.
LEMMA FlattenAgree ==
    ASSUME NEW s, NEW u, NEW n \in Nat, Len(s) \in Nat, Len(u) \in Nat, n <= Len(s), n <= Len(u),
           Alike(s, u, n), NEW f, Flattening(f, s), NEW g, Flattening(g, u)
    PROVE  \A i \in 1..n : f[i] = g[i]
<1> DEFINE Bad == {i \in 1..n : f[i] # g[i]}
<1> SUFFICES ASSUME Bad # {} PROVE FALSE
  OBVIOUS
<1>1. PICK k \in Bad : \A x \in Bad : k <= x
  <2>1. Bad \subseteq Nat
    OBVIOUS
  <2> HIDE DEF Bad
  <2> QED
    BY <2>1, NatSetHasMin
<1>2. k \in 1..n /\ f[k] # g[k] /\ k \in 1..Len(s) /\ k \in 1..Len(u)
  OBVIOUS
<1>3. /\ f[k] = IF k = 1 THEN s[k] ELSE f[k - 1] \o s[k]
      /\ g[k] = IF k = 1 THEN u[k] ELSE g[k - 1] \o u[k]
  BY <1>2 DEF Flattening
<1>4. k # 1 => k - 1 \in 1..n /\ ~ (k <= k - 1)
  BY <1>2
<1>5. k # 1 => f[k - 1] = g[k - 1]
  BY <1>1, <1>4
<1> QED
  BY <1>2, <1>3, <1>5 DEF Alike

\* A queue more at the end.
LEMMA FlattenAppend ==
    ASSUME NEW S, NEW s \in Seq(Seq(S)), NEW b \in Seq(S), FlattenSeq(s) \in Seq(S)
    PROVE  FlattenSeq(Append(s, b)) = FlattenSeq(s) \o b
<1>1. PICK n \in Nat : n = Len(s)
  OBVIOUS
<1>2. PICK u \in Seq(Seq(S)) : u = Append(s, b)
  <2>1. Append(s, b) \in Seq(Seq(S))
    OBVIOUS
  <2> QED
    BY <2>1
<1>3. Len(u) = n + 1 /\ (\A i \in 1..n : s[i] = u[i]) /\ u[n + 1] = b
  BY <1>1, <1>2
<1> DEFINE f == CHOOSE x : Flattening(x, s)
           g == CHOOSE x : Flattening(x, u)
<1>4. Flattening(f, s) /\ Flattening(g, u)
  <2>1. (\E x : Flattening(x, s)) /\ (\E x : Flattening(x, u))
    BY FlattenExists
  <2> QED
    BY <2>1
<1>5. FlattenSeq(u) = g[n + 1]
  <2>1. Len(u) # 0
    BY <1>3
  <2> QED
    BY <1>3, <2>1, FlattenDef
<1>6. FlattenSeq(s) = IF n = 0 THEN s ELSE f[n]
  BY <1>1, FlattenDef
<1> HIDE DEF f, g
<1>7. g[n + 1] = IF n + 1 = 1 THEN u[n + 1] ELSE g[(n + 1) - 1] \o u[n + 1]
  <2>1. n + 1 \in 1..Len(u)
    BY <1>3
  <2> QED
    BY <1>4, <2>1 DEF Flattening
<1>8. CASE n = 0
  <2>1. s = << >>
    BY <1>1, <1>8, EmptySeq
  <2>2. << >> \o b = b
    BY ConcatEmptySeq
  <2>3. FlattenSeq(u) = b
    BY <1>3, <1>5, <1>7, <1>8
  <2> QED
    BY <1>2, <1>6, <1>8, <2>1, <2>2, <2>3
<1>9. CASE n # 0
  <2>1. n \in 1..n /\ (n + 1) - 1 = n /\ n + 1 # 1
    BY <1>9
  <2>2. f[n] = g[n]
    <3>1. Alike(s, u, n) /\ Len(s) \in Nat /\ Len(u) \in Nat /\ n <= Len(s) /\ n <= Len(u)
      BY <1>1, <1>3 DEF Alike
    <3>2. \A i \in 1..n : f[i] = g[i]
      BY <1>4, <3>1, FlattenAgree
    <3> QED
      BY <2>1, <3>2
  <2> QED
    BY <1>2, <1>3, <1>5, <1>6, <1>7, <1>9, <2>1, <2>2
<1> QED
  BY <1>8, <1>9

\* Three queues in a row.
LEMMA FlattenThree ==
    ASSUME NEW S, NEW a \in Seq(S), NEW b \in Seq(S), NEW c \in Seq(S),
           NEW s, s = <<a, b, c>>
    PROVE  FlattenSeq(s) = (a \o b) \o c
<1>1. s \in Seq(Seq(S))
  OBVIOUS
<1>2. Len(s) = 3 /\ s[1] = a /\ s[2] = b /\ s[3] = c
  BY <1>1
<1> DEFINE f == CHOOSE x : Flattening(x, s)
<1>3. Flattening(f, s)
  <2>1. \E x : Flattening(x, s)
    BY <1>1, FlattenExists
  <2> QED
    BY <2>1
<1>4. FlattenSeq(s) = f[3]
  <2>1. Len(s) # 0
    BY <1>2
  <2> QED
    BY <1>2, <2>1, FlattenDef
<1> HIDE DEF f
<1>5. \A i \in 1..3 : f[i] = IF i = 1 THEN s[i] ELSE f[i - 1] \o s[i]
  BY <1>2, <1>3 DEF Flattening
<1>6. f[1] = a /\ f[2] = f[1] \o b /\ f[3] = f[2] \o c
  <2>1. 1 \in 1..3 /\ 2 \in 1..3 /\ 3 \in 1..3 /\ 2 - 1 = 1 /\ 3 - 1 = 2 /\ 2 # 1 /\ 3 # 1
    OBVIOUS
  <2> QED
    BY <1>2, <1>5, <2>1
<1> QED
  BY <1>4, <1>6


-----------------------------------------------------------------------------
(* The invariant of the path.                                              *)

\* How often t is on link l, and how often it is in client c's hands.
Load(t, l) == Occurs(t, outgoing[l]) + Occurs(t, wire[l]) + Occurs(t, frames[l])

Hand(t) == [c \in Client |-> Occurs(t, chunks[c]) + Load(t, c)]

\* How often t is with the clients or with the primary, and how often on the proxy's side.
Copies(t) == Occurs(t, rx_client_transactions) + SumOver(Hand(t), Client)

AtProxy(t) == Occurs(t, rx_transactions) + Load(t, Proxy)

QueueTypes ==
    /\ chunks \in [Client -> Seq(Txn)]
    /\ outgoing \in [Link -> Seq(Txn)]
    /\ wire \in [Link -> Seq(Txn)]
    /\ frames \in [Link -> Seq(Txn)]
    /\ rx_client_transactions \in Seq(Txn)
    /\ rx_transactions \in Seq(Txn)

PathTypes ==
    /\ QueueTypes
    /\ sender \in [Link -> BOOLEAN]
    /\ writer = [l \in Link |-> writer[l]]
    /\ stream = [l \in Link |-> stream[l]]
    /\ generator \in {"connecting", "running", "exited"}
    /\ faults \in Nat
    /\ oversized \in SUBSET Txn

\* While clients connect, nothing has been submitted.
Quiet ==
    generator = "connecting" =>
        /\ rx_client_transactions = << >>
        /\ \A c \in Client : /\ chunks[c] = << >> /\ outgoing[c] = << >>
                             /\ wire[c] = << >> /\ frames[c] = << >>

\* The clients are taken one after the other; without a fault none is left out.
InTurn ==
    generator = "connecting" =>
        /\ attempts \in Nat /\ senders \in Seq(Client) /\ Len(senders) <= attempts
        /\ \A i \in DOMAIN senders : senders[i] <= attempts
        /\ \A i, j \in DOMAIN senders : senders[i] = senders[j] => i = j
        /\ faults = 0 => Len(senders) = attempts /\ \A i \in DOMAIN senders : senders[i] = i

\* Without a fault a client's writer outlives what it has to submit.
Sound(c) == stream[c] # "broken" /\ (writer[c] = "done" => ~ sender[c])

Lossless ==
    faults = 0 =>
        /\ oversized = {}
        /\ generator # "exited" => \A c \in Client : Sound(c)
        /\ generator = "connecting" => \A c \in Client : sender[c]
        /\ generator = "running" => \A c \in Client : sender[c] <=> chunks[c] # << >>

\* Every transaction has at most one place, and exactly one unless something broke.
OnePlaceEach ==
    \A t \in Txn : /\ Copies(t) <= 1
                   /\ generator = "running" /\ faults = 0 => Copies(t) = 1

SourceInv == PathTypes /\ Quiet /\ InTurn /\ Lossless /\ OnePlaceEach

\* The queues of a link hold numbers of messages.
LEMMA LoadNat ==
    ASSUME QueueTypes, NEW l \in Link, NEW t
    PROVE  /\ Occurs(t, outgoing[l]) \in Nat /\ Occurs(t, wire[l]) \in Nat
           /\ Occurs(t, frames[l]) \in Nat /\ Load(t, l) \in Nat
<1>1. outgoing[l] \in Seq(Txn) /\ wire[l] \in Seq(Txn) /\ frames[l] \in Seq(Txn)
  BY DEF QueueTypes
<1>2. /\ Occurs(t, outgoing[l]) \in Nat /\ Occurs(t, wire[l]) \in Nat
      /\ Occurs(t, frames[l]) \in Nat
  BY <1>1, OccursNat
<1> QED
  BY <1>2 DEF Load

\* Clients are links; there are finitely many.
LEMMA Clients ==
    /\ Client \subseteq Link /\ Proxy \in Link /\ Proxy \notin Client
    /\ IsFiniteSet(Client) /\ Client \subseteq Nat
<1>1. NumClients \in Nat
  BY LGAssumption
<1> QED
  BY <1>1, CPAssumption, FS_Interval DEF Client

\* So do a client's hands, and all of them together.
LEMMA HandNat ==
    ASSUME QueueTypes, NEW t
    PROVE  /\ Hand(t) \in [Client -> Nat] /\ Hand(t) \in [Client -> Int]
           /\ SumOver(Hand(t), Client) \in Int
           /\ Occurs(t, rx_client_transactions) \in Nat /\ Copies(t) \in Int
<1>1. ASSUME NEW c \in Client PROVE Occurs(t, chunks[c]) + Load(t, c) \in Nat
  <2>1. chunks[c] \in Seq(Txn)
    BY DEF QueueTypes
  <2>2. Occurs(t, chunks[c]) \in Nat
    BY <2>1, OccursNat
  <2>3. Load(t, c) \in Nat
    BY LoadNat, Clients
  <2> QED
    BY <2>2, <2>3
<1>2. Hand(t) \in [Client -> Nat] /\ Hand(t) \in [Client -> Int]
  BY <1>1 DEF Hand
<1>3. SumOver(Hand(t), Client) \in Int
  BY <1>2, Clients, SumTableUnique
<1>4. Occurs(t, rx_client_transactions) \in Nat
  <2>1. rx_client_transactions \in Seq(Txn)
    BY DEF QueueTypes
  <2> QED
    BY <2>1, OccursNat
<1> QED
  BY <1>2, <1>3, <1>4 DEF Copies


-----------------------------------------------------------------------------
(* What the network does to the queues of a link.                          *)

\* The other links are left alone, and nothing is put on l.
Flows(l) ==
    /\ outgoing' \in [Link -> Seq(Txn)] /\ wire' \in [Link -> Seq(Txn)]
    /\ frames' \in [Link -> Seq(Txn)]
    /\ \A m \in Link \ {l} :
          outgoing'[m] = outgoing[m] /\ wire'[m] = wire[m] /\ frames'[m] = frames[m]
    /\ \A t : Load(t, l)' <= Load(t, l)

\* And nothing is lost from it.
Keeps(l) == \A t : Load(t, l)' = Load(t, l)

\* The writer moves messages from the queue to the wire; it loses them only to a broken stream.
LEMMA WriteFlows ==
    ASSUME QueueTypes, NEW l \in Link, Write(l)
    PROVE  Flows(l) /\ (stream[l] # "broken" => Keeps(l))
<1>1. /\ outgoing \in [Link -> Seq(Txn)] /\ wire \in [Link -> Seq(Txn)]
      /\ frames \in [Link -> Seq(Txn)] /\ frames' = frames
  BY DEF QueueTypes, Write
<1>2. PICK o \in Seq(Txn), w \in Seq(Txn), r \in Seq(Txn) :
         o = outgoing[l] /\ w = wire[l] /\ r = frames[l]
  BY <1>1
<1>3. \A t : Occurs(t, o) \in Nat /\ Occurs(t, w) \in Nat /\ Occurs(t, r) \in Nat
  BY OccursNat
<1>4. \A t : Load(t, l) = Occurs(t, o) + Occurs(t, w) + Occurs(t, r)
  BY <1>2 DEF Load
<1>5. CASE outgoing' = outgoing /\ wire' = wire
  <2>1. \A t : Load(t, l)' = Load(t, l) /\ Load(t, l) \in Nat
    BY <1>1, <1>3, <1>4, <1>5 DEF Load
  <2> QED
    BY <1>1, <1>5, <2>1 DEF Flows, Keeps
<1>6. CASE outgoing' = [outgoing EXCEPT ![l] = << >>] /\ wire' = wire /\ stream[l] = "broken"
  <2>1. << >> \in Seq(Txn)
    OBVIOUS
  <2>2. /\ outgoing' \in [Link -> Seq(Txn)] /\ outgoing'[l] = << >>
        /\ \A m \in Link \ {l} : outgoing'[m] = outgoing[m]
    BY <1>1, <1>6, <2>1
  <2>3. \A t : Load(t, l)' = Occurs(t, << >>) + Occurs(t, w) + Occurs(t, r)
    BY <1>1, <1>2, <1>6, <2>2 DEF Load
  <2>4. \A t : Load(t, l)' <= Load(t, l)
    BY <1>3, <1>4, <2>3, OccursNone
  <2> QED
    BY <1>1, <1>6, <2>2, <2>4 DEF Flows, Keeps
<1>7. ASSUME NEW k \in 1..MAX_BATCH_SIZE, k <= Len(outgoing[l]),
             wire' = [wire EXCEPT ![l] = @ \o SubSeq(outgoing[l], 1, k)],
             outgoing' = [outgoing EXCEPT ![l] = Dequeued(l, k)]
      PROVE  Flows(l) /\ Keeps(l)
  <2>1. k \in 0..Len(o)
    BY <1>2, <1>7, NWAssumption
  <2>2. PICK a \in Seq(Txn), b \in Seq(Txn) :
           /\ a = SubSeq(o, 1, k) /\ b = SubSeq(o, k + 1, Len(o))
           /\ \A t : Occurs(t, o) = Occurs(t, a) + Occurs(t, b)
    <3>1. /\ SubSeq(o, 1, k) \in Seq(Txn) /\ SubSeq(o, k + 1, Len(o)) \in Seq(Txn)
          /\ \A t : Occurs(t, o) = Occurs(t, SubSeq(o, 1, k))
                                      + Occurs(t, SubSeq(o, k + 1, Len(o)))
      BY <2>1, OccursCut
    <3> QED
      BY <3>1
  <2>3. \A t : Occurs(t, a) \in Nat /\ Occurs(t, b) \in Nat
    BY OccursNat
  <2>4. w \o a \in Seq(Txn) /\ \A t : Occurs(t, w \o a) = Occurs(t, w) + Occurs(t, a)
    BY OccursConcat
  <2>5. /\ wire' = [wire EXCEPT ![l] = w \o a] /\ outgoing' = [outgoing EXCEPT ![l] = b]
    BY <1>2, <1>7, <2>2 DEF Dequeued
  <2>6. /\ outgoing' \in [Link -> Seq(Txn)] /\ wire' \in [Link -> Seq(Txn)]
        /\ outgoing'[l] = b /\ wire'[l] = w \o a
        /\ \A m \in Link \ {l} : outgoing'[m] = outgoing[m] /\ wire'[m] = wire[m]
    BY <1>1, <2>4, <2>5
  <2>7. \A t : Load(t, l)' = Occurs(t, b) + Occurs(t, w \o a) + Occurs(t, r)
    BY <1>1, <1>2, <2>6 DEF Load
  <2>8. \A t : Load(t, l)' = Load(t, l) /\ Load(t, l) \in Nat
    BY <1>3, <1>4, <2>2, <2>3, <2>4, <2>7
  <2> QED
    BY <1>1, <2>6, <2>8 DEF Flows, Keeps
<1> QED
  BY <1>5, <1>6, <1>7 DEF Write

\* The reader moves them on; it loses them only with a frame that is too long.
LEMMA ReadFlows ==
    ASSUME QueueTypes, NEW l \in Link, Read(l)
    PROVE  Flows(l) /\ (oversized = {} => Keeps(l))
<1>1. /\ outgoing \in [Link -> Seq(Txn)] /\ wire \in [Link -> Seq(Txn)]
      /\ frames \in [Link -> Seq(Txn)] /\ outgoing' = outgoing /\ frames[l] = << >>
  BY DEF QueueTypes, Read
<1>2. PICK o \in Seq(Txn), w \in Seq(Txn) : o = outgoing[l] /\ w = wire[l]
  BY <1>1
<1>3. \A t : Occurs(t, o) \in Nat /\ Occurs(t, w) \in Nat
  BY OccursNat
<1>4. \A t : Load(t, l) = Occurs(t, o) + Occurs(t, w) + 0
  BY <1>1, <1>2, OccursNone DEF Load
<1>5. CASE wire' = wire /\ frames' = frames
  <2>1. \A t : Load(t, l)' = Load(t, l) /\ Load(t, l) \in Nat
    BY <1>1, <1>2, <1>3, <1>4, <1>5, OccursNone DEF Load
  <2> QED
    BY <1>1, <1>5, <2>1 DEF Flows, Keeps
<1>6. ASSUME NEW k \in 1..Len(wire[l]), NEW g, g = SubSeq(wire[l], 1, k) \/ g = << >>,
             oversized = {} => g = SubSeq(wire[l], 1, k),
             wire' = [wire EXCEPT ![l] = SubSeq(@, k + 1, Len(@))],
             frames' = [frames EXCEPT ![l] = g]
      PROVE  Flows(l) /\ (oversized = {} => Keeps(l))
  <2>1. k \in 0..Len(w)
    BY <1>2
  <2>2. PICK a \in Seq(Txn), b \in Seq(Txn) :
           /\ a = SubSeq(w, 1, k) /\ b = SubSeq(w, k + 1, Len(w))
           /\ \A t : Occurs(t, w) = Occurs(t, a) + Occurs(t, b)
    <3>1. /\ SubSeq(w, 1, k) \in Seq(Txn) /\ SubSeq(w, k + 1, Len(w)) \in Seq(Txn)
          /\ \A t : Occurs(t, w) = Occurs(t, SubSeq(w, 1, k))
                                      + Occurs(t, SubSeq(w, k + 1, Len(w)))
      BY <2>1, OccursCut
    <3> QED
      BY <3>1
  <2>3. \A t : Occurs(t, a) \in Nat /\ Occurs(t, b) \in Nat
    BY OccursNat
  <2>4. g \in Seq(Txn) /\ (g = a \/ g = << >>) /\ (oversized = {} => g = a)
    <3>1. << >> \in Seq(Txn)
      OBVIOUS
    <3> QED
      BY <1>2, <1>6, <2>2, <3>1
  <2>5. wire' = [wire EXCEPT ![l] = b]
    BY <1>2, <1>6, <2>2
  <2>6. /\ frames' \in [Link -> Seq(Txn)] /\ wire' \in [Link -> Seq(Txn)]
        /\ frames'[l] = g /\ wire'[l] = b
        /\ \A m \in Link \ {l} : frames'[m] = frames[m] /\ wire'[m] = wire[m]
    BY <1>1, <1>6, <2>4, <2>5
  <2>7. \A t : Load(t, l)' = Occurs(t, o) + Occurs(t, b) + Occurs(t, g)
    BY <1>1, <1>2, <2>6 DEF Load
  <2>8. \A t : Load(t, l)' <= Load(t, l) /\ (oversized = {} => Load(t, l)' = Load(t, l))
    <3> SUFFICES ASSUME NEW t
                 PROVE  Load(t, l)' <= Load(t, l) /\ (oversized = {} => Load(t, l)' = Load(t, l))
      OBVIOUS
    <3>1. Occurs(t, g) = Occurs(t, a) \/ (oversized # {} /\ Occurs(t, g) = 0)
      BY <2>4, OccursNone
    <3>2. Occurs(t, w) = Occurs(t, a) + Occurs(t, b) /\ Occurs(t, a) \in Nat /\ Occurs(t, b) \in Nat
      BY <2>2, <2>3
    <3>3. Load(t, l)' = Occurs(t, o) + Occurs(t, b) + Occurs(t, g)
      BY <2>7
    <3>4. Load(t, l) = Occurs(t, o) + Occurs(t, w) + 0 /\ Occurs(t, o) \in Nat
      BY <1>3, <1>4
    <3> QED
      BY <3>1, <3>2, <3>3, <3>4
  <2> QED
    BY <1>1, <2>6, <2>8 DEF Flows, Keeps
<1>7. CASE \E k \in 1..Len(wire[l]) :
              LET got == SubSeq(wire[l], 1, k)
                  tooLong == \E i \in 1..k : got[i] \in oversized
              IN  /\ wire' = [wire EXCEPT ![l] = SubSeq(@, k + 1, Len(@))]
                  /\ frames' = [frames EXCEPT ![l] = IF tooLong THEN << >> ELSE got]
  <2>1. PICK k \in 1..Len(wire[l]) :
           LET got == SubSeq(wire[l], 1, k)
               tooLong == \E i \in 1..k : got[i] \in oversized
           IN  /\ wire' = [wire EXCEPT ![l] = SubSeq(@, k + 1, Len(@))]
               /\ frames' = [frames EXCEPT ![l] = IF tooLong THEN << >> ELSE got]
    BY <1>7
  <2>2. PICK g : g = IF \E i \in 1..k : SubSeq(wire[l], 1, k)[i] \in oversized
                     THEN << >> ELSE SubSeq(wire[l], 1, k)
    OBVIOUS
  <2>3. /\ g = SubSeq(wire[l], 1, k) \/ g = << >>
        /\ oversized = {} => g = SubSeq(wire[l], 1, k)
        /\ frames' = [frames EXCEPT ![l] = g]
        /\ wire' = [wire EXCEPT ![l] = SubSeq(@, k + 1, Len(@))]
    BY <2>1, <2>2
  <2> QED
    BY <1>6, <2>3
<1> QED
  BY <1>5, <1>7 DEF Read

\* A connection that breaks loses what is on the wire.
LEMMA BreakFlows == ASSUME QueueTypes, NEW l \in Link, Break(l) PROVE Flows(l)
<1>1. /\ outgoing \in [Link -> Seq(Txn)] /\ wire \in [Link -> Seq(Txn)]
      /\ frames \in [Link -> Seq(Txn)] /\ outgoing' = outgoing /\ frames' = frames
      /\ wire' = [wire EXCEPT ![l] = << >>]
  BY DEF QueueTypes, Break
<1>2. << >> \in Seq(Txn)
  OBVIOUS
<1>3. /\ wire' \in [Link -> Seq(Txn)] /\ wire'[l] = << >>
      /\ \A m \in Link \ {l} : wire'[m] = wire[m]
  BY <1>1, <1>2
<1>4. ASSUME NEW t PROVE Load(t, l)' <= Load(t, l)
  <2>1. /\ Occurs(t, outgoing[l]) \in Nat /\ Occurs(t, wire[l]) \in Nat
        /\ Occurs(t, frames[l]) \in Nat
    BY LoadNat
  <2>2. Load(t, l)' = Occurs(t, outgoing[l]) + 0 + Occurs(t, frames[l])
    BY <1>1, <1>3, OccursNone DEF Load
  <2> QED
    BY <2>1, <2>2 DEF Load
<1> QED
  BY <1>1, <1>3, <1>4 DEF Flows

\* A frame is handed on.
LEMMA TakeFlows ==
    ASSUME QueueTypes, NEW l \in Link, NEW i \in DOMAIN frames[l], TakeFrame(l, i)
    PROVE  /\ Flows(l) /\ frames[l][i] \in Txn
           /\ \A t : Load(t, l) = Load(t, l)' + (IF frames[l][i] = t THEN 1 ELSE 0)
<1>1. /\ outgoing \in [Link -> Seq(Txn)] /\ wire \in [Link -> Seq(Txn)]
      /\ frames \in [Link -> Seq(Txn)] /\ outgoing' = outgoing /\ wire' = wire
      /\ frames' = [frames EXCEPT ![l] = RemoveAt(@, i)]
  BY DEF QueueTypes, TakeFrame
<1>2. PICK r \in Seq(Txn) : r = frames[l]
  BY <1>1
<1>3. /\ RemoveAt(r, i) \in Seq(Txn) /\ r[i] \in Txn
      /\ \A t : Occurs(t, r) = Occurs(t, RemoveAt(r, i)) + (IF r[i] = t THEN 1 ELSE 0)
  BY <1>2, OccursRemove
<1>4. /\ frames' \in [Link -> Seq(Txn)] /\ frames'[l] = RemoveAt(r, i)
      /\ \A m \in Link \ {l} : frames'[m] = frames[m]
  BY <1>1, <1>2, <1>3
<1>5. ASSUME NEW t
      PROVE  /\ Load(t, l) = Load(t, l)' + (IF frames[l][i] = t THEN 1 ELSE 0)
             /\ Load(t, l)' <= Load(t, l)
  <2>1. /\ Occurs(t, outgoing[l]) \in Nat /\ Occurs(t, wire[l]) \in Nat
        /\ Occurs(t, RemoveAt(r, i)) \in Nat
    BY <1>3, LoadNat, OccursNat
  <2>2. Load(t, l)' = Occurs(t, outgoing[l]) + Occurs(t, wire[l]) + Occurs(t, RemoveAt(r, i))
    BY <1>1, <1>4 DEF Load
  <2>3. Load(t, l) = Occurs(t, outgoing[l]) + Occurs(t, wire[l]) + Occurs(t, r)
    BY <1>2 DEF Load
  <2> QED
    BY <1>2, <1>3, <2>1, <2>2, <2>3
<1> QED
  BY <1>1, <1>2, <1>3, <1>4, <1>5 DEF Flows


-----------------------------------------------------------------------------
(* What a step does to the clients' hands.                                 *)

\* Nobody gets more, and nobody loses any.
Thins == \A t \in Txn : \A c \in Client : Hand(t)'[c] <= Hand(t)[c]

Unthinned == \A t \in Txn : \A c \in Client : Hand(t)'[c] = Hand(t)[c]

\* The hands hold numbers.
HandsInt == \A t : Hand(t) \in [Client -> Int]

\* They do, when the queues have their types.
LEMMA HandsAreInt == QueueTypes => HandsInt
BY HandNat DEF HandsInt

\* The same after a step.
LEMMA HandNatNext == QueueTypes' => HandsInt'
BY HandsAreInt, PTL

\* Then the copies do not become more, and as long as nothing breaks not less.
LEMMA OnceKept ==
    ASSUME QueueTypes, QueueTypes', OnePlaceEach, Thins,
           rx_client_transactions' = rx_client_transactions,
           generator' = "running" /\ faults' = 0 => generator = "running" /\ faults = 0 /\ Unthinned
    PROVE  OnePlaceEach'
<1> SUFFICES ASSUME NEW t \in Txn
             PROVE  /\ Copies(t)' <= 1
                    /\ generator' = "running" /\ faults' = 0 => Copies(t)' = 1
  BY DEF OnePlaceEach
<1>1. /\ Hand(t) \in [Client -> Int] /\ SumOver(Hand(t), Client) \in Int
      /\ Occurs(t, rx_client_transactions) \in Nat
  BY HandNat
<1>2. Hand(t)' \in [Client -> Int]
  BY HandNatNext DEF HandsInt
<1>3. PICK f \in [Client -> Int], g \in [Client -> Int], n \in Nat :
         f = Hand(t) /\ g = Hand(t)' /\ n = Occurs(t, rx_client_transactions)
  BY <1>1, <1>2
<1>4. Copies(t) = n + SumOver(f, Client) /\ Copies(t)' = n + SumOver(g, Client)
  BY <1>3 DEF Copies
<1>5. SumOver(g, Client) <= SumOver(f, Client)
  <2>1. \A c \in Client : g[c] <= f[c]
    BY <1>3 DEF Thins
  <2> QED
    BY <2>1, SumMonotone, Clients
<1>6. SumOver(f, Client) \in Int /\ SumOver(g, Client) \in Int
  BY Clients, SumTableUnique
<1>7. CASE generator' = "running" /\ faults' = 0
  <2>1. \A c \in Client : g[c] = f[c]
    BY <1>3, <1>7 DEF Unthinned
  <2>2. g = f
    BY <2>1
  <2> QED
    BY <1>4, <1>7, <2>2 DEF OnePlaceEach
<1>8. CASE ~ (generator' = "running" /\ faults' = 0)
  <2>1. n + SumOver(f, Client) <= 1
    BY <1>4 DEF OnePlaceEach
  <2> QED
    BY <1>4, <1>5, <1>6, <1>8, <2>1
<1> QED
  BY <1>7, <1>8

\* A step of the network on one link.
LEMMA LinkThins ==
    ASSUME QueueTypes, NEW l \in Link, Flows(l), chunks' = chunks
    PROVE  Thins /\ (Keeps(l) \/ l \notin Client => Unthinned)
<1>1. ASSUME NEW t \in Txn, NEW c \in Client
      PROVE  /\ Hand(t)'[c] <= Hand(t)[c]
             /\ Keeps(l) \/ l \notin Client => Hand(t)'[c] = Hand(t)[c]
  <2>1. c \in Link /\ Occurs(t, chunks[c]) \in Nat /\ Load(t, c) \in Nat
    <3>1. chunks[c] \in Seq(Txn)
      BY DEF QueueTypes
    <3> QED
      BY <3>1, Clients, OccursNat, LoadNat
  <2>2. Hand(t)[c] = Occurs(t, chunks[c]) + Load(t, c)
    BY DEF Hand
  <2>3. Hand(t)'[c] = Occurs(t, chunks[c]) + Load(t, c)'
    BY DEF Hand
  <2>4. c # l => Load(t, c)' = Load(t, c)
    BY <2>1 DEF Flows, Load
  <2>5. CASE c # l
    BY <2>1, <2>2, <2>3, <2>4, <2>5
  <2>6. CASE c = l
    <3>1. Load(t, c)' <= Load(t, c) /\ (Keeps(l) => Load(t, c)' = Load(t, c))
      BY <2>6 DEF Flows, Keeps
    <3>2. PICK n, m : n = Load(t, c) /\ n \in Nat /\ m = Load(t, c)'
      BY <2>1
    <3>3. m \in Int
      <4>1. /\ outgoing'[l] \in Seq(Txn) /\ wire'[l] \in Seq(Txn) /\ frames'[l] \in Seq(Txn)
        BY DEF Flows
      <4>2. /\ Occurs(t, outgoing'[l]) \in Nat /\ Occurs(t, wire'[l]) \in Nat
            /\ Occurs(t, frames'[l]) \in Nat
        BY <4>1, OccursNat
      <4> QED
        BY <2>6, <3>2, <4>2 DEF Load
    <3> QED
      BY <2>1, <2>2, <2>3, <2>6, <3>1, <3>2, <3>3
  <2> QED
    BY <2>5, <2>6
<1> QED
  BY <1>1 DEF Thins, Unthinned

\* A step that leaves the queues alone.
LEMMA SameThins ==
    ASSUME QueueTypes, UNCHANGED <<chunks, outgoing, wire, frames>>
    PROVE  Thins /\ Unthinned
<1>1. ASSUME NEW t \in Txn, NEW c \in Client
      PROVE  Hand(t)'[c] = Hand(t)[c] /\ Hand(t)[c] \in Nat
  BY HandNat DEF Hand, Load
<1>2. ASSUME NEW t \in Txn, NEW c \in Client PROVE Hand(t)'[c] <= Hand(t)[c]
  BY <1>1
<1> QED
  BY <1>1, <1>2 DEF Thins, Unthinned

-----------------------------------------------------------------------------
(* The invariant of the path holds at the start and is kept.               *)

\* A step that leaves every queue and every end of a link as it is.
Idle ==
    /\ UNCHANGED <<chunks, outgoing, wire, frames, sender, writer, stream, oversized>>
    /\ UNCHANGED <<rx_client_transactions, rx_transactions, generator, attempts, senders>>
    /\ faults' \in Nat /\ (faults' = 0 => faults = 0)

\* At the start nothing has been submitted, and the clients have their senders.
LEMMA SourceInit == CPInit => SourceInv
<1> SUFFICES ASSUME CPInit PROVE SourceInv
  OBVIOUS
<1>1. /\ oversized \in SUBSET Oversized
      /\ stream = [l \in Link |-> "none"] /\ outgoing = [l \in Link |-> << >>]
      /\ sender = [l \in Link |-> TRUE] /\ writer = [l \in Link |-> "off"]
      /\ wire = [l \in Link |-> << >>] /\ frames = [l \in Link |-> << >>]
      /\ attempts = 0 /\ senders = << >> /\ chunks = [c \in Client |-> << >>]
      /\ generator = "connecting" /\ rx_client_transactions = << >>
      /\ rx_transactions = << >> /\ faults = Cardinality(oversized)
  BY Zenon DEF CPInit, NWInit, LGInit
<1>2. /\ oversized \in SUBSET Txn /\ IsFiniteSet(oversized)
      /\ faults \in Nat /\ (faults = 0 => oversized = {})
  <2>1. oversized \in SUBSET Txn /\ IsFiniteSet(Txn)
    <3>1. NumTxns \in Nat /\ Oversized \subseteq Txn
      BY CPAssumption, LGAssumption
    <3>2. IsFiniteSet(Txn)
      BY <3>1, FS_Interval DEF Txn
    <3> QED
      BY <1>1, <3>1, <3>2
  <2>2. IsFiniteSet(oversized)
    BY <2>1, FS_Subset
  <2> QED
    BY <1>1, <2>1, <2>2, FS_CardinalityType, FS_EmptySet
<1>3. << >> \in Seq(Txn) /\ << >> \in Seq(Client)
  OBVIOUS
<1>4. QueueTypes
  BY <1>1, <1>3 DEF QueueTypes
<1>5. PathTypes
  BY <1>1, <1>2, <1>4 DEF PathTypes
<1>6. Quiet
  BY <1>1, Clients DEF Quiet
<1>7. InTurn
  BY <1>1, <1>3 DEF InTurn
<1>8. Lossless
  BY <1>1, <1>2, Clients DEF Lossless, Sound
<1>9. OnePlaceEach
  <2> SUFFICES ASSUME NEW t \in Txn PROVE Copies(t) <= 1
    BY <1>1 DEF OnePlaceEach
  <2>1. Hand(t) \in [Client -> Int]
    BY <1>4, HandNat
  <2>2. \A c \in Client : Hand(t)[c] = 0
    BY <1>1, Clients, OccursNone DEF Hand, Load
  <2>3. SumOver(Hand(t), Client) = 0
    <3>1. PICK f \in [Client -> Int] : f = Hand(t)
      BY <2>1
    <3> QED
      BY <2>2, <3>1, Clients, SumOfZeros
  <2> QED
    BY <1>1, <2>3, OccursNone DEF Copies
<1> QED
  BY <1>5, <1>6, <1>7, <1>8, <1>9 DEF SourceInv

\* Nothing of the path moves.
LEMMA IdleKeeps == ASSUME SourceInv, Idle PROVE SourceInv'
<1>1. PathTypes'
  BY DEF SourceInv, Idle, PathTypes, QueueTypes
<1>2. Quiet'
  BY DEF SourceInv, Idle, Quiet
<1>3. InTurn'
  BY DEF SourceInv, Idle, InTurn
<1>4. Lossless'
  BY DEF SourceInv, Idle, Lossless, Sound
<1>5. OnePlaceEach'
  <2>1. QueueTypes /\ QueueTypes' /\ OnePlaceEach
    BY <1>1 DEF SourceInv, PathTypes
  <2>2. Thins /\ Unthinned
    BY <2>1, SameThins DEF Idle
  <2> QED
    BY <2>1, <2>2, OnceKept DEF Idle
<1> QED
  BY <1>1, <1>2, <1>3, <1>4, <1>5 DEF SourceInv

\* What a step on link l leaves alone.
Touches(l) ==
    /\ outgoing' \in [Link -> Seq(Txn)] /\ wire' \in [Link -> Seq(Txn)]
    /\ frames' \in [Link -> Seq(Txn)] /\ rx_transactions' \in Seq(Txn)
    /\ \A m \in Link \ {l} :
          outgoing'[m] = outgoing[m] /\ wire'[m] = wire[m] /\ frames'[m] = frames[m]
    /\ UNCHANGED <<generator, attempts, senders, chunks, oversized, sender,
                   rx_client_transactions>>
    /\ writer' = [m \in Link |-> writer'[m]] /\ stream' = [m \in Link |-> stream'[m]]
    /\ faults' \in Nat /\ (faults' = 0 => faults = 0)

\* A client's link without anything on it.
Blank(c) == outgoing[c] = << >> /\ wire[c] = << >> /\ frames[c] = << >>

\* A step of the network that puts nothing into a client's hands.
LEMMA NetKeeps ==
    ASSUME SourceInv, NEW l \in Link, Touches(l), Thins,
           generator = "running" /\ faults' = 0 => Unthinned,
           generator = "connecting" /\ l \in Client => Blank(l)',
           faults' = 0 /\ generator # "exited" /\ l \in Client => Sound(l)',
           \A c \in Client : c # l => writer'[c] = writer[c] /\ stream'[c] = stream[c]
    PROVE  SourceInv'
<1>1. PathTypes'
  BY DEF SourceInv, Touches, PathTypes, QueueTypes
<1>2. Quiet'
  <2> SUFFICES ASSUME generator = "connecting"
               PROVE  /\ rx_client_transactions = << >>
                      /\ \A c \in Client : chunks[c] = << >> /\ Blank(c)'
    BY DEF Touches, Quiet, Blank
  <2>1. /\ rx_client_transactions = << >>
        /\ \A c \in Client : chunks[c] = << >> /\ Blank(c)
    BY DEF SourceInv, Quiet, Blank
  <2>2. ASSUME NEW c \in Client, c # l PROVE Blank(c)'
    BY <2>1, <2>2, Clients DEF Touches, Blank
  <2> QED
    BY <2>1, <2>2
<1>3. InTurn'
  BY DEF SourceInv, Touches, InTurn
<1>4. Lossless'
  <2> SUFFICES ASSUME faults' = 0
               PROVE  /\ oversized = {}
                      /\ generator # "exited" => \A c \in Client : Sound(c)'
                      /\ generator = "connecting" => \A c \in Client : sender[c]
                      /\ generator = "running" => \A c \in Client : sender[c] <=> chunks[c] # << >>
    BY DEF Touches, Lossless
  <2>1. /\ oversized = {}
        /\ generator # "exited" => \A c \in Client : Sound(c)
        /\ generator = "connecting" => \A c \in Client : sender[c]
        /\ generator = "running" => \A c \in Client : sender[c] <=> chunks[c] # << >>
    BY DEF SourceInv, Touches, Lossless
  <2>2. ASSUME NEW c \in Client, generator # "exited" PROVE Sound(c)'
    BY <2>1, <2>2 DEF Touches, Sound
  <2> QED
    BY <2>1, <2>2
<1>5. OnePlaceEach'
  <2>1. QueueTypes /\ QueueTypes' /\ OnePlaceEach
    BY <1>1 DEF SourceInv, PathTypes
  <2>2. /\ rx_client_transactions' = rx_client_transactions /\ generator' = generator
        /\ (faults' = 0 => faults = 0)
    BY DEF Touches
  <2> QED
    BY <2>1, <2>2, OnceKept
<1> QED
  BY <1>1, <1>2, <1>3, <1>4, <1>5 DEF SourceInv

\* A step on the proxy's link.
LEMMA ProxyKeeps ==
    ASSUME SourceInv, Touches(Proxy),
           \A c \in Client : writer'[c] = writer[c] /\ stream'[c] = stream[c]
    PROVE  SourceInv'
<1>1. QueueTypes
  BY DEF SourceInv, PathTypes
<1>2. ASSUME NEW t \in Txn, NEW c \in Client
      PROVE  Hand(t)'[c] = Hand(t)[c] /\ Hand(t)[c] \in Nat
  <2>1. c \in Link /\ c # Proxy
    BY Clients
  <2>2. outgoing'[c] = outgoing[c] /\ wire'[c] = wire[c] /\ frames'[c] = frames[c] /\ chunks' = chunks
    BY <2>1 DEF Touches
  <2>3. Hand(t)'[c] = Hand(t)[c]
    BY <2>2 DEF Hand, Load
  <2> QED
    BY <1>1, <2>3, HandNat
<1>3. ASSUME NEW t \in Txn, NEW c \in Client PROVE Hand(t)'[c] <= Hand(t)[c]
  BY <1>2
<1>4. Thins /\ Unthinned
  BY <1>2, <1>3 DEF Thins, Unthinned
<1> QED
  BY <1>4, Clients, NetKeeps

\* What the steps of the network have in common.
LEMMA FlowKeeps ==
    ASSUME SourceInv, NEW l \in Link, Flows(l), Touches(l),
           generator = "running" /\ faults' = 0 /\ l \in Client => Keeps(l),
           generator = "connecting" /\ l \in Client => Blank(l)',
           faults' = 0 /\ generator # "exited" /\ l \in Client => Sound(l)',
           \A c \in Client : c # l => writer'[c] = writer[c] /\ stream'[c] = stream[c]
    PROVE  SourceInv'
<1>1. QueueTypes /\ chunks' = chunks
  BY DEF SourceInv, PathTypes, Touches
<1>2. Thins /\ (Keeps(l) \/ l \notin Client => Unthinned)
  BY <1>1, LinkThins
<1>3. generator = "running" /\ faults' = 0 => Unthinned
  BY <1>2
<1> QED
  BY <1>2, <1>3, NetKeeps

\* What is known of a client's link while nothing has broken, and before the start.
LEMMA ClientLink ==
    ASSUME SourceInv, NEW c \in Client
    PROVE  /\ generator = "connecting" => Blank(c)
           /\ faults = 0 => oversized = {}
           /\ faults = 0 /\ generator # "exited" => Sound(c)
BY DEF SourceInv, Quiet, Blank, Lossless

\* The writer.
LEMMA WriteKeeps ==
    ASSUME SourceInv, NEW l \in Link, Write(l), UNCHANGED <<lgVars, pathVars>>
    PROVE  SourceInv'
<1>1. QueueTypes /\ PathTypes
  BY DEF SourceInv, PathTypes
<1>2. Flows(l) /\ (stream[l] # "broken" => Keeps(l))
  BY <1>1, WriteFlows
<1>3. /\ UNCHANGED <<generator, attempts, senders, chunks, rx_client_transactions>>
      /\ UNCHANGED <<rx_transactions, faults, sender, oversized, stream, frames>>
  BY DEF Write, lgVars, pathVars
<1>4. \/ writer' = writer /\ stream[l] = "up" /\ outgoing[l] # << >>
      \/ writer' = [writer EXCEPT ![l] = "done"] /\ stream[l] = "broken" /\ outgoing[l] # << >>
      \/ /\ writer' = [writer EXCEPT ![l] = "done"] /\ ~ sender[l]
         /\ UNCHANGED <<outgoing, wire>>
  BY DEF Write
<1>5. /\ writer = [m \in Link |-> writer[m]] /\ stream = [m \in Link |-> stream[m]]
      /\ faults \in Nat /\ rx_transactions \in Seq(Txn)
  BY <1>1 DEF PathTypes, QueueTypes
<1>6. /\ writer' = [m \in Link |-> writer'[m]] /\ stream' = [m \in Link |-> stream'[m]]
      /\ \A c \in Client : c # l => writer'[c] = writer[c] /\ stream'[c] = stream[c]
      /\ writer' = writer \/ writer'[l] = "done"
  BY <1>3, <1>4, <1>5, Clients
<1>7. Touches(l)
  BY <1>2, <1>3, <1>5, <1>6 DEF Touches, Flows
<1>8. faults = 0 /\ generator # "exited" /\ l \in Client => Sound(l)'
  <2> SUFFICES ASSUME faults = 0, generator # "exited", l \in Client PROVE Sound(l)'
    OBVIOUS
  <2>1. Sound(l)
    BY ClientLink
  <2> QED
    BY <1>3, <1>4, <2>1 DEF Sound
<1>9. generator = "running" /\ faults' = 0 /\ l \in Client => Keeps(l)
  BY <1>2, <1>3, ClientLink DEF Sound
<1>10. generator = "connecting" /\ l \in Client => Blank(l)'
  BY <1>3, <1>4, ClientLink DEF Blank
<1> QED
  BY <1>2, <1>3, <1>6, <1>7, <1>8, <1>9, <1>10, FlowKeeps

\* The reader.
LEMMA ReadKeeps ==
    ASSUME SourceInv, NEW l \in Link, Read(l), UNCHANGED <<lgVars, pathVars>>
    PROVE  SourceInv'
<1>1. QueueTypes /\ PathTypes
  BY DEF SourceInv, PathTypes
<1>2. Flows(l) /\ (oversized = {} => Keeps(l))
  BY <1>1, ReadFlows
<1>3. /\ UNCHANGED <<generator, attempts, senders, chunks, rx_client_transactions>>
      /\ UNCHANGED <<rx_transactions, faults, sender, oversized, stream, writer, outgoing>>
  BY DEF Read, lgVars, pathVars
<1>4. \/ \E k \in 1..Len(wire[l]) : TRUE
      \/ UNCHANGED <<wire, frames>>
  BY DEF Read
<1>5. /\ writer = [m \in Link |-> writer[m]] /\ stream = [m \in Link |-> stream[m]]
      /\ faults \in Nat /\ rx_transactions \in Seq(Txn)
  BY <1>1 DEF PathTypes, QueueTypes
<1>6. Touches(l)
  BY <1>2, <1>3, <1>5 DEF Touches, Flows
<1>7. faults = 0 /\ generator # "exited" /\ l \in Client => Sound(l)'
  BY <1>3, ClientLink DEF Sound
<1>8. generator = "running" /\ faults' = 0 /\ l \in Client => Keeps(l)
  BY <1>2, <1>3, ClientLink
<1>9. generator = "connecting" /\ l \in Client => Blank(l)'
  <2> SUFFICES ASSUME generator = "connecting", l \in Client PROVE Blank(l)'
    OBVIOUS
  <2>1. Blank(l)
    BY ClientLink
  <2>2. Len(wire[l]) = 0
    BY <2>1 DEF Blank
  <2>3. UNCHANGED <<wire, frames>>
    BY <1>4, <2>2
  <2> QED
    BY <1>3, <2>1, <2>3 DEF Blank
<1> QED
  BY <1>2, <1>3, <1>6, <1>7, <1>8, <1>9, FlowKeeps

\* A connection breaks.
LEMMA BreakKeeps ==
    ASSUME SourceInv, NEW l \in Link, Break(l), UNCHANGED lgVars, faults' = faults + 1,
           UNCHANGED <<rx_client_transactions, rx_transactions>>
    PROVE  SourceInv'
<1>1. QueueTypes /\ PathTypes
  BY DEF SourceInv, PathTypes
<1>2. Flows(l)
  BY <1>1, BreakFlows
<1>3. /\ UNCHANGED <<generator, attempts, senders, chunks>>
      /\ UNCHANGED <<sender, oversized, writer, outgoing, frames>>
      /\ stream' = [stream EXCEPT ![l] = "broken"] /\ wire' = [wire EXCEPT ![l] = << >>]
  BY DEF Break, lgVars
<1>4. /\ writer = [m \in Link |-> writer[m]] /\ stream = [m \in Link |-> stream[m]]
      /\ faults \in Nat /\ rx_transactions \in Seq(Txn) /\ wire \in [Link -> Seq(Txn)]
  BY <1>1 DEF PathTypes, QueueTypes
<1>5. faults' \in Nat /\ faults' # 0
  BY <1>4
<1>6. /\ stream' = [m \in Link |-> stream'[m]]
      /\ \A c \in Client : c # l => writer'[c] = writer[c] /\ stream'[c] = stream[c]
  BY <1>3, <1>4, Clients
<1>7. Touches(l)
  BY <1>2, <1>3, <1>4, <1>5, <1>6 DEF Touches, Flows
<1>8. generator = "connecting" /\ l \in Client => Blank(l)'
  BY <1>3, <1>4, ClientLink DEF Blank
<1> QED
  BY <1>2, <1>5, <1>6, <1>7, <1>8, FlowKeeps

\* The primary connects to the proxy.
LEMMA ConnectKeeps ==
    ASSUME SourceInv, Connect(Proxy), UNCHANGED <<lgVars, pathVars>>
    PROVE  SourceInv'
<1>1. QueueTypes /\ PathTypes
  BY DEF SourceInv, PathTypes
<1>2. /\ UNCHANGED <<generator, attempts, senders, chunks, rx_client_transactions>>
      /\ UNCHANGED <<rx_transactions, faults, sender, oversized, outgoing, wire, frames>>
      /\ stream' = [stream EXCEPT ![Proxy] = "up"] /\ writer' = [writer EXCEPT ![Proxy] = "on"]
  BY DEF Connect, lgVars, pathVars
<1>3. /\ writer = [m \in Link |-> writer[m]] /\ stream = [m \in Link |-> stream[m]]
      /\ faults \in Nat /\ rx_transactions \in Seq(Txn) /\ wire \in [Link -> Seq(Txn)]
      /\ outgoing \in [Link -> Seq(Txn)] /\ frames \in [Link -> Seq(Txn)]
  BY <1>1 DEF PathTypes, QueueTypes
<1>4. /\ writer' = [m \in Link |-> writer'[m]] /\ stream' = [m \in Link |-> stream'[m]]
      /\ \A c \in Client : writer'[c] = writer[c] /\ stream'[c] = stream[c]
  BY <1>2, <1>3, Clients
<1>5. Touches(Proxy)
  BY <1>2, <1>3, <1>4 DEF Touches
<1> QED
  BY <1>4, <1>5, ProxyKeeps

\* A frame goes into the proxy's channel.
LEMMA ToProxyKeeps ==
    ASSUME SourceInv, NEW i \in DOMAIN frames[Proxy], TakeFrame(Proxy, i),
           rx_transactions' = Append(rx_transactions, frames[Proxy][i]),
           UNCHANGED <<lgVars, rx_client_transactions, faults>>
    PROVE  SourceInv'
<1>1. QueueTypes /\ PathTypes
  BY DEF SourceInv, PathTypes
<1>2. Flows(Proxy) /\ frames[Proxy][i] \in Txn
  BY <1>1, TakeFlows, Clients
<1>3. /\ UNCHANGED <<generator, attempts, senders, chunks, rx_client_transactions, faults>>
      /\ UNCHANGED <<sender, oversized, outgoing, wire, writer, stream>>
  BY DEF TakeFrame, lgVars
<1>4. /\ writer = [m \in Link |-> writer[m]] /\ stream = [m \in Link |-> stream[m]]
      /\ faults \in Nat /\ rx_transactions \in Seq(Txn)
  BY <1>1 DEF PathTypes, QueueTypes
<1>5. rx_transactions' \in Seq(Txn)
  BY <1>2, <1>4
<1>6. Touches(Proxy)
  BY <1>2, <1>3, <1>4, <1>5 DEF Touches, Flows
<1> QED
  BY <1>3, <1>6, ProxyKeeps

\* A committed transaction is forwarded, or dropped.
LEMMA ForwardKeeps ==
    ASSUME SourceInv, NEW x \in Txn, outgoing' = outgoing \/ Enqueue(Proxy, x),
           UNCHANGED <<oversized, stream, sender, writer, wire, frames, lgVars,
                       rx_client_transactions, rx_transactions, faults>>
    PROVE  SourceInv'
<1>1. QueueTypes /\ PathTypes
  BY DEF SourceInv, PathTypes
<1>2. UNCHANGED <<generator, attempts, senders, chunks>>
  BY DEF lgVars
<1>3. /\ writer = [m \in Link |-> writer[m]] /\ stream = [m \in Link |-> stream[m]]
      /\ faults \in Nat /\ rx_transactions \in Seq(Txn) /\ wire \in [Link -> Seq(Txn)]
      /\ outgoing \in [Link -> Seq(Txn)] /\ frames \in [Link -> Seq(Txn)]
  BY <1>1 DEF PathTypes, QueueTypes
<1>4. PICK o \in Seq(Txn) : o = Append(outgoing[Proxy], x)
  <2>1. outgoing[Proxy] \in Seq(Txn)
    BY <1>3, Clients
  <2>2. Append(outgoing[Proxy], x) \in Seq(Txn)
    BY <2>1
  <2> QED
    BY <2>2
<1>5. outgoing' = outgoing \/ outgoing' = [outgoing EXCEPT ![Proxy] = o]
  BY <1>4 DEF Enqueue
<1>6. /\ outgoing' \in [Link -> Seq(Txn)]
      /\ \A m \in Link \ {Proxy} : outgoing'[m] = outgoing[m]
  BY <1>3, <1>5
<1>7. Touches(Proxy)
  BY <1>2, <1>3, <1>6 DEF Touches
<1> QED
  BY <1>7, ProxyKeeps

-----------------------------------------------------------------------------
(* The steps of the load generator.                                        *)

\* Senders are numbered.
LEMMA SenderNumbers ==
    ASSUME NEW s \in Seq(Client)
    PROVE  \A i \in DOMAIN s : s[i] \in Client /\ s[i] \in Nat
<1>1. \A i \in DOMAIN s : s[i] \in Client
  OBVIOUS
<1> QED
  BY <1>1, Clients

\* A client connects.
LEMMA ConnectClientKeeps ==
    ASSUME SourceInv, NEW c \in Client, ConnectClient(c), UNCHANGED pathVars
    PROVE  SourceInv'
<1>1. QueueTypes /\ PathTypes /\ OnePlaceEach
  BY DEF SourceInv, PathTypes
<1>2. /\ UNCHANGED <<generator, chunks, rx_client_transactions>> /\ generator = "connecting"
      /\ UNCHANGED <<rx_transactions, faults, sender, oversized, outgoing, wire, frames>>
      /\ stream' = [stream EXCEPT ![c] = "up"] /\ writer' = [writer EXCEPT ![c] = "on"]
      /\ attempts' = c /\ c = attempts + 1 /\ senders' = Append(senders, c)
  BY DEF ConnectClient, Connect, lgVars, pathVars
<1>3. /\ writer = [m \in Link |-> writer[m]] /\ stream = [m \in Link |-> stream[m]]
  BY <1>1 DEF PathTypes
<1>4. /\ writer' = [m \in Link |-> writer'[m]] /\ stream' = [m \in Link |-> stream'[m]]
      /\ \A d \in Client : /\ writer'[d] = (IF d = c THEN "on" ELSE writer[d])
                           /\ stream'[d] = (IF d = c THEN "up" ELSE stream[d])
  BY <1>2, <1>3, Clients
<1>5. PathTypes'
  BY <1>1, <1>2, <1>4 DEF PathTypes, QueueTypes
<1>6. Quiet'
  BY <1>2 DEF SourceInv, Quiet
<1>7. InTurn'
  <2>1. /\ attempts \in Nat /\ senders \in Seq(Client) /\ Len(senders) <= attempts
        /\ \A i \in DOMAIN senders : senders[i] <= attempts
        /\ \A i, j \in DOMAIN senders : senders[i] = senders[j] => i = j
        /\ faults = 0 => Len(senders) = attempts /\ \A i \in DOMAIN senders : senders[i] = i
    BY <1>2 DEF SourceInv, InTurn
  <2>2. PICK n \in Nat : n = Len(senders)
    BY <2>1
  <2>3. DOMAIN senders = 1..n
    BY <2>1, <2>2
  <2>4. senders' \in Seq(Client) /\ Len(senders') = n + 1 /\ DOMAIN senders' = 1..(n + 1)
    BY <1>2, <2>1, <2>2
  <2>5. senders'[n + 1] = attempts + 1 /\ \A i \in 1..n : senders'[i] = senders[i]
    BY <1>2, <2>1, <2>2
  <2>6. \A i \in 1..n : senders[i] \in Nat /\ senders[i] <= attempts
    BY <2>1, <2>3, SenderNumbers
  <2>7. attempts' \in Nat /\ attempts' = attempts + 1 /\ Len(senders') <= attempts'
    BY <1>2, <2>1, <2>2, <2>4
  <2>8. \A i \in DOMAIN senders' : senders'[i] <= attempts'
    BY <2>1, <2>4, <2>5, <2>6, <2>7
  <2>9. \A i, j \in DOMAIN senders' : senders'[i] = senders'[j] => i = j
    BY <2>1, <2>3, <2>4, <2>5, <2>6
  <2>10. faults = 0 => Len(senders') = attempts' /\ \A i \in DOMAIN senders' : senders'[i] = i
    BY <2>1, <2>2, <2>3, <2>4, <2>5, <2>7
  <2> QED
    BY <1>2, <2>4, <2>7, <2>8, <2>9, <2>10 DEF InTurn
<1>8. Lossless'
  BY <1>2, <1>4 DEF SourceInv, Lossless, Sound
<1>9. OnePlaceEach'
  <2>1. Thins /\ Unthinned /\ QueueTypes'
    BY <1>1, <1>2, <1>5, SameThins DEF PathTypes
  <2> QED
    BY <1>1, <1>2, <2>1, OnceKept
<1> QED
  BY <1>5, <1>6, <1>7, <1>8, <1>9 DEF SourceInv

\* A client gets no connection and is left out.
LEMMA FailClientKeeps ==
    ASSUME SourceInv, NEW c \in Client, FailClient(c), faults' = faults + 1,
           UNCHANGED <<rx_client_transactions, rx_transactions>>
    PROVE  SourceInv'
<1>1. QueueTypes /\ PathTypes /\ OnePlaceEach
  BY DEF SourceInv, PathTypes
<1>2. /\ UNCHANGED <<generator, chunks, senders>> /\ generator = "connecting"
      /\ UNCHANGED <<sender, writer, stream, oversized, outgoing, wire, frames>>
      /\ attempts' = c /\ c = attempts + 1
  BY DEF FailClient, nwVars
<1>3. faults' \in Nat /\ faults' # 0
  BY <1>1 DEF PathTypes
<1>4. PathTypes'
  BY <1>1, <1>2, <1>3 DEF PathTypes, QueueTypes
<1>5. Quiet'
  BY <1>2 DEF SourceInv, Quiet
<1>6. InTurn'
  <2>1. /\ attempts \in Nat /\ senders \in Seq(Client) /\ Len(senders) <= attempts
        /\ \A i \in DOMAIN senders : senders[i] <= attempts
        /\ \A i, j \in DOMAIN senders : senders[i] = senders[j] => i = j
    BY <1>2 DEF SourceInv, InTurn
  <2>2. attempts' \in Nat /\ attempts' = attempts + 1 /\ Len(senders) <= attempts'
    <3>1. Len(senders) \in Nat
      BY <2>1
    <3> QED
      BY <1>2, <2>1, <3>1
  <2>3. \A i \in DOMAIN senders : senders[i] \in Nat
    BY <2>1, SenderNumbers
  <2>4. \A i \in DOMAIN senders : senders[i] <= attempts'
    BY <2>1, <2>2, <2>3
  <2> QED
    BY <1>2, <1>3, <2>1, <2>2, <2>4 DEF InTurn
<1>7. Lossless'
  BY <1>3 DEF Lossless
<1>8. OnePlaceEach'
  <2>1. Thins /\ QueueTypes'
    BY <1>1, <1>2, <1>4, SameThins DEF PathTypes
  <2> QED
    BY <1>1, <1>2, <1>3, <2>1, OnceKept
<1> QED
  BY <1>4, <1>5, <1>6, <1>7, <1>8 DEF SourceInv

\* What follows for the hands from what follows for each client.
LEMMA HandStep ==
    ASSUME QueueTypes, NEW t, NEW c \in Client
    PROVE  /\ Hand(t)[c] = Occurs(t, chunks[c]) + Occurs(t, outgoing[c])
                             + Occurs(t, wire[c]) + Occurs(t, frames[c])
           /\ Occurs(t, chunks[c]) \in Nat /\ Occurs(t, outgoing[c]) \in Nat
           /\ Occurs(t, wire[c]) \in Nat /\ Occurs(t, frames[c]) \in Nat
<1>1. chunks[c] \in Seq(Txn) /\ c \in Link
  BY Clients DEF QueueTypes
<1>2. Occurs(t, chunks[c]) \in Nat
  BY <1>1, OccursNat
<1>3. /\ Occurs(t, outgoing[c]) \in Nat /\ Occurs(t, wire[c]) \in Nat
      /\ Occurs(t, frames[c]) \in Nat
  BY <1>1, LoadNat
<1> QED
  BY <1>2, <1>3 DEF Hand, Load

\* The process ends, and takes along what was not written.
LEMMA ExitKeeps == ASSUME SourceInv, Exit, UNCHANGED pathVars PROVE SourceInv'
<1>1. QueueTypes /\ PathTypes /\ OnePlaceEach
  BY DEF SourceInv, PathTypes
<1>2. /\ UNCHANGED <<chunks, rx_client_transactions, rx_transactions, faults>>
      /\ UNCHANGED <<stream, sender, oversized, wire, frames>> /\ generator' = "exited"
      /\ writer' = [l \in Link |-> IF l \in Client THEN "done" ELSE writer[l]]
      /\ outgoing' = [l \in Link |-> IF l \in Client THEN << >> ELSE outgoing[l]]
  BY DEF Exit, pathVars
<1>3. outgoing' \in [Link -> Seq(Txn)] /\ \A c \in Client : outgoing'[c] = << >>
  <2>1. << >> \in Seq(Txn) /\ outgoing \in [Link -> Seq(Txn)]
    BY <1>1 DEF QueueTypes
  <2> QED
    BY <1>2, <2>1, Clients
<1>4. writer' = [m \in Link |-> writer'[m]]
  BY <1>2
<1>5. PathTypes'
  BY <1>1, <1>2, <1>3, <1>4 DEF PathTypes, QueueTypes
<1>6. Quiet' /\ InTurn'
  BY <1>2 DEF Quiet, InTurn
<1>7. Lossless'
  BY <1>2 DEF SourceInv, Lossless
<1>8. Thins
  <2>1. ASSUME NEW t \in Txn, NEW c \in Client PROVE Hand(t)'[c] <= Hand(t)[c]
    <3>1. /\ Hand(t)[c] = Occurs(t, chunks[c]) + Occurs(t, outgoing[c])
                             + Occurs(t, wire[c]) + Occurs(t, frames[c])
          /\ Occurs(t, chunks[c]) \in Nat /\ Occurs(t, outgoing[c]) \in Nat
          /\ Occurs(t, wire[c]) \in Nat /\ Occurs(t, frames[c]) \in Nat
      BY <1>1, HandStep
    <3>2. Hand(t)'[c] = Occurs(t, chunks[c]) + (Occurs(t, << >>)
                             + Occurs(t, wire[c]) + Occurs(t, frames[c]))
      BY <1>2, <1>3 DEF Hand, Load
    <3> QED
      BY <3>1, <3>2, OccursNone
  <2> QED
    BY <2>1 DEF Thins
<1>9. OnePlaceEach'
  <2>1. QueueTypes'
    BY <1>5 DEF PathTypes
  <2> QED
    BY <1>1, <1>2, <1>8, <2>1, OnceKept
<1> QED
  BY <1>5, <1>6, <1>7, <1>9 DEF SourceInv

\* A client thread submits one transaction; it loses its chunk only to a writer that is gone.
LEMMA SubmitKeeps ==
    ASSUME SourceInv, NEW c \in Client, SubmitTransaction(c), UNCHANGED pathVars
    PROVE  SourceInv'
<1>1. QueueTypes /\ PathTypes /\ OnePlaceEach
  BY DEF SourceInv, PathTypes
<1>2. /\ UNCHANGED <<rx_client_transactions, rx_transactions, faults, generator>>
      /\ UNCHANGED <<stream, writer, oversized, wire, frames>>
      /\ generator = "running" /\ chunks[c] # << >>
      /\ sender' = [l \in Link |-> IF l \in Client THEN chunks'[l] # << >> ELSE sender[l]]
  BY DEF SubmitTransaction, DropSenders, pathVars
<1>3. /\ chunks \in [Client -> Seq(Txn)] /\ outgoing \in [Link -> Seq(Txn)]
      /\ c \in Link /\ sender \in [Link -> BOOLEAN]
  BY <1>1, Clients DEF PathTypes, QueueTypes
<1>4. PICK s \in Seq(Txn), o \in Seq(Txn) : s = chunks[c] /\ o = outgoing[c]
  BY <1>3
<1>5. /\ s # << >> /\ Head(s) \in Txn /\ Tail(s) \in Seq(Txn)
      /\ \A t : Occurs(t, s) = (IF Head(s) = t THEN 1 ELSE 0) + Occurs(t, Tail(s))
  <2>1. s # << >>
    BY <1>2, <1>4
  <2>2. Head(s) \in Txn /\ Tail(s) \in Seq(Txn)
    BY <2>1
  <2>3. \A t : Occurs(t, s) = (IF Head(s) = t THEN 1 ELSE 0) + Occurs(t, Tail(s))
    BY <2>1, OccursHead
  <2> QED
    BY <2>1, <2>2, <2>3
<1>6. PICK o1 \in Seq(Txn) :
         /\ o1 = Append(o, Head(s))
         /\ \A t : Occurs(t, o1) = Occurs(t, o) + (IF Head(s) = t THEN 1 ELSE 0)
  <2>1. /\ Append(o, Head(s)) \in Seq(Txn)
        /\ \A t : Occurs(t, Append(o, Head(s))) = Occurs(t, o) + (IF Head(s) = t THEN 1 ELSE 0)
    BY <1>5, OccursAppend
  <2> QED
    BY <2>1
<1>7. \/ /\ Accepts(c) /\ outgoing' = [outgoing EXCEPT ![c] = o1]
         /\ chunks' = [chunks EXCEPT ![c] = Tail(s)]
      \/ /\ ~ Accepts(c) /\ outgoing' = outgoing
         /\ chunks' = [chunks EXCEPT ![c] = << >>]
  BY <1>4, <1>6 DEF SubmitTransaction, Enqueue
<1>8. /\ chunks' \in [Client -> Seq(Txn)] /\ outgoing' \in [Link -> Seq(Txn)]
      /\ \A d \in Client : d # c => chunks'[d] = chunks[d] /\ outgoing'[d] = outgoing[d]
      /\ Accepts(c) => chunks'[c] = Tail(s) /\ outgoing'[c] = o1
      /\ ~ Accepts(c) => chunks'[c] = << >> /\ outgoing'[c] = o
  <2>1. << >> \in Seq(Txn) /\ Client \subseteq Link
    BY Clients
  <2> QED
    BY <1>3, <1>4, <1>5, <1>6, <1>7, <2>1
<1>9. /\ sender' \in [Link -> BOOLEAN]
      /\ \A d \in Client : sender'[d] <=> chunks'[d] # << >>
  BY <1>2, <1>3, Clients
<1>10. PathTypes'
  BY <1>1, <1>2, <1>8, <1>9 DEF PathTypes, QueueTypes
<1>11. Quiet' /\ InTurn'
  BY <1>2 DEF Quiet, InTurn
<1>12. Lossless'
  <2> SUFFICES ASSUME faults = 0 PROVE oversized = {} /\ \A d \in Client : Sound(d)'
    BY <1>2, <1>9 DEF Lossless
  <2>1. /\ oversized = {}
        /\ \A d \in Client : Sound(d) /\ (sender[d] <=> chunks[d] # << >>)
    BY <1>2 DEF SourceInv, Lossless
  <2>2. ASSUME NEW d \in Client PROVE Sound(d)'
    <3>1. chunks'[d] # << >> => chunks[d] # << >>
      BY <1>2, <1>8
    <3> QED
      BY <1>2, <1>9, <2>1, <3>1 DEF Sound
  <2> QED
    BY <2>1, <2>2
<1>13. ASSUME NEW t \in Txn, NEW d \in Client
       PROVE  Hand(t)'[d] <= Hand(t)[d] /\ (Accepts(c) => Hand(t)'[d] = Hand(t)[d])
  <2>1. /\ Hand(t)[d] = Occurs(t, chunks[d]) + Occurs(t, outgoing[d])
                           + Occurs(t, wire[d]) + Occurs(t, frames[d])
        /\ Occurs(t, chunks[d]) \in Nat /\ Occurs(t, outgoing[d]) \in Nat
        /\ Occurs(t, wire[d]) \in Nat /\ Occurs(t, frames[d]) \in Nat
    BY <1>1, HandStep
  <2>2. Hand(t)'[d] = Occurs(t, chunks'[d]) + (Occurs(t, outgoing'[d])
                           + Occurs(t, wire[d]) + Occurs(t, frames[d]))
    BY <1>2 DEF Hand, Load
  <2>3. CASE d # c
    BY <1>8, <2>1, <2>2, <2>3
  <2>4. CASE d = c /\ Accepts(c)
    <3>1. Occurs(t, Tail(s)) \in Nat /\ Occurs(t, o1) \in Nat
      BY <1>5, OccursNat
    <3>2. /\ Occurs(t, s) = (IF Head(s) = t THEN 1 ELSE 0) + Occurs(t, Tail(s))
          /\ Occurs(t, o1) = Occurs(t, o) + (IF Head(s) = t THEN 1 ELSE 0)
      BY <1>5, <1>6
    <3>3. /\ Hand(t)[d] = Occurs(t, s) + Occurs(t, o) + Occurs(t, wire[d]) + Occurs(t, frames[d])
          /\ Hand(t)'[d] = Occurs(t, Tail(s)) + (Occurs(t, o1)
                           + Occurs(t, wire[d]) + Occurs(t, frames[d]))
      BY <1>4, <1>8, <2>1, <2>2, <2>4
    <3>4. Occurs(t, o) \in Nat
      BY OccursNat
    <3>5. Hand(t)'[d] = Hand(t)[d] /\ Hand(t)[d] \in Nat
      <4>1. PICK a \in Nat, b \in Nat, w \in Nat, r \in Nat, h \in {0, 1} :
               /\ a = Occurs(t, Tail(s)) /\ b = Occurs(t, o) /\ w = Occurs(t, wire[d])
               /\ r = Occurs(t, frames[d]) /\ h = IF Head(s) = t THEN 1 ELSE 0
        BY <2>1, <3>1, <3>4
      <4>2. Hand(t)[d] = (a + h) + b + w + r /\ Hand(t)'[d] = a + ((b + h) + w + r)
        BY <3>2, <3>3, <4>1
      <4> QED
        BY <4>2
    <3>6. Hand(t)'[d] <= Hand(t)[d]
      BY <3>5
    <3> QED
      BY <3>5, <3>6
  <2>5. CASE d = c /\ ~ Accepts(c)
    <3>1. Occurs(t, chunks'[d]) = 0 /\ outgoing'[d] = outgoing[d]
      BY <1>4, <1>8, <2>5, OccursNone
    <3> QED
      BY <2>1, <2>2, <2>5, <3>1
  <2> QED
    BY <2>3, <2>4, <2>5
<1>14. Thins /\ (Accepts(c) => Unthinned)
  BY <1>13 DEF Thins, Unthinned
<1>15. faults = 0 => Accepts(c)
  BY <1>2 DEF SourceInv, Lossless, Sound, Accepts
<1>16. OnePlaceEach'
  <2>1. QueueTypes'
    BY <1>10 DEF PathTypes
  <2> QED
    BY <1>1, <1>2, <1>14, <1>15, <2>1, OnceKept
<1> QED
  BY <1>10, <1>11, <1>12, <1>16 DEF SourceInv

\* A frame goes into the primary's channel: from a client's hands to the primary's.
LEMMA ToPrimaryKeeps ==
    ASSUME SourceInv, NEW c \in Client, NEW i \in DOMAIN frames[c], TakeFrame(c, i),
           rx_client_transactions' = Append(rx_client_transactions, frames[c][i]),
           UNCHANGED <<lgVars, rx_transactions, faults>>
    PROVE  SourceInv'
<1>1. QueueTypes /\ PathTypes /\ OnePlaceEach /\ c \in Link
  BY Clients DEF SourceInv, PathTypes
<1>2. PICK x \in Txn : /\ Flows(c) /\ x = frames[c][i]
                       /\ \A t : Load(t, c) = Load(t, c)' + (IF x = t THEN 1 ELSE 0)
  BY <1>1, TakeFlows
<1>3. /\ UNCHANGED <<generator, attempts, senders, chunks, faults, rx_transactions>>
      /\ UNCHANGED <<sender, oversized, outgoing, wire, writer, stream>>
  BY DEF TakeFrame, lgVars
<1>4. rx_client_transactions \in Seq(Txn)
  BY <1>1 DEF QueueTypes
<1>5. /\ rx_client_transactions' \in Seq(Txn)
      /\ \A t : Occurs(t, rx_client_transactions')
                  = Occurs(t, rx_client_transactions) + (IF x = t THEN 1 ELSE 0)
  BY <1>2, <1>4, OccursAppend
<1>6. PathTypes'
  BY <1>1, <1>2, <1>3, <1>5 DEF PathTypes, QueueTypes, Flows
<1>7. generator # "connecting"
  BY ClientLink DEF Blank
<1>8. Quiet' /\ InTurn'
  BY <1>3, <1>7 DEF Quiet, InTurn
<1>9. Lossless'
  BY <1>3 DEF SourceInv, Lossless, Sound
<1>10. OnePlaceEach'
  <2> SUFFICES ASSUME NEW t \in Txn PROVE Copies(t)' = Copies(t)
    BY <1>1, <1>3 DEF OnePlaceEach
  <2>1. QueueTypes'
    BY <1>6 DEF PathTypes
  <2>2. /\ Hand(t) \in [Client -> Int] /\ Hand(t)' \in [Client -> Int]
        /\ Occurs(t, rx_client_transactions) \in Nat
    BY <1>1, <2>1, HandNat, HandNatNext DEF HandsInt
  <2>3. PICK f \in [Client -> Int], g \in [Client -> Int], n \in Nat :
           f = Hand(t) /\ g = Hand(t)' /\ n = Occurs(t, rx_client_transactions)
    BY <2>2
  <2>4. PICK h \in {0, 1} : h = IF x = t THEN 1 ELSE 0
    OBVIOUS
  <2>5. \A d \in Client : d # c => g[d] = f[d]
    <3> SUFFICES ASSUME NEW d \in Client, d # c PROVE Hand(t)'[d] = Hand(t)[d]
      BY <2>3
    <3>1. outgoing'[d] = outgoing[d] /\ wire'[d] = wire[d] /\ frames'[d] = frames[d]
      BY <1>2, Clients DEF Flows
    <3> QED
      BY <1>3, <3>1 DEF Hand, Load
  <2>6. g[c] = f[c] + (0 - h)
    <3>1. f[c] = Occurs(t, chunks[c]) + Load(t, c) /\ g[c] = Occurs(t, chunks[c]) + Load(t, c)'
      BY <1>3, <2>3 DEF Hand
    <3>2. Load(t, c) = Load(t, c)' + h
      BY <1>2, <2>4
    <3>3. Occurs(t, chunks[c]) \in Nat /\ Load(t, c) \in Nat
      BY <1>1, HandStep, LoadNat
    <3>4. PICK a, b, b1 : /\ a \in Nat /\ a = Occurs(t, chunks[c])
                          /\ b \in Nat /\ b = Load(t, c) /\ b1 = Load(t, c)'
      BY <3>3
    <3>5. b1 \in Int
      <4>1. frames'[c] \in Seq(Txn) /\ outgoing'[c] \in Seq(Txn) /\ wire'[c] \in Seq(Txn)
        BY <1>1, <1>2 DEF Flows
      <4>2. /\ Occurs(t, frames'[c]) \in Nat /\ Occurs(t, outgoing'[c]) \in Nat
            /\ Occurs(t, wire'[c]) \in Nat
        BY <4>1, OccursNat
      <4> QED
        BY <3>4, <4>2 DEF Load
    <3>6. f[c] = a + b /\ g[c] = a + b1 /\ b = b1 + h
      BY <3>1, <3>2, <3>4
    <3> QED
      BY <3>4, <3>5, <3>6
  <2>7. SumOver(g, Client) = SumOver(f, Client) + (0 - h)
    <3>1. PICK k \in Int : k = 0 - h
      OBVIOUS
    <3>2. g[c] = f[c] + k
      BY <2>6, <3>1
    <3>3. IsFiniteSet(Client)
      BY Clients
    <3>4. SumOver(g, Client) = SumOver(f, Client) + k
      BY <2>5, <3>2, <3>3, SumAdds
    <3> QED
      BY <3>1, <3>4
  <2>8. Copies(t) = n + SumOver(f, Client)
    BY <2>3 DEF Copies
  <2>9. Copies(t)' = (n + h) + SumOver(g, Client)
    BY <1>5, <2>3, <2>4 DEF Copies
  <2>10. SumOver(f, Client) \in Int
    BY Clients, SumTableUnique
  <2> QED
    BY <2>7, <2>8, <2>9, <2>10
<1> QED
  BY <1>6, <1>8, <1>9, <1>10 DEF SourceInv

-----------------------------------------------------------------------------
(* The transactions are dealt out.                                         *)

\* The last transaction of each chunk.
Ends(e) ==
    /\ e \in [0..NumClients -> 0..NumTxns]
    /\ e[0] = 0 /\ e[NumClients] = NumTxns
    /\ \A i, j \in 0..NumClients : i <= j => e[i] <= e[j]
    /\ split_transactions = [i \in Client |-> [n \in 1..(e[i] - e[i - 1]) |-> e[i - 1] + n]]

\* Division rounded up covers everything.
LEMMA Ceil ==
    ASSUME NEW n \in Nat, NEW m \in Nat \ {0}
    PROVE  /\ (n + m - 1) \div m \in Nat
           /\ m * ((n + m - 1) \div m) >= n
OBVIOUS

\* The chunks follow each other, from the first transaction to the last.
LEMMA SplitEnds == \E e : Ends(e)
<1>1. NumClients \in Nat \ {0} /\ NumTxns \in Nat \ {0}
  BY LGAssumption
<1>2. PICK z \in Nat : z = (NumTxns + NumClients - 1) \div NumClients /\ NumClients * z >= NumTxns
  BY <1>1, Ceil
<1> DEFINE End(i) == IF i * z < NumTxns THEN i * z ELSE NumTxns
           e == [i \in 0..NumClients |-> End(i)]
<1>3. \A i \in 0..NumClients : End(i) \in 0..NumTxns
  <2> SUFFICES ASSUME NEW i \in 0..NumClients PROVE End(i) \in 0..NumTxns
    OBVIOUS
  <2>1. i * z \in Nat
    BY <1>1, Multiples
  <2> QED
    BY <1>1, <2>1
<1>4. ASSUME NEW i \in 0..NumClients, NEW j \in 0..NumClients, i <= j PROVE End(i) <= End(j)
  <2>1. i * z \in Nat /\ j * z \in Nat /\ i * z <= j * z
    BY <1>1, <1>4, Multiples
  <2> QED
    BY <1>1, <2>1
<1>5. End(0) = 0 /\ End(NumClients) = NumTxns
  <2>1. 0 * z = 0
    OBVIOUS
  <2>2. NumClients * z \in Nat
    BY <1>1, Multiples
  <2> QED
    BY <1>1, <1>2, <2>1, <2>2
<1>6. split_transactions = [i \in Client |-> [n \in 1..(End(i) - End(i - 1)) |-> End(i - 1) + n]]
  BY <1>2 DEF split_transactions
<1>7. \A i \in Client : i \in 0..NumClients /\ i - 1 \in 0..NumClients
  BY <1>1 DEF Client
<1> HIDE DEF End
<1>8. split_transactions = [i \in Client |-> [n \in 1..(e[i] - e[i - 1]) |-> e[i - 1] + n]]
  <2>1. \A i \in Client : e[i] = End(i) /\ e[i - 1] = End(i - 1)
    BY <1>7
  <2> HIDE DEF e
  <2> QED
    BY <1>6, <2>1
<1>9. e \in [0..NumClients -> 0..NumTxns] /\ e[0] = 0 /\ e[NumClients] = NumTxns
  BY <1>1, <1>3, <1>5
<1>10. \A i, j \in 0..NumClients : i <= j => e[i] <= e[j]
  BY <1>4
<1> HIDE DEF e
<1>11. Ends(e)
  BY <1>8, <1>9, <1>10 DEF Ends
<1> QED
  BY <1>11

\* A row of consecutive numbers holds each of them once.
LEMMA OccursRow ==
    ASSUME NEW a \in Nat, NEW b \in Nat, a <= b, b <= NumTxns, NEW t \in Nat,
           NEW s, s = [n \in 1..(b - a) |-> a + n]
    PROVE  s \in Seq(Txn) /\ Occurs(t, s) = IF a < t /\ t <= b THEN 1 ELSE 0
<1>1. NumTxns \in Nat
  BY LGAssumption
<1>2. PICK m \in Nat : m = b - a
  OBVIOUS
<1>3. DOMAIN s = 1..m /\ \A n \in 1..m : s[n] = a + n /\ s[n] \in Txn
  BY <1>1, <1>2 DEF Txn
<1>4. s \in Seq(Txn)
  <2>1. s \in [1..m -> Txn]
    BY <1>2, <1>3
  <2> QED
    BY <2>1
<1>5. CASE a < t /\ t <= b
  <2>1. {i \in DOMAIN s : s[i] = t} = {t - a}
    BY <1>2, <1>3, <1>5
  <2> QED
    BY <1>4, <1>5, <2>1, FS_Singleton DEF Occurs
<1>6. CASE ~ (a < t /\ t <= b)
  <2>1. {i \in DOMAIN s : s[i] = t} = {}
    BY <1>2, <1>3, <1>6
  <2> QED
    BY <1>4, <1>6, <2>1, FS_EmptySet DEF Occurs
<1> QED
  BY <1>5, <1>6

\* Chunk i is the only one that holds t.
InChunk(t, i) == \A j \in Client : Occurs(t, split_transactions[j]) = IF j = i THEN 1 ELSE 0

\* Every transaction is in one chunk, once.
LEMMA SplitOnce ==
    /\ split_transactions \in [Client -> Seq(Txn)]
    /\ \A t \in Txn : \E i \in Client : InChunk(t, i)
<1>1. NumClients \in Nat \ {0} /\ NumTxns \in Nat \ {0}
  BY LGAssumption
<1>2. PICK e : Ends(e)
  BY SplitEnds
<1>3. ASSUME NEW j \in Client, NEW t \in Nat
      PROVE  /\ split_transactions[j] \in Seq(Txn)
             /\ Occurs(t, split_transactions[j]) = IF e[j - 1] < t /\ t <= e[j] THEN 1 ELSE 0
  <2>1. j \in 0..NumClients /\ j - 1 \in 0..NumClients /\ j - 1 <= j
    BY <1>1 DEF Client
  <2>2. e[j] \in 0..NumTxns /\ e[j - 1] \in 0..NumTxns /\ e[j - 1] <= e[j]
    BY <1>2, <2>1 DEF Ends
  <2>3. PICK a \in Nat, b \in Nat : a = e[j - 1] /\ b = e[j] /\ a <= b /\ b <= NumTxns
    BY <1>1, <2>2
  <2>4. PICK s : s = [n \in 1..(b - a) |-> a + n]
    OBVIOUS
  <2>5. split_transactions[j] = s
    BY <1>2, <2>3, <2>4 DEF Ends
  <2>6. s \in Seq(Txn) /\ Occurs(t, s) = IF a < t /\ t <= b THEN 1 ELSE 0
    BY <2>3, <2>4, OccursRow
  <2> QED
    BY <2>3, <2>5, <2>6
<1>4. split_transactions \in [Client -> Seq(Txn)]
  <2>1. \A j \in Client : split_transactions[j] \in Seq(Txn)
    BY <1>3
  <2>2. split_transactions = [j \in Client |-> split_transactions[j]]
    BY <1>2 DEF Ends
  <2> QED
    BY <2>1, <2>2
<1>5. ASSUME NEW t \in Txn PROVE \E i \in Client : InChunk(t, i)
  <2>1. t \in Nat /\ 0 < t /\ t <= NumTxns
    BY <1>1 DEF Txn
  <2> DEFINE T == {i \in 0..NumClients : t <= e[i]}
  <2>2. T \subseteq Nat /\ NumClients \in T
    BY <1>1, <1>2, <2>1 DEF Ends
  <2>3. PICK i \in T : \A j \in T : i <= j
    <3> HIDE DEF T
    <3> QED
      BY <2>2, NatSetHasMin
  <2>4. \A j \in 0..NumClients : e[j] \in Nat
    BY <1>1, <1>2 DEF Ends
  <2>5. i # 0
    BY <1>1, <1>2, <2>1 DEF Ends
  <2>6. i \in Client /\ i - 1 \in 0..NumClients /\ ~ (t <= e[i - 1]) /\ t <= e[i]
    BY <1>1, <2>3, <2>5 DEF Client
  <2>7. ASSUME NEW j \in Client PROVE (e[j - 1] < t /\ t <= e[j]) <=> j = i
    <3>1. /\ j \in 0..NumClients /\ j - 1 \in 0..NumClients /\ i \in 0..NumClients
          /\ (j < i => j <= i - 1) /\ (j > i => i <= j - 1)
      BY <1>1, <2>6 DEF Client
    <3>2. (j < i => e[j] <= e[i - 1]) /\ (j > i => e[i] <= e[j - 1])
      BY <1>2, <2>6, <3>1 DEF Ends
    <3>3. /\ e[j] \in Nat /\ e[j - 1] \in Nat /\ e[i] \in Nat /\ e[i - 1] \in Nat
      BY <2>4, <2>6, <3>1
    <3> QED
      BY <2>1, <2>6, <3>1, <3>2, <3>3
  <2>8. InChunk(t, i)
    BY <1>3, <2>1, <2>7 DEF InChunk
  <2> QED
    BY <2>6, <2>8
<1> QED
  BY <1>4, <1>5

\* A sum with at most one term, which is one.
LEMMA SumOfOne ==
    ASSUME NEW D, IsFiniteSet(D), NEW f \in [D -> Int], NEW d \in D,
           f[d] = 0 \/ f[d] = 1, \A x \in D : x # d => f[x] = 0
    PROVE  SumOver(f, D) = f[d]
<1>1. PICK z \in [D -> Int] : \A x \in D : z[x] = 0
  <2>1. [x \in D |-> 0] \in [D -> Int] /\ \A y \in D : [x \in D |-> 0][y] = 0
    OBVIOUS
  <2> QED
    BY <2>1
<1>2. SumOver(z, D) = 0
  BY <1>1, SumOfZeros
<1>3. PICK h \in Int : h = f[d]
  OBVIOUS
<1>4. f[d] = z[d] + h /\ \A x \in D : x # d => f[x] = z[x]
  BY <1>1, <1>3
<1>5. SumOver(f, D) = SumOver(z, D) + h
  BY <1>4, SumAdds
<1> QED
  BY <1>2, <1>3, <1>5

\* What a client gets of t is what is in the chunk that falls to it.
LEMMA DealtOnce ==
    ASSUME InTurn, generator = "connecting", attempts = NumClients, NEW t \in Txn,
           NEW f \in [Client -> Int], \A c \in Client : f[c] = Occurs(t, Dealt(c))
    PROVE  SumOver(f, Client) <= 1 /\ (faults = 0 => SumOver(f, Client) = 1)
<1>1. /\ senders \in Seq(Client) /\ Len(senders) <= NumClients
      /\ \A i, j \in DOMAIN senders : senders[i] = senders[j] => i = j
      /\ faults = 0 => Len(senders) = NumClients /\ \A i \in DOMAIN senders : senders[i] = i
  BY DEF InTurn
<1>2. NumClients \in Nat \ {0} /\ IsFiniteSet(Client)
  BY LGAssumption, Clients
<1>3. DOMAIN senders = 1..Len(senders) /\ DOMAIN senders \subseteq Client
  BY <1>1, <1>2 DEF Client
<1>4. \A i \in DOMAIN senders : senders[i] \in Client
  BY <1>1
<1>5. PICK i \in Client : InChunk(t, i)
  BY SplitOnce
<1>6. ASSUME NEW k \in DOMAIN senders, NEW c \in Client, senders[k] = c
      PROVE  f[c] = IF k = i THEN 1 ELSE 0
  <2>1. (CHOOSE j \in DOMAIN senders : senders[j] = c) = k
    BY <1>1, <1>6
  <2>2. Dealt(c) = split_transactions[k]
    BY <1>6, <2>1 DEF Dealt
  <2> QED
    BY <1>3, <1>5, <2>2 DEF InChunk
<1>7. ASSUME NEW c \in Client, \A k \in DOMAIN senders : senders[k] # c PROVE f[c] = 0
  BY <1>7, OccursNone DEF Dealt
<1>8. CASE i \in DOMAIN senders
  <2>1. PICK d \in Client : d = senders[i]
    BY <1>4, <1>8
  <2>2. f[d] = 1
    BY <1>6, <1>8, <2>1
  <2>3. ASSUME NEW c \in Client, c # d PROVE f[c] = 0
    BY <1>6, <1>7, <2>1, <2>3
  <2>4. SumOver(f, Client) = f[d]
    BY <1>2, <2>2, <2>3, SumOfOne
  <2> QED
    BY <2>2, <2>4
<1>9. CASE i \notin DOMAIN senders
  <2>1. \A c \in Client : f[c] = 0
    BY <1>6, <1>7, <1>9
  <2>2. SumOver(f, Client) = 0
    BY <1>2, <2>1, SumOfZeros
  <2>3. faults # 0
    BY <1>1, <1>2, <1>3, <1>9 DEF Client
  <2> QED
    BY <2>2, <2>3
<1> QED
  BY <1>8, <1>9

\* What is dealt is a chunk.
LEMMA DealtType ==
    ASSUME InTurn, generator = "connecting", attempts = NumClients, NEW c \in Client
    PROVE  Dealt(c) \in Seq(Txn)
<1>1. /\ senders \in Seq(Client) /\ Len(senders) <= NumClients
  BY DEF InTurn
<1>2. NumClients \in Nat \ {0}
  BY LGAssumption
<1>3. DOMAIN senders \subseteq Client
  BY <1>1, <1>2 DEF Client
<1>4. CASE \E i \in DOMAIN senders : senders[i] = c
  <2>1. PICK k \in DOMAIN senders : k = CHOOSE i \in DOMAIN senders : senders[i] = c
    BY <1>4
  <2>2. Dealt(c) = split_transactions[k]
    BY <1>4, <2>1 DEF Dealt
  <2> QED
    BY <1>3, <2>2, SplitOnce
<1>5. CASE ~ \E i \in DOMAIN senders : senders[i] = c
  <2>1. Dealt(c) = << >>
    BY <1>5 DEF Dealt
  <2> QED
    BY <2>1
<1> QED
  BY <1>4, <1>5

\* The run starts.
LEMMA StartKeeps == ASSUME SourceInv, StartRun, UNCHANGED pathVars PROVE SourceInv'
<1>1. QueueTypes /\ PathTypes /\ InTurn
  BY DEF SourceInv, PathTypes
<1>2. /\ UNCHANGED <<rx_client_transactions, rx_transactions, faults>>
      /\ UNCHANGED <<stream, writer, oversized, outgoing, wire, frames>>
      /\ generator = "connecting" /\ attempts = NumClients /\ generator' = "running"
      /\ chunks' = [c \in Client |-> Dealt(c)]
      /\ sender' = [l \in Link |-> IF l \in Client THEN chunks'[l] # << >> ELSE sender[l]]
  BY DEF StartRun, DropSenders, pathVars
<1>3. chunks' \in [Client -> Seq(Txn)]
  BY <1>1, <1>2, DealtType
<1>4. /\ sender' \in [Link -> BOOLEAN]
      /\ \A c \in Client : sender'[c] <=> chunks'[c] # << >>
  BY <1>1, <1>2, Clients DEF PathTypes
<1>5. PathTypes'
  BY <1>1, <1>2, <1>3, <1>4 DEF PathTypes, QueueTypes
<1>6. Quiet' /\ InTurn'
  BY <1>2 DEF Quiet, InTurn
<1>7. Lossless'
  <2> SUFFICES ASSUME faults = 0 PROVE oversized = {} /\ \A c \in Client : Sound(c)'
    BY <1>2, <1>4 DEF Lossless
  <2>1. oversized = {} /\ \A c \in Client : Sound(c) /\ sender[c]
    BY <1>2 DEF SourceInv, Lossless
  <2> QED
    BY <1>2, <2>1 DEF Sound
<1>8. OnePlaceEach'
  <2> SUFFICES ASSUME NEW t \in Txn
               PROVE  Copies(t)' <= 1 /\ (faults = 0 => Copies(t)' = 1)
    BY <1>2 DEF OnePlaceEach
  <2>1. QueueTypes'
    BY <1>5 DEF PathTypes
  <2>2. PICK g \in [Client -> Int] : g = Hand(t)'
    BY <2>1, HandNatNext DEF HandsInt
  <2>3. \A c \in Client : g[c] = Occurs(t, Dealt(c))
    <3> SUFFICES ASSUME NEW c \in Client PROVE Hand(t)'[c] = Occurs(t, Dealt(c))
      BY <2>2
    <3>1. Blank(c)
      BY <1>2, ClientLink
    <3>2. Hand(t)'[c] = Occurs(t, Dealt(c)) + (Occurs(t, << >>) + Occurs(t, << >>) + Occurs(t, << >>))
      BY <1>2, <3>1 DEF Hand, Load, Blank
    <3>3. Occurs(t, Dealt(c)) \in Nat
      BY <1>1, <1>2, DealtType, OccursNat
    <3> QED
      BY <3>2, <3>3, OccursNone
  <2>4. SumOver(g, Client) <= 1 /\ (faults = 0 => SumOver(g, Client) = 1)
    BY <1>1, <1>2, <2>3, DealtOnce
  <2>5. Copies(t)' = Occurs(t, << >>) + SumOver(g, Client)
    BY <1>2, <2>2 DEF Copies, SourceInv, Quiet
  <2>6. SumOver(g, Client) \in Int
    BY Clients, SumTableUnique
  <2> QED
    BY <2>4, <2>5, <2>6, OccursNone
<1> QED
  BY <1>5, <1>6, <1>7, <1>8 DEF SourceInv

-----------------------------------------------------------------------------
(* What is committed, in a row.                                            *)

\* No transaction twice in a sequence.
Distinct(b) == \A i, j \in DOMAIN b : b[i] = b[j] => i = j

\* The commits in a row repeat nothing, because no batch does.
FlatInv ==
    /\ CommittedTxns \in Seq(Arrival)
    /\ \A k \in DOMAIN CommittedTxns : \E i \in DOMAIN committed : In(CommittedTxns[k], committed[i])
    /\ Distinct(CommittedTxns)
    /\ \A b \in waiter : Distinct(b)

\* What was committed stays committed.
Extends == \E b \in Seq(Arrival) : CommittedTxns' = CommittedTxns \o b

\* Two rows one after the other that share nothing.
LEMMA DistinctConcat ==
    ASSUME NEW S, NEW a \in Seq(S), NEW b \in Seq(S), Distinct(a), Distinct(b),
           \A i \in DOMAIN a : \A j \in DOMAIN b : a[i] # b[j]
    PROVE  Distinct(a \o b)
<1>1. PICK n \in Nat, m \in Nat : n = Len(a) /\ m = Len(b)
  OBVIOUS
<1>2. DOMAIN a = 1..n /\ DOMAIN b = 1..m
  BY <1>1
<1>3. PICK c : /\ c = a \o b /\ DOMAIN c = 1..(n + m)
               /\ \A i \in 1..(n + m) : c[i] = IF i <= n THEN a[i] ELSE b[i - n]
  <2>1. /\ a \o b \in Seq(S) /\ Len(a \o b) = n + m
        /\ \A i \in 1..(n + m) : (a \o b)[i] = IF i <= n THEN a[i] ELSE b[i - n]
    BY <1>1, ConcatProperties
  <2>2. DOMAIN (a \o b) = 1..(n + m)
    BY <2>1
  <2> QED
    BY <2>1, <2>2
<1>4. ASSUME NEW i \in 1..(n + m), NEW j \in 1..(n + m), c[i] = c[j] PROVE i = j
  <2>1. /\ i <= n => i \in DOMAIN a
        /\ j <= n => j \in DOMAIN a
        /\ ~ (i <= n) => i - n \in DOMAIN b
        /\ ~ (j <= n) => j - n \in DOMAIN b
    BY <1>2
  <2>2. /\ c[i] = IF i <= n THEN a[i] ELSE b[i - n]
        /\ c[j] = IF j <= n THEN a[j] ELSE b[j - n]
    BY <1>3
  <2>3. CASE i <= n /\ j <= n
    BY <1>4, <2>1, <2>2, <2>3 DEF Distinct
  <2>4. CASE ~ (i <= n) /\ ~ (j <= n)
    <3>1. i - n = j - n
      BY <1>4, <2>1, <2>2, <2>4 DEF Distinct
    <3> QED
      BY <3>1
  <2> QED
    BY <1>4, <2>1, <2>2, <2>3, <2>4
<1> QED
  BY <1>3, <1>4 DEF Distinct

\* The batch in the making is a row of consecutive numbers.
LEMMA MakingDistinct ==
    ASSUME MCTypeOK, Separate, running
    PROVE  Distinct(current_batch) /\ Distinct(Append(current_batch, arrived + 1))
<1>1. PICK n \in Nat, a \in Nat : n = Len(current_batch) /\ a = arrived
  BY DEF MCTypeOK
<1>2. current_batch \in Seq(Arrival) /\ DOMAIN current_batch = 1..n
  BY <1>1 DEF MCTypeOK
<1>3. \A i \in 1..n : current_batch[i] = (a - n) + i
  BY <1>1, <1>2 DEF Separate
<1>4. PICK c : c = Append(current_batch, arrived + 1) /\ DOMAIN c = 1..(n + 1)
               /\ c[n + 1] = a + 1 /\ \A i \in 1..n : c[i] = current_batch[i]
  <2>1. PICK s \in Seq(Nat), x \in Nat : s = current_batch /\ x = arrived + 1 /\ Len(s) = n
    <3>1. current_batch \in Seq(Nat)
      <4>1. \A i \in 1..n : current_batch[i] \in Nat
        BY <1>2, BatchOfNumbers
      <4>2. current_batch \in [1..n -> Nat]
        BY <1>2, <4>1
      <4> QED
        BY <4>2
    <3> QED
      BY <1>1, <1>2, <3>1
  <2>2. /\ Append(s, x) \in Seq(Nat) /\ Len(Append(s, x)) = n + 1
        /\ \A i \in 1..n : Append(s, x)[i] = s[i]
        /\ Append(s, x)[n + 1] = x
    BY <2>1, AppendProperties
  <2>3. DOMAIN Append(s, x) = 1..(n + 1)
    BY <2>2
  <2> QED
    BY <1>1, <2>1, <2>2, <2>3
<1>5. \A i \in 1..(n + 1) : c[i] = (a - n) + i
  BY <1>3, <1>4
<1>6. Distinct(current_batch)
  BY <1>2, <1>3 DEF Distinct
<1>7. Distinct(c)
  BY <1>4, <1>5 DEF Distinct
<1> QED
  BY <1>4, <1>6, <1>7

\* A step of the engine.
LEMMA FlatStep ==
    ASSUME MCInv, Separate, FlatInv, [MCNext]_mcVars PROVE FlatInv' /\ Extends
<1>0. MCTypeOK /\ CommittedTxns \in Seq(Arrival)
  BY DEF MCInv, FlatInv
<1>1. ASSUME committed' = committed, \A b \in waiter' : Distinct(b)
      PROVE  FlatInv' /\ Extends
  <2>1. CommittedTxns' = CommittedTxns
    BY <1>1 DEF CommittedTxns
  <2>2. PICK q \in Seq(Arrival) : q = CommittedTxns
    BY <1>0
  <2>3. q = q \o << >> /\ << >> \in Seq(Arrival)
    BY ConcatEmptySeq
  <2>4. Extends
    BY <2>1, <2>2, <2>3 DEF Extends
  <2> QED
    BY <1>1, <2>1, <2>4 DEF FlatInv
<1>2. CASE ReceiveTransaction
  <2>1. /\ committed' = committed /\ arrived' = arrived + 1 /\ running
        /\ waiter' = waiter \/ waiter' = waiter \cup {Append(current_batch, arrived')}
    BY <1>2 DEF ReceiveTransaction, Seal
  <2> QED
    BY <1>0, <1>1, <2>1, MakingDistinct DEF FlatInv
<1>3. CASE TimerFires
  <2>1. /\ committed' = committed /\ running
        /\ waiter' = waiter \/ waiter' = waiter \cup {current_batch}
    BY <1>3 DEF TimerFires, Seal
  <2> QED
    BY <1>0, <1>1, <2>1, MakingDistinct DEF FlatInv
<1>4. ASSUME NEW b \in waiter, DeliverCommit(b) PROVE FlatInv' /\ Extends
  <2>1. waiter' \subseteq waiter /\ committed' = IF receiver_open THEN Append(committed, b) ELSE committed
    BY <1>4 DEF DeliverCommit, Committed
  <2>2. CASE ~ receiver_open
    BY <1>1, <2>1, <2>2 DEF FlatInv
  <2>3. CASE receiver_open
    <3>1. committed \in Seq(Seq(Arrival)) /\ b \in Seq(Arrival) /\ Distinct(b)
      BY <1>0 DEF MCTypeOK, FlatInv
    <3>2. PICK q \in Seq(Arrival) : q = CommittedTxns
      BY <1>0
    <3>3. CommittedTxns' = q \o b
      <4>1. PICK s \in Seq(Seq(Arrival)) : s = committed
        BY <3>1
      <4>2. FlattenSeq(s) = q
        BY <3>2, <4>1 DEF CommittedTxns
      <4>3. FlattenSeq(Append(s, b)) = FlattenSeq(s) \o b
        BY <3>1, <4>2, FlattenAppend
      <4>4. committed' = Append(s, b)
        BY <2>1, <2>3, <4>1
      <4> QED
        BY <4>2, <4>3, <4>4 DEF CommittedTxns
    <3>4. /\ \A i \in DOMAIN committed : i \in DOMAIN committed' /\ committed'[i] = committed[i]
          /\ \E n \in DOMAIN committed' : committed'[n] = b
      <4>1. DeliveryAdds(b)
        BY <1>4, DeliverAdds DEF MCInv
      <4> QED
        BY <2>3, <4>1 DEF DeliveryAdds
    <3>5. \A k \in DOMAIN q : \E i \in DOMAIN committed : In(q[k], committed[i])
      BY <3>2 DEF FlatInv
    <3>6. \A i \in DOMAIN q : \A j \in DOMAIN b : q[i] # b[j]
      <4> SUFFICES ASSUME NEW k \in DOMAIN q, NEW j \in DOMAIN b, q[k] = b[j] PROVE FALSE
        OBVIOUS
      <4>1. PICK i \in DOMAIN committed : In(q[k], committed[i])
        BY <3>5
      <4>2. In(q[k], b)
        BY DEF In
      <4>3. Apart(b, committed[i])
        BY DEF Separate
      <4> QED
        BY <4>1, <4>2, <4>3 DEF Apart
    <3>7. Distinct(q) /\ Distinct(q \o b)
      <4>1. Distinct(q)
        BY <3>2 DEF FlatInv
      <4> QED
        BY <3>1, <3>6, <4>1, DistinctConcat
    <3>8. PICK c \in Seq(Arrival) : c = q \o b
      <4>1. q \o b \in Seq(Arrival)
        BY <3>1
      <4> QED
        BY <4>1
    <3>9. ASSUME NEW k \in DOMAIN c PROVE \E i \in DOMAIN committed' : In(c[k], committed'[i])
      <4>1. \/ k \in DOMAIN q /\ c[k] = q[k]
            \/ \E j \in DOMAIN b : c[k] = b[j]
        <5>1. PICK n \in Nat, m \in Nat : n = Len(q) /\ m = Len(b)
          BY <3>1
        <5>2. DOMAIN c = 1..(n + m) /\ DOMAIN q = 1..n /\ DOMAIN b = 1..m
          BY <3>1, <3>8, <5>1
        <5>3. c[k] = IF k <= n THEN q[k] ELSE b[k - n]
          BY <3>1, <3>8, <5>1, <5>2
        <5> QED
          BY <5>2, <5>3
      <4>2. CASE k \in DOMAIN q /\ c[k] = q[k]
        BY <3>4, <3>5, <4>2
      <4>3. ASSUME NEW j \in DOMAIN b, c[k] = b[j]
            PROVE  \E i \in DOMAIN committed' : In(c[k], committed'[i])
        BY <3>4, <4>3 DEF In
      <4> QED
        BY <4>1, <4>2, <4>3
    <3>10. CommittedTxns' = c
      BY <3>3, <3>8
    <3>11. FlatInv'
      BY <2>1, <3>7, <3>8, <3>9, <3>10 DEF FlatInv
    <3>12. Extends
      BY <3>1, <3>2, <3>3 DEF Extends
    <3> QED
      BY <3>11, <3>12
  <2> QED
    BY <2>2, <2>3
<1>5. CASE DropReceiver
  <2>1. UNCHANGED <<committed, waiter>>
    BY <1>5 DEF DropReceiver
  <2> QED
    BY <1>1, <2>1 DEF FlatInv
<1>6. CASE UNCHANGED mcVars
  <2>1. UNCHANGED <<committed, waiter>>
    BY <1>6 DEF mcVars
  <2> QED
    BY <1>1, <2>1 DEF FlatInv
<1> QED
  BY <1>2, <1>3, <1>4, <1>5, <1>6 DEF MCNext

-----------------------------------------------------------------------------
(* The proxy's side.                                                       *)

\* The commits forwarded so far that are t.
Fwd(t) == {k \in 1..forwarded : rx_client_transactions[CommittedTxns[k]] = t}

\* On the proxy's side there is no more of t than was forwarded.
ForwardInv ==
    /\ forwarded \in Nat /\ forwarded <= Len(CommittedTxns)
    /\ arrived <= Len(rx_client_transactions)
    /\ \A t \in Txn : AtProxy(t) <= Cardinality(Fwd(t))

\* What is committed has arrived.
LEMMA CommittedArrived ==
    ASSUME MCInv, Separate, FlatInv, NEW k \in DOMAIN CommittedTxns
    PROVE  CommittedTxns[k] \in 1..arrived
<1>1. PICK i \in DOMAIN committed : In(CommittedTxns[k], committed[i])
  BY DEF FlatInv
<1>2. Older(committed[i])
  BY DEF Separate
<1>3. PICK j \in DOMAIN committed[i] : committed[i][j] = CommittedTxns[k]
  BY <1>1 DEF In
<1>4. PICK x \in Arrival : x = CommittedTxns[k]
  BY DEF FlatInv
<1>5. PICK n \in Nat, a \in Nat : n = Len(current_batch) /\ a = arrived
  BY DEF MCInv, MCTypeOK
<1>6. x <= a - n
  BY <1>2, <1>3, <1>4, <1>5 DEF Older
<1> QED
  BY <1>4, <1>5, <1>6 DEF Arrival

\* The proxy's side holds a number of messages.
LEMMA AtProxyInt == ASSUME QueueTypes, NEW t PROVE AtProxy(t) \in Int
<1>1. rx_transactions \in Seq(Txn)
  BY DEF QueueTypes
<1>2. Occurs(t, rx_transactions) \in Nat
  BY <1>1, OccursNat
<1>3. Load(t, Proxy) \in Nat
  BY LoadNat, Clients
<1> QED
  BY <1>2, <1>3 DEF AtProxy

\* Messages pass to and over the proxy's link; commits and arrivals only grow.
LEMMA ForwardKept ==
    ASSUME MCInv, Separate, FlatInv, ForwardInv, QueueTypes, Extends,
           forwarded' = forwarded, NEW r \in Seq(Txn),
           rx_client_transactions' = rx_client_transactions \o r,
           arrived' <= Len(rx_client_transactions'),
           \A t \in Txn : AtProxy(t)' <= AtProxy(t) /\ AtProxy(t)' \in Int
    PROVE  ForwardInv'
<1>1. PICK q \in Seq(Arrival), b \in Seq(Arrival) : q = CommittedTxns /\ CommittedTxns' = q \o b
  <2>1. CommittedTxns \in Seq(Arrival)
    BY DEF FlatInv
  <2>2. PICK b \in Seq(Arrival) : CommittedTxns' = CommittedTxns \o b
    BY DEF Extends
  <2> QED
    BY <2>1, <2>2
<1>2. PICK s \in Seq(Txn), n \in Nat, m \in Nat :
         s = rx_client_transactions /\ n = forwarded /\ m = Len(q)
  <2>1. rx_client_transactions \in Seq(Txn) /\ forwarded \in Nat
    BY DEF QueueTypes, ForwardInv
  <2>2. Len(q) \in Nat
    BY <1>1
  <2> QED
    BY <2>1, <2>2
<1>3. n <= m /\ DOMAIN q = 1..m /\ arrived <= Len(s)
  BY <1>1, <1>2 DEF ForwardInv
<1>4. /\ Len(q \o b) \in Nat /\ Len(q \o b) >= m
      /\ \A k \in 1..m : (q \o b)[k] = q[k]
  BY <1>1, <1>2, ConcatProperties
<1>5. \A k \in 1..Len(s) : (s \o r)[k] = s[k]
  BY ConcatProperties
<1>6. \A k \in 1..m : q[k] \in 1..Len(s)
  <2> SUFFICES ASSUME NEW k \in 1..m PROVE q[k] \in 1..Len(s)
    OBVIOUS
  <2>1. q[k] \in 1..arrived
    BY <1>1, <1>3, CommittedArrived
  <2>2. arrived \in Nat
    BY DEF MCInv, MCTypeOK
  <2> QED
    BY <1>3, <2>1, <2>2
<1>7. ASSUME NEW k \in 1..n PROVE (s \o r)[(q \o b)[k]] = s[q[k]]
  BY <1>3, <1>4, <1>5, <1>6
<1>8. ASSUME NEW t \in Txn PROVE AtProxy(t)' <= Cardinality(Fwd(t)')
  <2>1. Fwd(t) = {k \in 1..n : s[q[k]] = t}
    BY <1>1, <1>2 DEF Fwd
  <2>2. Fwd(t)' = {k \in 1..n : (s \o r)[(q \o b)[k]] = t}
    BY <1>1, <1>2 DEF Fwd
  <2>3. Fwd(t)' = Fwd(t)
    BY <1>7, <2>1, <2>2
  <2>4. Cardinality(Fwd(t)) \in Nat
    <3>1. IsFiniteSet(1..n)
      BY FS_Interval
    <3>2. IsFiniteSet(Fwd(t))
      BY <2>1, <3>1, FS_Subset
    <3> QED
      BY <3>2, FS_CardinalityType
  <2>5. AtProxy(t) \in Int
    BY AtProxyInt
  <2>6. PICK x \in Int, y \in Int, z \in Nat :
           x = AtProxy(t)' /\ y = AtProxy(t) /\ z = Cardinality(Fwd(t))
    BY <2>4, <2>5
  <2>7. x <= y /\ y <= z
    BY <2>6 DEF ForwardInv
  <2> QED
    BY <2>3, <2>6, <2>7
<1>9. forwarded' \in Nat /\ forwarded' <= Len(CommittedTxns')
  BY <1>1, <1>2, <1>3, <1>4
<1> QED
  BY <1>8, <1>9 DEF ForwardInv

\* Nothing happens on the proxy's side.
AwayFromProxy ==
    /\ rx_transactions' = rx_transactions /\ outgoing'[Proxy] = outgoing[Proxy]
    /\ wire'[Proxy] = wire[Proxy] /\ frames'[Proxy] = frames[Proxy]

\* Then there is as much as before.
LEMMA AwayKept ==
    ASSUME QueueTypes, AwayFromProxy
    PROVE  \A t \in Txn : AtProxy(t)' <= AtProxy(t) /\ AtProxy(t)' \in Int
<1> SUFFICES ASSUME NEW t \in Txn PROVE AtProxy(t)' = AtProxy(t) /\ AtProxy(t) \in Int
  OBVIOUS
<1>1. AtProxy(t) \in Int
  BY AtProxyInt
<1> QED
  BY <1>1 DEF AwayFromProxy, AtProxy, Load

\* A step of the network leaves no more there than before.
LEMMA FlowKept ==
    ASSUME QueueTypes, NEW l \in Link, Flows(l), rx_transactions' = rx_transactions
    PROVE  \A t \in Txn : AtProxy(t)' <= AtProxy(t) /\ AtProxy(t)' \in Int
<1>1. CASE l # Proxy
  <2>1. AwayFromProxy
    BY <1>1, Clients DEF Flows, AwayFromProxy
  <2> QED
    BY <2>1, AwayKept
<1>2. CASE l = Proxy
  <2> SUFFICES ASSUME NEW t \in Txn
               PROVE AtProxy(t)' <= AtProxy(t) /\ AtProxy(t)' \in Int
    OBVIOUS
  <2>1. rx_transactions \in Seq(Txn)
    BY DEF QueueTypes
  <2>2. PICK n \in Nat : n = Occurs(t, rx_transactions)
    BY <2>1, OccursNat
  <2>3. PICK m \in Nat : m = Load(t, Proxy)
    BY LoadNat, Clients
  <2>4. PICK k \in Int : k = Load(t, Proxy)'
    <3>1. /\ frames'[Proxy] \in Seq(Txn) /\ outgoing'[Proxy] \in Seq(Txn)
          /\ wire'[Proxy] \in Seq(Txn)
      BY Clients DEF Flows
    <3>2. /\ Occurs(t, frames'[Proxy]) \in Nat /\ Occurs(t, outgoing'[Proxy]) \in Nat
          /\ Occurs(t, wire'[Proxy]) \in Nat
      BY <3>1, OccursNat
    <3>3. Load(t, Proxy)' \in Int
      BY <3>2 DEF Load
    <3> QED
      BY <3>3
  <2>5. k <= m
    BY <1>2, <2>3, <2>4 DEF Flows
  <2>6. AtProxy(t) = n + m /\ AtProxy(t)' = n + k
    BY <2>2, <2>3, <2>4 DEF AtProxy
  <2> QED
    BY <2>5, <2>6
<1> QED
  BY <1>1, <1>2

\* A transaction is forwarded: one more was, and at most one more is there.
LEMMA ForwardStep ==
    ASSUME MCInv, Separate, FlatInv, ForwardInv, QueueTypes, Forward
    PROVE  /\ ForwardInv'
           /\ \E x \in Txn : outgoing' = outgoing \/ Enqueue(Proxy, x)
<1>1. /\ UNCHANGED <<wire, frames, rx_client_transactions, rx_transactions>>
      /\ UNCHANGED <<arrived, committed>>
      /\ forwarded < Len(CommittedTxns) /\ forwarded' = forwarded + 1
      /\ \/ outgoing' = outgoing
         \/ Enqueue(Proxy, rx_client_transactions[CommittedTxns[forwarded + 1]])
  BY DEF Forward, mcVars
<1>2. PICK q \in Seq(Arrival) : q = CommittedTxns
  BY DEF FlatInv
<1>3. PICK s \in Seq(Txn) : s = rx_client_transactions
  BY DEF QueueTypes
<1>4. PICK n \in Nat : n = forwarded
  BY DEF ForwardInv
<1>5. n < Len(q) /\ Len(q) \in Nat /\ DOMAIN q = 1..Len(q) /\ n + 1 \in DOMAIN q
  BY <1>1, <1>2, <1>4
<1>6. q[n + 1] \in 1..Len(s)
  <2>1. q[n + 1] \in 1..arrived
    BY <1>2, <1>5, CommittedArrived
  <2>2. arrived \in Nat /\ arrived <= Len(s)
    BY <1>3 DEF MCInv, MCTypeOK, ForwardInv
  <2> QED
    BY <2>1, <2>2
<1>7. PICK x \in Txn : x = s[q[n + 1]]
  BY <1>6
<1>8. outgoing' = outgoing \/ outgoing' = [outgoing EXCEPT ![Proxy] = Append(@, x)]
  BY <1>1, <1>2, <1>3, <1>4, <1>7 DEF Enqueue
<1>9. PICK o \in Seq(Txn) : o = outgoing[Proxy]
  BY Clients DEF QueueTypes
<1>10. outgoing'[Proxy] = o \/ outgoing'[Proxy] = Append(o, x)
  BY <1>8, <1>9, Clients DEF QueueTypes
<1>11. ASSUME NEW t \in Txn PROVE AtProxy(t)' <= Cardinality(Fwd(t)')
  <2>1. PICK h \in {0, 1} : h = IF x = t THEN 1 ELSE 0
    OBVIOUS
  <2>2. CommittedTxns' = q
    BY <1>1, <1>2 DEF CommittedTxns
  <2>3. Fwd(t) = {k \in 1..n : s[q[k]] = t} /\ Fwd(t)' = {k \in 1..(n + 1) : s[q[k]] = t}
    BY <1>1, <1>2, <1>3, <1>4, <2>2 DEF Fwd
  <2>4. IsFiniteSet(Fwd(t)) /\ n + 1 \notin Fwd(t)
    <3>1. IsFiniteSet(1..n)
      BY FS_Interval
    <3> QED
      BY <2>3, <3>1, FS_Subset
  <2>5. Fwd(t)' = IF x = t THEN Fwd(t) \cup {n + 1} ELSE Fwd(t)
    BY <1>7, <2>3
  <2>6. PICK c \in Nat : c = Cardinality(Fwd(t)) /\ Cardinality(Fwd(t)') = c + h
    <3>1. Cardinality(Fwd(t)) \in Nat
      BY <2>4, FS_CardinalityType
    <3>2. Cardinality(Fwd(t) \cup {n + 1}) = Cardinality(Fwd(t)) + 1
      BY <2>4, FS_AddElement
    <3> QED
      BY <2>1, <2>5, <3>1, <3>2
  <2>7. PICK a \in Nat, b \in Nat, w \in Nat, r \in Nat :
           /\ a = Occurs(t, rx_transactions) /\ b = Occurs(t, o)
           /\ w = Occurs(t, wire[Proxy]) /\ r = Occurs(t, frames[Proxy])
    <3>1. rx_transactions \in Seq(Txn) /\ Proxy \in Link
      BY Clients DEF QueueTypes
    <3>2. Occurs(t, rx_transactions) \in Nat /\ Occurs(t, o) \in Nat
      BY <3>1, OccursNat
    <3>3. Occurs(t, wire[Proxy]) \in Nat /\ Occurs(t, frames[Proxy]) \in Nat
      BY <3>1, LoadNat
    <3> QED
      BY <3>2, <3>3
  <2>8. AtProxy(t) = a + (b + w + r)
    BY <1>9, <2>7 DEF AtProxy, Load
  <2>9. Occurs(t, outgoing'[Proxy]) = b \/ Occurs(t, outgoing'[Proxy]) = b + h
    <3>1. Occurs(t, Append(o, x)) = Occurs(t, o) + (IF x = t THEN 1 ELSE 0)
      BY OccursAppend
    <3> QED
      BY <1>10, <2>1, <2>7, <3>1
  <2>10. AtProxy(t)' = a + (Occurs(t, outgoing'[Proxy]) + w + r)
    BY <1>1, <2>7 DEF AtProxy, Load
  <2>11. a + (b + w + r) <= c
    BY <2>6, <2>8 DEF ForwardInv
  <2> QED
    BY <2>6, <2>9, <2>10, <2>11
<1>12. /\ forwarded' \in Nat /\ forwarded' <= Len(CommittedTxns')
       /\ arrived' <= Len(rx_client_transactions')
  <2>1. CommittedTxns' = q
    BY <1>1, <1>2 DEF CommittedTxns
  <2> QED
    BY <1>1, <1>4, <1>5, <2>1 DEF ForwardInv
<1>13. ForwardInv'
  BY <1>11, <1>12 DEF ForwardInv
<1>14. \E y \in Txn : outgoing' = outgoing \/ Enqueue(Proxy, y)
  BY <1>8 DEF Enqueue
<1> QED
  BY <1>13, <1>14

\* A frame goes into the proxy's channel.
LEMMA ToProxyStep ==
    ASSUME QueueTypes, NEW i \in DOMAIN frames[Proxy], TakeFrame(Proxy, i),
           rx_transactions' = Append(rx_transactions, frames[Proxy][i])
    PROVE  \A t \in Txn : AtProxy(t)' <= AtProxy(t) /\ AtProxy(t)' \in Int
<1> SUFFICES ASSUME NEW t \in Txn PROVE AtProxy(t)' = AtProxy(t) /\ AtProxy(t) \in Int
  OBVIOUS
<1>1. PICK x \in Txn : /\ Flows(Proxy) /\ x = frames[Proxy][i]
                       /\ Load(t, Proxy) = Load(t, Proxy)' + (IF x = t THEN 1 ELSE 0)
  BY TakeFlows, Clients
<1>2. PICK s \in Seq(Txn) : s = rx_transactions
  BY DEF QueueTypes
<1>3. Occurs(t, Append(s, x)) = Occurs(t, s) + (IF x = t THEN 1 ELSE 0)
  BY OccursAppend
<1>4. PICK n \in Nat, m \in Nat, h \in {0, 1} :
         n = Occurs(t, s) /\ m = Load(t, Proxy) /\ h = IF x = t THEN 1 ELSE 0
  <2>1. Occurs(t, s) \in Nat
    BY OccursNat
  <2>2. Load(t, Proxy) \in Nat
    BY LoadNat, Clients
  <2> QED
    BY <2>1, <2>2
<1>5. PICK k \in Int : k = Load(t, Proxy)'
  <2>1. /\ frames'[Proxy] \in Seq(Txn) /\ outgoing'[Proxy] \in Seq(Txn)
        /\ wire'[Proxy] \in Seq(Txn)
    BY <1>1, Clients DEF Flows
  <2>2. /\ Occurs(t, frames'[Proxy]) \in Nat /\ Occurs(t, outgoing'[Proxy]) \in Nat
        /\ Occurs(t, wire'[Proxy]) \in Nat
    BY <2>1, OccursNat
  <2>3. Load(t, Proxy)' \in Int
    BY <2>2 DEF Load
  <2> QED
    BY <2>3
<1>6. m = k + h
  BY <1>1, <1>4, <1>5
<1>7. AtProxy(t) = n + m /\ AtProxy(t)' = (n + h) + k
  BY <1>1, <1>2, <1>3, <1>4, <1>5 DEF AtProxy
<1> QED
  BY <1>6, <1>7

-----------------------------------------------------------------------------
(* The path as a whole.                                                    *)

\* What the engine contributes.
EngineInv == MCInv /\ Separate /\ Covered /\ FlatInv

\* It does so on the path.
LEMMA EngineSteps == ASSUME EngineInv, [CPNext]_cpVars PROVE EngineInv' /\ Extends
<1>1. [MCNext]_mcVars
  BY PathStepsEngine
<1>2. MCInv' /\ Separate' /\ Covered'
  BY <1>1, MCStepInv, SeparateStep DEF EngineInv
<1>3. FlatInv' /\ Extends
  BY <1>1, FlatStep DEF EngineInv
<1> QED
  BY <1>2, <1>3 DEF EngineInv

\* Without a fault every receiver stays, and then the engine does not stop.
Awake == faults = 0 => running /\ receiver_open /\ scheduler_open /\ stateless_open

\* No step but a fault puts the engine to an end.
LEMMA AwakeKept ==
    ASSUME PathTypes, Awake, [CPNext]_cpVars
    PROVE  Awake'
<1>1. CASE Fault
  BY <1>1 DEF Fault, PathTypes, Awake
<1>2. CASE Consensus
  <2>1. UNCHANGED faults /\ UNCHANGED receivers
    BY <1>2 DEF Consensus, pathVars, ReceiveTransaction, TimerFires, DeliverCommit
  <2>2. ASSUME faults = 0 PROVE running'
    <3>1. running /\ receiver_open /\ scheduler_open /\ stateless_open
      BY <2>2 DEF Awake
    <3>2. CASE ReceiveTransaction
      BY <3>1, <3>2 DEF ReceiveTransaction, RequestFails, Seal
    <3>3. CASE TimerFires
      BY <3>1, <3>3 DEF TimerFires, Seal
    <3>4. ASSUME NEW b \in waiter, DeliverCommit(b) PROVE running'
      BY <3>1, <3>4 DEF DeliverCommit
    <3> QED
      BY <1>2, <3>2, <3>3, <3>4 DEF Consensus
  <2> QED
    BY <2>1, <2>2 DEF Awake, receivers
<1>3. CASE UNCHANGED <<mcVars, faults>>
  BY <1>3 DEF Awake, mcVars
<1>4. CASE CPStep /\ ~ Consensus
  BY <1>3, <1>4 DEF CPStep, StartServers, Generate, Transfer, HandOnToPrimary, HandOnToProxy,
                    Forward, pathVars
<1>5. CASE UNCHANGED cpVars
  BY <1>3, <1>5 DEF cpVars
<1> QED
  BY <1>1, <1>2, <1>4, <1>5 DEF CPNext

\* A frame that finds the engine stopped is dropped.
LEMMA DroppedKeeps ==
    ASSUME SourceInv, Awake, ~ running, NEW c \in Client, NEW i \in DOMAIN frames[c],
           TakeFrame(c, i), UNCHANGED <<lgVars, rx_client_transactions, rx_transactions, faults>>
    PROVE  SourceInv'
<1>1. QueueTypes /\ PathTypes /\ c \in Link /\ faults # 0
  BY Clients DEF SourceInv, PathTypes, Awake
<1>2. Flows(c)
  BY <1>1, TakeFlows
<1>3. /\ UNCHANGED <<generator, attempts, senders, chunks>>
      /\ UNCHANGED <<sender, oversized, writer, stream, outgoing, wire>>
  BY DEF TakeFrame, lgVars
<1>4. Touches(c)
  BY <1>1, <1>2, <1>3 DEF Touches, Flows, PathTypes, QueueTypes
<1>5. generator = "connecting" => Blank(c)'
  BY ClientLink DEF Blank
<1> QED
  BY <1>1, <1>2, <1>3, <1>4, <1>5, FlowKeeps

\* A step in which the primary's channel gets nothing.
LEMMA ForwardSame ==
    ASSUME EngineInv, ForwardInv, QueueTypes, Extends,
           forwarded' = forwarded, rx_client_transactions' = rx_client_transactions,
           arrived' <= Len(rx_client_transactions),
           \A t \in Txn : AtProxy(t)' <= AtProxy(t) /\ AtProxy(t)' \in Int
    PROVE  ForwardInv'
<1>1. PICK s \in Seq(Txn), r \in Seq(Txn) : s = rx_client_transactions /\ r = << >>
  <2>1. << >> \in Seq(Txn) /\ rx_client_transactions \in Seq(Txn)
    BY DEF QueueTypes
  <2> QED
    BY <2>1
<1>2. s \o r = s
  BY <1>1, ConcatEmptySeq
<1>3. /\ rx_client_transactions' = rx_client_transactions \o r
      /\ arrived' <= Len(rx_client_transactions')
  BY <1>1, <1>2
<1>4. MCInv /\ Separate /\ FlatInv
  BY DEF EngineInv
<1> QED
  BY <1>3, <1>4, ForwardKept

\* Both sides of the path are kept by every step but a fault.
LEMMA PathStep ==
    ASSUME SourceInv, EngineInv, ForwardInv, Awake, CPStep, Extends
    PROVE  SourceInv' /\ ForwardInv'
<1>0. QueueTypes /\ PathTypes /\ arrived <= Len(rx_client_transactions)
  BY DEF SourceInv, PathTypes, ForwardInv
<1>1. CASE StartServers
  <2>1. /\ UNCHANGED <<outgoing, wire, frames, sender, writer, stream, oversized>>
        /\ UNCHANGED <<mcVars, lgVars, pathVars>>
    BY <1>1 DEF StartServers, Listen
  <2>2. Idle /\ AwayFromProxy /\ UNCHANGED <<forwarded, rx_client_transactions, arrived>>
    BY <1>0, <2>1 DEF Idle, AwayFromProxy, lgVars, pathVars, mcVars, PathTypes
  <2> QED
    BY <1>0, <2>2, IdleKeeps, AwayKept, ForwardSame
<1>2. CASE Generate
  <2>1. UNCHANGED pathVars /\ UNCHANGED <<forwarded, rx_client_transactions, arrived, rx_transactions>>
    BY <1>2 DEF Generate, pathVars, mcVars
  <2>2. SourceInv'
    BY <1>2, <2>1, ConnectClientKeeps, SubmitKeeps, StartKeeps, ExitKeeps DEF Generate
  <2>3. AwayFromProxy
    <3>1. ASSUME NEW c \in Client, ConnectClient(c) PROVE AwayFromProxy
      BY <2>1, <3>1 DEF ConnectClient, Connect, AwayFromProxy
    <3>2. ASSUME NEW c \in Client, SubmitTransaction(c) PROVE AwayFromProxy
      <4>1. outgoing \in [Link -> Seq(Txn)] /\ Proxy \in Link /\ Proxy # c
        BY <1>0, Clients DEF QueueTypes
      <4>2. outgoing' = outgoing \/ Enqueue(c, Head(chunks[c]))
        BY <3>2 DEF SubmitTransaction
      <4>3. outgoing'[Proxy] = outgoing[Proxy]
        BY <4>1, <4>2 DEF Enqueue
      <4> QED
        BY <2>1, <3>2, <4>3 DEF SubmitTransaction, AwayFromProxy
    <3>3. CASE StartRun
      BY <2>1, <3>3 DEF StartRun, AwayFromProxy
    <3>4. CASE Exit
      BY <2>1, <3>4, Clients DEF Exit, AwayFromProxy
    <3> QED
      BY <1>2, <3>1, <3>2, <3>3, <3>4 DEF Generate
  <2> QED
    BY <1>0, <2>1, <2>2, <2>3, AwayKept, ForwardSame
<1>3. CASE Transfer
  <2>1. /\ UNCHANGED <<lgVars, pathVars>>
        /\ UNCHANGED <<forwarded, rx_client_transactions, arrived, rx_transactions>>
    BY <1>3 DEF Transfer, pathVars, mcVars
  <2>2. SourceInv'
    BY <1>3, <2>1, WriteKeeps, ReadKeeps, ConnectKeeps DEF Transfer
  <2>3. \A t \in Txn : AtProxy(t)' <= AtProxy(t) /\ AtProxy(t)' \in Int
    <3>1. ASSUME NEW l \in Link, Write(l) \/ Read(l)
          PROVE  \A t \in Txn : AtProxy(t)' <= AtProxy(t) /\ AtProxy(t)' \in Int
      <4>1. Flows(l)
        BY <1>0, <3>1, WriteFlows, ReadFlows
      <4> QED
        BY <1>0, <2>1, <4>1, FlowKept
    <3>2. CASE Connect(Proxy)
      <4>1. AwayFromProxy
        BY <2>1, <3>2 DEF Connect, AwayFromProxy
      <4> QED
        BY <1>0, <4>1, AwayKept
    <3> QED
      BY <1>3, <3>1, <3>2 DEF Transfer
  <2> QED
    BY <1>0, <2>1, <2>2, <2>3, ForwardSame
<1>4. ASSUME NEW c \in Client, HandOnToPrimary(c) PROVE SourceInv' /\ ForwardInv'
  <2>1. PICK i \in DOMAIN frames[c] :
           /\ TakeFrame(c, i)
           /\ \/ rx_client_transactions' = Append(rx_client_transactions, frames[c][i])
              \/ ~ running /\ rx_client_transactions' = rx_client_transactions
           /\ UNCHANGED <<mcVars, lgVars, rx_transactions, forwarded, faults>>
    BY <1>4 DEF HandOnToPrimary
  <2>2. c \in Link /\ Flows(c) /\ frames[c][i] \in Txn /\ arrived' = arrived
    BY <1>0, <2>1, Clients, TakeFlows DEF mcVars
  <2>3. \A t \in Txn : AtProxy(t)' <= AtProxy(t) /\ AtProxy(t)' \in Int
    BY <1>0, <2>1, <2>2, FlowKept
  <2>4. CASE rx_client_transactions' = Append(rx_client_transactions, frames[c][i])
    <3>1. SourceInv'
      BY <2>1, <2>4, ToPrimaryKeeps
    <3>2. PICK s \in Seq(Txn), x \in Txn : s = rx_client_transactions /\ x = frames[c][i]
      BY <1>0, <2>2 DEF QueueTypes
    <3>3. PICK r \in Seq(Txn) : r = <<x>>
      <4>1. <<x>> \in Seq(Txn)
        OBVIOUS
      <4> QED
        BY <4>1
    <3>4. s \o r = Append(s, x)
      BY <3>3, AppendIsConcat
    <3>5. rx_client_transactions' = rx_client_transactions \o r
      BY <2>4, <3>2, <3>4
    <3>6. arrived' <= Len(rx_client_transactions')
      <4>1. Len(Append(s, x)) = Len(s) + 1 /\ Len(s) \in Nat
        OBVIOUS
      <4>2. arrived \in Nat
        BY DEF EngineInv, MCInv, MCTypeOK
      <4> QED
        BY <1>0, <2>2, <2>4, <3>2, <4>1, <4>2
    <3>7. MCInv /\ Separate /\ FlatInv /\ forwarded' = forwarded
      BY <2>1 DEF EngineInv
    <3> QED
      BY <1>0, <2>3, <3>1, <3>5, <3>6, <3>7, ForwardKept
  <2>5. CASE ~ running /\ rx_client_transactions' = rx_client_transactions
    <3>1. SourceInv'
      BY <2>1, <2>5, DroppedKeeps
    <3> QED
      BY <1>0, <2>1, <2>2, <2>3, <2>5, <3>1, ForwardSame
  <2> QED
    BY <2>1, <2>4, <2>5
<1>5. CASE HandOnToProxy
  <2>1. PICK i \in DOMAIN frames[Proxy] :
           /\ TakeFrame(Proxy, i)
           /\ rx_transactions' = Append(rx_transactions, frames[Proxy][i])
           /\ UNCHANGED <<mcVars, lgVars, rx_client_transactions, forwarded, faults>>
    BY <1>5 DEF HandOnToProxy
  <2>2. SourceInv'
    BY <2>1, ToProxyKeeps
  <2>3. \A t \in Txn : AtProxy(t)' <= AtProxy(t) /\ AtProxy(t)' \in Int
    BY <1>0, <2>1, ToProxyStep
  <2>4. UNCHANGED <<forwarded, rx_client_transactions, arrived>>
    BY <2>1 DEF mcVars
  <2> QED
    BY <1>0, <2>2, <2>3, <2>4, ForwardSame
<1>6. CASE Consensus
  <2>1. UNCHANGED <<nwVars, lgVars, pathVars>>
    BY <1>6 DEF Consensus
  <2>2. Idle /\ AwayFromProxy /\ UNCHANGED <<forwarded, rx_client_transactions>>
    BY <1>0, <2>1 DEF Idle, AwayFromProxy, lgVars, pathVars, nwVars, PathTypes
  <2>3. arrived' <= Len(rx_client_transactions)
    <3>1. arrived \in Nat /\ Len(rx_client_transactions) \in Nat
      BY <1>0 DEF EngineInv, MCInv, MCTypeOK, QueueTypes
    <3>2. \/ arrived < Len(rx_client_transactions) /\ arrived' = arrived + 1
          \/ arrived' = arrived
      BY <1>6 DEF Consensus, ReceiveTransaction, TimerFires, DeliverCommit
    <3> QED
      BY <1>0, <3>1, <3>2
  <2> QED
    BY <1>0, <2>2, <2>3, IdleKeeps, AwayKept, ForwardSame
<1>7. CASE Forward
  <2>1. MCInv /\ Separate /\ FlatInv
    BY DEF EngineInv
  <2>2. ForwardInv' /\ \E x \in Txn : outgoing' = outgoing \/ Enqueue(Proxy, x)
    BY <1>0, <1>7, <2>1, ForwardStep
  <2>3. UNCHANGED <<oversized, stream, sender, writer, wire, frames, lgVars,
                    rx_client_transactions, rx_transactions, faults>>
    BY <1>7 DEF Forward
  <2> QED
    BY <2>2, <2>3, ForwardKeeps
<1> QED
  BY <1>1, <1>2, <1>3, <1>4, <1>5, <1>6, <1>7 DEF CPStep

\* And by a fault.
LEMMA PathFault ==
    ASSUME SourceInv, EngineInv, ForwardInv, Fault, Extends
    PROVE  SourceInv' /\ ForwardInv'
<1>0. /\ QueueTypes /\ PathTypes /\ arrived <= Len(rx_client_transactions)
      /\ faults' = faults + 1 /\ UNCHANGED <<rx_client_transactions, rx_transactions, forwarded>>
  BY DEF SourceInv, PathTypes, ForwardInv, Fault
<1>1. ASSUME NEW c \in Client, FailClient(c), UNCHANGED mcVars PROVE SourceInv' /\ ForwardInv'
  <2>1. SourceInv'
    BY <1>0, <1>1, FailClientKeeps
  <2>2. AwayFromProxy /\ arrived' = arrived
    BY <1>0, <1>1 DEF FailClient, nwVars, AwayFromProxy, mcVars
  <2> QED
    BY <1>0, <2>1, <2>2, AwayKept, ForwardSame
<1>2. ASSUME NEW l \in Link, Break(l), UNCHANGED <<mcVars, lgVars>> PROVE SourceInv' /\ ForwardInv'
  <2>1. SourceInv'
    BY <1>0, <1>2, BreakKeeps
  <2>2. Flows(l) /\ arrived' = arrived
    BY <1>0, <1>2, BreakFlows DEF mcVars
  <2> QED
    BY <1>0, <2>1, <2>2, FlowKept, ForwardSame
<1>3. CASE DropReceiver /\ UNCHANGED <<nwVars, lgVars>>
  <2>1. faults' \in Nat /\ faults' # 0
    BY <1>0 DEF PathTypes
  <2>2. Idle /\ AwayFromProxy /\ arrived' = arrived
    BY <1>0, <1>3, <2>1 DEF Idle, AwayFromProxy, lgVars, nwVars, DropReceiver
  <2> QED
    BY <1>0, <2>2, IdleKeeps, AwayKept, ForwardSame
<1> QED
  BY <1>1, <1>2, <1>3 DEF Fault

\* The whole invariant.
PathInv == SourceInv /\ EngineInv /\ ForwardInv /\ Awake

\* It holds at the start.
LEMMA PathInit == CPInit => PathInv
<1> SUFFICES ASSUME CPInit PROVE PathInv
  OBVIOUS
<1>1. SourceInv
  BY SourceInit
<1>2. MCInit /\ rx_client_transactions = << >> /\ rx_transactions = << >> /\ forwarded = 0
  BY DEF CPInit
<1>3. MCInv /\ Separate /\ Covered
  BY <1>2, MCInitInv DEF MCInit, Separate, Covered
<1>4. committed = << >> /\ waiter = {} /\ arrived = 0
  BY <1>2 DEF MCInit
<1>5. CommittedTxns = << >>
  <2>1. Len(committed) = 0
    BY <1>4
  <2>2. FlattenSeq(committed) = committed
    BY <2>1, FlattenDef
  <2> QED
    BY <1>4, <2>2 DEF CommittedTxns
<1>6. FlatInv
  BY <1>4, <1>5 DEF FlatInv, Distinct
<1>7. ForwardInv
  <2>1. \A t : AtProxy(t) = 0
    <3>1. outgoing[Proxy] = << >> /\ wire[Proxy] = << >> /\ frames[Proxy] = << >>
      BY Clients DEF CPInit, NWInit
    <3> QED
      BY <1>2, <3>1, OccursNone DEF AtProxy, Load
  <2>2. \A t : Fwd(t) = {}
    BY <1>2 DEF Fwd
  <2>3. Cardinality({}) = 0
    BY FS_EmptySet
  <2>4. \A t \in Txn : AtProxy(t) <= Cardinality(Fwd(t))
    BY <2>1, <2>2, <2>3
  <2> QED
    BY <1>2, <1>4, <1>5, <2>4 DEF ForwardInv
<1> QED
  BY <1>1, <1>2, <1>3, <1>6, <1>7 DEF PathInv, EngineInv, Awake, MCInit

\* And every step keeps it.
LEMMA PathKept == PathInv /\ [CPNext]_cpVars => PathInv'
<1> SUFFICES ASSUME PathInv, [CPNext]_cpVars PROVE PathInv'
  OBVIOUS
<1>1. SourceInv /\ EngineInv /\ ForwardInv /\ Awake
  BY DEF PathInv
<1>2. EngineInv' /\ Extends /\ Awake'
  BY <1>1, EngineSteps, AwakeKept DEF SourceInv
<1>3. CASE CPStep
  BY <1>1, <1>2, <1>3, PathStep DEF PathInv
<1>4. CASE Fault
  BY <1>1, <1>2, <1>4, PathFault DEF PathInv
<1>5. CASE UNCHANGED cpVars
  <2>1. UNCHANGED <<mcVars, nwVars, lgVars, rx_client_transactions, rx_transactions, forwarded, faults>>
    BY <1>5 DEF cpVars
  <2>2. Idle /\ AwayFromProxy /\ arrived' = arrived
    BY <1>1, <2>1 DEF Idle, AwayFromProxy, mcVars, nwVars, lgVars, SourceInv, PathTypes
  <2>3. QueueTypes /\ arrived <= Len(rx_client_transactions)
    BY <1>1 DEF SourceInv, PathTypes, ForwardInv
  <2> QED
    BY <1>1, <1>2, <2>1, <2>2, <2>3, IdleKeeps, AwayKept, ForwardSame DEF PathInv
<1> QED
  BY <1>3, <1>4, <1>5 DEF CPNext

-----------------------------------------------------------------------------
(* What the invariant says of NeverTwice.                                  *)

\* How often t is in the hands of the clients, as NeverTwice adds it up.
InHands(t, fun) == FoldFunction(LAMBDA s, n : Occurs(t, s) + n, 0, fun)

\* It is a sum.
LEMMA HandsAdded ==
    ASSUME NEW t, NEW fun \in [Client -> Seq(Txn)], NEW f \in [Client -> Int],
           \A c \in Client : f[c] = Occurs(t, fun[c])
    PROVE  InHands(t, fun) = SumOver(f, Client)
<1> DEFINE Pick(s) == CHOOSE x \in s : TRUE
           Eq(X) == X = [s \in SUBSET Client |->
                           IF s = {} THEN 0
                           ELSE Occurs(t, fun[Pick(s)]) + X[s \ {Pick(s)}]]
           G == CHOOSE X : Eq(X)
<1>1. DOMAIN fun = Client /\ IsFiniteSet(Client)
  BY Clients
<1>2. InHands(t, fun) = G[Client]
  BY <1>1 DEF InHands, FoldFunction, FoldFunctionOnSet, MapThenFoldSet
<1>3. \A s \in SUBSET Client : s # {} => Pick(s) \in Client
  OBVIOUS
<1>4. Eq(G)
  <2>1. PICK F : SumTable(F, f, Client)
    BY <1>1, SumTableUnique
  <2>2. F \in [SUBSET Client -> Int] /\ Sums(F, f, Client)
    BY <2>1, TableSums
  <2>3. F[{}] = 0 /\ \A s \in SUBSET Client : s # {} => F[s] = F[s \ {Pick(s)}] + f[Pick(s)]
    BY <2>2 DEF Sums
  <2>4. ASSUME NEW s \in SUBSET Client, s # {}
        PROVE  F[s] = Occurs(t, fun[Pick(s)]) + F[s \ {Pick(s)}]
    <3>1. PICK x \in Client : x = Pick(s)
      BY <1>3, <2>4
    <3>2. F[s] = F[s \ {x}] + f[x] /\ F[s \ {x}] \in Int /\ f[x] \in Int
      BY <2>2, <2>3, <2>4, <3>1
    <3>3. f[x] = Occurs(t, fun[x])
      OBVIOUS
    <3>4. F[s] = f[x] + F[s \ {x}]
      BY <3>2
    <3> QED
      BY <3>1, <3>3, <3>4
  <2>5. Eq(F)
    BY <2>2, <2>3, <2>4
  <2> HIDE DEF Eq
  <2> QED
    BY <2>5
<1>5. Sums(G, f, Client)
  <2>1. G[{}] = 0
    BY <1>4
  <2>2. ASSUME NEW s \in SUBSET Client, s # {}
        PROVE  G[s] = Occurs(t, fun[Pick(s)]) + G[s \ {Pick(s)}]
    <3> HIDE DEF G
    <3> QED
      BY <1>4, <2>2
  <2> HIDE DEF G
  <2>3. StaysInt(G, Client)
    <3>1. ASSUME NEW s \in SUBSET Client, s # {}, G[s \ {Pick(s)}] \in Int PROVE G[s] \in Int
      <4>1. PICK x \in Client : x = Pick(s)
        BY <1>3, <3>1
      <4>2. Occurs(t, fun[x]) = f[x] /\ f[x] \in Int
        OBVIOUS
      <4>3. G[s] = f[x] + G[s \ {x}] /\ G[s \ {x}] \in Int
        BY <2>2, <3>1, <4>1, <4>2
      <4> QED
        BY <4>2, <4>3
    <3>2. G[{}] \in Int
      BY <2>1
    <3> QED
      BY <3>1, <3>2 DEF StaysInt
  <2>4. \A s \in SUBSET Client : G[s] \in Int
    BY <1>1, <2>3, SumsInt
  <2>5. ASSUME NEW s \in SUBSET Client, s # {} PROVE G[s] = G[s \ {Pick(s)}] + f[Pick(s)]
    <3>1. PICK x \in Client : x = Pick(s)
      BY <1>3, <2>5
    <3>2. G[s] = f[x] + G[s \ {x}] /\ f[x] \in Int
      BY <2>2, <2>5, <3>1
    <3>3. G[s \ {x}] \in Int
      BY <2>4
    <3> QED
      BY <3>1, <3>2, <3>3
  <2> QED
    BY <2>1, <2>5 DEF Sums
<1> HIDE DEF G
<1>6. G[Client] = SumOver(f, Client)
  BY <1>1, <1>5, SumIs
<1> QED
  BY <1>2, <1>6

\* The queues of a link, in a row.
LEMMA UpToLoad ==
    ASSUME QueueTypes, NEW l \in Link, NEW t
    PROVE  UpTo(l) \in Seq(Txn) /\ Occurs(t, UpTo(l)) = Load(t, l)
<1>1. PICK a \in Seq(Txn), b \in Seq(Txn), c \in Seq(Txn) :
         a = outgoing[l] /\ b = wire[l] /\ c = frames[l]
  BY DEF QueueTypes
<1>2. UpTo(l) = (a \o b) \o c
  <2>1. PICK s : s = <<a, b, c>>
    OBVIOUS
  <2>2. FlattenSeq(s) = (a \o b) \o c
    BY <2>1, FlattenThree
  <2> QED
    BY <1>1, <2>1, <2>2 DEF UpTo
<1>3. a \o b \in Seq(Txn) /\ Occurs(t, a \o b) = Occurs(t, a) + Occurs(t, b)
  BY OccursConcat
<1>4. PICK d \in Seq(Txn) : d = a \o b
  BY <1>3
<1>5. d \o c \in Seq(Txn) /\ Occurs(t, d \o c) = Occurs(t, d) + Occurs(t, c)
  BY OccursConcat
<1> QED
  BY <1>1, <1>2, <1>3, <1>4, <1>5 DEF Load

\* What was forwarded came from the primary's channel, each arrival once.
LEMMA ForwardedArrived ==
    ASSUME EngineInv, ForwardInv, QueueTypes, NEW t
    PROVE  Cardinality(Fwd(t)) <= Occurs(t, rx_client_transactions)
<1>1. PICK q \in Seq(Arrival) : q = CommittedTxns
  BY DEF EngineInv, FlatInv
<1>2. PICK s \in Seq(Txn) : s = rx_client_transactions
  BY DEF QueueTypes
<1>3. PICK n \in Nat : n = forwarded /\ n <= Len(q)
  BY <1>1 DEF ForwardInv
<1> DEFINE S == {k \in 1..n : s[q[k]] = t}
           T == {i \in DOMAIN s : s[i] = t}
           f == [k \in S |-> q[k]]
<1>4. Fwd(t) = S /\ Occurs(t, rx_client_transactions) = Cardinality(T)
  BY <1>1, <1>2, <1>3 DEF Fwd, Occurs
<1>5. \A k \in 1..n : k \in DOMAIN q /\ q[k] \in DOMAIN s
  <2> SUFFICES ASSUME NEW k \in 1..n PROVE k \in DOMAIN q /\ q[k] \in DOMAIN s
    OBVIOUS
  <2>1. k \in DOMAIN q
    BY <1>3
  <2>2. MCInv /\ Separate /\ FlatInv /\ arrived \in Nat
    BY DEF EngineInv, MCInv, MCTypeOK
  <2>3. q[k] \in 1..arrived
    BY <1>1, <2>1, <2>2, CommittedArrived
  <2>4. arrived <= Len(s) /\ DOMAIN s = 1..Len(s) /\ Len(s) \in Nat
    BY <1>2 DEF ForwardInv
  <2> QED
    BY <2>1, <2>2, <2>3, <2>4
<1>6. \A i, j \in DOMAIN q : q[i] = q[j] => i = j
  BY <1>1 DEF EngineInv, FlatInv, Distinct
<1>7. f \in Injection(S, T)
  <2>1. f \in [S -> T]
    BY <1>5
  <2>2. \A i, j \in S : f[i] = f[j] => i = j
    BY <1>5, <1>6
  <2> QED
    BY <2>1, <2>2 DEF Injection, IsInjective
<1>8. IsFiniteSet(T)
  <2>1. IsFiniteSet(DOMAIN s)
    <3>1. DOMAIN s = 1..Len(s) /\ Len(s) \in Nat
      OBVIOUS
    <3> QED
      BY <3>1, FS_Interval
  <2> QED
    BY <2>1, FS_Subset
<1> HIDE DEF S, T, f
<1>9. Cardinality(S) <= Cardinality(T)
  BY <1>7, <1>8, FS_Injection
<1> QED
  BY <1>4, <1>9

\* So it never is in two places.
LEMMA OnceFollows == PathInv => NeverTwice
<1> SUFFICES ASSUME PathInv PROVE NeverTwice
  OBVIOUS
<1>1. SourceInv /\ EngineInv /\ ForwardInv /\ QueueTypes /\ OnePlaceEach
  BY DEF PathInv, SourceInv, PathTypes
<1> DEFINE fun == [c \in Client |-> chunks[c] \o UpTo(c)]
<1>2. ASSUME NEW t \in Txn
      PROVE  /\ Occurs(t, rx_client_transactions) + InHands(t, fun) <= 1
             /\ generator = "running" /\ faults = 0 =>
                   Occurs(t, rx_client_transactions) + InHands(t, fun) = 1
             /\ Occurs(t, rx_transactions) + Occurs(t, UpTo(Proxy))
                  <= Occurs(t, rx_client_transactions)
  <2>1. ASSUME NEW c \in Client
        PROVE  /\ chunks[c] \o UpTo(c) \in Seq(Txn)
               /\ Hand(t)[c] = Occurs(t, chunks[c] \o UpTo(c))
    <3>1. PICK a \in Seq(Txn), b \in Seq(Txn) : a = chunks[c] /\ b = UpTo(c)
      BY <1>1, UpToLoad, Clients DEF QueueTypes
    <3>2. a \o b \in Seq(Txn) /\ Occurs(t, a \o b) = Occurs(t, a) + Occurs(t, b)
      BY OccursConcat
    <3>3. Occurs(t, b) = Load(t, c)
      BY <1>1, <3>1, UpToLoad, Clients
    <3> QED
      BY <3>1, <3>2, <3>3 DEF Hand
  <2>2. PICK f \in [Client -> Int] : f = Hand(t)
    BY <1>1, HandNat
  <2>3. fun \in [Client -> Seq(Txn)] /\ \A c \in Client : f[c] = Occurs(t, fun[c])
    BY <2>1, <2>2
  <2> HIDE DEF fun
  <2>4. InHands(t, fun) = SumOver(f, Client)
    BY <2>3, HandsAdded
  <2>5. Copies(t) = Occurs(t, rx_client_transactions) + InHands(t, fun)
    BY <2>2, <2>4 DEF Copies
  <2>6. Occurs(t, UpTo(Proxy)) = Load(t, Proxy)
    BY <1>1, UpToLoad, Clients
  <2>7. /\ AtProxy(t) <= Cardinality(Fwd(t))
        /\ Cardinality(Fwd(t)) <= Occurs(t, rx_client_transactions)
    BY <1>1, ForwardedArrived DEF ForwardInv
  <2>8. /\ AtProxy(t) \in Int /\ Occurs(t, rx_client_transactions) \in Nat
        /\ Cardinality(Fwd(t)) \in Nat
    <3>1. forwarded \in Nat
      BY <1>1 DEF ForwardInv
    <3>2. IsFiniteSet(1..forwarded)
      BY <3>1, FS_Interval
    <3>3. Fwd(t) \subseteq 1..forwarded
      BY DEF Fwd
    <3>4. Cardinality(Fwd(t)) \in Nat
      BY <3>2, <3>3, FS_Subset, FS_CardinalityType
    <3> QED
      BY <1>1, <3>4, AtProxyInt, HandNat
  <2>9. AtProxy(t) <= Occurs(t, rx_client_transactions)
    BY <2>7, <2>8
  <2> QED
    BY <1>1, <2>5, <2>6, <2>9 DEF OnePlaceEach, AtProxy
<1> QED
  BY <1>2 DEF NeverTwice, InHands

(***************************************************************************)
(* No transaction is ever in two places, for any number of clients,        *)
(* transactions and faults, any batch size and any channel: not in two     *)
(* clients' hands, not twice under way, not delivered twice.  And as long  *)
(* as nothing breaks and the load generator runs, each one is with a       *)
(* client, on its connection, or with the primary.                         *)
(***************************************************************************)
THEOREM NeverInTwoPlaces == CPSpec => []NeverTwice
<1>1. PathInv => NeverTwice
  BY OnceFollows
<1> QED
  BY <1>1, PathInit, PathKept, PTL DEF CPSpec

=============================================================================
