--------------------------- MODULE SerialExecution ---------------------------
(***************************************************************************)
(* What the proxies together promise: the effect of one database that      *)
(* executes the transactions in the consensus order.  A transaction that   *)
(* does not conflict with an unfinished earlier one may run out of turn,   *)
(* which nobody can observe.  Which transactions succeed is a function of  *)
(* the order and of the verification results alone: one is skipped exactly *)
(* when its verification fails or the state it needs was never produced.   *)
(*                                                                         *)
(* The content of an object is the transaction that wrote it last, 0 for   *)
(* its initial content.                                                    *)
(***************************************************************************)
EXTENDS VersionAssignment

CONSTANT MayFail   \* transactions whose stateless verification may fail

VARIABLES
    invalid,  \* those for which it does
    db,       \* object -> last writer
    outcome,  \* transaction -> "pending", "success" or "skipped"
    reads     \* transaction -> what it read of each object

seVars == <<vaVars, invalid, db, outcome, reads>>

TxnId == 1..MaxTxns

SEInit ==
    /\ VAInit
    /\ invalid \in SUBSET MayFail
    /\ db = [o \in Object |-> 0]
    /\ outcome = [t \in TxnId |-> "pending"]
    /\ reads = [t \in TxnId |-> << >>]

IsNext(t) ==
    /\ t \in Txns
    /\ outcome[t] = "pending"
    /\ \A i \in 1..(t - 1) : Conflicts(i, t) => outcome[i] # "pending"

\* Some state the transaction needs was never produced.
MissingState(t) ==
    \E o \in Objects(t), i \in 1..(t - 1) : Predecessor(i, t, o) /\ outcome[i] = "skipped"

Execute(t) ==
    /\ IsNext(t)
    /\ t \notin invalid
    /\ ~ MissingState(t)
    /\ outcome' = [outcome EXCEPT ![t] = "success"]
    /\ reads' = [reads EXCEPT ![t] = [o \in Objects(t) |-> db[o]]]
    /\ db' = [o \in Object |-> IF o \in Objects(t) THEN t ELSE db[o]]
    /\ UNCHANGED <<vaVars, invalid>>

Skip(t) ==
    /\ IsNext(t)
    /\ t \in invalid \/ MissingState(t)
    /\ outcome' = [outcome EXCEPT ![t] = "skipped"]
    /\ UNCHANGED <<vaVars, invalid, db, reads>>

SENext ==
    \/ \E S \in SUBSET Object :
          AssignSharedObjectVersions(S) /\ UNCHANGED <<invalid, db, outcome, reads>>
    \/ \E t \in TxnId : Execute(t) \/ Skip(t)

SESpec == SEInit /\ [][SENext]_seVars

=============================================================================
