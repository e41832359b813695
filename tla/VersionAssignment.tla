-------------------------- MODULE VersionAssignment --------------------------
(***************************************************************************)
(* The primary's version assignment task.  Transactions leave consensus in *)
(* one total order; the task gives every shared object a transaction       *)
(* touches the version that transaction must read, and moves all of them   *)
(* to one common next version.  Everything downstream (the forwarder, the  *)
(* proxies' dependency controllers, state migration) is keyed by these     *)
(* (object, version) pairs.                                                *)
(*                                                                         *)
(* A transaction is identified by its position in the consensus order.     *)
(* Batches only group the iterations of the loop, so one action is one     *)
(* iteration.                                                              *)
(***************************************************************************)
EXTENDS Naturals, Sequences, FiniteSetsExt

CONSTANTS
    Object,    \* shared objects
    MaxTxns    \* bound: transactions committed by consensus

ASSUME MaxTxnsAssumption == MaxTxns \in Nat

VARIABLES
    shared_object_versions,  \* object -> current version, or Absent
    assigned                 \* required versions of each transaction, in order

vaVars == <<shared_object_versions, assigned>>

\* The version every object has before any transaction touches it.
InitialVersion == 2

\* The map has no entry for the object yet.
Absent == 0

\* Mutants: the increment forgotten, and done twice.
NextVersion_NoIncrement(required) == Max({InitialVersion} \cup Range(required))
NextVersion_Twice(required) == Max({InitialVersion} \cup Range(required)) + 2

(***************************************************************************)
(* What the code recomputes in several places from the versions a          *)
(* transaction requires: the version all its objects have afterwards.      *)
(***************************************************************************)
NextVersion(required) == Max({InitialVersion} \cup Range(required)) + 1

CurrentVersion(o) ==
    IF shared_object_versions[o] = Absent THEN InitialVersion
                                          ELSE shared_object_versions[o]

-----------------------------------------------------------------------------

VAInit ==
    /\ shared_object_versions = [o \in Object |-> Absent]
    /\ assigned = << >>

\* Mutant: every object gets the successor of its own version.
AssignSharedObjectVersions_Each(S) ==
    /\ Len(assigned) < MaxTxns
    /\ S # {}
    /\ assigned' = Append(assigned, [o \in S |-> CurrentVersion(o)])
    /\ shared_object_versions' =
          [o \in Object |-> IF o \in S THEN CurrentVersion(o) + 1
                                       ELSE shared_object_versions[o]]

(***************************************************************************)
(* A transaction with shared objects S is next in the committed order.     *)
(* The load balancer sends transactions without shared objects elsewhere.  *)
(***************************************************************************)
AssignSharedObjectVersions(S) ==
    /\ Len(assigned) < MaxTxns
    /\ S # {}
    /\ LET result == [o \in S |-> CurrentVersion(o)]
       IN  /\ assigned' = Append(assigned, result)
           /\ shared_object_versions' =
                [o \in Object |-> IF o \in S THEN NextVersion(result)
                                             ELSE shared_object_versions[o]]

VANext == \E S \in SUBSET Object : AssignSharedObjectVersions(S)

VASpec == VAInit /\ [][VANext]_vaVars

-----------------------------------------------------------------------------
(* Vocabulary for the order that consensus fixed.                          *)

Txns == DOMAIN assigned

Objects(t) == DOMAIN assigned[t]

Conflicts(i, j) == Objects(i) \cap Objects(j) # {}

\* No transaction strictly between i and j touches o.
NoneBetween(i, j, o) == \A k \in (i + 1)..(j - 1) : o \notin Objects(k)

\* i is the transaction that touches o just before j does.
Predecessor(i, j, o) ==
    /\ i \in 1..(j - 1)
    /\ o \in Objects(i) \cap Objects(j)
    /\ NoneBetween(i, j, o)

-----------------------------------------------------------------------------

\* Versions that MaxTxns transactions can reach.
Version == InitialVersion..(InitialVersion + MaxTxns)

\* What the task hands on with a transaction: object -> version to read.
RequiredVersions == UNION {[S -> Version] : S \in (SUBSET Object) \ {{}}}

(* The types of the variables. No version leaves 2..MaxTxns + 2: each
   transaction moves the highest version by one. *)
VATypeOK ==
    /\ shared_object_versions \in [Object -> {Absent} \cup Version]
    /\ assigned \in Seq(RequiredVersions)
    /\ Len(assigned) <= MaxTxns

(***************************************************************************)
(* docs/architecture.md: "The primary assigns unique versions to each      *)
(* object access within a consensus batch".  Stronger: along the consensus *)
(* order the versions an object is accessed at strictly increase, over all *)
(* batches, although a transaction may lift an object by more than one.    *)
(***************************************************************************)
VersionsIncrease ==
    \A i, j \in Txns : \A o \in Objects(i) \cap Objects(j) :
        i < j => assigned[i][o] < assigned[j][o]

(***************************************************************************)
(* The hand-off every later component relies on: the version a transaction *)
(* requires of an object is exactly the one its predecessor on that object *)
(* produces when the next version is recomputed from the predecessor's own *)
(* requirements alone (the forwarder, the controllers and the executors do *)
(* that); an object nobody touched before is required at its initial       *)
(* version.                                                                *)
(***************************************************************************)
VersionChain ==
    \A j \in Txns : \A o \in Objects(j) :
        /\ NoneBetween(0, j, o) => assigned[j][o] = InitialVersion
        /\ \A i \in 1..(j - 1) :
              Predecessor(i, j, o) => assigned[j][o] = NextVersion(assigned[i])

\* Every transaction lifts a version by at most one above the highest so far.
VersionsBounded ==
    \A o \in Object : shared_object_versions[o] <= InitialVersion + Len(assigned)

(***************************************************************************)
(* The map the task keeps between transactions holds, for an object, what  *)
(* the last transaction on it produces, and nothing for an object nobody   *)
(* touched: the link between the order so far and the next assignment.     *)
(***************************************************************************)
MapHoldsTail ==
    \A o \in Object :
        /\ NoneBetween(0, Len(assigned) + 1, o) => shared_object_versions[o] = Absent
        /\ \A i \in Txns :
              o \in Objects(i) /\ NoneBetween(i, Len(assigned) + 1, o)
                => shared_object_versions[o] = NextVersion(assigned[i])

=============================================================================
