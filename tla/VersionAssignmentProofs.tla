----------------------- MODULE VersionAssignmentProofs -----------------------
(***************************************************************************)
(* Proofs about version assignment, for every set of objects and every     *)
(* number of transactions.                                                 *)
(***************************************************************************)
EXTENDS VersionAssignment, DataLemmas, TLAPS

(***************************************************************************)
(* The next version exceeds every version it is computed from, and         *)
(* exceeds their bound by at most one.                                     *)
(***************************************************************************)
LEMMA NextVersionBounds ==
    ASSUME NEW B \in Nat, NEW required,
           \A o \in DOMAIN required : required[o] \in InitialVersion..(InitialVersion + B)
    PROVE  /\ NextVersion(required) \in (InitialVersion + 1)..(InitialVersion + B + 1)
           /\ \A o \in DOMAIN required : required[o] < NextVersion(required)
<1> DEFINE T == {InitialVersion} \cup Range(required)
<1>1. T \subseteq 0..(InitialVersion + B) /\ T # {} /\ InitialVersion + B \in Nat
  BY DEF Range, InitialVersion
<1>2. \A x \in T : x >= InitialVersion
  BY DEF Range, InitialVersion
<1> HIDE DEF T
<1>3. Max(T) \in T /\ \A x \in T : x <= Max(T)
  BY <1>1, MaxIsGreatest
<1>4. Max(T) \in InitialVersion..(InitialVersion + B)
  <2>1. Max(T) \in 0..(InitialVersion + B) /\ Max(T) >= InitialVersion
    BY <1>1, <1>2, <1>3
  <2> QED
    BY <2>1 DEF InitialVersion
<1>5. \A o \in DOMAIN required : required[o] \in T
  BY DEF T, Range
<1>6. NextVersion(required) = Max(T) + 1
  BY DEF NextVersion, T
<1> QED
  BY <1>3, <1>4, <1>5, <1>6 DEF InitialVersion

\* What a transaction's required versions say about its next version.
LEMMA RequiredVersionsFacts ==
    ASSUME NEW required \in RequiredVersions
    PROVE  /\ DOMAIN required \subseteq Object
           /\ \A o \in DOMAIN required : required[o] \in Nat
           /\ NextVersion(required) \in Nat
           /\ NextVersion(required) > InitialVersion
           /\ \A o \in DOMAIN required : required[o] < NextVersion(required)
<1>1. /\ DOMAIN required \subseteq Object
      /\ \A o \in DOMAIN required :
            required[o] \in InitialVersion..(InitialVersion + MaxTxns)
  BY DEF RequiredVersions, Version
<1>2. /\ NextVersion(required) \in (InitialVersion + 1)..(InitialVersion + MaxTxns + 1)
      /\ \A o \in DOMAIN required : required[o] < NextVersion(required)
  BY <1>1, MaxTxnsAssumption, NextVersionBounds
<1> QED
  BY <1>1, <1>2, MaxTxnsAssumption DEF InitialVersion

-----------------------------------------------------------------------------

(***************************************************************************)
(* The inductive invariant.  Dominance links an arbitrary earlier          *)
(* transaction to the map: the current version of an object is at least    *)
(* what any transaction on it produced.  ReadsAfter is the same for a      *)
(* later access, and what tells the keys of different transactions apart.  *)
(***************************************************************************)
Dominance ==
    \A i \in Txns : \A o \in Objects(i) :
        NextVersion(assigned[i]) <= shared_object_versions[o]

ReadsAfter ==
    \A i, j \in Txns : \A o \in Objects(i) \cap Objects(j) :
        i < j => NextVersion(assigned[i]) <= assigned[j][o]

VAInv ==
    /\ VATypeOK
    /\ VersionsBounded
    /\ MapHoldsTail
    /\ Dominance
    /\ ReadsAfter
    /\ VersionsIncrease
    /\ VersionChain

\* At the start no version has been assigned.
LEMMA VAInitInv == VAInit => VAInv
BY MaxTxnsAssumption
   DEF VAInit, VAInv, VATypeOK, VersionsBounded, MapHoldsTail, Dominance,
       ReadsAfter, VersionsIncrease, VersionChain, Txns, Objects, NoneBetween, Absent,
       Version, InitialVersion

(***************************************************************************)
(* One iteration of the assignment loop preserves the invariant.           *)
(***************************************************************************)
LEMMA VAStepInv ==
    ASSUME VAInv, NEW S \in SUBSET Object, AssignSharedObjectVersions(S)
    PROVE  VAInv'
<1>0. PICK n \in Nat : n = Len(assigned)
  BY DEF VAInv, VATypeOK
<1> DEFINE result == [o \in S |-> CurrentVersion(o)]
           next == NextVersion(result)
<1> USE DEF Objects
<1>1. /\ n = Len(assigned) /\ n < MaxTxns /\ MaxTxns \in Nat
      /\ S # {}
      /\ assigned \in Seq(RequiredVersions)
      /\ Txns = 1..n
  BY <1>0, MaxTxnsAssumption DEF AssignSharedObjectVersions, VAInv, VATypeOK, Txns
<1>2. \A o \in S : result[o] \in InitialVersion..(InitialVersion + n)
  BY <1>1 DEF CurrentVersion, VAInv, VATypeOK, VersionsBounded, Version,
              InitialVersion, Absent
<1>3. /\ next \in (InitialVersion + 1)..(InitialVersion + n + 1)
      /\ \A o \in S : result[o] < next
  <2>1. DOMAIN result = S
    OBVIOUS
  <2> HIDE DEF result
  <2> QED
    BY <1>1, <1>2, <2>1, NextVersionBounds
<1>4. result \in RequiredVersions
  <2>1. \A o \in S : CurrentVersion(o) \in Version
    BY <1>1, <1>2 DEF Version, InitialVersion
  <2>2. result \in [S -> Version]
    BY <2>1
  <2>3. S \in (SUBSET Object) \ {{}}
    BY <1>1
  <2> QED
    BY <2>2, <2>3 DEF RequiredVersions
<1> HIDE DEF result, next
<1>5. /\ assigned' = Append(assigned, result)
      /\ shared_object_versions' =
            [o \in Object |-> IF o \in S THEN next ELSE shared_object_versions[o]]
  BY DEF AssignSharedObjectVersions, result, next
<1>6. /\ assigned' \in Seq(RequiredVersions)
      /\ Len(assigned') = n + 1
      /\ Txns' = 1..(n + 1)
      /\ \A i \in 1..n : assigned'[i] = assigned[i]
      /\ assigned'[n + 1] = result
  BY <1>1, <1>4, <1>5 DEF Txns
<1>7. /\ \A i \in 1..n : Objects(i)' = Objects(i)
      /\ Objects(n + 1)' = S
  BY <1>6 DEF result
<1>8. \A i \in 1..n :  /\ Objects(i) \subseteq Object
                       /\ \A o \in Objects(i) : assigned[i][o] \in Nat
                       /\ NextVersion(assigned[i]) \in Nat
                       /\ \A o \in Objects(i) : assigned[i][o] < NextVersion(assigned[i])
  <2> SUFFICES ASSUME NEW i \in 1..n
               PROVE  /\ Objects(i) \subseteq Object
                      /\ \A o \in Objects(i) : assigned[i][o] \in Nat
                      /\ NextVersion(assigned[i]) \in Nat
                      /\ \A o \in Objects(i) : assigned[i][o] < NextVersion(assigned[i])
    OBVIOUS
  <2>1. assigned[i] \in RequiredVersions
    BY <1>1
  <2> QED
    BY <2>1, RequiredVersionsFacts
<1>18. \A i \in 1..n : assigned[i] \in RequiredVersions
  BY <1>1
<1>9. \A o \in Object : shared_object_versions[o] \in Nat
  BY <1>1 DEF VAInv, VATypeOK, Version, InitialVersion, Absent
<1>10. \A o \in S : result[o] = CurrentVersion(o)
  BY DEF result
<1>11. VATypeOK'
  BY <1>1, <1>3, <1>5, <1>6 DEF VAInv, VATypeOK, Version, InitialVersion
<1>12. VersionsBounded'
  BY <1>1, <1>3, <1>5, <1>6, <1>9 DEF VAInv, VersionsBounded, InitialVersion
<1>13. MapHoldsTail'
  <2> SUFFICES ASSUME NEW o \in Object
               PROVE  /\ NoneBetween(0, n + 2, o)' => shared_object_versions'[o] = Absent
                      /\ \A i \in 1..(n + 1) :
                           o \in Objects(i)' /\ NoneBetween(i, n + 2, o)'
                             => shared_object_versions'[o] = NextVersion(assigned'[i])
    BY <1>1, <1>6 DEF MapHoldsTail
  <2>1. CASE o \in S
    <3>1. \A i \in 0..n : ~ NoneBetween(i, n + 2, o)'
      BY <1>1, <1>7, <2>1 DEF NoneBetween
    <3>2. shared_object_versions'[o] = NextVersion(assigned'[n + 1])
      BY <1>5, <1>6, <2>1 DEF next
    <3> QED
      BY <1>1, <3>1, <3>2
  <2>2. CASE o \notin S
    <3>1. \A i \in 0..n : NoneBetween(i, n + 2, o)' => NoneBetween(i, n + 1, o)
      BY <1>1, <1>7 DEF NoneBetween
    <3>2. shared_object_versions'[o] = shared_object_versions[o]
      BY <1>5, <2>2
    <3>3. \A i \in 1..(n + 1) : o \in Objects(i)' => i \in 1..n /\ o \in Objects(i)
      BY <1>1, <1>7, <2>2
    <3> QED
      BY <1>1, <1>6, <3>1, <3>2, <3>3 DEF VAInv, MapHoldsTail
  <2> QED
    BY <2>1, <2>2
<1>14. \A i \in 1..n : \A o \in Objects(i) \cap S : NextVersion(assigned[i]) <= result[o]
  <2> SUFFICES ASSUME NEW i \in 1..n, NEW o \in Objects(i) \cap S
               PROVE  NextVersion(assigned[i]) <= result[o]
    OBVIOUS
  <2>1. NextVersion(assigned[i]) <= shared_object_versions[o]
    BY <1>1 DEF VAInv, Dominance
  <2>2. NextVersion(assigned[i]) > 0
    BY <1>8, <1>1, <2>1
  <2>3. shared_object_versions[o] # Absent
    BY <1>8, <1>9, <2>1, <2>2 DEF Absent
  <2> QED
    BY <1>10, <2>1, <2>3 DEF CurrentVersion
<1>15. Dominance'
  <2> SUFFICES ASSUME NEW i \in 1..(n + 1), NEW o \in Objects(i)'
               PROVE  NextVersion(assigned'[i]) <= shared_object_versions'[o]
    BY <1>6 DEF Dominance
  <2>1. CASE i = n + 1
    <3>1. o \in S /\ o \in Object
      BY <1>7, <2>1
    <3> QED
      BY <1>3, <1>5, <1>6, <2>1, <3>1 DEF next, InitialVersion
  <2>2. CASE i \in 1..n
    <3>1. o \in Objects(i) /\ o \in Object /\ assigned'[i] = assigned[i]
      BY <1>6, <1>7, <1>8, <2>2
    <3>2. CASE o \in S
      <4>1. result[o] \in Nat
        BY <1>2, <3>2 DEF InitialVersion
      <4>3. next \in Nat
        BY <1>3 DEF InitialVersion
      <4>4. NextVersion(assigned[i]) \in Nat
        BY <1>18, <2>2, RequiredVersionsFacts
      <4>2. NextVersion(assigned[i]) <= result[o] /\ result[o] < next
        BY <1>3, <1>14, <2>2, <3>1, <3>2
      <4> QED
        BY <1>5, <3>1, <3>2, <4>1, <4>2, <4>3, <4>4
    <3>3. CASE o \notin S
      BY <1>1, <1>5, <2>2, <3>1, <3>3 DEF VAInv, Dominance
    <3> QED
      BY <3>2, <3>3
  <2> QED
    BY <1>1, <2>1, <2>2
<1>16. VersionsIncrease'
  <2> SUFFICES ASSUME NEW i \in 1..(n + 1), NEW j \in 1..(n + 1), i < j,
                      NEW o, o \in Objects(i)', o \in Objects(j)'
               PROVE  assigned'[i][o] < assigned'[j][o]
    BY <1>6 DEF VersionsIncrease
  <2>1. i \in 1..n /\ o \in Objects(i) /\ assigned'[i] = assigned[i]
    BY <1>1, <1>6, <1>7
  <2>2. CASE j = n + 1
    <3>1. o \in S
      BY <1>7, <2>2
    <3>2. assigned[i][o] < NextVersion(assigned[i]) /\ NextVersion(assigned[i]) <= result[o]
      BY <1>8, <1>14, <2>1, <3>1
    <3>3. assigned[i][o] \in Nat /\ NextVersion(assigned[i]) \in Nat /\ result[o] \in Nat
      BY <1>1, <1>2, <1>8, <2>1, <3>1 DEF InitialVersion
    <3> QED
      BY <1>6, <2>1, <2>2, <3>2, <3>3
  <2>3. CASE j \in 1..n
    BY <1>1, <1>6, <1>7, <2>1, <2>3 DEF VAInv, VersionsIncrease
  <2> QED
    BY <1>1, <2>2, <2>3
<1>17. VersionChain'
  <2> SUFFICES ASSUME NEW j \in 1..(n + 1), NEW o \in Objects(j)'
               PROVE  /\ NoneBetween(0, j, o)' => assigned'[j][o] = InitialVersion
                      /\ \A i \in 1..(j - 1) :
                           Predecessor(i, j, o)' => assigned'[j][o] = NextVersion(assigned'[i])
    BY <1>6 DEF VersionChain
  <2>1. \A i \in 0..(j - 1) : NoneBetween(i, j, o)' <=> NoneBetween(i, j, o)
    BY <1>1, <1>7 DEF NoneBetween
  <2>2. CASE j = n + 1
    <3>1. o \in S /\ o \in Object /\ assigned'[j][o] = CurrentVersion(o)
      BY <1>6, <1>7, <1>10, <2>2
    <3>2. NoneBetween(0, j, o) => shared_object_versions[o] = Absent
      BY <1>1, <2>2, <3>1 DEF VAInv, MapHoldsTail
    <3>3. ASSUME NEW i \in 1..(j - 1), Predecessor(i, j, o)'
          PROVE  assigned'[j][o] = NextVersion(assigned'[i])
      <4>1. i \in 1..n /\ o \in Objects(i) /\ NoneBetween(i, n + 1, o)
        BY <1>1, <1>7, <2>1, <2>2, <3>3 DEF Predecessor
      <4>2. shared_object_versions[o] = NextVersion(assigned[i])
        BY <1>1, <3>1, <4>1 DEF VAInv, MapHoldsTail
      <4>3. shared_object_versions[o] # Absent
        BY <1>8, <4>1, <4>2 DEF Absent
      <4> QED
        BY <1>6, <3>1, <4>1, <4>2, <4>3 DEF CurrentVersion
    <3> QED
      BY <1>1, <2>1, <2>2, <3>1, <3>2, <3>3 DEF CurrentVersion
  <2>3. CASE j \in 1..n
    <3>1. o \in Objects(j) /\ assigned'[j] = assigned[j]
      BY <1>6, <1>7, <2>3
    <3>3. j \in Txns /\ 0 \in 0..(j - 1)
      BY <1>1, <2>3
    <3>4. NoneBetween(0, j, o) => assigned[j][o] = InitialVersion
      BY <3>1, <3>3 DEF VAInv, VersionChain
    <3>5. \A i \in 1..(j - 1) :
             Predecessor(i, j, o) => assigned[j][o] = NextVersion(assigned[i])
      BY <3>1, <3>3 DEF VAInv, VersionChain
    <3>6. NoneBetween(0, j, o)' => NoneBetween(0, j, o)
      BY <2>1, <3>3
    <3>7. ASSUME NEW i \in 1..(j - 1), Predecessor(i, j, o)'
          PROVE  assigned'[j][o] = NextVersion(assigned'[i])
      <4>1. assigned'[i] = assigned[i] /\ Predecessor(i, j, o)
        BY <1>1, <1>6, <1>7, <2>1, <2>3, <3>7 DEF Predecessor
      <4>2. assigned[j][o] = NextVersion(assigned[i])
        BY <3>5, <4>1
      <4> QED
        BY <3>1, <4>1, <4>2
    <3> QED
      BY <3>1, <3>4, <3>6, <3>7
  <2> QED
    BY <1>1, <2>2, <2>3
<1>19. ReadsAfter'
  <2> SUFFICES ASSUME NEW i \in 1..(n + 1), NEW j \in 1..(n + 1), i < j,
                      NEW o, o \in Objects(i)', o \in Objects(j)'
               PROVE  NextVersion(assigned'[i]) <= assigned'[j][o]
    BY <1>6 DEF ReadsAfter
  <2>1. i \in 1..n /\ o \in Objects(i) /\ assigned'[i] = assigned[i]
    BY <1>1, <1>6, <1>7
  <2>2. CASE j = n + 1
    BY <1>6, <1>7, <1>14, <2>1, <2>2
  <2>3. CASE j \in 1..n
    BY <1>1, <1>6, <1>7, <2>1, <2>3 DEF VAInv, ReadsAfter
  <2> QED
    BY <1>1, <2>2, <2>3
<1> QED
  BY <1>11, <1>12, <1>13, <1>15, <1>16, <1>17, <1>19 DEF VAInv

\* The invariant is about the task's own variables only.
LEMMA VAUnchanged == VAInv /\ UNCHANGED vaVars => VAInv'
BY DEF vaVars, VAInv, VATypeOK, VersionsBounded, MapHoldsTail, Dominance, ReadsAfter,
       VersionsIncrease, VersionChain, Txns, Objects, NoneBetween, Predecessor

(***************************************************************************)
(* Every state of the version assignment task satisfies the invariant.     *)
(***************************************************************************)
THEOREM VAInvariant == VASpec => []VAInv
<1>1. VAInv /\ [VANext]_vaVars => VAInv'
  <2> SUFFICES ASSUME VAInv, [VANext]_vaVars
               PROVE  VAInv'
    OBVIOUS
  <2>1. CASE VANext
    BY <2>1, VAStepInv DEF VANext
  <2>2. CASE UNCHANGED vaVars
    BY <2>2, VAUnchanged
  <2> QED
    BY <2>1, <2>2
<1> QED
  BY <1>1, VAInitInv, PTL DEF VASpec

(***************************************************************************)
(* The versions an object is accessed at strictly increase along the       *)
(* consensus order.                                                        *)
(***************************************************************************)
THEOREM UniqueVersions == VASpec => []VersionsIncrease
<1>1. VAInv => VersionsIncrease
  BY DEF VAInv
<1> QED
  BY <1>1, VAInvariant, PTL

(***************************************************************************)
(* Every access reads exactly what its predecessor on the object produces. *)
(***************************************************************************)
THEOREM ChainedVersions == VASpec => []VersionChain
<1>1. VAInv => VersionChain
  BY DEF VAInv
<1> QED
  BY <1>1, VAInvariant, PTL

(***************************************************************************)
(* Type correctness, including that versions never exceed the number of    *)
(* transactions by more than the initial version.                          *)
(***************************************************************************)
THEOREM VATypeCorrect == VASpec => [](VATypeOK /\ VersionsBounded)
<1>1. VAInv => VATypeOK /\ VersionsBounded
  BY DEF VAInv
<1> QED
  BY <1>1, VAInvariant, PTL

(***************************************************************************)
(* The map the task keeps holds what the last transaction on each object   *)
(* produces.                                                               *)
(***************************************************************************)
THEOREM TailHeld == VASpec => []MapHoldsTail
<1>1. VAInv => MapHoldsTail
  BY DEF VAInv
<1> QED
  BY <1>1, VAInvariant, PTL

-----------------------------------------------------------------------------
(* What the components downstream use of the invariant.                    *)

(***************************************************************************)
(* A transaction's objects, the versions it reads and the one it produces: *)
(* all are versions, and what is produced is read by later ones only.      *)
(***************************************************************************)
LEMMA OrderFacts ==
    ASSUME VAInv
    PROVE  /\ Txns = 1..Len(assigned)
           /\ Len(assigned) \in 0..MaxTxns
           /\ \A t \in Txns :
                 /\ assigned[t] \in RequiredVersions
                 /\ Objects(t) \subseteq Object
                 /\ Objects(t) # {}
                 /\ NextVersion(assigned[t]) \in Version
                 /\ NextVersion(assigned[t]) > InitialVersion
                 /\ \A o \in Objects(t) : /\ assigned[t][o] \in Version
                                         /\ assigned[t][o] < NextVersion(assigned[t])
           /\ \A i, j \in Txns : \A o \in Objects(i) \cap Objects(j) :
                 i < j => NextVersion(assigned[i]) <= assigned[j][o]
<1>1. Txns = 1..Len(assigned) /\ Len(assigned) \in 0..MaxTxns
      /\ assigned \in Seq(RequiredVersions)
  BY MaxTxnsAssumption DEF VAInv, VATypeOK, Txns
<1>2. ASSUME NEW t \in Txns
      PROVE  /\ assigned[t] \in RequiredVersions
             /\ Objects(t) \subseteq Object
             /\ Objects(t) # {}
             /\ NextVersion(assigned[t]) \in Version
             /\ NextVersion(assigned[t]) > InitialVersion
             /\ \A o \in Objects(t) : /\ assigned[t][o] \in Version
                                     /\ assigned[t][o] < NextVersion(assigned[t])
  <2>1. assigned[t] \in RequiredVersions
    BY <1>1
  <2>2. /\ Objects(t) \subseteq Object /\ Objects(t) # {}
        /\ \A o \in Objects(t) : assigned[t][o] \in Version
    BY <2>1 DEF RequiredVersions, Objects
  <2>3. /\ NextVersion(assigned[t]) \in Nat
        /\ NextVersion(assigned[t]) > InitialVersion
        /\ \A o \in Objects(t) : assigned[t][o] < NextVersion(assigned[t])
    BY <2>1, RequiredVersionsFacts DEF Objects
  <2>4. PICK o \in Objects(t) : TRUE
    BY <2>2
  <2>5. NextVersion(assigned[t]) <= shared_object_versions[o]
    BY <2>4 DEF VAInv, Dominance
  <2>6. shared_object_versions[o] \in {Absent} \cup Version
    BY <2>2, <2>4 DEF VAInv, VATypeOK
  <2>7. NextVersion(assigned[t]) \in Version
    BY <2>3, <2>5, <2>6, MaxTxnsAssumption DEF Version, Absent, InitialVersion
  <2> QED
    BY <2>1, <2>2, <2>3, <2>7
<1> QED
  BY <1>1, <1>2 DEF VAInv, ReadsAfter

(***************************************************************************)
(* Somebody touched the object before, so somebody was the last to.        *)
(***************************************************************************)
LEMMA PredecessorExists ==
    ASSUME NEW j \in Nat \ {0}, NEW o \in Objects(j), ~ NoneBetween(0, j, o)
    PROVE  \E i \in 1..(j - 1) : Predecessor(i, j, o)
<1> DEFINE T == {i \in 1..(j - 1) : o \in Objects(i)}
<1>1. T # {} /\ T \subseteq 0..j
  BY DEF NoneBetween
<1>2. PICK m \in T : \A x \in T : m >= x
  <2> HIDE DEF T
  <2> QED
    BY <1>1, BoundedSetHasMax
<1>3. Predecessor(m, j, o)
  BY <1>2 DEF Predecessor, NoneBetween
<1> QED
  BY <1>2, <1>3

\* An object has one last toucher before a transaction.
LEMMA PredecessorUnique ==
    ASSUME NEW j \in Nat, NEW o, NEW i, NEW k, Predecessor(i, j, o), Predecessor(k, j, o)
    PROVE  i = k
<1>1. i \in 1..(j - 1) /\ k \in 1..(j - 1) /\ o \in Objects(i) /\ o \in Objects(k)
  BY DEF Predecessor
<1>2. ~ (i < k) /\ ~ (k < i)
  BY <1>1 DEF Predecessor, NoneBetween
<1> QED
  BY <1>1, <1>2

=============================================================================
