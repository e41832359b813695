------------------------------ MODULE DataLemmas ------------------------------
(***************************************************************************)
(* What the proofs use about numbers, finite sets and folds.  Each         *)
(* induction is written out as the search for a least counterexample.      *)
(***************************************************************************)
EXTENDS Integers, Sequences, FiniteSetsExt, FiniteSetTheorems, WellFoundedInduction, TLAPS

\* A non-empty set of naturals has a least element.
LEMMA NatSetHasMin ==
    ASSUME NEW T, T \subseteq Nat, T # {}
    PROVE  \E m \in T : \A x \in T : m <= x
<1> DEFINE R == OpToRel(<, Nat)
<1>1. \A x, y \in Nat : x < y => <<x, y>> \in R
  BY DEF OpToRel
<1>2. IsWellFoundedOn(R, Nat)
  BY NatLessThanWellFounded
<1> HIDE DEF R
<1>3. PICK m \in T : \A y \in T : ~ (<<y, m>> \in R)
  BY <1>2, WFMin
<1>4. \A x \in T : ~ (x < m)
  BY <1>1, <1>3
<1>5. \A x \in T : m <= x
  BY <1>4
<1> QED
  BY <1>5

(***************************************************************************)
(* A non-empty bounded set of naturals has a greatest element, so the Max  *)
(* the code folds over the versions is well defined: take the least upper  *)
(* bound.                                                                  *)
(***************************************************************************)
LEMMA BoundedSetHasMax ==
    ASSUME NEW B \in Nat, NEW T, T \subseteq 0..B, T # {}
    PROVE  \E m \in T : \A x \in T : m >= x
<1> DEFINE U == {n \in Nat : \A x \in T : x <= n}
<1>1. U \subseteq Nat /\ B \in U
  OBVIOUS
<1>3. PICK m \in U : \A y \in U : m <= y
  <2> HIDE DEF U
  <2> QED
    BY <1>1, NatSetHasMin
<1>4. m \in T
  <2>1. SUFFICES ASSUME m \notin T PROVE FALSE
    OBVIOUS
  <2>2. m \in Nat /\ \A x \in T : x \in Nat /\ x < m
    BY <2>1
  <2>3. m - 1 \in U
    <3>1. PICK x \in T : TRUE
      OBVIOUS
    <3>2. m - 1 \in Nat
      BY <2>2, <3>1
    <3> QED
      BY <2>2, <3>2
  <2>4. m - 1 < m /\ m \in Nat
    OBVIOUS
  <2> QED
    BY <1>3, <2>3, <2>4
<1> QED
  BY <1>4

\* What Max returns on the sets of versions it is applied to.
LEMMA MaxIsGreatest ==
    ASSUME NEW B \in Nat, NEW T, T \subseteq 0..B, T # {}
    PROVE  Max(T) \in T /\ \A x \in T : x <= Max(T)
<1>1. PICK m \in T : \A x \in T : m >= x
  BY BoundedSetHasMax
<1>2. Max(T) \in T /\ \A x \in T : Max(T) >= x
  BY <1>1 DEF Max
<1> QED
  BY <1>2

-----------------------------------------------------------------------------
(* The recursion behind the folds: over the subsets of a finite set, one   *)
(* element, that which c picks, at a time.                                 *)

Recursion(F, D, base, h, c) ==
    F = [s \in SUBSET D |-> IF s = {} THEN base ELSE h[<<s, F[s \ {c[s]}]>>]]

Picks(c, D) == \A s \in SUBSET D : s # {} => c[s] \in s

\* The subset that is left is smaller by one.
LEMMA PickShrinks ==
    ASSUME NEW D, IsFiniteSet(D), NEW c, Picks(c, D), NEW s \in SUBSET D
    PROVE  /\ Cardinality(s) \in Nat /\ (Cardinality(s) = 0 <=> s = {})
           /\ Cardinality(s) <= Cardinality(D)
           /\ s # {} => /\ s \ {c[s]} \in SUBSET D
                        /\ Cardinality(s \ {c[s]}) = Cardinality(s) - 1
<1>1. IsFiniteSet(s) /\ Cardinality(s) <= Cardinality(D)
  BY FS_Subset
<1>2. Cardinality(s) \in Nat /\ (Cardinality(s) = 0 <=> s = {})
  BY <1>1, FS_CardinalityType, FS_EmptySet
<1>3. s # {} => /\ s \ {c[s]} \in SUBSET D
                /\ Cardinality(s \ {c[s]}) = Cardinality(s) - 1
  BY <1>1, FS_RemoveElement DEF Picks
<1> QED
  BY <1>1, <1>2, <1>3

(***************************************************************************)
(* The recursion has a solution, built up by the size of the subsets.      *)
(***************************************************************************)
LEMMA RecursionExists ==
    ASSUME NEW D, IsFiniteSet(D), NEW V, NEW base \in V,
           NEW h \in [(SUBSET D) \X V -> V], NEW c, Picks(c, D)
    PROVE  \E F \in [SUBSET D -> V] : Recursion(F, D, base, h, c)
<1> DEFINE Value(F, s) == IF s = {} THEN base ELSE h[<<s, F[s \ {c[s]}]>>]
           Upto(n, F) == \A s \in SUBSET D : Cardinality(s) <= n => F[s] = Value(F, s)
           Bad == {n \in Nat : ~ \E F \in [SUBSET D -> V] : Upto(n, F)}
<1>1. ASSUME NEW F \in [SUBSET D -> V], NEW s \in SUBSET D PROVE Value(F, s) \in V
  <2>1. CASE s = {}
    BY <2>1
  <2>2. CASE s # {}
    <3>1. F[s \ {c[s]}] \in V
      OBVIOUS
    <3>2. \A v \in V : h[<<s, v>>] \in V
      OBVIOUS
    <3> QED
      BY <2>2, <3>1, <3>2
  <2> QED
    BY <2>1, <2>2
<1>2. 0 \notin Bad
  <2> DEFINE F == [s \in SUBSET D |-> base]
  <2>1. F \in [SUBSET D -> V]
    OBVIOUS
  <2>2. ASSUME NEW s \in SUBSET D, Cardinality(s) <= 0 PROVE F[s] = Value(F, s)
    <3>1. Cardinality(s) \in Nat /\ (Cardinality(s) = 0 <=> s = {})
      BY PickShrinks
    <3>2. s = {}
      BY <2>2, <3>1
    <3> QED
      BY <3>2
  <2>3. Upto(0, F)
    BY <2>2
  <2> HIDE DEF F, Upto
  <2> QED
    BY <2>1, <2>3
<1>3. ASSUME NEW m \in Nat, m \notin Bad PROVE m + 1 \notin Bad
  <2>1. PICK F \in [SUBSET D -> V] : Upto(m, F)
    BY <1>3
  <2> DEFINE G == [s \in SUBSET D |-> Value(F, s)]
  <2>2. G \in [SUBSET D -> V]
    BY <1>1
  <2>3. ASSUME NEW s \in SUBSET D, Cardinality(s) <= m + 1 PROVE G[s] = Value(G, s)
    <3>1. CASE s = {}
      BY <3>1
    <3>2. CASE s # {}
      <4>1. s \ {c[s]} \in SUBSET D /\ Cardinality(s \ {c[s]}) <= m
        BY <2>3, <3>2, PickShrinks
      <4>2. F[s \ {c[s]}] = Value(F, s \ {c[s]})
        BY <2>1, <4>1
      <4>3. G[s \ {c[s]}] = F[s \ {c[s]}]
        BY <4>1, <4>2
      <4> QED
        BY <3>2, <4>3
    <3> QED
      BY <3>1, <3>2
  <2>4. Upto(m + 1, G)
    BY <2>3
  <2> HIDE DEF G, Upto
  <2> QED
    BY <2>2, <2>4
<1>4. Bad = {}
  <2> HIDE DEF Bad
  <2>1. SUFFICES ASSUME Bad # {} PROVE FALSE
    OBVIOUS
  <2>2. Bad \subseteq Nat
    BY DEF Bad
  <2>3. PICK n \in Bad : \A x \in Bad : n <= x
    BY <2>1, <2>2, NatSetHasMin
  <2>4. n \in Nat /\ n # 0
    BY <1>2, <2>2
  <2>5. n - 1 \in Nat /\ n - 1 \notin Bad /\ n = (n - 1) + 1
    BY <2>2, <2>3, <2>4
  <2> QED
    BY <1>3, <2>5
<1>5. Cardinality(D) \in Nat
  BY FS_CardinalityType
<1>6. PICK F \in [SUBSET D -> V] : Upto(Cardinality(D), F)
  BY <1>4, <1>5
<1>7. \A s \in SUBSET D : F[s] = Value(F, s)
  BY <1>6, PickShrinks
<1>8. F = [s \in SUBSET D |-> Value(F, s)]
  BY <1>7
<1> QED
  BY <1>8 DEF Recursion

\* It has only one, by the size of the subsets again.
LEMMA RecursionUnique ==
    ASSUME NEW D, IsFiniteSet(D), NEW base, NEW h, NEW c, Picks(c, D),
           NEW F, Recursion(F, D, base, h, c), NEW G, Recursion(G, D, base, h, c)
    PROVE  F[D] = G[D]
<1> DEFINE Bad == {n \in Nat : \E s \in SUBSET D : Cardinality(s) = n /\ F[s] # G[s]}
<1>1. \A s \in SUBSET D : /\ F[s] = IF s = {} THEN base ELSE h[<<s, F[s \ {c[s]}]>>]
                          /\ G[s] = IF s = {} THEN base ELSE h[<<s, G[s \ {c[s]}]>>]
  BY DEF Recursion
<1>2. Bad = {}
  <2>1. SUFFICES ASSUME Bad # {} PROVE FALSE
    OBVIOUS
  <2>2. PICK n \in Bad : \A x \in Bad : n <= x
    <3>1. Bad \subseteq Nat
      OBVIOUS
    <3> HIDE DEF Bad
    <3> QED
      BY <2>1, <3>1, NatSetHasMin
  <2>3. PICK s \in SUBSET D : Cardinality(s) = n /\ F[s] # G[s]
    OBVIOUS
  <2>4. s # {}
    BY <1>1, <2>3
  <2>5. s \ {c[s]} \in SUBSET D /\ Cardinality(s \ {c[s]}) = n - 1 /\ n \in Nat /\ n # 0
    BY <2>3, <2>4, PickShrinks
  <2>6. F[s \ {c[s]}] = G[s \ {c[s]}]
    BY <2>2, <2>5
  <2> QED
    BY <1>1, <2>3, <2>4, <2>6
<1>3. D \in SUBSET D /\ Cardinality(D) \in Nat
  BY FS_CardinalityType
<1> QED
  BY <1>2, <1>3

-----------------------------------------------------------------------------
(* The sum of a function over a finite set.                                *)

SumPick(D) == [s \in SUBSET D |-> CHOOSE x \in s : TRUE]

SumStep(f, D) ==
    [p \in (SUBSET D) \X Int |-> IF p[1] = {} THEN 0 ELSE p[2] + f[SumPick(D)[p[1]]]]

\* F[s] is the sum over s.
SumTable(F, f, D) == F \in [SUBSET D -> Int] /\ Recursion(F, D, 0, SumStep(f, D), SumPick(D))

SumOver(f, D) == (CHOOSE F : SumTable(F, f, D))[D]

\* A set has an element to pick.
LEMMA SumPicks == ASSUME NEW D PROVE Picks(SumPick(D), D)
BY DEF Picks, SumPick

\* A table of sums, in other words.
LEMMA SumTableDef ==
    ASSUME NEW D, NEW f \in [D -> Int], NEW F \in [SUBSET D -> Int]
    PROVE  SumTable(F, f, D) <=>
              /\ F[{}] = 0
              /\ \A s \in SUBSET D : s # {} =>
                    LET x == CHOOSE y \in s : TRUE IN F[s] = F[s \ {x}] + f[x]
<1> DEFINE pick == SumPick(D)
           h == SumStep(f, D)
<1>1. \A s \in SUBSET D : pick[s] = CHOOSE y \in s : TRUE
  BY DEF SumPick
<1>2. \A s \in SUBSET D : s # {} =>
         h[<<s, F[s \ {pick[s]}]>>] = F[s \ {pick[s]}] + f[pick[s]]
  <2>1. \A s \in SUBSET D : s # {} => \A v \in Int : h[<<s, v>>] = v + f[pick[s]]
    BY DEF SumStep
  <2>2. \A s \in SUBSET D : F[s \ {pick[s]}] \in Int
    OBVIOUS
  <2> HIDE DEF h
  <2> QED
    BY <2>1, <2>2
<1> HIDE DEF pick, h
<1>3. Recursion(F, D, 0, h, pick) <=>
         \A s \in SUBSET D : F[s] = IF s = {} THEN 0 ELSE h[<<s, F[s \ {pick[s]}]>>]
  BY DEF Recursion
<1>4. Recursion(F, D, 0, h, pick) <=>
         \A s \in SUBSET D : F[s] = IF s = {} THEN 0 ELSE F[s \ {pick[s]}] + f[pick[s]]
  BY <1>2, <1>3
<1>5. SumTable(F, f, D) <=> Recursion(F, D, 0, h, pick)
  BY DEF SumTable, pick, h
<1>6. (\A s \in SUBSET D : F[s] = IF s = {} THEN 0 ELSE F[s \ {pick[s]}] + f[pick[s]]) <=>
         /\ F[{}] = 0
         /\ \A s \in SUBSET D : s # {} => F[s] = F[s \ {pick[s]}] + f[pick[s]]
  OBVIOUS
<1>7. \A s \in SUBSET D :
         F[s] = F[s \ {pick[s]}] + f[pick[s]] <=>
         LET x == CHOOSE y \in s : TRUE IN F[s] = F[s \ {x}] + f[x]
  BY <1>1
<1> QED
  BY <1>4, <1>5, <1>6, <1>7

\* There is one table, and SumOver reads it.
LEMMA SumTableUnique ==
    ASSUME NEW D, IsFiniteSet(D), NEW f \in [D -> Int]
    PROVE  /\ \E F : SumTable(F, f, D)
           /\ \A F : SumTable(F, f, D) => SumOver(f, D) = F[D]
           /\ SumOver(f, D) \in Int
<1> DEFINE h == SumStep(f, D)
           c == SumPick(D)
<1>0. Picks(c, D)
  BY SumPicks
<1>1. h \in [(SUBSET D) \X Int -> Int]
  <2>1. \A p \in (SUBSET D) \X Int :
           (IF p[1] = {} THEN 0 ELSE p[2] + f[SumPick(D)[p[1]]]) \in Int
    BY <1>0 DEF Picks
  <2> QED
    BY <2>1 DEF SumStep
<1>2. 0 \in Int
  OBVIOUS
<1>3. \E F : SumTable(F, f, D)
  <2> HIDE DEF h, c
  <2>1. \E F \in [SUBSET D -> Int] : Recursion(F, D, 0, h, c)
    BY <1>0, <1>1, <1>2, RecursionExists
  <2> QED
    BY <2>1 DEF SumTable, h, c
<1> DEFINE S == CHOOSE F : SumTable(F, f, D)
<1>4. SumTable(S, f, D)
  BY <1>3
<1>5. SumOver(f, D) = S[D]
  BY DEF SumOver
<1> HIDE DEF S
<1>6. ASSUME NEW F, SumTable(F, f, D) PROVE S[D] = F[D]
  <2>1. Recursion(F, D, 0, h, c) /\ Recursion(S, D, 0, h, c)
    BY <1>4, <1>6 DEF SumTable
  <2> HIDE DEF h, c
  <2> QED
    BY <1>0, <2>1, RecursionUnique
<1>7. S[D] \in Int
  BY <1>4 DEF SumTable
<1> QED
  BY <1>3, <1>5, <1>6, <1>7

\* The sum of nothing but zeros.
LEMMA SumOfZeros ==
    ASSUME NEW D, IsFiniteSet(D), NEW f \in [D -> Int], \A x \in D : f[x] = 0
    PROVE  SumOver(f, D) = 0
<1> DEFINE F == [s \in SUBSET D |-> 0]
<1>1. F \in [SUBSET D -> Int] /\ F[D] = 0 /\ F[{}] = 0
  OBVIOUS
<1>2. \A s \in SUBSET D : s # {} => LET x == CHOOSE y \in s : TRUE IN F[s] = F[s \ {x}] + f[x]
  OBVIOUS
<1> HIDE DEF F
<1>3. SumTable(F, f, D)
  BY <1>1, <1>2, SumTableDef
<1> QED
  BY <1>1, <1>3, SumTableUnique

\* One summand more by h makes the sum more by h.
LEMMA SumAdds ==
    ASSUME NEW D, IsFiniteSet(D), NEW f \in [D -> Int], NEW g \in [D -> Int], NEW d \in D,
           NEW h \in Int, g[d] = f[d] + h, \A x \in D : x # d => g[x] = f[x]
    PROVE  SumOver(g, D) = SumOver(f, D) + h
<1>1. PICK F : SumTable(F, f, D)
  BY SumTableUnique
<1>2. F \in [SUBSET D -> Int]
  BY <1>1 DEF SumTable
<1>3. /\ F[{}] = 0
      /\ \A s \in SUBSET D : s # {} => LET x == CHOOSE y \in s : TRUE IN F[s] = F[s \ {x}] + f[x]
  BY <1>1, <1>2, SumTableDef
<1> DEFINE G == [s \in SUBSET D |-> F[s] + (IF d \in s THEN h ELSE 0)]
<1>4. G \in [SUBSET D -> Int] /\ G[{}] = 0 /\ G[D] = F[D] + h
  <2>1. \A s \in SUBSET D : F[s] + (IF d \in s THEN h ELSE 0) \in Int
    BY <1>2
  <2> QED
    BY <1>2, <1>3, <2>1
<1>5. ASSUME NEW s \in SUBSET D, s # {}
      PROVE  LET x == CHOOSE y \in s : TRUE IN G[s] = G[s \ {x}] + g[x]
  <2> DEFINE x == CHOOSE y \in s : TRUE
  <2>1. x \in s /\ x \in D /\ s \ {x} \in SUBSET D
    BY <1>5
  <2>2. F[s] = F[s \ {x}] + f[x]
    BY <1>3, <1>5
  <2> HIDE DEF x
  <2>3. F[s \ {x}] \in Int /\ f[x] \in Int /\ G[s] = F[s] + (IF d \in s THEN h ELSE 0)
        /\ G[s \ {x}] = F[s \ {x}] + (IF d \in s \ {x} THEN h ELSE 0)
    BY <1>2, <2>1
  <2>4. G[s] = G[s \ {x}] + g[x]
    <3>1. CASE x = d
      BY <2>1, <2>2, <2>3, <3>1
    <3>2. CASE x # d /\ d \in s
      BY <2>1, <2>2, <2>3, <3>2
    <3>3. CASE x # d /\ d \notin s
      BY <2>1, <2>2, <2>3, <3>3
    <3> QED
      BY <3>1, <3>2, <3>3
  <2> QED
    BY <2>4 DEF x
<1> HIDE DEF G
<1>6. SumTable(G, g, D)
  BY <1>4, <1>5, SumTableDef
<1>7. SumOver(f, D) = F[D] /\ SumOver(g, D) = G[D]
  BY <1>1, <1>6, SumTableUnique
<1> QED
  BY <1>4, <1>7

-----------------------------------------------------------------------------
(* Folding from the left: the recursion picks the last position.           *)

LastPick(n) == [s \in SUBSET (1..n) |-> Max(s)]

\* The last of some positions, and of the first k of them.
LEMMA LastPicks ==
    ASSUME NEW n \in Nat
    PROVE  /\ Picks(LastPick(n), 1..n)
           /\ \A k \in 1..n : Max(1..k) = k /\ (1..k) \ {k} = 1..(k - 1)
<1>1. ASSUME NEW s \in SUBSET (1..n), s # {} PROVE Max(s) \in s /\ \A x \in s : x <= Max(s)
  <2>1. s \subseteq 0..n
    OBVIOUS
  <2> QED
    BY <1>1, <2>1, MaxIsGreatest
<1>2. Picks(LastPick(n), 1..n)
  BY <1>1 DEF Picks, LastPick
<1>3. ASSUME NEW k \in 1..n PROVE Max(1..k) = k
  <2>1. 1..k \in SUBSET (1..n) /\ k \in 1..k
    OBVIOUS
  <2>2. Max(1..k) \in 1..k /\ k <= Max(1..k)
    BY <1>1, <2>1
  <2> QED
    BY <2>2
<1>4. \A k \in 1..n : (1..k) \ {k} = 1..(k - 1)
  OBVIOUS
<1> QED
  BY <1>2, <1>3, <1>4

-----------------------------------------------------------------------------

\* A finite set of naturals is bounded, so Max is defined on it too.
LEMMA FiniteHasMax ==
    ASSUME NEW T, IsFiniteSet(T), T \subseteq Nat, T # {}
    PROVE  Max(T) \in T /\ \A x \in T : x <= Max(T)
<1> DEFINE Bounded(S) == \E m \in S : \A x \in S : m >= x
           Bad == {n \in Nat : \E S \in SUBSET T : S # {} /\ Cardinality(S) = n /\ ~ Bounded(S)}
<1>1. Bad = {}
  <2>1. SUFFICES ASSUME Bad # {} PROVE FALSE
    OBVIOUS
  <2>2. Bad \subseteq Nat
    OBVIOUS
  <2>3. PICK n \in Bad : \A y \in Bad : n <= y
    <3> HIDE DEF Bad
    <3> QED
      BY <2>1, <2>2, NatSetHasMin
  <2>4. PICK S \in SUBSET T : S # {} /\ Cardinality(S) = n /\ ~ Bounded(S)
    OBVIOUS
  <2>5. PICK x \in S : TRUE
    BY <2>4
  <2>6. IsFiniteSet(S)
    BY FS_Subset
  <2>7. Cardinality(S \ {x}) = n - 1 /\ IsFiniteSet(S \ {x})
    BY <2>4, <2>5, <2>6, FS_RemoveElement
  <2>8. n - 1 \in Nat
    <3>1. Cardinality(S \ {x}) \in Nat
      BY <2>7, FS_CardinalityType
    <3> QED
      BY <2>7, <3>1
  <2>9. S \ {x} # {}
    <3>1. SUFFICES ASSUME S = {x} PROVE FALSE
      BY <2>5
    <3>2. x >= x
      BY <2>5
    <3> QED
      BY <2>4, <3>1, <3>2
  <2>10. Bounded(S \ {x})
    <3>1. n - 1 \notin Bad
      BY <2>2, <2>3, <2>8
    <3> HIDE DEF Bounded
    <3> QED
      BY <2>7, <2>8, <2>9, <3>1
  <2>11. PICK m \in S \ {x} : \A y \in S \ {x} : m >= y
    BY <2>10
  <2>12. m \in Nat /\ x \in Nat /\ \A y \in S : y \in Nat /\ (y = x \/ m >= y)
    BY <2>11
  <2>13. CASE m >= x
    BY <2>4, <2>11, <2>12, <2>13
  <2>14. CASE x >= m
    BY <2>4, <2>5, <2>11, <2>12, <2>14
  <2> QED
    BY <2>12, <2>13, <2>14
<1>2. Bounded(T)
  <2>1. Cardinality(T) \in Nat /\ T \in SUBSET T
    BY FS_CardinalityType
  <2> HIDE DEF Bounded
  <2> QED
    BY <1>1, <2>1
<1>3. Max(T) \in T /\ \A x \in T : Max(T) >= x
  BY <1>2 DEF Max
<1> QED
  BY <1>3


\* G adds up f over the subsets of D, one element at a time.
Sums(G, f, D) ==
    /\ G[{}] = 0
    /\ \A s \in SUBSET D : s # {} =>
          LET x == CHOOSE y \in s : TRUE IN G[s] = G[s \ {x}] + f[x]

\* Whatever adds up the same numbers that way finds the same sum.
LEMMA SumIs ==
    ASSUME NEW D, IsFiniteSet(D), NEW f \in [D -> Int], NEW G, Sums(G, f, D)
    PROVE  G[D] = SumOver(f, D)
<1> DEFINE c == SumPick(D)
<1>1. PICK F : SumTable(F, f, D)
  BY SumTableUnique
<1>2. F \in [SUBSET D -> Int]
  BY <1>1 DEF SumTable
<1>3. Picks(c, D)
  BY SumPicks
<1>4. \A s \in SUBSET D : c[s] = CHOOSE y \in s : TRUE
  BY DEF SumPick
<1> HIDE DEF c
<1>5. F[{}] = 0 /\ \A s \in SUBSET D : s # {} => F[s] = F[s \ {c[s]}] + f[c[s]]
  <2>1. /\ F[{}] = 0
        /\ \A s \in SUBSET D : s # {} =>
              LET x == CHOOSE y \in s : TRUE IN F[s] = F[s \ {x}] + f[x]
    BY <1>1, <1>2, SumTableDef
  <2> QED
    BY <1>4, <2>1
<1>6. G[{}] = 0 /\ \A s \in SUBSET D : s # {} => G[s] = G[s \ {c[s]}] + f[c[s]]
  BY <1>4 DEF Sums
<1> DEFINE Bad == {n \in Nat : \E s \in SUBSET D : Cardinality(s) = n /\ F[s] # G[s]}
<1>7. Bad = {}
  <2>1. SUFFICES ASSUME Bad # {} PROVE FALSE
    OBVIOUS
  <2>2. PICK n \in Bad : \A x \in Bad : n <= x
    <3>1. Bad \subseteq Nat
      OBVIOUS
    <3> HIDE DEF Bad
    <3> QED
      BY <2>1, <3>1, NatSetHasMin
  <2>3. PICK s \in SUBSET D : Cardinality(s) = n /\ F[s] # G[s]
    OBVIOUS
  <2>4. s # {}
    BY <1>5, <1>6, <2>3
  <2>5. /\ s \ {c[s]} \in SUBSET D
        /\ Cardinality(s) \in Nat /\ Cardinality(s \ {c[s]}) = Cardinality(s) - 1
        /\ (Cardinality(s) = 0 <=> s = {})
    BY <1>3, <2>4, PickShrinks
  <2>6. F[s \ {c[s]}] = G[s \ {c[s]}]
    <3>1. Cardinality(s \ {c[s]}) \in Nat /\ ~ (n <= Cardinality(s \ {c[s]}))
      BY <2>3, <2>4, <2>5
    <3> QED
      BY <2>2, <2>5, <3>1
  <2> QED
    BY <1>5, <1>6, <2>3, <2>4, <2>6
<1>8. D \in SUBSET D /\ Cardinality(D) \in Nat
  BY FS_CardinalityType
<1>9. F[D] = G[D]
  BY <1>7, <1>8
<1> QED
  BY <1>1, <1>9, SumTableUnique


\* From one subset to the next, G stays an integer.
StaysInt(G, D) ==
    /\ G[{}] \in Int
    /\ \A s \in SUBSET D : s # {} =>
          LET x == CHOOSE y \in s : TRUE IN G[s \ {x}] \in Int => G[s] \in Int

\* Then it is one for them all.
LEMMA SumsInt ==
    ASSUME NEW D, IsFiniteSet(D), NEW G, StaysInt(G, D)
    PROVE  \A s \in SUBSET D : G[s] \in Int
<1> DEFINE c == SumPick(D)
<1>1. Picks(c, D)
  BY SumPicks
<1>2. \A s \in SUBSET D : c[s] = CHOOSE y \in s : TRUE
  BY DEF SumPick
<1> HIDE DEF c
<1>3. G[{}] \in Int /\ \A s \in SUBSET D : s # {} /\ G[s \ {c[s]}] \in Int => G[s] \in Int
  BY <1>2 DEF StaysInt
<1> DEFINE Bad == {n \in Nat : \E s \in SUBSET D : Cardinality(s) = n /\ G[s] \notin Int}
<1>4. SUFFICES ASSUME Bad # {} PROVE FALSE
  <2>1. \A s \in SUBSET D : Cardinality(s) \in Nat
    BY <1>1, PickShrinks
  <2> QED
    BY <2>1
<1>5. PICK n \in Bad : \A x \in Bad : n <= x
  <2>1. Bad \subseteq Nat
    OBVIOUS
  <2> HIDE DEF Bad
  <2> QED
    BY <1>4, <2>1, NatSetHasMin
<1>6. PICK s \in SUBSET D : Cardinality(s) = n /\ G[s] \notin Int
  OBVIOUS
<1>7. s # {}
  BY <1>3, <1>6
<1>8. s \ {c[s]} \in SUBSET D /\ Cardinality(s \ {c[s]}) = n - 1 /\ n \in Nat /\ n # 0
  BY <1>1, <1>6, <1>7, PickShrinks
<1>9. G[s \ {c[s]}] \in Int
  BY <1>5, <1>8
<1> QED
  BY <1>3, <1>6, <1>7, <1>9


\* A table of sums is one.
LEMMA TableSums ==
    ASSUME NEW D, NEW f \in [D -> Int], NEW F, SumTable(F, f, D)
    PROVE  F \in [SUBSET D -> Int] /\ Sums(F, f, D)
<1>1. F \in [SUBSET D -> Int]
  BY DEF SumTable
<1>2. /\ F[{}] = 0
      /\ \A s \in SUBSET D : s # {} => LET x == CHOOSE y \in s : TRUE IN F[s] = F[s \ {x}] + f[x]
  BY <1>1, SumTableDef
<1> QED
  BY <1>1, <1>2 DEF Sums

\* A sum of smaller numbers is no larger.
LEMMA SumMonotone ==
    ASSUME NEW D, IsFiniteSet(D), NEW f \in [D -> Int], NEW g \in [D -> Int],
           \A x \in D : f[x] <= g[x]
    PROVE  SumOver(f, D) <= SumOver(g, D)
<1> DEFINE c == SumPick(D)
<1>1. PICK F, G : SumTable(F, f, D) /\ SumTable(G, g, D)
  BY SumTableUnique
<1>2. F \in [SUBSET D -> Int] /\ G \in [SUBSET D -> Int]
  BY <1>1 DEF SumTable
<1>3. Picks(c, D)
  BY SumPicks
<1>4. \A s \in SUBSET D : c[s] = CHOOSE y \in s : TRUE
  BY DEF SumPick
<1> HIDE DEF c
<1>5. F[{}] = 0 /\ \A s \in SUBSET D : s # {} => F[s] = F[s \ {c[s]}] + f[c[s]]
  <2>1. Sums(F, f, D)
    BY <1>1, TableSums
  <2> QED
    BY <1>4, <2>1 DEF Sums
<1>6. G[{}] = 0 /\ \A s \in SUBSET D : s # {} => G[s] = G[s \ {c[s]}] + g[c[s]]
  <2>1. Sums(G, g, D)
    BY <1>1, TableSums
  <2> QED
    BY <1>4, <2>1 DEF Sums
<1> DEFINE Bad == {n \in Nat : \E s \in SUBSET D : Cardinality(s) = n /\ ~ (F[s] <= G[s])}
<1>7. Bad = {}
  <2> SUFFICES ASSUME Bad # {} PROVE FALSE
    OBVIOUS
  <2>2. PICK n \in Bad : \A x \in Bad : n <= x
    <3>1. Bad \subseteq Nat
      OBVIOUS
    <3> HIDE DEF Bad
    <3> QED
      BY <3>1, NatSetHasMin
  <2>3. PICK s \in SUBSET D : Cardinality(s) = n /\ ~ (F[s] <= G[s])
    OBVIOUS
  <2>4. s # {}
    <3>1. F[{}] = 0 /\ G[{}] = 0 /\ 0 <= 0
      BY <1>5, <1>6
    <3> QED
      BY <2>3, <3>1
  <2>5. /\ s \ {c[s]} \in SUBSET D /\ Cardinality(s \ {c[s]}) = n - 1 /\ n \in Nat /\ n # 0
        /\ c[s] \in D
    <3>1. c[s] \in D
      BY <1>3, <2>4 DEF Picks
    <3> QED
      BY <1>3, <2>3, <2>4, <3>1, PickShrinks
  <2>6. F[s \ {c[s]}] <= G[s \ {c[s]}]
    BY <2>2, <2>5
  <2>7. f[c[s]] <= g[c[s]] /\ f[c[s]] \in Int /\ g[c[s]] \in Int
    BY <2>5
  <2>8. F[s \ {c[s]}] \in Int /\ G[s \ {c[s]}] \in Int
    BY <1>2, <2>5
  <2>9. F[s] = F[s \ {c[s]}] + f[c[s]] /\ G[s] = G[s \ {c[s]}] + g[c[s]]
    BY <1>5, <1>6, <2>4
  <2> QED
    BY <2>3, <2>6, <2>7, <2>8, <2>9
<1>8. D \in SUBSET D /\ Cardinality(D) \in Nat
  BY FS_CardinalityType
<1>9. F[D] <= G[D]
  BY <1>7, <1>8
<1> QED
  BY <1>1, <1>9, SumTableUnique

\* Multiples of a number.
LEMMA Multiples ==
    ASSUME NEW a \in Nat, NEW b \in Nat, NEW s \in Nat
    PROVE  /\ a * s \in Nat /\ (a + 1) * s = a * s + s
           /\ a <= b => a * s <= b * s
           /\ s >= 1 => a <= a * s
OBVIOUS

-----------------------------------------------------------------------------
(* A function applied again and again.                                     *)

\* The first n + 1 results.
Iterates(r, V, base, w, n) ==
    /\ r \in [0..n -> V] /\ r[0] = base
    /\ \A i \in 1..n : r[i] = w[r[i - 1]]

\* They exist.
LEMMA IteratesExist ==
    ASSUME NEW V, NEW base \in V, NEW w \in [V -> V], NEW m \in Nat
    PROVE  \E r : Iterates(r, V, base, w, m)
<1> DEFINE Bad == {n \in 0..m : ~ \E r : Iterates(r, V, base, w, n)}
<1>1. Bad = {}
  <2> SUFFICES ASSUME Bad # {} PROVE FALSE
    OBVIOUS
  <2>1. PICK n \in Bad : \A x \in Bad : n <= x
    <3>1. Bad \subseteq Nat
      OBVIOUS
    <3> HIDE DEF Bad
    <3> QED
      BY <3>1, NatSetHasMin
  <2>2. n \in 0..m /\ n \in Nat /\ ~ \E r : Iterates(r, V, base, w, n)
    OBVIOUS
  <2>3. n # 0
    <3>1. Iterates([i \in 0..0 |-> base], V, base, w, 0)
      BY DEF Iterates
    <3> QED
      BY <2>2, <3>1
  <2>4. PICK g : Iterates(g, V, base, w, n - 1)
    <3>1. n - 1 \in 0..m /\ ~ (n <= n - 1)
      BY <2>2, <2>3
    <3> QED
      BY <2>1, <3>1
  <2>5. /\ g \in [0..(n - 1) -> V] /\ g[0] = base
        /\ \A i \in 1..(n - 1) : g[i] = w[g[i - 1]]
    BY <2>4 DEF Iterates
  <2>6. PICK last \in V : last = w[g[n - 1]]
    <3>1. g[n - 1] \in V
      BY <2>2, <2>3, <2>5
    <3> QED
      BY <3>1
  <2>7. PICK f : f = [i \in 0..n |-> IF i = n THEN last ELSE g[i]]
    OBVIOUS
  <2>8. \A i \in 0..n : i # n => i \in 0..(n - 1)
    BY <2>2, <2>3
  <2>9. f \in [0..n -> V] /\ f[0] = base
    BY <2>2, <2>3, <2>5, <2>7, <2>8
  <2>10. ASSUME NEW i \in 1..n PROVE f[i] = w[f[i - 1]]
    <3>1. i \in 0..n /\ i - 1 \in 0..n /\ i - 1 # n
      BY <2>2
    <3>2. f[i] = (IF i = n THEN last ELSE g[i]) /\ f[i - 1] = g[i - 1]
      BY <2>7, <3>1
    <3>3. i # n => i \in 1..(n - 1)
      BY <2>2
    <3> QED
      BY <2>5, <2>6, <3>2, <3>3
  <2>11. Iterates(f, V, base, w, n)
    BY <2>9, <2>10 DEF Iterates
  <2> QED
    BY <2>2, <2>11
<1>2. m \in 0..m
  OBVIOUS
<1> QED
  BY <1>1, <1>2

=============================================================================
