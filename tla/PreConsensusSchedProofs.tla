------------------------ MODULE PreConsensusSchedProofs ------------------------
(***************************************************************************)
(* The pre-consensus scheduler hands out the conflict components of a      *)
(* batch, whole, and its race with the forwarder does no more harm than    *)
(* PlanExplained says: for every stream, any cut into batches and any      *)
(* number of proxies.                                                      *)
(***************************************************************************)
EXTENDS PreConsensusSched, DataLemmas, SequenceTheorems

-----------------------------------------------------------------------------
(* The search for subgraphs.                                               *)

\* One round of the search.
Widen(T, E, S) == S \cup {u \in T : \E v \in S : <<u, v>> \in E \/ <<v, u>> \in E}

\* The table of rounds behind Visited.
Rounds(r, T, E, t) ==
    /\ r \in [0..Cardinality(T) -> SUBSET T]
    /\ r[0] = {t} /\ \A n \in 1..Cardinality(T) : r[n] = Widen(T, E, r[n - 1])

RoundsAre(r, T, E, t) ==
    r = [n \in 0..Cardinality(T) |-> IF n = 0 THEN {t} ELSE Widen(T, E, r[n - 1])]

\* Visited is its last entry.
LEMMA VisitedIs ==
    ASSUME NEW T, IsFiniteSet(T), NEW E, NEW t \in T
    PROVE  \E r : Rounds(r, T, E, t) /\ Visited(T, E, t) = r[Cardinality(T)]
<1>1. PICK N \in Nat : N = Cardinality(T)
  BY FS_CardinalityType
<1> DEFINE w == [S \in SUBSET T |-> Widen(T, E, S)]
           R == CHOOSE r : RoundsAre(r, T, E, t)
<1>2. w \in [SUBSET T -> SUBSET T]
  BY DEF Widen
<1>3. {t} \in SUBSET T
  OBVIOUS
<1>4. PICK r : Iterates(r, SUBSET T, {t}, w, N)
  <2> HIDE DEF w
  <2> QED
    BY <1>2, <1>3, IteratesExist
<1>5. /\ r \in [0..N -> SUBSET T] /\ r[0] = {t}
      /\ \A n \in 1..N : r[n] = Widen(T, E, r[n - 1])
  <2>1. \A n \in 1..N : n - 1 \in 0..N
    OBVIOUS
  <2> QED
    BY <1>4, <2>1 DEF Iterates
<1>6. RoundsAre(r, T, E, t)
  <2>1. \A n \in 0..N : r[n] = IF n = 0 THEN {t} ELSE Widen(T, E, r[n - 1])
    BY <1>5
  <2> QED
    BY <1>1, <1>5, <2>1 DEF RoundsAre
<1>7. RoundsAre(R, T, E, t)
  BY <1>6
<1>8. Visited(T, E, t) = R[N]
  BY <1>1 DEF Visited, RoundsAre, Widen
<1> HIDE DEF R
<1>9. \A n \in 0..N : R[n] = IF n = 0 THEN {t} ELSE Widen(T, E, R[n - 1])
  BY <1>1, <1>7 DEF RoundsAre
<1>10. \A n \in 0..N : R[n] = r[n]
  <2> DEFINE Bad == {n \in 0..N : R[n] # r[n]}
  <2> SUFFICES ASSUME Bad # {} PROVE FALSE
    OBVIOUS
  <2>1. PICK k \in Bad : \A x \in Bad : k <= x
    <3>1. Bad \subseteq Nat
      OBVIOUS
    <3> HIDE DEF Bad
    <3> QED
      BY <3>1, NatSetHasMin
  <2>2. k # 0
    BY <1>5, <1>9
  <2>3. k - 1 \in 0..N /\ ~ (k <= k - 1) /\ k \in 1..N
    BY <2>2
  <2>4. R[k - 1] = r[k - 1]
    BY <2>1, <2>3
  <2> QED
    BY <1>5, <1>9, <2>2, <2>3, <2>4
<1>11. Rounds(r, T, E, t)
  BY <1>1, <1>5 DEF Rounds
<1> QED
  BY <1>1, <1>8, <1>10, <1>11

\* Each round adds to the one before.
LEMMA RoundsGrow ==
    ASSUME NEW T, NEW E, NEW t, NEW r, Rounds(r, T, E, t), Cardinality(T) \in Nat
    PROVE  \A n \in 0..Cardinality(T) : t \in r[n] /\ r[n] \subseteq r[Cardinality(T)]
<1>1. PICK N \in Nat : N = Cardinality(T)
  OBVIOUS
<1>2. \A n \in 1..N : r[n - 1] \subseteq r[n]
  BY <1>1 DEF Rounds, Widen
<1> DEFINE Bad == {n \in 0..N : t \notin r[n]}
           Low == {n \in 0..N : ~ r[N - n] \subseteq r[N]}
<1>3. Bad = {}
  <2> SUFFICES ASSUME Bad # {} PROVE FALSE
    OBVIOUS
  <2>1. PICK k \in Bad : \A x \in Bad : k <= x
    <3>1. Bad \subseteq Nat
      OBVIOUS
    <3> HIDE DEF Bad
    <3> QED
      BY <3>1, NatSetHasMin
  <2>2. k # 0
    BY DEF Rounds
  <2>3. k - 1 \in 0..N /\ ~ (k <= k - 1) /\ k \in 1..N
    BY <2>2
  <2>4. t \in r[k - 1]
    BY <2>1, <2>3
  <2> QED
    BY <1>2, <2>3, <2>4
<1>4. Low = {}
  <2> SUFFICES ASSUME Low # {} PROVE FALSE
    OBVIOUS
  <2>1. PICK k \in Low : \A x \in Low : k <= x
    <3>1. Low \subseteq Nat
      OBVIOUS
    <3> HIDE DEF Low
    <3> QED
      BY <3>1, NatSetHasMin
  <2>2. k # 0
    BY <1>1
  <2>3. k - 1 \in 0..N /\ ~ (k <= k - 1) /\ N - (k - 1) \in 1..N /\ (N - (k - 1)) - 1 = N - k
    BY <2>2
  <2>4. r[N - (k - 1)] \subseteq r[N]
    BY <2>1, <2>3
  <2>5. r[N - k] \subseteq r[N - (k - 1)]
    BY <1>2, <2>3
  <2> QED
    BY <2>4, <2>5
<1>5. ASSUME NEW n \in 0..N PROVE r[n] \subseteq r[N]
  <2>1. N - n \in 0..N /\ N - (N - n) = n
    OBVIOUS
  <2> QED
    BY <1>4, <2>1
<1> QED
  BY <1>1, <1>3, <1>5

\* When a round adds nothing, no later one does; so the last one adds nothing.
LEMMA RoundsEnd ==
    ASSUME NEW T, IsFiniteSet(T), NEW E, NEW t \in T, NEW r, Rounds(r, T, E, t)
    PROVE  Widen(T, E, r[Cardinality(T)]) = r[Cardinality(T)]
<1>1. PICK N \in Nat : N = Cardinality(T)
  BY FS_CardinalityType
<1>2. /\ r \in [0..N -> SUBSET T] /\ r[0] = {t}
      /\ \A n \in 1..N : r[n] = Widen(T, E, r[n - 1]) /\ r[n - 1] \subseteq r[n]
  BY <1>1 DEF Rounds, Widen
<1> SUFFICES ASSUME Widen(T, E, r[N]) # r[N] PROVE FALSE
  BY <1>1
<1>3. ASSUME NEW k \in 0..N, Widen(T, E, r[k]) = r[k] PROVE r[N] = r[k]
  <2> DEFINE Bad == {n \in 0..(N - k) : r[k + n] # r[k]}
  <2>1. Bad = {}
    <3> SUFFICES ASSUME Bad # {} PROVE FALSE
      OBVIOUS
    <3>1. PICK n \in Bad : \A x \in Bad : n <= x
      <4>1. Bad \subseteq Nat
        OBVIOUS
      <4> HIDE DEF Bad
      <4> QED
        BY <4>1, NatSetHasMin
    <3>2. n # 0
      OBVIOUS
    <3>3. n - 1 \in 0..(N - k) /\ ~ (n <= n - 1) /\ k + n \in 1..N /\ (k + n) - 1 = k + (n - 1)
      BY <3>2
    <3>4. r[k + (n - 1)] = r[k]
      BY <3>1, <3>3
    <3> QED
      BY <1>2, <1>3, <3>3, <3>4
  <2>2. N - k \in 0..(N - k) /\ k + (N - k) = N
    OBVIOUS
  <2> QED
    BY <2>1, <2>2
<1>4. ASSUME NEW n \in 1..N PROVE r[n] # r[n - 1]
  <2>1. n - 1 \in 0..N
    OBVIOUS
  <2>2. Widen(T, E, r[n - 1]) = r[n]
    BY <1>2
  <2> SUFFICES ASSUME r[n] = r[n - 1] PROVE FALSE
    OBVIOUS
  <2>3. r[N] = r[n - 1]
    BY <1>3, <2>1, <2>2
  <2> QED
    BY <2>2, <2>3
<1>5. \A n \in 0..N : IsFiniteSet(r[n]) /\ Cardinality(r[n]) \in Nat /\ Cardinality(r[n]) <= N
  <2> SUFFICES ASSUME NEW n \in 0..N
               PROVE  IsFiniteSet(r[n]) /\ Cardinality(r[n]) \in Nat /\ Cardinality(r[n]) <= N
    OBVIOUS
  <2>1. r[n] \in SUBSET T
    BY <1>2
  <2> QED
    BY <1>1, <2>1, FS_Subset, FS_CardinalityType
<1> DEFINE Bad == {n \in 0..N : Cardinality(r[n]) < n + 1}
<1>6. Bad = {}
  <2> SUFFICES ASSUME Bad # {} PROVE FALSE
    OBVIOUS
  <2>1. PICK n \in Bad : \A x \in Bad : n <= x
    <3>1. Bad \subseteq Nat
      OBVIOUS
    <3> HIDE DEF Bad
    <3> QED
      BY <3>1, NatSetHasMin
  <2>2. n # 0
    <3> SUFFICES ASSUME n = 0 PROVE FALSE
      OBVIOUS
    <3>1. Cardinality(r[0]) = 1
      BY <1>2, FS_Singleton
    <3>2. Cardinality(r[0]) < 1
      BY <2>1
    <3> QED
      BY <3>1, <3>2
  <2>3. n - 1 \in 0..N /\ ~ (n <= n - 1) /\ n \in 1..N
    BY <2>2
  <2>4. ~ (Cardinality(r[n - 1]) < n)
    BY <2>1, <2>3
  <2>5. r[n - 1] \in SUBSET r[n] /\ r[n - 1] # r[n]
    BY <1>2, <1>4, <2>3
  <2>6. Cardinality(r[n - 1]) <= Cardinality(r[n]) /\ Cardinality(r[n - 1]) # Cardinality(r[n])
    BY <1>5, <2>3, <2>5, FS_Subset
  <2>7. Cardinality(r[n]) \in Nat /\ Cardinality(r[n - 1]) \in Nat /\ Cardinality(r[n]) < n + 1
    BY <1>5, <2>3
  <2> QED
    BY <2>4, <2>6, <2>7
<1>7. ~ (Cardinality(r[N]) < N + 1) /\ Cardinality(r[N]) <= N /\ Cardinality(r[N]) \in Nat
  <2>1. N \in 0..N
    OBVIOUS
  <2> QED
    BY <1>5, <1>6, <2>1
<1> QED
  BY <1>7


Linked(E, u, v) == <<u, v>> \in E \/ <<v, u>> \in E

\* No edge leads out of S.
Closed(T, E, S) == \A v \in S, u \in T : Linked(E, u, v) => u \in S

\* What is visited contains the start and is closed.
LEMMA VisitedClosed ==
    ASSUME NEW T, IsFiniteSet(T), NEW E, NEW t \in T
    PROVE  t \in Visited(T, E, t) /\ Visited(T, E, t) \subseteq T /\ Closed(T, E, Visited(T, E, t))
<1>1. PICK N \in Nat : N = Cardinality(T)
  BY FS_CardinalityType
<1>2. PICK r : Rounds(r, T, E, t) /\ Visited(T, E, t) = r[N]
  BY <1>1, VisitedIs
<1>3. Widen(T, E, r[N]) = r[N]
  BY <1>1, <1>2, RoundsEnd
<1>4. N \in 0..N /\ r[N] \in SUBSET T
  BY <1>1, <1>2 DEF Rounds
<1>5. t \in r[N]
  BY <1>1, <1>2, <1>4, RoundsGrow
<1>6. Closed(T, E, r[N])
  BY <1>3 DEF Closed, Linked, Widen
<1> QED
  BY <1>2, <1>4, <1>5, <1>6

\* A part of it that holds the start and that no edge leaves is all of it.
LEMMA VisitedConnected ==
    ASSUME NEW T, IsFiniteSet(T), NEW E, NEW t \in T, NEW S, S \subseteq Visited(T, E, t), t \in S,
           \A v \in S, u \in Visited(T, E, t) \ S : ~ Linked(E, u, v)
    PROVE  S = Visited(T, E, t)
<1>1. PICK N \in Nat : N = Cardinality(T)
  BY FS_CardinalityType
<1>2. PICK r : Rounds(r, T, E, t) /\ Visited(T, E, t) = r[N]
  BY <1>1, VisitedIs
<1>3. \A n \in 0..N : r[n] \subseteq r[N]
  BY <1>1, <1>2, RoundsGrow
<1> DEFINE Bad == {n \in 0..N : ~ r[n] \subseteq S}
<1>4. Bad = {}
  <2> SUFFICES ASSUME Bad # {} PROVE FALSE
    OBVIOUS
  <2>1. PICK n \in Bad : \A x \in Bad : n <= x
    <3>1. Bad \subseteq Nat
      OBVIOUS
    <3> HIDE DEF Bad
    <3> QED
      BY <3>1, NatSetHasMin
  <2>2. n # 0
    BY <1>2 DEF Rounds
  <2>3. n - 1 \in 0..N /\ ~ (n <= n - 1) /\ n \in 1..N
    BY <2>2
  <2>4. r[n - 1] \subseteq S
    BY <2>1, <2>3
  <2>5. PICK u \in r[n] : u \notin S
    OBVIOUS
  <2>6. u \in Widen(T, E, r[n - 1])
    BY <1>1, <1>2, <2>3, <2>5 DEF Rounds
  <2>7. PICK v \in r[n - 1] : Linked(E, u, v)
    BY <2>4, <2>5, <2>6 DEF Widen, Linked
  <2>8. u \in Visited(T, E, t) \ S
    BY <1>2, <1>3, <2>5
  <2> QED
    BY <2>4, <2>7, <2>8
<1>5. N \in 0..N
  OBVIOUS
<1>6. r[N] \subseteq S
  BY <1>4, <1>5
<1> QED
  BY <1>2, <1>6

\* Two searches that meet visit the same.
LEMMA VisitedMeet ==
    ASSUME NEW T, IsFiniteSet(T), NEW E, NEW t \in T, NEW u \in T,
           Visited(T, E, t) \cap Visited(T, E, u) # {}
    PROVE  Visited(T, E, t) \subseteq Visited(T, E, u)
<1>1. PICK G : G = Visited(T, E, t)
  OBVIOUS
<1>2. PICK H : H = Visited(T, E, u)
  OBVIOUS
<1>3. /\ t \in G /\ G \subseteq T /\ H \subseteq T /\ Closed(T, E, H) /\ Closed(T, E, G) /\ G \cap H # {}
  BY <1>1, <1>2, VisitedClosed
<1>4. \A v, w : Linked(E, v, w) => Linked(E, w, v)
  BY DEF Linked
<1>5. CASE t \in H
  <2>1. \A v \in G \cap H, w \in G \ (G \cap H) : ~ Linked(E, w, v)
    BY <1>3 DEF Closed
  <2>2. G \cap H \subseteq G /\ t \in G \cap H
    BY <1>3, <1>5
  <2>3. PICK S : S = G \cap H
    OBVIOUS
  <2>4. S = G
    BY <1>1, <2>1, <2>2, <2>3, VisitedConnected
  <2> QED
    BY <1>1, <1>2, <2>3, <2>4
<1>6. CASE t \notin H
  <2>1. \A v \in G \ H, w \in G \ (G \ H) : ~ Linked(E, w, v)
    BY <1>3, <1>4 DEF Closed
  <2>2. G \ H \subseteq G /\ t \in G \ H
    BY <1>3, <1>6
  <2>3. PICK S : S = G \ H
    OBVIOUS
  <2>4. S = G
    BY <1>1, <2>1, <2>2, <2>3, VisitedConnected
  <2> QED
    BY <1>3, <2>3, <2>4
<1> QED
  BY <1>5, <1>6

-----------------------------------------------------------------------------
(* The subgraphs are the conflict components.                              *)

\* An edge of the dependency graph is a conflict.
LEMMA EdgesConflict ==
    ASSUME NEW T, NEW u, NEW v, Linked(build_dependency_graph(T), u, v)
    PROVE  u \in T /\ v \in T /\ Conflict(u, v) /\ Conflict(v, u)
<1>1. ASSUME NEW a, NEW b, <<a, b>> \in build_dependency_graph(T)
      PROVE  a \in T /\ b \in T /\ objects[a] \cap objects[b] # {}
  <2>1. a \in T /\ b \in T
    BY <1>1 DEF build_dependency_graph
  <2>2. PICK o \in objects[b] : a \in LastAccessor(T, b, o)
    BY <1>1 DEF build_dependency_graph
  <2>3. o \in objects[a]
    BY <2>2 DEF LastAccessor
  <2> QED
    BY <2>1, <2>2, <2>3
<1>2. CASE <<u, v>> \in build_dependency_graph(T)
  BY <1>1, <1>2 DEF Conflict
<1>3. CASE <<v, u>> \in build_dependency_graph(T)
  BY <1>1, <1>3 DEF Conflict
<1> QED
  BY <1>2, <1>3 DEF Linked

\* The accessors of one object are on one side of a closed set: each is linked to the one before.
LEMMA AccessorsTogether ==
    ASSUME NEW T, T \subseteq Nat, NEW S, S \subseteq T, Closed(T, build_dependency_graph(T), S), NEW o,
           NEW a \in T, NEW b \in T, o \in objects[a], o \in objects[b], a \in S, b \notin S
    PROVE  FALSE
<1> DEFINE A == {x \in T : o \in objects[x]}
           Differ(u, v) == (u \in S /\ v \notin S) \/ (u \notin S /\ v \in S)
           D == {v \in A : \E u \in A : u < v /\ Differ(u, v)}
<1>1. D # {}
  <2>1. a \in A /\ b \in A /\ Differ(a, b) /\ Differ(b, a) /\ a # b
    OBVIOUS
  <2>2. a < b \/ b < a
    <3>1. a \in Nat /\ b \in Nat
      OBVIOUS
    <3> HIDE DEF A, D
    <3> QED
      BY <2>1, <3>1
  <2> QED
    BY <2>1, <2>2
<1>2. PICK v \in D : \A x \in D : v <= x
  <2>1. D \subseteq Nat
    OBVIOUS
  <2> HIDE DEF D
  <2> QED
    BY <1>1, <2>1, NatSetHasMin
<1>3. v \in A /\ v \in Nat
  OBVIOUS
<1>4. PICK u \in A : u < v /\ Differ(u, v)
  BY <1>2
<1> DEFINE W == {x \in A : x < v}
<1>5. PICK w \in W : \A x \in W : w >= x
  <2>1. ASSUME NEW x \in W PROVE x \in 0..v
    <3>1. x \in Nat /\ x < v
      OBVIOUS
    <3> HIDE DEF W, D
    <3> QED
      BY <1>3, <3>1
  <2>2. u \in W
    BY <1>4
  <2> HIDE DEF W
  <2> QED
    BY <1>3, <2>1, <2>2, BoundedSetHasMax
<1>6. w \in A /\ w \in Nat /\ w < v /\ u \in Nat
  BY <1>4
<1>7. w \in LastAccessor(T, v, o)
  <2>1. ASSUME NEW x \in T, w < x, x < v, o \in objects[x] PROVE FALSE
    <3>1. x \in W /\ x \in Nat
      BY <2>1
    <3> QED
      BY <1>5, <1>6, <2>1, <3>1
  <2> QED
    BY <1>6, <2>1 DEF LastAccessor
<1>8. <<w, v>> \in build_dependency_graph(T)
  BY <1>3, <1>6, <1>7 DEF build_dependency_graph
<1>9. w \in S <=> v \in S
  BY <1>3, <1>6, <1>8 DEF Closed, Linked
<1>10. Differ(u, w) /\ u # w
  BY <1>4, <1>9
<1>11. u < w
  BY <1>4, <1>5, <1>6, <1>10
<1>12. w \in D
  BY <1>4, <1>6, <1>10, <1>11
<1> QED
  BY <1>2, <1>3, <1>6, <1>12


\* No conflict of the batch T leaves G.
Component(T, G) == G \subseteq T /\ \A t \in G, u \in T : Conflict(t, u) => u \in G

Large(T) == {G \in find_all_subgraphs(T, build_dependency_graph(T)) : Cardinality(G) >= 2}

\* What one search visits is a conflict component.
LEMMA VisitedComponent ==
    ASSUME NEW T, T \subseteq Nat, IsFiniteSet(T), NEW t \in T
    PROVE  LET G == Visited(T, build_dependency_graph(T), t) IN
           /\ t \in G /\ Component(T, G)
           /\ \A S \in SUBSET G : S # {} /\ S # G => \E a \in S, b \in G \ S : Conflict(a, b)
<1>1. PICK E : E = build_dependency_graph(T)
  OBVIOUS
<1>2. PICK G : G = Visited(T, E, t)
  OBVIOUS
<1>3. t \in G /\ G \subseteq T /\ Closed(T, E, G)
  BY <1>2, VisitedClosed
<1>4. ASSUME NEW a \in G, NEW u \in T, Conflict(a, u) PROVE u \in G
  <2>1. PICK o : o \in objects[a] /\ o \in objects[u]
    BY <1>4 DEF Conflict
  <2> SUFFICES ASSUME u \notin G PROVE FALSE
    OBVIOUS
  <2>2. a \in T
    BY <1>3
  <2> QED
    BY <1>1, <1>3, <2>1, <2>2, AccessorsTogether
<1>5. ASSUME NEW S \in SUBSET G, S # {}, S # G PROVE \E a \in S, b \in G \ S : Conflict(a, b)
  <2> SUFFICES ASSUME \A a \in S, b \in G \ S : ~ Conflict(a, b) PROVE FALSE
    OBVIOUS
  <2>1. ASSUME NEW a \in S, NEW b \in G \ S PROVE ~ Linked(E, a, b) /\ ~ Linked(E, b, a)
    BY <1>1, EdgesConflict
  <2>2. CASE t \in S
    <3>1. \A v \in S, u \in G \ S : ~ Linked(E, u, v)
      BY <2>1
    <3>2. S = G
      BY <1>2, <2>2, <3>1, VisitedConnected
    <3> QED
      BY <1>5, <3>2
  <2>3. CASE t \notin S
    <3>1. PICK R : R = G \ S
      OBVIOUS
    <3>2. t \in R /\ R \subseteq G /\ G \ R = S
      BY <1>3, <2>3, <3>1
    <3>3. \A v \in R, u \in G \ R : ~ Linked(E, u, v)
      BY <2>1, <3>1, <3>2
    <3>4. R = G
      BY <1>2, <3>2, <3>3, VisitedConnected
    <3> QED
      BY <1>5, <3>2, <3>4
  <2> QED
    BY <2>2, <2>3
<1>6. Component(T, G)
  BY <1>3, <1>4 DEF Component
<1> QED
  BY <1>1, <1>2, <1>3, <1>5, <1>6

\* A set with two different members is large.
LEMMA TwoAreMany ==
    ASSUME NEW G, IsFiniteSet(G), NEW t \in G, NEW u \in G, t # u
    PROVE  Cardinality(G) \in Nat /\ Cardinality(G) >= 2
<1>1. IsFiniteSet({t}) /\ Cardinality({t}) = 1
  BY FS_Singleton
<1>2. PICK P : P = {t} \cup {u}
  OBVIOUS
<1>3. IsFiniteSet(P) /\ Cardinality(P) = 1 + 1
  BY <1>1, <1>2, FS_AddElement
<1>4. P \in SUBSET G
  BY <1>2
<1>5. Cardinality(P) <= Cardinality(G)
  BY <1>4, FS_Subset
<1>6. Cardinality(G) \in Nat
  BY FS_CardinalityType
<1> QED
  BY <1>3, <1>5, <1>6

\* The large subgraphs are the conflict components of two or more, and disjoint.
LEMMA LargeComponents ==
    ASSUME NEW T, T \subseteq Nat, IsFiniteSet(T)
    PROVE  /\ \A G \in Large(T) :
                 /\ G # {} /\ Component(T, G)
                 /\ \A S \in SUBSET G : S # {} /\ S # G => \E a \in S, b \in G \ S : Conflict(a, b)
           /\ \A G, H \in Large(T) : G # H => G \cap H = {}
           /\ \A t, u \in T : t # u /\ Conflict(t, u) => \E G \in Large(T) : {t, u} \subseteq G
<1>1. PICK E : E = build_dependency_graph(T)
  OBVIOUS
<1>2. \A G \in Large(T) : \E t \in T : G = Visited(T, E, t)
  BY <1>1 DEF Large, find_all_subgraphs
<1>3. ASSUME NEW G \in Large(T)
      PROVE  /\ G # {} /\ Component(T, G)
             /\ \A S \in SUBSET G : S # {} /\ S # G => \E a \in S, b \in G \ S : Conflict(a, b)
  <2>1. PICK t \in T : G = Visited(T, E, t)
    BY <1>2
  <2> QED
    BY <1>1, <2>1, VisitedComponent
<1>4. ASSUME NEW G \in Large(T), NEW H \in Large(T), G \cap H # {} PROVE G = H
  <2>1. PICK t \in T : G = Visited(T, E, t)
    BY <1>2
  <2>2. PICK u \in T : H = Visited(T, E, u)
    BY <1>2
  <2>3. H \cap G # {}
    BY <1>4
  <2>4. G \subseteq H
    BY <1>4, <2>1, <2>2, VisitedMeet
  <2>5. H \subseteq G
    BY <2>1, <2>2, <2>3, VisitedMeet
  <2> QED
    BY <2>4, <2>5
<1>5. ASSUME NEW t \in T, NEW u \in T, t # u, Conflict(t, u)
      PROVE  \E G \in Large(T) : {t, u} \subseteq G
  <2>1. PICK G : G = Visited(T, E, t)
    OBVIOUS
  <2>2. t \in G /\ Component(T, G)
    BY <1>1, <2>1, VisitedComponent
  <2>3. u \in G /\ G \in SUBSET T
    BY <1>5, <2>2 DEF Component
  <2>4. IsFiniteSet(G)
    BY <2>3, FS_Subset
  <2>5. Cardinality(G) >= 2
    BY <1>5, <2>2, <2>3, <2>4, TwoAreMany
  <2>6. G \in Large(T)
    BY <1>1, <2>1, <2>5 DEF Large, find_all_subgraphs
  <2> QED
    BY <2>2, <2>3, <2>6
<1> QED
  BY <1>3, <1>4, <1>5


-----------------------------------------------------------------------------
(* The invariant behind PlanExplained.                                     *)

\* The proxies the plan names for t, before or after t was routed by it.
Traces(t) ==
    {p \in Proxy : \/ pre_consensus_routing_plan[t] = p
                   \/ routed[t].planned /\ routed[t].proxy = p}

Batched == UNION batches

Types ==
    /\ batches \subseteq SUBSET TxnId
    /\ channel \in Seq(SUBSET TxnId)
    /\ unassigned \subseteq SUBSET TxnId
    /\ {} \notin unassigned
    /\ inserting \subseteq TxnId
    /\ assignments \in Seq([txns : SUBSET TxnId, proxy : Proxy])
    /\ pre_consensus_routing_plan \in [TxnId -> Proxy \cup {NoProxy}]
    /\ proxy_loads \in [Charged -> Nat]
    /\ routed \in [TxnId -> [proxy : Proxy \cup {NoProxy}, planned : BOOLEAN]]
    /\ \A t \in TxnId : routed[t].planned => routed[t].proxy \in Proxy
    /\ verifier \in [TxnId -> Charged \cup {NoProxy}]

\* The batches are cut from the stream one after the other.
Sealed ==
    /\ \E m \in 0..NumTxns : Batched = 1..m
    /\ \A S, T \in batches : S # T => S \cap T = {}
    /\ {} \notin batches

\* What waits in the channel are batches, each once.
Queued ==
    /\ \A i \in DOMAIN channel : channel[i] \in batches
    /\ \A i, j \in DOMAIN channel : i # j => channel[i] # channel[j]

\* G is a component of a batch that is no longer in the channel.
Whole(G) ==
    /\ \E T \in batches : Component(T, G)
    /\ \A i \in DOMAIN channel : channel[i] \cap G = {}

\* The subgraphs in hand have no transaction in common.
InHand ==
    /\ \A G \in unassigned : Whole(G)
    /\ \A G, H \in unassigned : G # H => G \cap H = {}
    /\ \A i \in DOMAIN assignments : \A G \in unassigned : assignments[i].txns \cap G = {}
    /\ \A i, j \in DOMAIN assignments : i # j => assignments[i].txns \cap assignments[j].txns = {}
    /\ pc = "recv" => unassigned = {} /\ inserting = {} /\ assignments = << >>

\* The subgraph whose entries are being made.
Latest == assignments[Len(assignments)]

Filling ==
    inserting # {} =>
        /\ assignments # << >> /\ inserting \subseteq Latest.txns /\ Whole(Latest.txns)
        /\ \A t \in Latest.txns : Traces(t) \subseteq {Latest.proxy}

\* What has not come up yet, and what is about to be entered, is not in the plan.
Ahead ==
    (TxnId \ Batched) \cup (UNION {channel[i] : i \in DOMAIN channel})
        \cup (UNION unassigned) \cup inserting

Fresh == \A t \in Ahead : Traces(t) = {}

\* The plan agrees with itself.
OneProxy ==
    /\ \A T \in batches : \A t, u \in T :
          Conflict(t, u) => \A p \in Traces(t), q \in Traces(u) : p = q
    /\ \A t \in TxnId : routed[t].planned => pre_consensus_routing_plan[t] = NoProxy

\* The loads, up to what is still to be entered and still to be accounted for.
Owing(p) == {t \in TxnId : \E i \in DOMAIN assignments :
                              assignments[i].proxy = p /\ t \in assignments[i].txns}
Entering(p) == {t \in inserting : Latest.proxy = p}
Routes(p) == {t \in TxnId : routed[t].proxy = p}
Entries(p) == {t \in TxnId : pre_consensus_routing_plan[t] = p}
Verifies(p) == {t \in TxnId : verifier[t] = p}

LoadsAdd ==
    \A p \in Proxy :
        proxy_loads[p] + Cardinality(Owing(p)) =
            Cardinality(Routes(p)) + Cardinality(Entries(p)) + Cardinality(Entering(p))
                + Cardinality(Verifies(p))

SchedInv ==
    /\ Types /\ Sealed /\ Queued /\ InHand
    /\ Filling /\ Fresh /\ OneProxy /\ LoadsAdd

-----------------------------------------------------------------------------
(* Small facts.                                                            *)

\* NoProxy is not a proxy.
LEMMA NotAProxy == NoProxy \notin Proxy /\ NumProxies \in Nat /\ NumTxns \in Nat
  BY PSAssumption DEF NoProxy, Proxy

\* Nor has it a load, as every proxy has.
LEMMA HaveLoads == Proxy \subseteq Charged /\ 0 \in Charged /\ NoProxy \notin Charged
  BY NotAProxy DEF NoProxy, Charged

\* What is submitted is part of the stream.
LEMMA SubmittedTxns == Submitted \subseteq TxnId
  BY PSAssumption DEF Submitted, TxnId

\* Sets of transactions are finite.
LEMMA TxnsFinite ==
    ASSUME NEW S, S \subseteq TxnId
    PROVE  IsFiniteSet(S) /\ Cardinality(S) \in Nat /\ S \subseteq Nat
<1>1. 1 \in Int /\ NumTxns \in Int
  BY PSAssumption
<1>2. IsFiniteSet(TxnId)
  BY <1>1, FS_Interval DEF TxnId
<1>3. S \in SUBSET TxnId
  OBVIOUS
<1>4. IsFiniteSet(S)
  BY <1>2, <1>3, FS_Subset
<1>5. S \subseteq Nat
  BY PSAssumption DEF TxnId
<1> QED
  BY <1>4, <1>5, FS_CardinalityType

\* One transaction more.
LEMMA OneMore ==
    ASSUME NEW S, S \subseteq TxnId, NEW t, t \notin S, NEW R, R = S \cup {t}
    PROVE  Cardinality(S) \in Nat /\ Cardinality(R) = Cardinality(S) + 1
<1>1. IsFiniteSet(S) /\ Cardinality(S) \in Nat
  BY TxnsFinite
<1> QED
  BY <1>1, FS_AddElement

\* Two disjoint sets together.
LEMMA Together ==
    ASSUME NEW S, S \subseteq TxnId, NEW U, U \subseteq TxnId, S \cap U = {}, NEW R, R = S \cup U
    PROVE  /\ Cardinality(S) \in Nat /\ Cardinality(U) \in Nat
           /\ Cardinality(R) = Cardinality(S) + Cardinality(U)
<1>1. IsFiniteSet(S) /\ Cardinality(S) \in Nat /\ IsFiniteSet(U) /\ Cardinality(U) \in Nat
  BY TxnsFinite
<1>2. Cardinality(S \cap U) = 0
  BY FS_EmptySet
<1>3. Cardinality(S \cup U) = Cardinality(S) + Cardinality(U) - Cardinality(S \cap U)
  BY <1>1, FS_Union
<1> QED
  BY <1>1, <1>2, <1>3

\* What the loads are compared with are finite sets.
LEMMA LoadSets ==
    ASSUME Types, NEW p
    PROVE  /\ Owing(p) \subseteq TxnId /\ Entering(p) \subseteq TxnId
           /\ Routes(p) \subseteq TxnId /\ Entries(p) \subseteq TxnId
           /\ Cardinality(Owing(p)) \in Nat /\ Cardinality(Entering(p)) \in Nat
           /\ Cardinality(Routes(p)) \in Nat /\ Cardinality(Entries(p)) \in Nat
           /\ Verifies(p) \subseteq TxnId /\ Cardinality(Verifies(p)) \in Nat
<1>1. /\ Owing(p) \subseteq TxnId /\ Entering(p) \subseteq TxnId
      /\ Routes(p) \subseteq TxnId /\ Entries(p) \subseteq TxnId /\ Verifies(p) \subseteq TxnId
  BY DEF Types, Owing, Entering, Routes, Entries, Verifies
<1> QED
  BY <1>1, TxnsFinite

\* The property follows.
LEMMA SchedExplains == SchedInv => PlanExplained
<1> SUFFICES ASSUME SchedInv PROVE PlanExplained
  OBVIOUS
<1>1. /\ Types /\ Sealed /\ InHand /\ OneProxy /\ LoadsAdd
  BY DEF SchedInv
<1>2. ASSUME NEW T \in batches, NEW t \in T, NEW u \in T, Conflict(t, u),
             routed[t].planned, routed[u].planned
      PROVE  routed[t].proxy = routed[u].proxy
  <2>1. t \in TxnId /\ u \in TxnId
    BY <1>1 DEF Types
  <2>2. routed[t].proxy \in Traces(t) /\ routed[u].proxy \in Traces(u)
    BY <1>1, <1>2, <2>1 DEF Types, Traces
  <2> QED
    BY <1>1, <1>2, <2>2 DEF OneProxy
<1>3. ASSUME NEW t \in TxnId, pre_consensus_routing_plan[t] # NoProxy PROVE ~ routed[t].planned
  BY <1>1, <1>3 DEF OneProxy
<1>4. ASSUME pc = "recv", NEW p \in Proxy
      PROVE  proxy_loads[p] = Cardinality(Routes(p)) + Cardinality(Entries(p)) + Cardinality(Verifies(p))
  <2>1. inserting = {} /\ assignments = << >>
    BY <1>1, <1>4 DEF InHand
  <2>2. Owing(p) = {} /\ Entering(p) = {}
    BY <2>1 DEF Owing, Entering
  <2>3. Cardinality(Owing(p)) = 0 /\ Cardinality(Entering(p)) = 0
    BY <2>2, FS_EmptySet
  <2>4. /\ Cardinality(Routes(p)) \in Nat /\ Cardinality(Entries(p)) \in Nat /\ proxy_loads[p] \in Nat
        /\ Cardinality(Verifies(p)) \in Nat
    BY <1>1, LoadSets, HaveLoads DEF Types
  <2>5. proxy_loads[p] + 0 = Cardinality(Routes(p)) + Cardinality(Entries(p)) + 0 + Cardinality(Verifies(p))
    BY <1>1, <2>3 DEF LoadsAdd
  <2> QED
    BY <2>4, <2>5
<1>5. \A p : /\ Routes(p) = {t \in TxnId : routed[t].proxy = p}
             /\ Entries(p) = {t \in TxnId : pre_consensus_routing_plan[t] = p}
             /\ Verifies(p) = {t \in TxnId : verifier[t] = p}
  BY DEF Routes, Entries, Verifies
<1> QED
  BY <1>2, <1>3, <1>4, <1>5 DEF PlanExplained

\* Before the first batch there is nothing to explain.
LEMMA SchedStarts == PSInit => SchedInv
<1> SUFFICES ASSUME PSInit PROVE SchedInv
  OBVIOUS
<1> USE DEF PSInit, NotRouted
<1>1. Types
  BY NotAProxy, HaveLoads DEF Types
<1>2. Sealed
  <2>1. UNION batches = {}
    OBVIOUS
  <2>2. 0 \in 0..NumTxns /\ 1..0 = {}
    BY NotAProxy
  <2> QED
    BY <2>1, <2>2 DEF Sealed, Batched
<1>3. Queued /\ InHand /\ Filling
  BY DEF Queued, InHand, Filling
<1>4. \A t \in TxnId : Traces(t) = {}
  BY NotAProxy DEF Traces
<1>5. Ahead \subseteq TxnId
  BY DEF Ahead
<1>6. Fresh
  BY <1>4, <1>5 DEF Fresh
<1>7. OneProxy
  BY DEF OneProxy
<1>8. ASSUME NEW p \in Proxy
      PROVE  proxy_loads[p] + Cardinality(Owing(p)) =
                 Cardinality(Routes(p)) + Cardinality(Entries(p)) + Cardinality(Entering(p))
                + Cardinality(Verifies(p))
  <2>1. Owing(p) = {} /\ Routes(p) = {} /\ Entries(p) = {} /\ Entering(p) = {} /\ Verifies(p) = {}
    BY NotAProxy DEF Owing, Routes, Entries, Entering, Verifies
  <2>2. Cardinality({}) = 0
    BY FS_EmptySet
  <2>3. proxy_loads[p] = 0
    BY HaveLoads
  <2> QED
    BY <2>1, <2>2, <2>3
<1> QED
  BY <1>1, <1>2, <1>3, <1>6, <1>7, <1>8 DEF SchedInv, LoadsAdd


-----------------------------------------------------------------------------
(* The steps, one lemma each.                                              *)

\* What the invariant reads.
schedVars == <<objects, batches, channel, pc, unassigned, inserting, assignments,
               pre_consensus_routing_plan, proxy_loads, routed, verifier>>

\* Steps that touch none of it, delivering a batch among them.
LEMMA SchedUnchanged == ASSUME SchedInv, UNCHANGED schedVars PROVE SchedInv'
<1> USE DEF schedVars
<1>1. \A T, G : Component(T, G)' = Component(T, G)
  BY DEF Component, Conflict
<1>2. \A G : Whole(G)' = Whole(G)
  BY <1>1 DEF Whole
<1>3. (Types /\ Sealed /\ Queued)' = (Types /\ Sealed /\ Queued)
  BY DEF Types, Sealed, Batched, Queued
<1>4. InHand => InHand'
  BY <1>2 DEF InHand
<1>5. \A t : Traces(t)' = Traces(t)
  BY DEF Traces
<1>6. Filling => Filling'
  <2>1. PICK L : L = Latest /\ L = Latest'
    BY DEF Latest
  <2> QED
    BY <1>2, <1>5, <2>1 DEF Filling
<1>7. Ahead' = Ahead
  BY DEF Ahead, Batched
<1>8. Fresh => Fresh'
  BY <1>5, <1>7 DEF Fresh
<1>9. OneProxy => OneProxy'
  BY <1>5 DEF OneProxy, Conflict
<1>10. LoadsAdd => LoadsAdd'
  BY DEF LoadsAdd, Latest, Owing, Entering, Routes, Entries, Verifies
<1> QED
  BY <1>3, <1>4, <1>6, <1>8, <1>9, <1>10 DEF SchedInv

\* The plan's names stay what they are.
LEMMA TracesStay ==
    ASSUME UNCHANGED <<pre_consensus_routing_plan, routed>>
    PROVE  \A t : Traces(t)' = Traces(t)
  BY DEF Traces

\* So do the loads and what they are compared with.
LEMMA LoadsStay ==
    ASSUME LoadsAdd, UNCHANGED <<inserting, assignments, pre_consensus_routing_plan, proxy_loads, routed, verifier>>
    PROVE  LoadsAdd'
  BY DEF LoadsAdd, Latest, Owing, Entering, Routes, Entries, Verifies

\* A batch is sealed: all of it is new to the scheduler and to the plan.
LEMMA SealKeeps ==
    ASSUME SchedInv, NEW n \in 1..BatchSize, Seal(n)
    PROVE  SchedInv'
<1>1. /\ Types /\ Sealed /\ Queued /\ InHand /\ Filling /\ Fresh /\ OneProxy /\ LoadsAdd
  BY DEF SchedInv
<1>2. PICK m \in 0..NumTxns : Batched = 1..m
  BY <1>1 DEF Sealed
<1>3. m \in Nat /\ n \in Nat /\ n >= 1 /\ NumTxns \in Nat
  BY PSAssumption
<1>4. Cardinality(UNION batches) = m
  <2>1. 1 \in Int /\ m \in Int
    BY <1>3
  <2>2. Cardinality(1..m) = IF 1 > m THEN 0 ELSE m - 1 + 1
    BY <2>1, FS_Interval
  <2>3. Cardinality(1..m) = m
    BY <1>3, <2>2
  <2> QED
    BY <1>2, <2>3 DEF Batched
<1>5. PICK T : T = (m + 1)..(m + n)
  OBVIOUS
<1>6. /\ T \subseteq TxnId /\ batches' = batches \cup {T}
      /\ (channel' = Append(channel, T) \/ UNCHANGED channel)
  <2>1. (m + 1) + n - 1 = m + n
    BY <1>3
  <2> QED
    BY <1>4, <1>5, <2>1, SubmittedTxns DEF Seal
<1>7. UNCHANGED <<objects, pc, unassigned, inserting, assignments, pre_consensus_routing_plan, proxy_loads, routed, verifier>>
  BY DEF Seal, batchVars
<1>8. m + n \in T /\ m + n <= NumTxns
  <2>1. m + n \in T
    BY <1>3, <1>5
  <2> QED
    BY <1>6, <2>1 DEF TxnId
<1>9. T \cap Batched = {} /\ Batched' = Batched \cup T /\ Batched' = 1..(m + n)
  <2>1. T \cap Batched = {}
    BY <1>2, <1>3, <1>5
  <2>2. Batched' = Batched \cup T
    BY <1>6 DEF Batched
  <2>3. (1..m) \cup T = 1..(m + n)
    BY <1>3, <1>5
  <2> QED
    BY <1>2, <2>1, <2>2, <2>3
<1>10. \A S \in batches : S \cap T = {} /\ S # T
  <2>1. \A S \in batches : S \subseteq Batched
    BY DEF Batched
  <2> QED
    BY <1>8, <1>9, <2>1
<1>11. Types'
  <2>1. channel' \in Seq(SUBSET TxnId)
    <3>1. channel \in Seq(SUBSET TxnId) /\ T \in SUBSET TxnId
      BY <1>1, <1>6 DEF Types
    <3>2. Append(channel, T) \in Seq(SUBSET TxnId)
      BY <3>1
    <3> QED
      BY <1>6, <3>1, <3>2
  <2> QED
    BY <1>1, <1>6, <1>7, <2>1 DEF Types
<1>12. Sealed'
  <2>1. m + n \in 0..NumTxns
    BY <1>3, <1>8
  <2>2. \A S, U \in batches' : S # U => S \cap U = {}
    BY <1>1, <1>6, <1>10 DEF Sealed
  <2>3. {} \notin batches'
    BY <1>1, <1>6, <1>8 DEF Sealed
  <2> QED
    BY <1>9, <2>1, <2>2, <2>3 DEF Sealed
<1>13. PICK k \in Nat : k = Len(channel) /\ DOMAIN channel = 1..k
  BY <1>1 DEF Types
<1>14. \A i \in DOMAIN channel' : channel'[i] = T \/ (i \in DOMAIN channel /\ channel'[i] = channel[i])
  <2>1. channel \in Seq(SUBSET TxnId) /\ T \in SUBSET TxnId
    BY <1>1, <1>6 DEF Types
  <2>2. CASE channel' = Append(channel, T)
    BY <2>1, <2>2
  <2> QED
    BY <1>6, <2>2
<1>15. Queued'
  <2>1. \A i \in DOMAIN channel' : channel'[i] \in batches'
    BY <1>1, <1>6, <1>14 DEF Queued
  <2>2. ASSUME NEW i \in DOMAIN channel', NEW j \in DOMAIN channel', i # j PROVE channel'[i] # channel'[j]
    <3>1. CASE UNCHANGED channel
      BY <1>1, <2>2, <3>1 DEF Queued
    <3>2. CASE channel' = Append(channel, T)
      <4>1. /\ DOMAIN channel' = 1..(k + 1) /\ channel'[k + 1] = T
            /\ \A x \in 1..k : channel'[x] = channel[x]
        BY <1>1, <1>13, <3>2 DEF Types
      <4>2. \A x \in 1..k : channel[x] \in batches
        BY <1>1, <1>13 DEF Queued
      <4>3. \A x, y \in 1..k : x # y => channel[x] # channel[y]
        BY <1>1, <1>13 DEF Queued
      <4>4. (i = k + 1 \/ i \in 1..k) /\ (j = k + 1 \/ j \in 1..k)
        BY <4>1
      <4> QED
        BY <1>10, <2>2, <4>1, <4>2, <4>3, <4>4
    <3> QED
      BY <1>6, <3>1, <3>2
  <2> QED
    BY <2>1, <2>2 DEF Queued
<1>16. ASSUME NEW G, Whole(G) PROVE Whole(G)'
  <2>1. PICK S \in batches : Component(S, G)
    BY <1>16 DEF Whole
  <2>2. S \in batches' /\ Component(S, G)'
    BY <1>6, <1>7, <2>1 DEF Component, Conflict
  <2>3. G \cap T = {}
    BY <1>10, <2>1 DEF Component
  <2>4. \A i \in DOMAIN channel' : channel'[i] \cap G = {}
    BY <1>14, <1>16, <2>3 DEF Whole
  <2> QED
    BY <2>2, <2>4 DEF Whole
<1>17. InHand'
  BY <1>1, <1>7, <1>16 DEF InHand
<1>18. \A t : Traces(t)' = Traces(t)
  BY <1>7, TracesStay
<1>19. Filling'
  <2>1. Latest' = Latest
    BY <1>7 DEF Latest
  <2>2. PICK L : L = Latest
    OBVIOUS
  <2> QED
    BY <1>1, <1>7, <1>16, <1>18, <2>1, <2>2 DEF Filling
<1>20. Ahead' \subseteq Ahead
  <2>1. \A i \in DOMAIN channel' : channel'[i] \subseteq Ahead
    BY <1>6, <1>9, <1>14 DEF Ahead
  <2>2. TxnId \ Batched' \subseteq Ahead
    BY <1>9 DEF Ahead
  <2> QED
    BY <1>7, <2>1, <2>2 DEF Ahead
<1>21. Fresh'
  BY <1>1, <1>18, <1>20 DEF Fresh
<1>22. OneProxy'
  <2>1. \A t \in T : Traces(t) = {}
    BY <1>1, <1>6, <1>9 DEF Fresh, Ahead
  <2>2. ASSUME NEW S \in batches', NEW t \in S, NEW u \in S, Conflict(t, u)',
               NEW p \in Traces(t)', NEW q \in Traces(u)'
        PROVE  p = q
    <3>1. Conflict(t, u)
      BY <1>7, <2>2 DEF Conflict
    <3>2. p \in Traces(t) /\ q \in Traces(u)
      BY <1>18
    <3>3. S \in batches
      BY <1>6, <2>1, <3>2
    <3> QED
      BY <1>1, <3>1, <3>2, <3>3 DEF OneProxy
  <2> QED
    BY <1>1, <1>7, <2>2 DEF OneProxy
<1>23. LoadsAdd'
  BY <1>1, <1>7, LoadsStay
<1> QED
  BY <1>11, <1>12, <1>15, <1>17, <1>19, <1>21, <1>22, <1>23 DEF SchedInv


\* The parts of what is ahead.
LEMMA AheadPrimed ==
    ASSUME NEW S, TxnId \ Batched' \subseteq S, inserting' \subseteq S, UNION unassigned' \subseteq S,
           \A i \in DOMAIN channel' : channel'[i] \subseteq S
    PROVE  Ahead' \subseteq S
<1> SUFFICES ASSUME NEW t \in Ahead' PROVE t \in S
  OBVIOUS
<1>1. \/ t \in TxnId \ Batched' \/ t \in UNION unassigned' \/ t \in inserting'
      \/ t \in UNION {channel'[i] : i \in DOMAIN channel'}
  BY DEF Ahead
<1>2. CASE t \in UNION {channel'[i] : i \in DOMAIN channel'}
  <2>1. PICK i \in DOMAIN channel' : t \in channel'[i]
    BY <1>2
  <2> QED
    BY <2>1
<1> QED
  BY <1>1, <1>2

\* The first batch of the channel.
LEMMA HeadOfChannel ==
    ASSUME Types, channel # << >>
    PROVE  /\ Head(channel) = channel[1] /\ 1 \in DOMAIN channel /\ Tail(channel) \in Seq(SUBSET TxnId)
           /\ Head(channel) \in SUBSET TxnId
           /\ \A i \in DOMAIN Tail(channel) :
                 i + 1 \in DOMAIN channel /\ i + 1 # 1 /\ Tail(channel)[i] = channel[i + 1]
<1>1. channel \in Seq(SUBSET TxnId)
  BY DEF Types
<1> QED
  BY <1>1

\* The scheduler takes a batch apart.
LEMMA ScheduleKeeps ==
    ASSUME SchedInv, ScheduleBatch
    PROVE  SchedInv'
<1>1. /\ Types /\ Sealed /\ Queued /\ InHand /\ Filling /\ Fresh /\ OneProxy /\ LoadsAdd
  BY DEF SchedInv
<1>2. PICK T : T = Head(channel)
  OBVIOUS
<1>3. /\ pc = "recv" /\ channel # << >> /\ channel' = Tail(channel)
      /\ (UNCHANGED unassigned \/ (unassigned' = Large(T) /\ pc' = "assign"))
      /\ (pc' = "recv" => UNCHANGED unassigned)
      /\ UNCHANGED <<objects, batches, inserting, assignments, pre_consensus_routing_plan, proxy_loads, routed, verifier>>
  BY <1>2 DEF ScheduleBatch, inputVars, Large
<1>4. unassigned = {} /\ inserting = {} /\ assignments = << >>
  BY <1>1, <1>3 DEF InHand
<1>5. /\ T = channel[1] /\ 1 \in DOMAIN channel /\ channel' \in Seq(SUBSET TxnId) /\ T \in SUBSET TxnId
      /\ \A i \in DOMAIN channel' : i + 1 \in DOMAIN channel /\ i + 1 # 1 /\ channel'[i] = channel[i + 1]
  BY <1>1, <1>2, <1>3, HeadOfChannel
<1>6. T \in batches
  BY <1>1, <1>5 DEF Queued
<1>7. /\ \A G \in Large(T) : G # {} /\ Component(T, G)
      /\ \A G, H \in Large(T) : G # H => G \cap H = {}
  BY <1>5, TxnsFinite, LargeComponents
<1>8. /\ \A G \in unassigned' : G # {} /\ Component(T, G)
      /\ \A G, H \in unassigned' : G # H => G \cap H = {}
  BY <1>3, <1>4, <1>7
<1>9. \A G \in unassigned' : G \subseteq T
  BY <1>8 DEF Component
<1>10. Types'
  BY <1>1, <1>3, <1>5, <1>8, <1>9 DEF Types
<1>11. Sealed'
  BY <1>1, <1>3 DEF Sealed, Batched
<1>12. Queued'
  <2>1. \A i \in DOMAIN channel' : channel'[i] \in batches'
    BY <1>1, <1>3, <1>5 DEF Queued
  <2>2. ASSUME NEW i \in DOMAIN channel', NEW j \in DOMAIN channel', i # j PROVE channel'[i] # channel'[j]
    <3>1. i \in Int /\ j \in Int
      BY <1>5
    <3>2. i + 1 # j + 1
      BY <2>2, <3>1
    <3> QED
      BY <1>1, <1>5, <3>2 DEF Queued
  <2> QED
    BY <2>1, <2>2 DEF Queued
<1>13. \A G \in unassigned' : Whole(G)'
  <2> SUFFICES ASSUME NEW G \in unassigned' PROVE Whole(G)'
    OBVIOUS
  <2>1. Component(T, G)' /\ T \in batches'
    BY <1>3, <1>6, <1>8 DEF Component, Conflict
  <2>2. ASSUME NEW i \in DOMAIN channel' PROVE channel'[i] \cap G = {}
    <3>1. channel'[i] # T /\ channel'[i] \in batches
      BY <1>1, <1>5 DEF Queued
    <3>2. channel'[i] \cap T = {}
      BY <1>1, <1>6, <3>1 DEF Sealed
    <3> QED
      BY <1>9, <3>2
  <2> QED
    BY <2>1, <2>2 DEF Whole
<1>14. InHand'
  BY <1>3, <1>4, <1>8, <1>13 DEF InHand
<1>15. \A t : Traces(t)' = Traces(t)
  BY <1>3, TracesStay
<1>16. Filling'
  BY <1>3, <1>4 DEF Filling
<1>17. Ahead' \subseteq Ahead
  <2>1. T \subseteq Ahead
    BY <1>5 DEF Ahead
  <2>2. UNION unassigned' \subseteq Ahead
    BY <1>9, <2>1
  <2>3. \A i \in DOMAIN channel' : channel'[i] \subseteq Ahead
    BY <1>5 DEF Ahead
  <2>4. TxnId \ Batched' \subseteq Ahead /\ inserting' \subseteq Ahead
    BY <1>3 DEF Ahead, Batched
  <2> QED
    <3>1. PICK S : S = Ahead
      OBVIOUS
    <3> QED
      BY <2>2, <2>3, <2>4, <3>1, AheadPrimed
<1>18. Fresh'
  BY <1>1, <1>15, <1>17 DEF Fresh
<1>19. OneProxy'
  BY <1>1, <1>3, <1>15 DEF OneProxy, Conflict
<1>20. LoadsAdd'
  BY <1>1, <1>3, LoadsStay
<1> QED
  BY <1>10, <1>11, <1>12, <1>14, <1>16, <1>18, <1>19, <1>20 DEF SchedInv

\* The largest subgraph, the first found among equals, exists.
LEMMA NextIsOne ==
    ASSUME Types, unassigned # {}
    PROVE  NextSubgraph \in unassigned
<1>1. \A G \in unassigned : G \subseteq TxnId /\ G # {}
  BY DEF Types
<1>2. \A G \in unassigned : Cardinality(G) \in 0..NumTxns
  <2> SUFFICES ASSUME NEW G \in unassigned PROVE Cardinality(G) \in 0..NumTxns
    OBVIOUS
  <2>1. IsFiniteSet(TxnId) /\ Cardinality(G) \in Nat
    BY <1>1, TxnsFinite
  <2>2. G \in SUBSET TxnId
    BY <1>1
  <2>3. Cardinality(G) <= Cardinality(TxnId)
    BY <2>1, <2>2, FS_Subset
  <2>4. 1 \in Int /\ NumTxns \in Int /\ NumTxns \in Nat
    BY PSAssumption
  <2>5. Cardinality(TxnId) = IF 1 > NumTxns THEN 0 ELSE NumTxns - 1 + 1
    BY <2>4, FS_Interval DEF TxnId
  <2> QED
    BY <2>1, <2>3, <2>4, <2>5
<1>3. \A G \in unassigned : Min(G) \in Nat
  <2> SUFFICES ASSUME NEW G \in unassigned PROVE Min(G) \in Nat
    OBVIOUS
  <2>1. G \subseteq Nat /\ G # {}
    BY <1>1, TxnsFinite
  <2>2. \E x \in G : \A y \in G : x <= y
    BY <2>1, NatSetHasMin
  <2>3. Min(G) \in G
    BY <2>2 DEF Min
  <2> QED
    BY <2>1, <2>3
<1> DEFINE Sizes == {Cardinality(G) : G \in unassigned}
<1>4. PICK c \in Sizes : \A x \in Sizes : c >= x
  <2>1. Sizes \subseteq 0..NumTxns /\ Sizes # {}
    BY <1>2
  <2>2. NumTxns \in Nat
    BY PSAssumption
  <2> HIDE DEF Sizes
  <2> QED
    BY <2>1, <2>2, BoundedSetHasMax
<1> DEFINE Firsts == {Min(G) : G \in {H \in unassigned : Cardinality(H) = c}}
<1>5. PICK f \in Firsts : \A x \in Firsts : f <= x
  <2>1. Firsts \subseteq Nat
    BY <1>3
  <2>2. Firsts # {}
    BY <1>4
  <2> HIDE DEF Firsts
  <2> QED
    BY <2>1, <2>2, NatSetHasMin
<1>6. PICK G \in unassigned : Cardinality(G) = c /\ Min(G) = f
  BY <1>5
<1>7. ASSUME NEW H \in unassigned
      PROVE  \/ Cardinality(H) < Cardinality(G)
             \/ Cardinality(H) = Cardinality(G) /\ Min(G) <= Min(H)
  <2>1. Cardinality(H) \in Sizes /\ c >= Cardinality(H)
    BY <1>4
  <2>2. c \in Nat /\ Cardinality(H) \in Nat
    BY <1>2, <1>6
  <2>3. CASE Cardinality(H) = c
    <3>1. Min(H) \in Firsts
      BY <2>3
    <3> HIDE DEF Firsts
    <3> QED
      BY <1>5, <1>6, <2>3, <3>1
  <2>4. CASE Cardinality(H) # c
    BY <1>6, <2>1, <2>2, <2>4
  <2> QED
    BY <2>3, <2>4
<1> QED
  BY <1>6, <1>7 DEF NextSubgraph


\* The scheduler's thread ends on an index outside the table.
LEMMA PanicKeeps ==
    ASSUME SchedInv, pc' = "panicked", channel' = << >>,
           UNCHANGED <<objects, batches, unassigned, inserting, assignments,
                       pre_consensus_routing_plan, proxy_loads, routed, verifier>>
    PROVE  SchedInv'
<1>1. /\ Types /\ Sealed /\ Queued /\ InHand /\ Filling /\ Fresh /\ OneProxy /\ LoadsAdd
  BY DEF SchedInv
<1>2. Types' /\ Sealed' /\ Queued'
  <2>1. << >> \in Seq(SUBSET TxnId)
    OBVIOUS
  <2> QED
    BY <1>1, <2>1 DEF Types, Sealed, Batched, Queued
<1>3. ASSUME NEW G, Whole(G) PROVE Whole(G)'
  BY <1>3 DEF Whole, Component, Conflict
<1>4. InHand'
  BY <1>1, <1>3 DEF InHand
<1>5. \A t : Traces(t)' = Traces(t)
  BY TracesStay
<1>6. Filling'
  <2>1. PICK L : L = Latest /\ L = Latest'
    BY DEF Latest
  <2> QED
    BY <1>1, <1>3, <1>5, <2>1 DEF Filling
<1>7. Fresh'
  <2>1. PICK S : S = Ahead
    OBVIOUS
  <2>2. /\ TxnId \ Batched' \subseteq S /\ inserting' \subseteq S /\ UNION unassigned' \subseteq S
        /\ \A i \in DOMAIN channel' : channel'[i] \subseteq S
    BY <2>1 DEF Ahead, Batched
  <2>3. Ahead' \subseteq S
    BY <2>2, AheadPrimed
  <2> QED
    BY <1>1, <1>5, <2>1, <2>3 DEF Fresh
<1>8. OneProxy'
  BY <1>1, <1>5 DEF OneProxy, Conflict
<1>9. LoadsAdd'
  BY <1>1, LoadsStay
<1> QED
  BY <1>2, <1>4, <1>6, <1>7, <1>8, <1>9 DEF SchedInv

\* A subgraph gets its proxy: what is owed and what is to be entered grow by the same transactions.
LEMMA ChoiceKeeps ==
    ASSUME SchedInv, inserting = {}, NEW G \in unassigned, NEW p \in Proxy, pc # "recv",
           assignments' = Append(assignments, [txns |-> G, proxy |-> p]),
           unassigned' = unassigned \ {G}, inserting' = G,
           UNCHANGED <<objects, batches, channel, pc, pre_consensus_routing_plan, proxy_loads, routed, verifier>>
    PROVE  SchedInv'
<1>1. /\ Types /\ Sealed /\ Queued /\ InHand /\ Filling /\ Fresh /\ OneProxy /\ LoadsAdd
  BY DEF SchedInv
<1>2. PICK a : a = [txns |-> G, proxy |-> p]
  OBVIOUS
<1>3. PICK k \in Nat : k = Len(assignments) /\ DOMAIN assignments = 1..k
  BY <1>1 DEF Types
<1>4. a \in [txns : SUBSET TxnId, proxy : Proxy] /\ a.txns = G /\ a.proxy = p /\ G \subseteq TxnId
  BY <1>1, <1>2 DEF Types
<1>5. /\ assignments' \in Seq([txns : SUBSET TxnId, proxy : Proxy]) /\ Len(assignments') = k + 1
      /\ DOMAIN assignments' = 1..(k + 1) /\ assignments'[k + 1] = a
      /\ \A i \in 1..k : assignments'[i] = assignments[i]
  <2>1. assignments \in Seq([txns : SUBSET TxnId, proxy : Proxy])
    BY <1>1 DEF Types
  <2>2. assignments' = Append(assignments, a)
    BY <1>2
  <2> HIDE DEF Types
  <2> QED
    BY <1>3, <1>4, <2>1, <2>2
<1>6. Latest' = a
  BY <1>5 DEF Latest
<1>7. Types' /\ Sealed' /\ Queued'
  BY <1>1, <1>4, <1>5 DEF Types, Sealed, Batched, Queued
<1>8. \A H : Whole(H) => Whole(H)'
  BY DEF Whole, Component, Conflict
<1>9. \A i \in 1..k : assignments[i].txns \cap G = {}
  BY <1>1, <1>3 DEF InHand
<1>10. InHand'
  <2>1. ASSUME NEW i \in 1..(k + 1), NEW H \in unassigned' PROVE assignments'[i].txns \cap H = {}
    <3>1. CASE i = k + 1
      BY <1>1, <1>4, <1>5, <3>1 DEF InHand
    <3>2. CASE i \in 1..k
      BY <1>1, <1>3, <1>5, <3>2 DEF InHand
    <3>3. i = k + 1 \/ i \in 1..k
      OBVIOUS
    <3> QED
      BY <3>1, <3>2, <3>3
  <2>2. ASSUME NEW i \in 1..(k + 1), NEW j \in 1..(k + 1), i # j
        PROVE  assignments'[i].txns \cap assignments'[j].txns = {}
    <3>1. (i = k + 1 \/ i \in 1..k) /\ (j = k + 1 \/ j \in 1..k)
      OBVIOUS
    <3>2. CASE i \in 1..k /\ j \in 1..k
      BY <1>1, <1>3, <1>5, <2>2, <3>2 DEF InHand
    <3>3. CASE i = k + 1 /\ j \in 1..k
      BY <1>4, <1>5, <1>9, <3>3
    <3>4. CASE i \in 1..k /\ j = k + 1
      BY <1>4, <1>5, <1>9, <3>4
    <3> QED
      BY <2>2, <3>1, <3>2, <3>3, <3>4
  <2>3. \A H \in unassigned' : Whole(H)'
    BY <1>1, <1>8 DEF InHand
  <2>4. \A H, J \in unassigned' : H # J => H \cap J = {}
    BY <1>1 DEF InHand
  <2> QED
    BY <1>5, <2>1, <2>2, <2>3, <2>4 DEF InHand
<1>11. \A t : Traces(t)' = Traces(t)
  BY TracesStay
<1>12. \A t \in G : Traces(t) = {}
  BY <1>1 DEF Fresh, Ahead
<1>13. Filling'
  <2>1. Whole(G)'
    BY <1>1, <1>8 DEF InHand
  <2>2. assignments' # << >>
    BY <1>3, <1>5
  <2> QED
    BY <1>4, <1>6, <1>11, <1>12, <2>1, <2>2 DEF Filling
<1>14. Fresh'
  <2>1. PICK S : S = Ahead
    OBVIOUS
  <2>2. /\ TxnId \ Batched' \subseteq S /\ inserting' \subseteq S /\ UNION unassigned' \subseteq S
        /\ \A i \in DOMAIN channel' : channel'[i] \subseteq S
    BY <2>1 DEF Ahead, Batched
  <2>3. Ahead' \subseteq S
    BY <2>2, AheadPrimed
  <2> QED
    BY <1>1, <1>11, <2>1, <2>3 DEF Fresh
<1>15. OneProxy'
  BY <1>1, <1>11 DEF OneProxy, Conflict
<1>16. ASSUME NEW q \in Proxy
       PROVE  proxy_loads'[q] + Cardinality(Owing(q)') =
                  Cardinality(Routes(q)') + Cardinality(Entries(q)') + Cardinality(Entering(q)')
                      + Cardinality(Verifies(q)')
  <2>1. /\ Routes(q)' = Routes(q) /\ Entries(q)' = Entries(q) /\ proxy_loads'[q] = proxy_loads[q]
        /\ Verifies(q)' = Verifies(q)
    BY DEF Routes, Entries, Verifies
  <2>2. Entering(q) = {}
    BY DEF Entering
  <2>3. Cardinality(Entering(q)) = 0
    BY <2>2, FS_EmptySet
  <2>4. /\ Cardinality(Owing(q)) \in Nat /\ Cardinality(Routes(q)) \in Nat
        /\ Cardinality(Entries(q)) \in Nat /\ proxy_loads[q] \in Nat /\ Owing(q) \subseteq TxnId
        /\ Cardinality(Verifies(q)) \in Nat
    BY <1>1, LoadSets, HaveLoads DEF Types
  <2>5. proxy_loads[q] + Cardinality(Owing(q)) =
            Cardinality(Routes(q)) + Cardinality(Entries(q)) + 0 + Cardinality(Verifies(q))
    BY <1>1, <2>3 DEF LoadsAdd
  <2>6. CASE q = p
    <3>1. Entering(q)' = G
      BY <1>4, <1>6, <2>6 DEF Entering
    <3>2. PICK R : R = Owing(q)'
      OBVIOUS
    <3>3. R = Owing(q) \cup G
      <4>1. \A t \in Owing(q) : t \in R
        BY <1>3, <1>5, <3>2 DEF Owing
      <4>2. \A t \in G : t \in R
        <5>1. k + 1 \in DOMAIN assignments'
          BY <1>5
        <5> QED
          BY <1>4, <1>5, <2>6, <3>2, <5>1 DEF Owing
      <4>3. ASSUME NEW t \in R, t \notin G PROVE t \in Owing(q)
        <5>1. PICK i \in 1..(k + 1) : assignments'[i].proxy = q /\ t \in assignments'[i].txns
          BY <1>5, <3>2 DEF Owing
        <5>2. i \in 1..k
          BY <1>4, <1>5, <4>3, <5>1
        <5>3. t \in TxnId
          BY <3>2 DEF Owing
        <5> QED
          BY <1>3, <1>5, <5>1, <5>2, <5>3 DEF Owing
      <4> QED
        BY <4>1, <4>2, <4>3
    <3>4. Owing(q) \cap G = {}
      BY <1>3, <1>9 DEF Owing
    <3>5. /\ Cardinality(G) \in Nat /\ Cardinality(R) = Cardinality(Owing(q)) + Cardinality(G)
      BY <1>4, <2>4, <3>3, <3>4, Together
    <3>6. proxy_loads[q] + Cardinality(R) =
              Cardinality(Routes(q)) + Cardinality(Entries(q)) + Cardinality(G) + Cardinality(Verifies(q))
      <4>1. PICK l \in Nat, o \in Nat, r \in Nat, e \in Nat, v \in Nat, g \in Nat :
                /\ l = proxy_loads[q] /\ o = Cardinality(Owing(q)) /\ r = Cardinality(Routes(q))
                /\ e = Cardinality(Entries(q)) /\ v = Cardinality(Verifies(q)) /\ g = Cardinality(G)
        BY <2>4, <3>5
      <4>2. l + o = r + e + 0 + v
        BY <2>5, <4>1
      <4>3. l + (o + g) = r + e + g + v
        BY <4>2
      <4> QED
        BY <3>5, <4>1, <4>3
    <3>7. /\ Cardinality(Entering(q)') = Cardinality(G) /\ Cardinality(Owing(q)') = Cardinality(R)
          /\ Cardinality(Routes(q)') = Cardinality(Routes(q))
          /\ Cardinality(Entries(q)') = Cardinality(Entries(q))
          /\ Cardinality(Verifies(q)') = Cardinality(Verifies(q)) /\ proxy_loads'[q] = proxy_loads[q]
      BY <2>1, <3>1, <3>2
    <3> QED
      BY <3>6, <3>7
  <2>7. CASE q # p
    <3>1. Entering(q)' = {}
      BY <1>4, <1>6, <2>7 DEF Entering
    <3>2. Owing(q)' = Owing(q)
      <4>1. ASSUME NEW t, t \in Owing(q)' PROVE t \in Owing(q)
        <5>1. PICK i \in 1..(k + 1) : assignments'[i].proxy = q /\ t \in assignments'[i].txns
          BY <1>5, <4>1 DEF Owing
        <5>2. i \in 1..k
          BY <1>4, <1>5, <2>7, <5>1
        <5>3. t \in TxnId
          BY <4>1 DEF Owing
        <5> QED
          BY <1>3, <1>5, <5>1, <5>2, <5>3 DEF Owing
      <4>2. ASSUME NEW t \in Owing(q) PROVE t \in Owing(q)'
        BY <1>3, <1>5 DEF Owing
      <4> QED
        BY <4>1, <4>2
    <3>3. Cardinality(Entering(q)') = 0
      BY <3>1, FS_EmptySet
    <3> QED
      BY <2>1, <2>5, <3>2, <3>3
  <2> QED
    BY <2>6, <2>7
<1>17. LoadsAdd'
  BY <1>16 DEF LoadsAdd
<1> QED
  BY <1>7, <1>10, <1>13, <1>14, <1>15, <1>17 DEF SchedInv

\* A proxy is chosen, or the thread ends.
LEMMA AssignKeeps ==
    ASSUME SchedInv, AssignSubgraph
    PROVE  SchedInv'
<1>1. Types /\ pc = "assign" /\ inserting = {} /\ unassigned # {}
  BY DEF SchedInv, AssignSubgraph
<1>2. PICK G : G = NextSubgraph
  OBVIOUS
<1>3. G \in unassigned
  BY <1>1, <1>2, NextIsOne
<1>4. UNCHANGED <<objects, batches, pre_consensus_routing_plan, proxy_loads, routed, verifier>>
  BY DEF AssignSubgraph, inputVars
<1>5. \/ pc' = "panicked" /\ channel' = << >> /\ UNCHANGED <<unassigned, inserting, assignments>>
      \/ /\ \E p \in Proxy : assignments' = Append(assignments, [txns |-> G, proxy |-> p])
         /\ unassigned' = unassigned \ {G} /\ inserting' = G /\ UNCHANGED <<pc, channel>>
  <2>1. BestProxies(G) \subseteq Proxy
    BY DEF BestProxies
  <2> QED
    BY <1>2, <2>1 DEF AssignSubgraph
<1>6. CASE pc' = "panicked" /\ channel' = << >> /\ UNCHANGED <<unassigned, inserting, assignments>>
  BY <1>4, <1>6, PanicKeeps
<1>7. CASE /\ \E p \in Proxy : assignments' = Append(assignments, [txns |-> G, proxy |-> p])
           /\ unassigned' = unassigned \ {G} /\ inserting' = G /\ UNCHANGED <<pc, channel>>
  <2>1. PICK p \in Proxy : assignments' = Append(assignments, [txns |-> G, proxy |-> p])
    BY <1>7
  <2> QED
    BY <1>1, <1>3, <1>4, <1>7, <2>1, ChoiceKeeps
<1> QED
  BY <1>5, <1>6, <1>7


\* What an assignment is made of.
LEMMA AssignmentType ==
    ASSUME NEW S, NEW s \in Seq(S), NEW i \in DOMAIN s
    PROVE  s[i] \in S
  OBVIOUS

\* One entry is made: the transaction was in no plan, and those it conflicts with are in this subgraph.
LEMMA InsertKeeps ==
    ASSUME SchedInv, NEW t \in TxnId, InsertPlan(t)
    PROVE  SchedInv'
<1>1. /\ Types /\ Sealed /\ Queued /\ InHand /\ Filling /\ Fresh /\ OneProxy /\ LoadsAdd
  BY DEF SchedInv
<1>2. PICK L : L = Latest
  OBVIOUS
<1>3. /\ t \in inserting /\ inserting' = inserting \ {t}
      /\ pre_consensus_routing_plan' = [pre_consensus_routing_plan EXCEPT ![t] = L.proxy]
      /\ UNCHANGED <<objects, batches, channel, pc, unassigned, assignments, proxy_loads, routed, verifier>>
  BY <1>2 DEF InsertPlan, Latest, inputVars
<1>4. /\ assignments # << >> /\ inserting \subseteq L.txns /\ Whole(L.txns) /\ t \in L.txns
      /\ \A u \in L.txns : Traces(u) \subseteq {L.proxy}
  BY <1>1, <1>2, <1>3 DEF Filling
<1>5. PICK k \in Nat : k = Len(assignments) /\ k \in DOMAIN assignments /\ L = assignments[k]
  BY <1>1, <1>2, <1>4 DEF Types, Latest
<1>6. L \in [txns : SUBSET TxnId, proxy : Proxy] /\ L.proxy \in Proxy
  <2>1. assignments \in Seq([txns : SUBSET TxnId, proxy : Proxy])
    BY <1>1 DEF Types
  <2>2. L \in [txns : SUBSET TxnId, proxy : Proxy]
    BY <1>5, <2>1, AssignmentType
  <2> QED
    BY <2>2
<1>7. Traces(t) = {}
  BY <1>1, <1>3 DEF Fresh, Ahead
<1>8. pre_consensus_routing_plan[t] = NoProxy /\ ~ routed[t].planned
  <2>1. pre_consensus_routing_plan[t] \in Proxy \cup {NoProxy} /\ (routed[t].planned => routed[t].proxy \in Proxy)
    BY <1>1 DEF Types
  <2> QED
    BY <1>7, <2>1 DEF Traces
<1>9. /\ \A u \in TxnId : u # t => pre_consensus_routing_plan'[u] = pre_consensus_routing_plan[u]
      /\ pre_consensus_routing_plan'[t] = L.proxy
      /\ pre_consensus_routing_plan' \in [TxnId -> Proxy \cup {NoProxy}]
  BY <1>1, <1>3, <1>6 DEF Types
<1>10. Traces(t)' \subseteq {L.proxy} /\ \A u \in TxnId : u # t => Traces(u)' = Traces(u)
  BY <1>3, <1>8, <1>9 DEF Traces
<1>11. Types'
  BY <1>1, <1>3, <1>9 DEF Types
<1>12. Sealed' /\ Queued'
  BY <1>1, <1>3 DEF Sealed, Batched, Queued
<1>13. \A G : Whole(G)' = Whole(G)
  BY <1>3 DEF Whole, Component, Conflict
<1>14. InHand'
  BY <1>1, <1>3, <1>13 DEF InHand
<1>15. L.txns \subseteq TxnId
  BY <1>6
<1>16. Filling'
  <2>1. L = Latest'
    BY <1>2, <1>3 DEF Latest
  <2>2. \A u \in L.txns : Traces(u)' \subseteq {L.proxy}
    BY <1>4, <1>10, <1>15
  <2> QED
    BY <1>3, <1>4, <1>13, <2>1, <2>2 DEF Filling
<1>17. PICK B \in batches : Component(B, L.txns)
  BY <1>4 DEF Whole
<1>18. Fresh'
  <2>1. PICK S : S = Ahead \ {t}
    OBVIOUS
  <2>2. t \in Batched
    BY <1>4, <1>17 DEF Component, Batched
  <2>3. \A G \in unassigned : t \notin G
    BY <1>1, <1>4, <1>5 DEF InHand
  <2>4. \A i \in DOMAIN channel : t \notin channel[i]
    BY <1>4 DEF Whole
  <2>5. TxnId \ Batched' \subseteq S
    BY <1>3, <2>1, <2>2 DEF Ahead, Batched
  <2>6. inserting' \subseteq S /\ UNION unassigned' \subseteq S
    BY <1>3, <2>1, <2>3 DEF Ahead
  <2>7. \A i \in DOMAIN channel' : channel'[i] \subseteq S
    BY <1>3, <2>1, <2>4 DEF Ahead
  <2>8. Ahead' \subseteq S
    BY <2>5, <2>6, <2>7, AheadPrimed
  <2>9. Ahead \subseteq TxnId
    <3>1. \A i \in DOMAIN channel : channel[i] \subseteq TxnId
      BY <1>1 DEF Types
    <3> QED
      BY <1>1, <3>1 DEF Ahead, Types
  <2> QED
    BY <1>1, <1>10, <2>1, <2>8, <2>9 DEF Fresh
<1>19. OneProxy'
  <2>1. ASSUME NEW T \in batches, NEW a \in T, NEW b \in T, Conflict(a, b), a = t
        PROVE  Traces(a)' \subseteq {L.proxy} /\ Traces(b)' \subseteq {L.proxy}
    <3>1. t \in B /\ t \in T
      BY <1>4, <1>17, <2>1 DEF Component
    <3>2. T = B
      BY <1>1, <1>17, <3>1 DEF Sealed
    <3>3. b \in L.txns
      BY <1>4, <1>17, <2>1, <3>2 DEF Component
    <3>4. b \in TxnId
      BY <1>15, <3>3
    <3> QED
      BY <1>4, <1>10, <2>1, <3>3, <3>4
  <2>2. ASSUME NEW T \in batches', NEW a \in T, NEW b \in T, Conflict(a, b)',
               NEW p \in Traces(a)', NEW q \in Traces(b)'
        PROVE  p = q
    <3>1. Conflict(a, b) /\ Conflict(b, a) /\ T \in batches /\ a \in TxnId /\ b \in TxnId
      BY <1>1, <1>3, <2>2 DEF Conflict, Types
    <3>2. CASE a = t
      BY <2>1, <3>1, <3>2
    <3>3. CASE b = t
      BY <2>1, <3>1, <3>3
    <3>4. CASE a # t /\ b # t
      <4>1. p \in Traces(a) /\ q \in Traces(b)
        BY <1>10, <3>1, <3>4
      <4> QED
        BY <1>1, <3>1, <4>1 DEF OneProxy
    <3> QED
      BY <3>2, <3>3, <3>4
  <2>3. \A u \in TxnId : routed'[u].planned => pre_consensus_routing_plan'[u] = NoProxy
    BY <1>1, <1>3, <1>8, <1>9 DEF OneProxy
  <2> QED
    BY <2>2, <2>3 DEF OneProxy
<1>20. ASSUME NEW q \in Proxy
       PROVE  proxy_loads'[q] + Cardinality(Owing(q)') =
                  Cardinality(Routes(q)') + Cardinality(Entries(q)') + Cardinality(Entering(q)')
                      + Cardinality(Verifies(q)')
  <2>1. /\ Routes(q)' = Routes(q) /\ Owing(q)' = Owing(q) /\ proxy_loads'[q] = proxy_loads[q]
        /\ Verifies(q)' = Verifies(q)
    BY <1>3 DEF Routes, Owing, Verifies
  <2>2. L = Latest'
    BY <1>2, <1>3 DEF Latest
  <2>3. proxy_loads[q] + Cardinality(Owing(q)) =
            Cardinality(Routes(q)) + Cardinality(Entries(q)) + Cardinality(Entering(q))
                + Cardinality(Verifies(q))
    BY <1>1 DEF LoadsAdd
  <2>4. /\ Cardinality(Routes(q)) \in Nat /\ Entries(q) \subseteq TxnId /\ Entering(q) \subseteq TxnId
        /\ Cardinality(Entries(q)) \in Nat /\ Cardinality(Entering(q)) \in Nat
        /\ Cardinality(Verifies(q)) \in Nat
    BY <1>1, LoadSets
  <2>5. CASE q = L.proxy
    <3>1. PICK R : R = Entries(q)'
      OBVIOUS
    <3>2. R = Entries(q) \cup {t} /\ t \notin Entries(q)
      BY <1>8, <1>9, <2>5, <3>1, NotAProxy DEF Entries
    <3>3. Cardinality(R) = Cardinality(Entries(q)) + 1
      BY <2>4, <3>2, OneMore
    <3>4. PICK W : W = Entering(q)'
      OBVIOUS
    <3>5. Entering(q) = W \cup {t} /\ t \notin W /\ W \subseteq TxnId
      BY <1>2, <1>3, <2>2, <2>4, <2>5, <3>4 DEF Entering
    <3>6. Cardinality(W) \in Nat /\ Cardinality(Entering(q)) = Cardinality(W) + 1
      BY <3>5, OneMore
    <3> QED
      BY <2>1, <2>3, <2>4, <3>1, <3>3, <3>4, <3>6
  <2>6. CASE q # L.proxy
    <3>1. Entries(q)' = Entries(q)
      BY <1>8, <1>9, <2>6, NotAProxy DEF Entries
    <3>2. Entering(q)' = Entering(q)
      BY <1>2, <1>3, <2>2, <2>6 DEF Entering
    <3> QED
      BY <2>1, <2>3, <3>1, <3>2
  <2> QED
    BY <2>5, <2>6
<1>21. LoadsAdd'
  BY <1>20 DEF LoadsAdd
<1> QED
  BY <1>11, <1>12, <1>14, <1>16, <1>18, <1>19, <1>21 DEF SchedInv

\* One subgraph is accounted for: its transactions are no longer owed.
LEMMA UpdateKeeps ==
    ASSUME SchedInv, UpdateState
    PROVE  SchedInv'
<1>1. /\ Types /\ Sealed /\ Queued /\ InHand /\ Filling /\ Fresh /\ OneProxy /\ LoadsAdd
  BY DEF SchedInv
<1>2. PICK a : a = Head(assignments)
  OBVIOUS
<1>3. /\ pc = "assign" /\ inserting = {} /\ unassigned = {} /\ assignments # << >>
      /\ proxy_loads' = [proxy_loads EXCEPT ![a.proxy] = @ + Cardinality(a.txns)]
      /\ assignments' = Tail(assignments)
      /\ UNCHANGED <<objects, batches, channel, pc, unassigned, inserting, pre_consensus_routing_plan, routed, verifier>>
  BY <1>2 DEF UpdateState, inputVars
<1>4. PICK k \in Nat : k = Len(assignments) /\ DOMAIN assignments = 1..k
  BY <1>1 DEF Types
<1>5. /\ a = assignments[1] /\ k >= 1 /\ assignments' \in Seq([txns : SUBSET TxnId, proxy : Proxy])
      /\ DOMAIN assignments' = 1..(k - 1)
      /\ \A i \in 1..(k - 1) : i + 1 \in 1..k /\ assignments'[i] = assignments[i + 1]
  <2>1. assignments \in Seq([txns : SUBSET TxnId, proxy : Proxy])
    BY <1>1 DEF Types
  <2>2. k # 0
    BY <1>3, <1>4, <2>1
  <2>3. PICK s : s \in Seq([txns : SUBSET TxnId, proxy : Proxy]) /\ s = assignments
    BY <2>1
  <2>4. /\ Tail(s) \in Seq([txns : SUBSET TxnId, proxy : Proxy]) /\ Len(Tail(s)) = k - 1
        /\ \A i \in 1..(k - 1) : Tail(s)[i] = s[i + 1]
    BY <1>3, <1>4, <2>2, <2>3
  <2> QED
    BY <1>2, <1>3, <1>4, <2>2, <2>3, <2>4
<1>6. a \in [txns : SUBSET TxnId, proxy : Proxy]
  <2>1. 1 \in DOMAIN assignments
    BY <1>4, <1>5
  <2>2. assignments \in Seq([txns : SUBSET TxnId, proxy : Proxy])
    BY <1>1 DEF Types
  <2> QED
    BY <1>5, <2>1, <2>2, AssignmentType
<1>7. a.txns \subseteq TxnId /\ a.proxy \in Proxy /\ Cardinality(a.txns) \in Nat
  BY <1>6, TxnsFinite
<1>8. /\ proxy_loads' \in [Charged -> Nat] /\ proxy_loads'[a.proxy] = proxy_loads[a.proxy] + Cardinality(a.txns)
      /\ \A q \in Proxy : q # a.proxy => proxy_loads'[q] = proxy_loads[q]
  BY <1>1, <1>3, <1>7, HaveLoads DEF Types
<1>9. Types' /\ Sealed' /\ Queued'
  BY <1>1, <1>3, <1>5, <1>8 DEF Types, Sealed, Batched, Queued
<1>10. InHand'
  <2>1. ASSUME NEW i \in DOMAIN assignments', NEW j \in DOMAIN assignments', i # j
        PROVE  assignments'[i].txns \cap assignments'[j].txns = {}
    <3>1. i + 1 # j + 1 /\ i + 1 \in 1..k /\ j + 1 \in 1..k
      BY <1>5, <2>1
    <3> QED
      BY <1>1, <1>4, <1>5, <3>1 DEF InHand
  <2> QED
    BY <1>3, <2>1 DEF InHand
<1>11. Filling'
  BY <1>3 DEF Filling
<1>12. \A t : Traces(t)' = Traces(t)
  BY <1>3, TracesStay
<1>13. Ahead' = Ahead
  BY <1>3 DEF Ahead, Batched
<1>14. Fresh'
  BY <1>1, <1>12, <1>13 DEF Fresh
<1>15. OneProxy'
  BY <1>1, <1>3, <1>12 DEF OneProxy, Conflict
<1>16. ASSUME NEW q \in Proxy
       PROVE  proxy_loads'[q] + Cardinality(Owing(q)') =
                  Cardinality(Routes(q)') + Cardinality(Entries(q)') + Cardinality(Entering(q)')
                      + Cardinality(Verifies(q)')
  <2>1. Routes(q)' = Routes(q) /\ Entries(q)' = Entries(q) /\ Verifies(q)' = Verifies(q)
    BY <1>3 DEF Routes, Entries, Verifies
  <2>2. Entering(q) = {} /\ Entering(q)' = {}
    BY <1>3 DEF Entering
  <2>3. proxy_loads[q] + Cardinality(Owing(q)) =
            Cardinality(Routes(q)) + Cardinality(Entries(q)) + Cardinality(Entering(q))
                + Cardinality(Verifies(q))
    BY <1>1 DEF LoadsAdd
  <2>4. PICK W : W = Owing(q)'
    OBVIOUS
  <2>5. ASSUME NEW t \in W PROVE t \in Owing(q) /\ t \notin a.txns /\ t \in TxnId
    <3>1. PICK i \in 1..(k - 1) : assignments'[i].proxy = q /\ t \in assignments'[i].txns
      BY <1>5, <2>4 DEF Owing
    <3>2. i + 1 \in DOMAIN assignments /\ 1 \in DOMAIN assignments /\ i + 1 # 1
      BY <1>4, <1>5
    <3>3. t \in TxnId
      BY <2>4 DEF Owing
    <3>4. assignments[i + 1].txns \cap assignments[1].txns = {}
      BY <1>1, <3>2 DEF InHand
    <3> QED
      BY <1>4, <1>5, <3>1, <3>2, <3>3, <3>4 DEF Owing
  <2>6. ASSUME NEW t \in Owing(q) PROVE t \in W \/ (t \in a.txns /\ q = a.proxy)
    <3>1. PICK i \in 1..k : assignments[i].proxy = q /\ t \in assignments[i].txns
      BY <1>4 DEF Owing
    <3>2. CASE i = 1
      BY <1>5, <3>1, <3>2
    <3>3. CASE i # 1
      <4>1. i - 1 \in 1..(k - 1) /\ (i - 1) + 1 = i
        BY <3>3
      <4>2. assignments'[i - 1] = assignments[i] /\ i - 1 \in DOMAIN assignments'
        BY <1>5, <4>1
      <4>3. t \in TxnId
        BY DEF Owing
      <4> QED
        BY <2>4, <3>1, <4>2, <4>3 DEF Owing
    <3> QED
      BY <3>2, <3>3
  <2>7. proxy_loads[q] \in Nat /\ Cardinality(Owing(q)) \in Nat
    BY <1>1, LoadSets, HaveLoads DEF Types
  <2>8. CASE q = a.proxy
    <3>1. a.txns \subseteq Owing(q)
      <4>1. 1 \in DOMAIN assignments
        BY <1>4, <1>5
      <4> QED
        BY <1>5, <1>7, <2>8, <4>1 DEF Owing
    <3>2. Owing(q) = W \cup a.txns /\ W \cap a.txns = {} /\ W \subseteq TxnId
      BY <2>5, <2>6, <3>1
    <3>3. Cardinality(W) \in Nat /\ Cardinality(Owing(q)) = Cardinality(W) + Cardinality(a.txns)
      BY <1>7, <3>2, Together
    <3>4. proxy_loads'[q] = proxy_loads[q] + Cardinality(a.txns)
      BY <1>8, <2>8
    <3>5. proxy_loads'[q] + Cardinality(W) = proxy_loads[q] + Cardinality(Owing(q))
      BY <1>7, <2>7, <3>3, <3>4
    <3> QED
      BY <2>1, <2>2, <2>3, <2>4, <3>5
  <2>9. CASE q # a.proxy
    <3>1. W = Owing(q)
      BY <2>5, <2>6, <2>9
    <3> QED
      BY <1>8, <2>1, <2>2, <2>3, <2>4, <2>9, <3>1
  <2> QED
    BY <2>8, <2>9
<1>17. LoadsAdd'
  BY <1>16 DEF LoadsAdd
<1> QED
  BY <1>9, <1>10, <1>11, <1>14, <1>15, <1>17 DEF SchedInv


\* The batch is done: nothing was left in hand.
LEMMA DoneKeeps ==
    ASSUME SchedInv, BatchDone
    PROVE  SchedInv'
<1>1. /\ Types /\ Sealed /\ Queued /\ InHand /\ Filling /\ Fresh /\ OneProxy /\ LoadsAdd
  BY DEF SchedInv
<1>2. /\ inserting = {} /\ unassigned = {} /\ assignments = << >>
      /\ UNCHANGED <<objects, batches, channel, unassigned, inserting, assignments,
                     pre_consensus_routing_plan, proxy_loads, routed, verifier>>
  BY DEF BatchDone, inputVars
<1>3. Types' /\ Sealed' /\ Queued'
  BY <1>1, <1>2 DEF Types, Sealed, Batched, Queued
<1>4. InHand' /\ Filling'
  BY <1>2 DEF InHand, Filling
<1>5. \A t : Traces(t)' = Traces(t)
  BY <1>2, TracesStay
<1>6. Ahead' = Ahead
  BY <1>2 DEF Ahead, Batched
<1>7. Fresh' /\ OneProxy'
  BY <1>1, <1>2, <1>5, <1>6 DEF Fresh, OneProxy, Conflict
<1>8. LoadsAdd'
  BY <1>1, <1>2, LoadsStay
<1> QED
  BY <1>3, <1>4, <1>7, <1>8 DEF SchedInv

\* A transaction is routed: by the plan, and its entry becomes its route; or ahead of it, and it is counted.
LEMMA RouteKeeps ==
    ASSUME SchedInv, NEW t \in TxnId, RouteTxn(t)
    PROVE  SchedInv'
<1>1. /\ Types /\ Sealed /\ Queued /\ InHand /\ Filling /\ Fresh /\ OneProxy /\ LoadsAdd
  BY DEF SchedInv
<1>2. PICK d \in BOOLEAN : d <=> pre_consensus_routing_plan[t] # NoProxy
  OBVIOUS
<1>3. /\ routed[t] = NotRouted
      /\ pre_consensus_routing_plan' = [pre_consensus_routing_plan EXCEPT ![t] = NoProxy]
      /\ UNCHANGED <<objects, batches, channel, pc, unassigned, inserting, assignments, verifier>>
  BY DEF RouteTxn, inputVars, batchVars
<1>4. PICK p \in Proxy :
          /\ d => p = pre_consensus_routing_plan[t]
          /\ routed' = [routed EXCEPT ![t] = [proxy |-> p, planned |-> d]]
          /\ proxy_loads' = IF d THEN proxy_loads ELSE [proxy_loads EXCEPT ![p] = @ + 1]
  <2>1. (pre_consensus_routing_plan[t] # NoProxy) = d
    BY <1>2
  <2> QED
    BY <2>1 DEF RouteTxn
<1>5. routed[t].proxy = NoProxy /\ routed[t].planned = FALSE
  BY <1>3 DEF NotRouted
<1>6. /\ pre_consensus_routing_plan' \in [TxnId -> Proxy \cup {NoProxy}]
      /\ pre_consensus_routing_plan'[t] = NoProxy
      /\ \A u \in TxnId : u # t => pre_consensus_routing_plan'[u] = pre_consensus_routing_plan[u]
  BY <1>1, <1>3 DEF Types
<1>7. /\ routed' \in [TxnId -> [proxy : Proxy \cup {NoProxy}, planned : BOOLEAN]]
      /\ routed'[t].proxy = p /\ routed'[t].planned = d
      /\ \A u \in TxnId : u # t => routed'[u] = routed[u]
  <2>1. routed \in [TxnId -> [proxy : Proxy \cup {NoProxy}, planned : BOOLEAN]]
    BY <1>1 DEF Types
  <2>2. PICK e : e = [proxy |-> p, planned |-> d]
    OBVIOUS
  <2>3. e \in [proxy : Proxy \cup {NoProxy}, planned : BOOLEAN] /\ e.proxy = p /\ e.planned = d
    BY <2>2
  <2>4. routed' = [routed EXCEPT ![t] = e]
    BY <1>4, <2>2
  <2>5. routed'[t] = e /\ \A u \in TxnId : u # t => routed'[u] = routed[u]
    BY <2>1, <2>4
  <2>6. routed' \in [TxnId -> [proxy : Proxy \cup {NoProxy}, planned : BOOLEAN]]
    BY <2>1, <2>3, <2>4
  <2> QED
    BY <2>3, <2>5, <2>6
<1>8. \A u \in TxnId : Traces(u)' = Traces(u)
  <2>1. Traces(t)' = Traces(t)
    BY <1>2, <1>4, <1>5, <1>6, <1>7, NotAProxy DEF Traces
  <2>2. \A u \in TxnId : u # t => Traces(u)' = Traces(u)
    BY <1>6, <1>7 DEF Traces
  <2> QED
    BY <2>1, <2>2
<1>9. proxy_loads' \in [Charged -> Nat] /\ \A q \in Charged : q # p => proxy_loads'[q] = proxy_loads[q]
  <2>1. proxy_loads \in [Charged -> Nat]
    BY <1>1 DEF Types
  <2>2. CASE d
    BY <1>4, <2>1, <2>2
  <2>3. CASE ~ d
    <3>1. proxy_loads' = [proxy_loads EXCEPT ![p] = @ + 1]
      BY <1>4, <2>3
    <3> QED
      BY <2>1, <3>1, HaveLoads
  <2> QED
    BY <2>2, <2>3
<1>10. Types'
  <2>1. \A u \in TxnId : routed'[u].planned => routed'[u].proxy \in Proxy
    BY <1>1, <1>7 DEF Types
  <2> QED
    BY <1>1, <1>3, <1>6, <1>7, <1>9, <2>1 DEF Types
<1>11. Sealed' /\ Queued'
  BY <1>1, <1>3 DEF Sealed, Batched, Queued
<1>12. \A G : Whole(G)' = Whole(G)
  BY <1>3 DEF Whole, Component, Conflict
<1>13. InHand'
  BY <1>1, <1>3, <1>12 DEF InHand
<1>14. Filling'
  <2>1. PICK L : L = Latest /\ L = Latest'
    BY <1>3 DEF Latest
  <2> SUFFICES ASSUME inserting # {}
               PROVE  /\ assignments # << >> /\ inserting \subseteq L.txns /\ Whole(L.txns)
                      /\ \A u \in L.txns : Traces(u)' \subseteq {L.proxy}
    BY <1>3, <1>12, <2>1 DEF Filling
  <2>2. /\ assignments # << >> /\ inserting \subseteq L.txns /\ Whole(L.txns)
        /\ \A u \in L.txns : Traces(u) \subseteq {L.proxy}
    BY <1>1, <2>1 DEF Filling
  <2>3. L.txns \subseteq TxnId
    <3>1. PICK B \in batches : L.txns \subseteq B
      BY <2>2 DEF Whole, Component
    <3> QED
      BY <1>1, <3>1 DEF Types
  <2> QED
    BY <1>8, <2>2, <2>3
<1>15. Fresh'
  <2>1. Ahead' = Ahead
    BY <1>3 DEF Ahead, Batched
  <2>2. Ahead \subseteq TxnId
    <3>1. \A i \in DOMAIN channel : channel[i] \subseteq TxnId
      BY <1>1 DEF Types
    <3> QED
      BY <1>1, <3>1 DEF Ahead, Types
  <2> QED
    BY <1>1, <1>8, <2>1, <2>2 DEF Fresh
<1>16. OneProxy'
  <2>1. ASSUME NEW T \in batches', NEW a \in T, NEW b \in T, Conflict(a, b)',
               NEW x \in Traces(a)', NEW y \in Traces(b)'
        PROVE  x = y
    <3>1. Conflict(a, b) /\ T \in batches /\ a \in TxnId /\ b \in TxnId
      BY <1>1, <1>3, <2>1 DEF Conflict, Types
    <3>2. x \in Traces(a) /\ y \in Traces(b)
      BY <1>8, <3>1
    <3> QED
      BY <1>1, <3>1, <3>2 DEF OneProxy
  <2>2. \A u \in TxnId : routed'[u].planned => pre_consensus_routing_plan'[u] = NoProxy
    BY <1>1, <1>6, <1>7 DEF OneProxy
  <2> QED
    BY <2>1, <2>2 DEF OneProxy
<1>17. ASSUME NEW q \in Proxy
       PROVE  proxy_loads'[q] + Cardinality(Owing(q)') =
                  Cardinality(Routes(q)') + Cardinality(Entries(q)') + Cardinality(Entering(q)')
                      + Cardinality(Verifies(q)')
  <2>1. Owing(q)' = Owing(q) /\ Entering(q)' = Entering(q) /\ Verifies(q)' = Verifies(q)
    BY <1>3 DEF Owing, Entering, Latest, Verifies
  <2>2. proxy_loads[q] + Cardinality(Owing(q)) =
            Cardinality(Routes(q)) + Cardinality(Entries(q)) + Cardinality(Entering(q))
                + Cardinality(Verifies(q))
    BY <1>1 DEF LoadsAdd
  <2>3. /\ Cardinality(Routes(q)) \in Nat /\ Routes(q) \subseteq TxnId /\ Entries(q) \subseteq TxnId
        /\ Cardinality(Entries(q)) \in Nat /\ Cardinality(Entering(q)) \in Nat
        /\ Cardinality(Owing(q)) \in Nat /\ proxy_loads[q] \in Nat /\ Cardinality(Verifies(q)) \in Nat
    BY <1>1, LoadSets, HaveLoads DEF Types
  <2>4. CASE q # p
    <3>1. Routes(q)' = Routes(q)
      BY <1>5, <1>7, <2>4, NotAProxy DEF Routes
    <3>2. Entries(q)' = Entries(q)
      BY <1>2, <1>4, <1>6, <2>4, NotAProxy DEF Entries
    <3> QED
      BY <1>9, <2>1, <2>2, <2>4, <3>1, <3>2, HaveLoads
  <2>5. CASE q = p
    <3>1. PICK R : R = Routes(q)'
      OBVIOUS
    <3>2. R = Routes(q) \cup {t} /\ t \notin Routes(q)
      BY <1>5, <1>7, <2>5, <3>1, NotAProxy DEF Routes
    <3>3. Cardinality(R) = Cardinality(Routes(q)) + 1
      BY <2>3, <3>2, OneMore
    <3>4. CASE d
      <4>1. PICK W : W = Entries(q)'
        OBVIOUS
      <4>2. Entries(q) = W \cup {t} /\ t \notin W /\ W \subseteq TxnId
        BY <1>4, <1>6, <2>5, <3>4, <4>1, NotAProxy DEF Entries
      <4>3. Cardinality(W) \in Nat /\ Cardinality(Entries(q)) = Cardinality(W) + 1
        BY <4>2, OneMore
      <4>4. proxy_loads'[q] = proxy_loads[q]
        BY <1>4, <3>4
      <4> QED
        BY <2>1, <2>2, <2>3, <3>1, <3>3, <4>1, <4>3, <4>4
    <3>5. CASE ~ d
      <4>1. Entries(q)' = Entries(q)
        BY <1>2, <1>6, <3>5 DEF Entries
      <4>2. proxy_loads'[q] = proxy_loads[q] + 1
        <5>1. proxy_loads' = [proxy_loads EXCEPT ![p] = @ + 1] /\ proxy_loads \in [Charged -> Nat]
          BY <1>1, <1>4, <3>5 DEF Types
        <5> QED
          BY <2>5, <5>1, HaveLoads
      <4> QED
        BY <2>1, <2>2, <2>3, <3>1, <3>3, <4>1, <4>2
    <3> QED
      BY <3>4, <3>5
  <2> QED
    BY <2>4, <2>5
<1>18. LoadsAdd'
  BY <1>17 DEF LoadsAdd
<1> QED
  BY <1>10, <1>11, <1>13, <1>14, <1>15, <1>16, <1>18 DEF SchedInv

\* A proxy is picked to verify a transaction: it is counted once, and nothing else changes.
LEMMA PickKeeps ==
    ASSUME SchedInv, NEW t \in TxnId, PickStatelessProxy(t)
    PROVE  SchedInv'
<1>1. /\ Types /\ Sealed /\ Queued /\ InHand /\ Filling /\ Fresh /\ OneProxy /\ LoadsAdd
  BY DEF SchedInv
<1>2. /\ verifier[t] = NoProxy
      /\ UNCHANGED <<objects, batches, channel, pc, unassigned, inserting, assignments,
                     pre_consensus_routing_plan, routed>>
  BY DEF PickStatelessProxy, NeedsVerifier, inputVars, batchVars
<1>3. PICK p \in Charged : /\ verifier' = [verifier EXCEPT ![t] = p]
                          /\ proxy_loads' = [proxy_loads EXCEPT ![p] = @ + 1]
  BY HaveLoads DEF PickStatelessProxy
<1>4. /\ verifier' \in [TxnId -> Charged \cup {NoProxy}] /\ verifier'[t] = p
      /\ \A u \in TxnId : u # t => verifier'[u] = verifier[u]
  BY <1>1, <1>3 DEF Types
<1>5. /\ proxy_loads' \in [Charged -> Nat] /\ proxy_loads'[p] = proxy_loads[p] + 1
      /\ \A q \in Charged : q # p => proxy_loads'[q] = proxy_loads[q]
  BY <1>1, <1>3 DEF Types
<1>6. Types' /\ Sealed' /\ Queued'
  BY <1>1, <1>2, <1>4, <1>5 DEF Types, Sealed, Batched, Queued
<1>7. \A G : Whole(G)' = Whole(G)
  BY <1>2 DEF Whole, Component, Conflict
<1>8. InHand'
  BY <1>1, <1>2, <1>7 DEF InHand
<1>9. \A u : Traces(u)' = Traces(u)
  BY <1>2, TracesStay
<1>10. Filling'
  <2>1. PICK L : L = Latest /\ L = Latest'
    BY <1>2 DEF Latest
  <2> QED
    BY <1>1, <1>2, <1>7, <1>9, <2>1 DEF Filling
<1>11. Ahead' = Ahead
  BY <1>2 DEF Ahead, Batched
<1>12. Fresh' /\ OneProxy'
  BY <1>1, <1>2, <1>9, <1>11 DEF Fresh, OneProxy, Conflict
<1>13. ASSUME NEW q \in Proxy
       PROVE  proxy_loads'[q] + Cardinality(Owing(q)') =
                  Cardinality(Routes(q)') + Cardinality(Entries(q)') + Cardinality(Entering(q)')
                      + Cardinality(Verifies(q)')
  <2>1. /\ Owing(q)' = Owing(q) /\ Entering(q)' = Entering(q)
        /\ Routes(q)' = Routes(q) /\ Entries(q)' = Entries(q)
    BY <1>2 DEF Owing, Entering, Latest, Routes, Entries
  <2>2. proxy_loads[q] + Cardinality(Owing(q)) =
            Cardinality(Routes(q)) + Cardinality(Entries(q)) + Cardinality(Entering(q))
                + Cardinality(Verifies(q))
    BY <1>1 DEF LoadsAdd
  <2>3. /\ Cardinality(Routes(q)) \in Nat /\ Cardinality(Entries(q)) \in Nat
        /\ Cardinality(Entering(q)) \in Nat /\ Cardinality(Owing(q)) \in Nat
        /\ proxy_loads[q] \in Nat /\ Cardinality(Verifies(q)) \in Nat /\ Verifies(q) \subseteq TxnId
    BY <1>1, LoadSets, HaveLoads DEF Types
  <2>4. CASE q # p
    <3>1. Verifies(q)' = Verifies(q)
      BY <1>2, <1>4, <2>4, HaveLoads DEF Verifies
    <3>2. proxy_loads'[q] = proxy_loads[q]
      BY <1>5, <2>4, HaveLoads
    <3> QED
      BY <2>1, <2>2, <3>1, <3>2
  <2>5. CASE q = p
    <3>1. PICK R : R = Verifies(q)'
      OBVIOUS
    <3>2. R = Verifies(q) \cup {t} /\ t \notin Verifies(q)
      BY <1>2, <1>4, <2>5, <3>1, HaveLoads DEF Verifies
    <3>3. Cardinality(R) = Cardinality(Verifies(q)) + 1
      BY <2>3, <3>2, OneMore
    <3>4. proxy_loads'[q] = proxy_loads[q] + 1
      BY <1>5, <2>5
    <3> QED
      BY <2>1, <2>2, <2>3, <3>1, <3>3, <3>4
  <2> QED
    BY <2>4, <2>5
<1>14. LoadsAdd'
  BY <1>13 DEF LoadsAdd
<1> QED
  BY <1>6, <1>8, <1>10, <1>12, <1>14 DEF SchedInv

\* The invariant is inductive.
LEMMA SchedStep == SchedInv /\ [PSNext]_psVars => SchedInv'
<1> SUFFICES ASSUME SchedInv, [PSNext]_psVars PROVE SchedInv'
  OBVIOUS
<1>1. CASE \E n \in 1..BatchSize : Seal(n)
  BY <1>1, SealKeeps
<1>2. CASE \E T \in batches : Commit(T)
  <2>1. UNCHANGED schedVars
    BY <1>2 DEF Commit, schedVars, batchVars
  <2> QED
    BY <2>1, SchedUnchanged
<1>3. CASE ScheduleBatch
  BY <1>3, ScheduleKeeps
<1>4. CASE AssignSubgraph
  BY <1>4, AssignKeeps
<1>5. CASE \E t \in TxnId : InsertPlan(t)
  BY <1>5, InsertKeeps
<1>6. CASE UpdateState
  BY <1>6, UpdateKeeps
<1>7. CASE BatchDone
  BY <1>7, DoneKeeps
<1>8. CASE \E t \in TxnId : RouteTxn(t)
  BY <1>8, RouteKeeps
<1>10. CASE \E t \in TxnId : PickStatelessProxy(t)
  BY <1>10, PickKeeps
<1>9. CASE UNCHANGED psVars \/ Ended
  <2>1. UNCHANGED schedVars
    BY <1>9 DEF Ended, psVars, inputVars, batchVars, schedVars
  <2> QED
    BY <2>1, SchedUnchanged
<1> QED
  BY <1>1, <1>2, <1>3, <1>4, <1>5, <1>6, <1>7, <1>8, <1>9, <1>10 DEF PSNext, SchedulerStep

(***************************************************************************)
(* However the scheduler's thread, the forwarder's workers and the engine  *)
(* interleave, conflicting transactions of a batch that follow the plan    *)
(* go to one proxy, an entry that outlives its transaction came too late,  *)
(* and between batches the loads count every route and every entry once.   *)
(***************************************************************************)
THEOREM PlanAlwaysExplained == PSSpec => []PlanExplained
  BY SchedStarts, SchedStep, SchedExplains, PTL DEF PSSpec

-----------------------------------------------------------------------------
(* What is handed to the assignment.                                       *)

\* The formula of the property, for one step.
HandsOutComponents ==
    ScheduleBatch =>
        LET T == Head(channel) IN
        /\ \A t, u \in T : t # u /\ Conflict(t, u) =>
              \E G \in unassigned' : {t, u} \subseteq G
        /\ \A G \in unassigned' : G \subseteq T /\
              \A S \in SUBSET G : S # {} /\ S # G =>
                  \E t \in S, u \in G \ S : Conflict(t, u)

Staffed == SchedInv /\ NumProxies # 0

\* With a proxy connected, a batch is taken apart into its components.
LEMMA StaffedHandsOut == Staffed => HandsOutComponents
<1> SUFFICES ASSUME Staffed, ScheduleBatch
             PROVE  LET T == Head(channel) IN
                    /\ \A t, u \in T : t # u /\ Conflict(t, u) =>
                          \E G \in unassigned' : {t, u} \subseteq G
                    /\ \A G \in unassigned' : G \subseteq T /\
                          \A S \in SUBSET G : S # {} /\ S # G =>
                              \E t \in S, u \in G \ S : Conflict(t, u)
  BY DEF HandsOutComponents
<1>1. PICK T : T = Head(channel)
  OBVIOUS
<1>2. unassigned' = Large(T) /\ channel # << >> /\ Types
  BY <1>1 DEF Staffed, SchedInv, ScheduleBatch, Large
<1>3. T \in SUBSET TxnId
  BY <1>1, <1>2, HeadOfChannel
<1>4. IsFiniteSet(T) /\ T \subseteq Nat
  BY <1>3, TxnsFinite
<1>5. /\ \A G \in Large(T) :
            /\ G # {} /\ Component(T, G)
            /\ \A S \in SUBSET G : S # {} /\ S # G => \E a \in S, b \in G \ S : Conflict(a, b)
      /\ \A t, u \in T : t # u /\ Conflict(t, u) => \E G \in Large(T) : {t, u} \subseteq G
  BY <1>4, LargeComponents
<1> QED
  BY <1>1, <1>2, <1>5 DEF Component

\* The number of proxies does not change.
LEMMA StaffedStep == Staffed /\ [PSNext]_psVars => Staffed'
  BY SchedStep DEF Staffed

\* Nor does the start need more.
LEMMA StaffedStarts == NumProxies # 0 /\ PSInit => Staffed
  BY SchedStarts DEF Staffed

(***************************************************************************)
(* Although every object remembers only its last accessor, the scheduler   *)
(* never splits two conflicting transactions of a batch and never joins    *)
(* two parts without a conflict between them.  With no proxy connected the *)
(* code drops the batch, so there must be one.                             *)
(***************************************************************************)
THEOREM ComponentsHandedOut == NumProxies # 0 /\ PSSpec => SubgraphsAreComponents
<1>1. Staffed => [HandsOutComponents]_psVars
  BY StaffedHandsOut
<1>2. SubgraphsAreComponents <=> [][HandsOutComponents]_psVars
  BY DEF SubgraphsAreComponents, HandsOutComponents
<1> QED
  BY <1>1, <1>2, StaffedStarts, StaffedStep, PTL DEF PSSpec

=============================================================================
