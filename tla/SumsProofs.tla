----------------------------- MODULE SumsProofs -----------------------------
(* Sums over finite sets, which the reports are made of: SumFunctionOnSet of *)
(* the community modules takes the elements in the order CHOOSE says; what   *)
(* is proved here is that the order does not matter.                         *)
EXTENDS Functions, FiniteSetTheorems, WellFoundedInduction, TLAPS

\* Of a family of subsets of a finite set, one has no other below it: this
\* stands in for induction over finite sets.
LEMMA MinimalSet ==
  ASSUME NEW S, IsFiniteSet(S), NEW G \in SUBSET SUBSET S, G # {}
  PROVE  \E T \in G : \A U \in G : U \subseteq T => U = T
<1>1. IsWellFoundedOn(StrictSubsetOrdering(S), FiniteSubsetsOf(S))
  BY FS_StrictSubsetOrderingWellFounded
<1>2. G \subseteq FiniteSubsetsOf(S) /\ G # {}
  BY FS_Subset DEF FiniteSubsetsOf
<1>3. \E x \in G : \A y \in G : ~ (<<y, x>> \in StrictSubsetOrdering(S))
  BY <1>1, <1>2, WFMin
<1>. QED
  BY <1>3 DEF StrictSubsetOrdering

\* What a function makes of finitely many elements is finitely many.
LEMMA FiniteImage ==
  ASSUME NEW S, IsFiniteSet(S), NEW g
  PROVE  IsFiniteSet({g[x] : x \in S})
<1>. DEFINE T == {g[x] : x \in S}
            h == [x \in S |-> g[x]]
<1>1. h \in Surjection(S, T)
  BY DEF Surjection
<1>. HIDE DEF h, T
<1>2. IsFiniteSet(T)
  BY <1>1, FS_Surjection
<1>. QED
  BY <1>2 DEF T

Taken(s) == CHOOSE x \in s : TRUE

\* The recursive function that SumFunctionOnSet applies.
Adds(f, fun, S) ==
  f = [s \in SUBSET S |-> IF s = {} THEN 0 ELSE fun[Taken(s)] + f[s \ {Taken(s)}]]

LEMMA SumUnfold ==
  ASSUME NEW fun, NEW S
  PROVE  SumFunctionOnSet(fun, S) = (CHOOSE f : Adds(f, fun, S))[S]
BY Zenon DEF SumFunctionOnSet, FoldFunctionOnSet, MapThenFoldSet, Adds, Taken

LEMMA TakenIn == \A s : s # {} => Taken(s) \in s
BY DEF Taken

LEMMA AddsStep ==
  ASSUME NEW f, NEW fun, NEW S, Adds(f, fun, S), NEW s \in SUBSET S
  PROVE  f[s] = IF s = {} THEN 0 ELSE fun[Taken(s)] + f[s \ {Taken(s)}]
<1>. DEFINE e(g, t) == IF t = {} THEN 0 ELSE fun[Taken(t)] + g[t \ {Taken(t)}]
<1>1. f = [t \in SUBSET S |-> e(f, t)]
  BY Zenon DEF Adds
<1>. HIDE DEF e
<1>2. f[s] = e(f, s)
  BY <1>1
<1>. QED
  BY <1>2 DEF e

\* Two such functions agree where both are defined.
LEMMA AddsUnique ==
  ASSUME NEW fun, NEW S, NEW T, NEW f, NEW g, Adds(f, fun, S), Adds(g, fun, T),
         NEW A, A \subseteq S, A \subseteq T, IsFiniteSet(A)
  PROVE  f[A] = g[A]
<1>. DEFINE G == {s \in SUBSET A : f[s] # g[s]}
<1>. SUFFICES ASSUME G # {} PROVE FALSE
  OBVIOUS
<1>0. G \in SUBSET SUBSET A
  OBVIOUS
<1>. HIDE DEF G
<1>1. PICK s \in G : \A U \in G : U \subseteq s => U = s
  BY <1>0, MinimalSet
<1>2. s \in SUBSET S /\ s \in SUBSET T /\ s \subseteq A /\ f[s] # g[s]
  BY DEF G
<1>3. /\ f[s] = IF s = {} THEN 0 ELSE fun[Taken(s)] + f[s \ {Taken(s)}]
      /\ g[s] = IF s = {} THEN 0 ELSE fun[Taken(s)] + g[s \ {Taken(s)}]
  BY <1>2, AddsStep
<1>4. s # {}
  BY <1>2, <1>3
<1>5. s \ {Taken(s)} # s
  BY <1>4, TakenIn
<1>6. s \ {Taken(s)} \notin G
  BY <1>1, <1>5
<1>7. f[s \ {Taken(s)}] = g[s \ {Taken(s)}]
  BY <1>2, <1>6 DEF G
<1>. QED
  BY <1>2, <1>3, <1>4, <1>7

\* There is one for every finite set.
LEMMA AddsExists ==
  ASSUME NEW fun, NEW S, IsFiniteSet(S)
  PROVE  \E f : Adds(f, fun, S)
<1>. DEFINE G == {s \in SUBSET S : ~ \E f : Adds(f, fun, s)}
<1>. SUFFICES ASSUME G # {} PROVE FALSE
  OBVIOUS
<1>0. G \in SUBSET SUBSET S
  OBVIOUS
<1>. HIDE DEF G
<1>1. PICK T \in G : \A U \in G : U \subseteq T => U = T
  BY <1>0, MinimalSet
<1>11. T \in SUBSET S /\ ~ \E f : Adds(f, fun, T)
  BY DEF G
<1>. DEFINE V(s) == (CHOOSE f : Adds(f, fun, s))[s]
            last == fun[Taken(T)] + V(T \ {Taken(T)})
            h == [s \in SUBSET T |->
                    IF s = {} THEN 0 ELSE fun[Taken(s)] + V(s \ {Taken(s)})]
\* Every smaller set has one, and its value at the set is the sum.
<1>2. ASSUME NEW s \in SUBSET T, s # T
      PROVE  Adds(CHOOSE f : Adds(f, fun, s), fun, s)
  BY <1>1, <1>2, <1>11 DEF G
<1>3. ASSUME NEW s \in SUBSET T, s # T, s # {}
      PROVE  V(s) = fun[Taken(s)] + V(s \ {Taken(s)})
  <2>. DEFINE f == CHOOSE q : Adds(q, fun, s)
              r == s \ {Taken(s)}
              g == CHOOSE q : Adds(q, fun, r)
  <2>1. r \in SUBSET T /\ r # T /\ r \subseteq s
    BY <1>3, TakenIn
  <2>2. Adds(f, fun, s) /\ Adds(g, fun, r)
    BY <1>2, <1>3, <2>1
  <2>3. IsFiniteSet(r)
    BY <1>11, <2>1, FS_Subset
  <2>. HIDE DEF f, g, r
  <2>4. f[r] = g[r]
    BY <2>1, <2>2, <2>3, AddsUnique
  <2>5. f[s] = fun[Taken(s)] + f[r]
    BY <1>3, <2>2, AddsStep DEF r
  <2>. QED
    BY <2>4, <2>5 DEF f, g, r
<1>4. ASSUME NEW s \in SUBSET T, s # T PROVE h[s] = V(s)
  <2>1. CASE s = {}
    <3>. DEFINE f == CHOOSE q : Adds(q, fun, s)
    <3>1. Adds(f, fun, s)
      BY <1>2, <1>4
    <3>. HIDE DEF f
    <3>2. f[s] = 0
      BY <2>1, <3>1, AddsStep
    <3>. QED
      BY <2>1, <3>2 DEF f
  <2>2. CASE s # {}
    <3>. HIDE DEF V
    <3>. QED
      BY <1>3, <1>4, <2>2
  <2>. QED
    BY <2>1, <2>2
<1>. HIDE DEF V
<1>5. ASSUME NEW s \in SUBSET T
      PROVE  h[s] = IF s = {} THEN 0 ELSE fun[Taken(s)] + h[s \ {Taken(s)}]
  <2>1. CASE s = {}
    BY <2>1
  <2>2. CASE s # {}
    <3>1. s \ {Taken(s)} \in SUBSET T /\ s \ {Taken(s)} # T
      BY <2>2, TakenIn
    <3>2. h[s \ {Taken(s)}] = V(s \ {Taken(s)})
      BY <1>4, <3>1
    <3>. HIDE DEF h
    <3>3. h[s] = fun[Taken(s)] + V(s \ {Taken(s)})
      BY <2>2 DEF h
    <3>. QED
      BY <2>2, <3>2, <3>3
  <2>. QED
    BY <2>1, <2>2
<1>6. h = [s \in SUBSET T |->
             IF s = {} THEN 0 ELSE fun[Taken(s)] + h[s \ {Taken(s)}]]
  <2>1. h = [s \in SUBSET T |-> h[s]]
    OBVIOUS
  <2>. HIDE DEF h
  <2>. QED
    BY <1>5, <2>1
<1>. HIDE DEF h
<1>7. Adds(h, fun, T)
  BY <1>6, Zenon DEF Adds
<1>. QED
  BY <1>7, <1>11

\* The sum takes one element after the other.
LEMMA SumStep ==
  ASSUME NEW fun, NEW S, IsFiniteSet(S)
  PROVE  SumFunctionOnSet(fun, S) =
           IF S = {} THEN 0
           ELSE fun[Taken(S)] + SumFunctionOnSet(fun, S \ {Taken(S)})
<1>. DEFINE r == S \ {Taken(S)}
            f == CHOOSE q : Adds(q, fun, S)
            g == CHOOSE q : Adds(q, fun, r)
<1>1. IsFiniteSet(r) /\ r \subseteq S
  BY FS_RemoveElement
<1>2. Adds(f, fun, S) /\ Adds(g, fun, r)
  BY <1>1, AddsExists
<1>3. SumFunctionOnSet(fun, S) = f[S] /\ SumFunctionOnSet(fun, r) = g[r]
  BY SumUnfold
<1>. HIDE DEF f, g
<1>4. f[S] = IF S = {} THEN 0 ELSE fun[Taken(S)] + f[r]
  BY <1>2, AddsStep
<1>. HIDE DEF r
<1>5. f[r] = g[r]
  BY <1>1, <1>2, AddsUnique
<1>. QED
  BY <1>3, <1>4, <1>5 DEF r

-----------------------------------------------------------------------------
(* Laws of sums *)

LEMMA SumEmpty == \A fun : SumFunctionOnSet(fun, {}) = 0
<1>. SUFFICES ASSUME NEW fun PROVE SumFunctionOnSet(fun, {}) = 0
  OBVIOUS
<1>. QED
  BY FS_EmptySet, SumStep

\* An integer, whatever the order.
LEMMA SumType ==
  ASSUME NEW S, IsFiniteSet(S), NEW fun, \A x \in S : fun[x] \in Int
  PROVE  SumFunctionOnSet(fun, S) \in Int
<1>. DEFINE G == {s \in SUBSET S : SumFunctionOnSet(fun, s) \notin Int}
<1>. SUFFICES ASSUME G # {} PROVE FALSE
  OBVIOUS
<1>0. G \in SUBSET SUBSET S
  OBVIOUS
<1>. HIDE DEF G
<1>1. PICK s \in G : \A U \in G : U \subseteq s => U = s
  BY <1>0, MinimalSet
<1>2. s \in SUBSET S /\ SumFunctionOnSet(fun, s) \notin Int
  BY DEF G
<1>3. IsFiniteSet(s)
  BY <1>2, FS_Subset
<1>4. s # {} /\ Taken(s) \in s
  BY <1>2, SumEmpty, TakenIn
<1>5. SumFunctionOnSet(fun, s \ {Taken(s)}) \in Int
  BY <1>1, <1>2, <1>4 DEF G
<1>6. SumFunctionOnSet(fun, s) = fun[Taken(s)] + SumFunctionOnSet(fun, s \ {Taken(s)})
  BY <1>3, <1>4, SumStep
<1>. QED
  BY <1>2, <1>4, <1>5, <1>6

\* Any element may be taken first.
LEMMA SumRemove ==
  ASSUME NEW S, IsFiniteSet(S), NEW fun, \A x \in S : fun[x] \in Int, NEW y \in S
  PROVE  SumFunctionOnSet(fun, S) = fun[y] + SumFunctionOnSet(fun, S \ {y})
<1>. DEFINE T(s) == SumFunctionOnSet(fun, s)
            G == {s \in SUBSET S : \E x \in s : T(s) # fun[x] + T(s \ {x})}
<1>. SUFFICES ASSUME G # {} PROVE FALSE
  OBVIOUS
<1>0. G \in SUBSET SUBSET S
  OBVIOUS
<1>. HIDE DEF G
<1>1. PICK s \in G : \A U \in G : U \subseteq s => U = s
  BY <1>0, MinimalSet
<1>2. s \in SUBSET S
  BY <1>0
<1>3. PICK x \in s : T(s) # fun[x] + T(s \ {x})
  BY DEF G
<1>. DEFINE t == Taken(s)
<1>4. t \in s
  BY TakenIn
<1>5. \A u \in SUBSET s : IsFiniteSet(u) /\ T(u) \in Int
  <2>. SUFFICES ASSUME NEW u \in SUBSET s PROVE IsFiniteSet(u) /\ T(u) \in Int
    OBVIOUS
  <2>1. IsFiniteSet(u)
    BY <1>2, FS_Subset
  <2>. QED
    BY <1>2, <2>1, SumType
<1>6. T(s) = fun[t] + T(s \ {t})
  BY <1>3, <1>5, SumStep
<1>7. x # t
  BY <1>3, <1>6
<1>8. \A u \in SUBSET s : u # s => \A z \in u : T(u) = fun[z] + T(u \ {z})
  BY <1>1, <1>2 DEF G
<1>. DEFINE both == (s \ {t}) \ {x}
<1>9. (s \ {x}) \ {t} = both
  OBVIOUS
<1>. HIDE DEF T, t, both
<1>10. T(s \ {t}) = fun[x] + T(both)
  BY <1>4, <1>7, <1>8 DEF both
<1>11. T(s \ {x}) = fun[t] + T(both)
  BY <1>3, <1>4, <1>7, <1>8, <1>9
<1>12. fun[x] \in Int /\ fun[t] \in Int /\ T(both) \in Int
  BY <1>2, <1>4, <1>5 DEF both
<1>. QED
  BY <1>3, <1>6, <1>10, <1>11, <1>12

\* The sum of two parts that do not meet.
LEMMA SumUnion ==
  ASSUME NEW A, IsFiniteSet(A), NEW B, IsFiniteSet(B), A \cap B = {},
         NEW fun, \A x \in A \cup B : fun[x] \in Int
  PROVE  SumFunctionOnSet(fun, A \cup B) =
           SumFunctionOnSet(fun, A) + SumFunctionOnSet(fun, B)
<1>. DEFINE T(s) == SumFunctionOnSet(fun, s)
            G == {s \in SUBSET A : T(s \cup B) # T(s) + T(B)}
<1>. SUFFICES ASSUME G # {} PROVE FALSE
  OBVIOUS
<1>0. G \in SUBSET SUBSET A
  OBVIOUS
<1>. HIDE DEF G
<1>1. PICK s \in G : \A U \in G : U \subseteq s => U = s
  BY <1>0, MinimalSet
<1>2. s \in SUBSET A /\ T(s \cup B) # T(s) + T(B)
  BY DEF G
<1>3. \A u \in SUBSET (A \cup B) : IsFiniteSet(u) /\ T(u) \in Int
  <2>. SUFFICES ASSUME NEW u \in SUBSET (A \cup B)
                PROVE  IsFiniteSet(u) /\ T(u) \in Int
    OBVIOUS
  <2>1. IsFiniteSet(u)
    BY FS_Union, FS_Subset
  <2>. QED
    BY <2>1, SumType
<1>4. CASE s = {}
  <2>0. s \cup B = B
    BY <1>4
  <2>1. T(s) = 0 /\ T(s \cup B) = T(B)
    BY <1>4, <2>0, SumEmpty
  <2>2. T(B) \in Int
    BY <1>3
  <2>. HIDE DEF T
  <2>. QED
    BY <1>2, <2>1, <2>2
<1>5. CASE s # {}
  <2>1. PICK x \in s : TRUE
    BY <1>5
  <2>. DEFINE r == s \ {x}
  <2>2. T(r \cup B) = T(r) + T(B)
    <3>1. r \notin G
      BY <1>1
    <3>. QED
      BY <1>2, <3>1 DEF G
  <2>3. T(s) = fun[x] + T(r)
    BY <1>2, <1>3, SumRemove
  <2>4. T(s \cup B) = fun[x] + T(r \cup B)
    <3>1. (s \cup B) \ {x} = r \cup B
      BY <1>2
    <3>2. s \cup B \in SUBSET (A \cup B) /\ x \in s \cup B
      BY <1>2
    <3>. QED
      BY <1>3, <3>1, <3>2, SumRemove
  <2>5. fun[x] \in Int /\ T(r) \in Int /\ T(B) \in Int
    BY <1>2, <1>3
  <2>. HIDE DEF T, r
  <2>. QED
    BY <1>2, <2>2, <2>3, <2>4, <2>5
<1>. QED
  BY <1>4, <1>5

\* The sum is that of the values.
LEMMA SumSame ==
  ASSUME NEW S, IsFiniteSet(S), NEW fun, NEW gun, \A x \in S : fun[x] = gun[x]
  PROVE  SumFunctionOnSet(fun, S) = SumFunctionOnSet(gun, S)
<1>. DEFINE G == {s \in SUBSET S : SumFunctionOnSet(fun, s) # SumFunctionOnSet(gun, s)}
<1>. SUFFICES ASSUME G # {} PROVE FALSE
  OBVIOUS
<1>0. G \in SUBSET SUBSET S
  OBVIOUS
<1>. HIDE DEF G
<1>1. PICK s \in G : \A U \in G : U \subseteq s => U = s
  BY <1>0, MinimalSet
<1>2. s \in SUBSET S /\ SumFunctionOnSet(fun, s) # SumFunctionOnSet(gun, s)
  BY DEF G
<1>3. IsFiniteSet(s)
  BY <1>2, FS_Subset
<1>4. s # {} /\ Taken(s) \in s
  BY <1>2, SumEmpty, TakenIn
<1>5. SumFunctionOnSet(fun, s \ {Taken(s)}) = SumFunctionOnSet(gun, s \ {Taken(s)})
  BY <1>1, <1>2, <1>4 DEF G
<1>. QED
  BY <1>2, <1>3, <1>4, <1>5, SumStep

\* A sum of numbers that are not negative is not less than any of them.
LEMMA SumBound ==
  ASSUME NEW S, IsFiniteSet(S), NEW fun, \A x \in S : fun[x] \in Nat, NEW y \in S
  PROVE  SumFunctionOnSet(fun, S) \in Nat /\ fun[y] <= SumFunctionOnSet(fun, S)
<1>. DEFINE T(s) == SumFunctionOnSet(fun, s)
            G == {s \in SUBSET S : T(s) \notin Nat}
<1>1. G = {}
  <2>. SUFFICES ASSUME G # {} PROVE FALSE
    OBVIOUS
  <2>0. G \in SUBSET SUBSET S
    OBVIOUS
  <2>. HIDE DEF G
  <2>1. PICK s \in G : \A U \in G : U \subseteq s => U = s
    BY <2>0, MinimalSet
  <2>2. s \in SUBSET S /\ T(s) \notin Nat
    BY DEF G
  <2>3. IsFiniteSet(s)
    BY <2>2, FS_Subset
  <2>4. s # {} /\ Taken(s) \in s
    BY <2>2, SumEmpty, TakenIn
  <2>5. T(s \ {Taken(s)}) \in Nat
    BY <2>1, <2>2, <2>4 DEF G
  <2>6. T(s) = fun[Taken(s)] + T(s \ {Taken(s)})
    BY <2>3, <2>4, SumStep
  <2>. HIDE DEF T
  <2>. QED
    BY <2>2, <2>4, <2>5, <2>6
<1>2. T(S) \in Nat /\ T(S \ {y}) \in Nat
  BY <1>1
<1>3. T(S) = fun[y] + T(S \ {y})
  BY SumRemove
<1>. HIDE DEF T
<1>4. fun[y] <= T(S)
  BY <1>2, <1>3
<1>. QED
  BY <1>2, <1>4 DEF T

\* The sum over a function's domain is that over a set of the values that count.
LEMMA SumOfFunction ==
  ASSUME NEW fun
  PROVE  SumFunction(fun) = SumFunctionOnSet(fun, DOMAIN fun)
BY DEF SumFunction

\* Members of a finite set, counted by what g makes of them.
LEMMA SumOfGroups ==
  ASSUME NEW S, IsFiniteSet(S), NEW K, IsFiniteSet(K), NEW g \in [S -> K],
         NEW count \in [K -> Nat],
         \A k \in K : count[k] = Cardinality({x \in S : g[x] = k})
  PROVE  SumFunctionOnSet(count, K) = Cardinality(S)
<1>. DEFINE T(s) == SumFunctionOnSet(count, s)
            Group(k) == {x \in S : g[x] = k}
            Upto(s) == {x \in S : g[x] \in s}
            G == {s \in SUBSET K : T(s) # Cardinality(Upto(s))}
<1>1. G = {}
  <2>. SUFFICES ASSUME G # {} PROVE FALSE
    OBVIOUS
  <2>0. G \in SUBSET SUBSET K
    OBVIOUS
  <2>. HIDE DEF G
  <2>1. PICK s \in G : \A U \in G : U \subseteq s => U = s
    BY <2>0, MinimalSet
  <2>2. s \in SUBSET K /\ T(s) # Cardinality(Upto(s))
    BY DEF G
  <2>3. s # {}
    <3>. SUFFICES ASSUME s = {} PROVE FALSE
      OBVIOUS
    <3>1. Upto(s) = {}
      OBVIOUS
    <3>. QED
      BY <2>2, <3>1, SumEmpty, FS_EmptySet
  <2>4. PICK k \in s : TRUE
    BY <2>3
  <2>. DEFINE r == s \ {k}
  <2>5. T(r) = Cardinality(Upto(r))
    <3>1. r \notin G
      BY <2>1
    <3>. QED
      BY <2>2, <3>1 DEF G
  <2>6. T(s) = count[k] + T(r)
    <3>1. IsFiniteSet(s) /\ \A x \in s : count[x] \in Int
      BY <2>2, FS_Subset
    <3>. QED
      BY <3>1, SumRemove
  <2>7. Upto(s) = Group(k) \cup Upto(r) /\ Group(k) \cap Upto(r) = {}
    BY <2>2
  <2>8. IsFiniteSet(Group(k)) /\ IsFiniteSet(Upto(r))
    BY FS_Subset
  <2>9. count[k] = Cardinality(Group(k))
    BY <2>2
  <2>. HIDE DEF T, Group, Upto, r
  <2>10. Cardinality(Upto(s)) = Cardinality(Group(k)) + Cardinality(Upto(r))
    <3>1. Cardinality(Group(k)) \in Nat /\ Cardinality(Upto(r)) \in Nat
      BY <2>8, FS_CardinalityType
    <3>2. Cardinality(Group(k) \cap Upto(r)) = 0
      BY <2>7, FS_EmptySet
    <3>3. Cardinality(Group(k) \cup Upto(r)) =
            Cardinality(Group(k)) + Cardinality(Upto(r)) - Cardinality(Group(k) \cap Upto(r))
      BY <2>8, FS_Union
    <3>. QED
      BY <2>7, <3>1, <3>2, <3>3
  <2>. QED
    BY <2>2, <2>5, <2>6, <2>9, <2>10
<1>2. Upto(K) = S
  OBVIOUS
<1>. QED
  BY <1>1, <1>2
=============================================================================
