---------------------------- MODULE ReportsProofs ----------------------------
(***************************************************************************)
(* What is computed of the stored readings is right of any store that      *)
(* converted readings come into, whatever its size, the settings, the      *)
(* fields and the times: trends, windows, freshness, coverage and counts.  *)
(***************************************************************************)
EXTENDS Reports, ConversionProofs, SumsProofs, SequenceTheorems

(* The readings come from Conversion *)

\* A reading is only kept once it is converted, and then the next raw reading
\* is taken: what is stored takes no part in the conversion.
THEOREM ReportsConvert == ReportsSpec => Spec
<1>1. ReportsInit => Init
  BY DEF ReportsInit
<1>2. [ReportsNext]_reportVars => [Next]_vars
  <2>. SUFFICES ASSUME [ReportsNext]_reportVars PROVE [Next]_vars
    OBVIOUS
  <2>1. CASE Deliver
    BY <2>1 DEF Deliver
  <2>2. ASSUME NEW d \in Devices, NEW f \in FieldNames, NEW t \in Instants,
               Keep(d, f, t)
        PROVE  Proceed
    BY <2>2, ReportsAssumption DEF Keep, Proceed, Converted, None
  <2>3. CASE UNCHANGED reportVars
    BY <2>3 DEF reportVars, vars
  <2>. QED
    BY <2>1, <2>2, <2>3 DEF ReportsNext, Next
<1>. QED
  BY <1>1, <1>2, PTL DEF ReportsSpec, Spec

\* The invariants of the conversion hold beside a store.
COROLLARY ReportsConversion ==
  ReportsSpec => [](TypeOK /\ StatusInv /\ AcceptedIsSound /\ ClearIsInRange)
BY ReportsConvert, TypeCorrect, StatusHolds, AcceptedSound, ClearInRange, PTL

\* What is stored: finitely many readings, of numbers only, each under its key
\* and with the status of its values.
StoredOK ==
  /\ IsFiniteSet(All)
  /\ \A d \in All :
       /\ stored[d].id = d
       /\ stored[d].field \in FieldNames
       /\ stored[d].at \in Instants
       /\ stored[d].values \in [Measures -> Int]
       /\ stored[d].status = StatusOf(stored[d].values)

LEMMA StoredHolds == ReportsSpec => []StoredOK
<1>1. ReportsInit => StoredOK
  <2>. SUFFICES ASSUME ReportsInit PROVE StoredOK
    OBVIOUS
  <2>1. All = {}
    BY DEF ReportsInit, All
  <2>. QED
    BY <2>1, FS_EmptySet DEF StoredOK
<1>2. TypeOK /\ StatusInv /\ StoredOK /\ [ReportsNext]_reportVars => StoredOK'
  <2>. SUFFICES ASSUME TypeOK, StatusInv, StoredOK, [ReportsNext]_reportVars
                PROVE  StoredOK'
    OBVIOUS
  <2>0. ASSUME UNCHANGED <<settings, stored>> PROVE StoredOK'
    BY <2>0 DEF StoredOK, All, StatusOf, ValidateValues
  <2>1. CASE Deliver
    BY <2>0, <2>1 DEF Deliver, Next, Convert, Refuse, Proceed
  <2>2. ASSUME NEW d \in Devices, NEW f \in FieldNames, NEW t \in Instants,
               Keep(d, f, t)
        PROVE  StoredOK'
    <3>. DEFINE kept == [id |-> d, field |-> f, at |-> t,
                         status |-> reading.status, values |-> reading.values]
    <3>1. /\ All' = All \cup {d}
          /\ \A i \in All \cup {d} : stored'[i] = IF i # d THEN stored[i] ELSE kept
          /\ settings' = settings
      BY <2>2 DEF Keep, All
    <3>2. IsFiniteSet(All')
      BY <3>1, FS_AddElement DEF StoredOK
    <3>3. /\ kept.id = d /\ kept.field = f /\ kept.at = t
          /\ kept.status = reading.status /\ kept.values = reading.values
      OBVIOUS
    <3>4. reading.values \in [Measures -> Values]
      BY <2>2 DEF TypeOK, Keep, Converted, None, Refused
    <3>5. reading.values \in [Measures -> Int]
      BY <2>2, <3>4 DEF Keep, Values
    <3>6. reading.status = StatusOf(reading.values)
      BY <2>2 DEF Keep, StatusInv
    <3>. HIDE DEF kept
    <3>7. \A v : StatusOf(v)' = StatusOf(v)
      BY <3>1 DEF StatusOf, ValidateValues
    <3>8. ASSUME NEW i \in All'
          PROVE  /\ stored'[i].id = i
                 /\ stored'[i].field \in FieldNames
                 /\ stored'[i].at \in Instants
                 /\ stored'[i].values \in [Measures -> Int]
                 /\ stored'[i].status = StatusOf(stored'[i].values)
      <4>1. CASE i = d
        BY <3>1, <3>3, <3>5, <3>6, <4>1
      <4>2. CASE i # d
        BY <3>1, <3>8, <4>2 DEF StoredOK
      <4>. QED
        BY <4>1, <4>2
    <3>. QED
      BY <3>1, <3>2, <3>8 DEF StoredOK, StatusOf, ValidateValues
  <2>3. CASE UNCHANGED reportVars
    BY <2>0, <2>3 DEF reportVars, vars
  <2>. QED
    BY <2>1, <2>2, <2>3 DEF ReportsNext
<1>. QED
  BY <1>1, <1>2, ReportsConversion, PTL DEF ReportsSpec

-----------------------------------------------------------------------------
(* Groups of readings *)

\* What is read of a stored reading.
LEMMA Typed ==
  ASSUME StoredOK, NEW d \in All
  PROVE  /\ stored[d].at \in Nat
         /\ stored[d].field \in FieldNames
         /\ \A m \in Measures : stored[d].values[m] \in Int
BY ReportsAssumption DEF StoredOK

LEMMA SomeFinite ==
  ASSUME StoredOK, NEW ids \in SUBSET All
  PROVE  IsFiniteSet(ids) /\ Cardinality(ids) \in Nat
BY FS_Subset, FS_CardinalityType DEF StoredOK

\* Finitely many readings are of finitely many fields.
LEMMA FieldsFinite ==
  ASSUME StoredOK, NEW ids \in SUBSET All
  PROVE  IsFiniteSet(Fields(ids)) /\ Cardinality(Fields(ids)) \in Nat
<1>. DEFINE g == [d \in ids |-> stored[d].field]
<1>1. g \in Surjection(ids, Fields(ids))
  BY DEF Surjection, Fields
<1>. HIDE DEF g
<1>2. IsFiniteSet(Fields(ids))
  BY <1>1, SomeFinite, FS_Surjection
<1>. QED
  BY <1>2, FS_CardinalityType

\* A field that is listed has a reading.
LEMMA FieldsGrouped ==
  ASSUME NEW ids, NEW f
  PROVE  f \in Fields(ids) <=> GroupByField(ids, f) # {}
BY DEF Fields, GroupByField

\* Readings have a latest one.
LEMMA LatestIs ==
  ASSUME StoredOK, NEW ids \in SUBSET All, ids # {}
  PROVE  Latest(ids) # {}
<1>. DEFINE notEarlier(d) == {e \in ids : stored[e].at >= stored[d].at}
            G == {notEarlier(d) : d \in ids}
<1>1. IsFiniteSet(ids)
  BY SomeFinite
<1>2. G \in SUBSET SUBSET ids /\ G # {}
  OBVIOUS
<1>3. \A T \in G : \E d \in ids : T = notEarlier(d)
  OBVIOUS
<1>4. \A d \in ids : notEarlier(d) \in G
  OBVIOUS
<1>. HIDE DEF G
<1>5. PICK T \in G : \A U \in G : U \subseteq T => U = T
  BY <1>1, <1>2, MinimalSet
<1>6. PICK d \in ids : T = notEarlier(d)
  BY <1>3
<1>7. ASSUME NEW e \in ids PROVE stored[d].at >= stored[e].at
  <2>. SUFFICES ASSUME stored[e].at > stored[d].at PROVE FALSE
    BY Typed
  <2>1. notEarlier(e) \subseteq notEarlier(d)
    BY Typed
  <2>2. d \in notEarlier(d) /\ d \notin notEarlier(e)
    BY Typed
  <2>. QED
    BY <1>4, <1>5, <1>6, <2>1, <2>2
<1>. QED
  BY <1>7 DEF Latest

-----------------------------------------------------------------------------
(* Trends, windows, coverage and freshness *)

\* A trend follows the readings if they are of more than one time, whichever of
\* the earliest and of the latest a sort puts first and last: the one at the
\* end is later than the one at the start.
THEOREM TrendsFollow == ReportsSpec => []TrendFollowsReadings
<1>1. StoredOK => TrendFollowsReadings
  <2>. SUFFICES ASSUME StoredOK, NEW f \in Fields(Accepted),
                       NEW rows, rows = GroupByField(Accepted, f),
                       NEW later,
                       later = {p \in rows \X rows : stored[p[1]].at < stored[p[2]].at},
                       later # {}
                PROVE  /\ (\A p \in later : MoistureChange(p) >= 0)
                            => "falling" \notin Trends[f].directions
                       /\ (\A p \in later : MoistureChange(p) <= 0)
                            => "rising" \notin Trends[f].directions
    BY DEF TrendFollowsReadings
  <2>1. Trends[f].directions = {Direction(MoistureChange(p)) : p \in Ends(rows)}
    BY DEF Trends
  <2>2. rows \subseteq All
    BY DEF GroupByField, Accepted
  <2>3. \A d \in rows : stored[d].at \in Nat /\ stored[d].values["moisture"] \in Int
    BY <2>2, Typed DEF Measures
  <2>4. ASSUME NEW p \in Ends(rows)
        PROVE  p \in later /\ MoistureChange(p) \in Int
    <3>1. PICK x \in later : TRUE
      OBVIOUS
    <3>2. /\ p \in rows \X rows
          /\ stored[p[1]].at <= stored[x[1]].at
          /\ stored[x[2]].at <= stored[p[2]].at
      BY <2>3 DEF Ends, Earliest, Latest
    <3>3. stored[p[1]].at < stored[p[2]].at
      BY <2>3, <3>2
    <3>. QED
      BY <2>3, <3>2, <3>3 DEF MoistureChange
  <2>5. \A c \in Int : /\ c >= 0 => Direction(c) # "falling"
                       /\ c <= 0 => Direction(c) # "rising"
    BY DEF Direction
  <2>. QED
    BY <2>1, <2>4, <2>5
<1>. QED
  BY <1>1, StoredHolds, PTL

\* The sum of an average is that of the readings' values.
LEMMA AverageIs ==
  ASSUME StoredOK, NEW ids \in SUBSET All, NEW m
  PROVE  Average(ids, m) = [sum |-> SumFunctionOnSet([d \in All |-> stored[d].values[m]], ids),
                            of  |-> Cardinality(ids)]
<1>. DEFINE g == [d \in ids |-> stored[d].values[m]]
            h == [d \in All |-> stored[d].values[m]]
<1>1. IsFiniteSet(ids) /\ DOMAIN g = ids /\ \A d \in ids : g[d] = h[d]
  BY SomeFinite
<1>. HIDE DEF g, h
<1>2. SumFunction(g) = SumFunctionOnSet(h, ids)
  BY <1>1, SumSame, SumOfFunction
<1>. QED
  BY <1>2 DEF Average, g, h

\* Two windows that adjoin make one: a reading at the border is in the second.
THEOREM WindowsAdjoin == ReportsSpec => []WindowsTile
<1>1. StoredOK => WindowsTile
  <2>. SUFFICES ASSUME StoredOK, NEW a \in Instants, NEW b \in Instants,
                       NEW c \in Instants, a < b, b < c
                PROVE  LET left == WindowAverage(a, b)
                           right == WindowAverage(b, c)
                           whole == WindowAverage(a, c)
                       IN  left.sum + right.sum = whole.sum /\ left.of + right.of = whole.of
    BY DEF WindowsTile
  <2>. DEFINE L == FilterReadings(a, b)
              R == FilterReadings(b, c)
              W == FilterReadings(a, c)
              h == [d \in All |-> stored[d].values["moisture"]]
  <2>1. a \in Nat /\ b \in Nat /\ c \in Nat
    BY ReportsAssumption
  <2>2. W = L \cup R /\ L \cap R = {}
    BY <2>1, Typed DEF FilterReadings, InWindow
  <2>3. L \in SUBSET All /\ R \in SUBSET All /\ W \in SUBSET All
    BY DEF FilterReadings
  <2>4. /\ WindowAverage(a, b) = [sum |-> SumFunctionOnSet(h, L), of |-> Cardinality(L)]
        /\ WindowAverage(b, c) = [sum |-> SumFunctionOnSet(h, R), of |-> Cardinality(R)]
        /\ WindowAverage(a, c) = [sum |-> SumFunctionOnSet(h, W), of |-> Cardinality(W)]
    <3>1. /\ WindowAverage(a, b) = Average(L, "moisture")
          /\ WindowAverage(b, c) = Average(R, "moisture")
          /\ WindowAverage(a, c) = Average(W, "moisture")
      BY <2>1 DEF WindowAverage, NewWindow
    <3>. HIDE DEF L, R, W
    <3>. QED
      BY <2>3, <3>1, AverageIs
  <2>5. \A d \in All : h[d] \in Int
    BY Typed DEF Measures
  <2>6. IsFiniteSet(L) /\ IsFiniteSet(R) /\ Cardinality(L) \in Nat /\ Cardinality(R) \in Nat
    BY <2>3, SomeFinite
  <2>. HIDE DEF h, L, R, W
  <2>7. SumFunctionOnSet(h, L) + SumFunctionOnSet(h, R) = SumFunctionOnSet(h, W)
    BY <2>2, <2>3, <2>5, <2>6, SumUnion
  <2>8. Cardinality(L) + Cardinality(R) = Cardinality(W)
    BY <2>2, <2>6, FS_Union, FS_EmptySet
  <2>. QED
    BY <2>4, <2>7, <2>8
<1>. QED
  BY <1>1, StoredHolds, PTL

\* As many fields as are expected, and none besides them, are all of them.
THEOREM CompleteCovers == ReportsSpec => []CompleteCoversAll
<1>1. StoredOK => CompleteCoversAll
  <2>. SUFFICES ASSUME StoredOK, NEW expected \in SUBSET FieldNames,
                       IsFiniteSet(expected), NEW v \in DistinctVendors,
                       Cardinality(Fields(OfVendor(v))) >= Cardinality(expected),
                       Fields(OfVendor(v)) \subseteq expected
                PROVE  Fields(OfVendor(v)) = expected
    BY DEF CompleteCoversAll, Coverage
  <2>1. OfVendor(v) \subseteq All
    BY DEF OfVendor
  <2>2. Cardinality(Fields(OfVendor(v))) \in Nat /\ Cardinality(expected) \in Nat
    BY <2>1, FieldsFinite, FS_CardinalityType
  <2>3. Cardinality(Fields(OfVendor(v))) <= Cardinality(expected)
    BY FS_Subset
  <2>. QED
    BY <2>2, <2>3, FS_Subset
<1>. QED
  BY <1>1, StoredHolds, PTL

\* Freshness, staleness and health judge the age alike.
THEOREM FreshnessAgree == ReportsSpec => []FreshnessAgrees
<1>1. StoredOK => FreshnessAgrees
  <2>. SUFFICES ASSUME StoredOK, NEW now \in Instants, NEW f \in Fields(All),
                       NEW last, last = Latest(GroupByField(All, f))
                PROVE  LET future == \E d \in last : stored[d].at > now
                       IN  /\ FreshnessByField(now)[f] <=>
                                (~future /\ \A d \in last : ~Stale(now, d))
                           /\ ComputeHealth(now).stale = 0 =>
                                FreshnessByField(now)[f] \/ future
    BY DEF FreshnessAgrees
  <2>1. GroupByField(All, f) \in SUBSET All /\ GroupByField(All, f) # {}
    BY FieldsGrouped DEF GroupByField
  <2>2. last # {} /\ last \subseteq All
    BY <2>1, LatestIs DEF Latest
  <2>3. \A d, e \in last : stored[d].at = stored[e].at
    BY <2>1, Typed DEF Latest
  <2>4. now \in Nat /\ StaleAfter \in Nat /\ \A d \in last : stored[d].at \in Nat
    BY <2>2, ReportsAssumption, Typed
  <2>5. FreshnessByField(now)[f] <=> \E d \in last : now - stored[d].at \in 0 .. StaleAfter
    BY DEF FreshnessByField
  <2>6. PICK e \in last : TRUE
    BY <2>2
  <2>7. FreshnessByField(now)[f] <=>
          (~ \E d \in last : stored[d].at > now) /\ \A d \in last : ~Stale(now, d)
    BY <2>3, <2>4, <2>5, <2>6 DEF Stale
  <2>8. ComputeHealth(now).stale = 0 => \A d \in All : ~Stale(now, d)
    <3>1. {d \in All : Stale(now, d)} \in SUBSET All
      OBVIOUS
    <3>2. ComputeHealth(now).stale = Cardinality({d \in All : Stale(now, d)})
      BY DEF ComputeHealth
    <3>. QED
      BY <3>1, <3>2, SomeFinite, FS_EmptySet
  <2>. QED
    BY <2>2, <2>7, <2>8
<1>. QED
  BY <1>1, StoredHolds, PTL

-----------------------------------------------------------------------------
(* Lists *)

\* A list of a finite set has each member in one place.
LEMMA SetListed ==
  ASSUME NEW S, IsFiniteSet(S)
  PROVE  /\ Cardinality(S) \in Nat
         /\ SetToSeq(S) \in [1 .. Cardinality(S) -> S]
         /\ \A a, b \in 1 .. Cardinality(S) : SetToSeq(S)[a] = SetToSeq(S)[b] => a = b
         /\ ToSet(SetToSeq(S)) = S
         /\ DOMAIN SetToSeq(S) = 1 .. Cardinality(S)
<1>. DEFINE N == Cardinality(S)
            s == SetToSeq(S)
<1>1. N \in Nat /\ ExistsBijection(1 .. N, S)
  BY FS_CardinalityType
<1>2. \E f \in [1 .. N -> S] : IsInjective(f)
  BY <1>1 DEF ExistsBijection, Bijection, Injection, IsInjective
<1>3. s \in [1 .. N -> S] /\ IsInjective(s)
  BY <1>2 DEF SetToSeq
<1>4. s \in Injection(1 .. N, S)
  BY <1>3 DEF Injection, IsInjective
<1>5. IsFiniteSet(1 .. N) /\ Cardinality(1 .. N) = N
  BY <1>1, FS_Interval
<1>6. s \in Surjection(1 .. N, S)
  BY <1>4, <1>5, FS_Injection
<1>. HIDE DEF N, s
<1>7. ToSet(s) = S /\ DOMAIN s = 1 .. N
  BY <1>3, <1>6 DEF ToSet, Surjection
<1>. QED
  BY <1>1, <1>3, <1>7 DEF N, s, IsInjective

\* A total order, as StableSort makes one of places.
Orders(A, S) ==
  /\ A \subseteq S \X S
  /\ \A i \in S : <<i, i>> \notin A
  /\ \A i, j \in S : i # j => <<i, j>> \in A \/ <<j, i>> \in A
  /\ \A i, j, k \in S : <<i, j>> \in A /\ <<j, k>> \in A => <<i, k>> \in A

\* Each member has its place, which is one more than there are members ahead.
LEMMA Placed ==
  ASSUME NEW S, IsFiniteSet(S), NEW A, Orders(A, S)
  PROVE  /\ \A n \in 1 .. Cardinality(S) : AtPlace(A, S, n) \in S
         /\ \A k \in S : \E n \in 1 .. Cardinality(S) : AtPlace(A, S, n) = k
         /\ \A m, n \in 1 .. Cardinality(S) :
              m < n => <<AtPlace(A, S, m), AtPlace(A, S, n)>> \in A
<1>. DEFINE N == Cardinality(S)
            Ahead(k) == {j \in S : <<j, k>> \in A}
            place == [k \in S |-> 1 + Cardinality(Ahead(k))]
<1>1. N \in Nat /\ IsFiniteSet(1 .. N) /\ Cardinality(1 .. N) = N
  BY FS_CardinalityType, FS_Interval
<1>2. ASSUME NEW k \in S
      PROVE  IsFiniteSet(Ahead(k)) /\ Cardinality(Ahead(k)) \in Nat /\ place[k] \in 1 .. N
  <2>1. IsFiniteSet(Ahead(k)) /\ Cardinality(Ahead(k)) \in Nat
    BY FS_Subset, FS_CardinalityType
  <2>2. Ahead(k) \in SUBSET (S \ {k}) /\ IsFiniteSet(S \ {k})
        /\ Cardinality(S \ {k}) = N - 1
    BY FS_RemoveElement DEF Orders
  <2>3. Cardinality(Ahead(k)) <= N - 1
    <3>. HIDE DEF Ahead, N
    <3>1. Cardinality(Ahead(k)) <= Cardinality(S \ {k})
      BY <2>2, FS_Subset
    <3>. QED
      BY <2>2, <3>1
  <2>. HIDE DEF Ahead, N
  <2>. QED
    BY <1>1, <2>1, <2>3
<1>3. ASSUME NEW i \in S, NEW k \in S, <<i, k>> \in A
      PROVE  place[i] < place[k]
  <2>1. Ahead(i) \in SUBSET Ahead(k) /\ i \in Ahead(k) /\ i \notin Ahead(i)
    BY <1>3 DEF Orders
  <2>2. Cardinality(Ahead(i)) <= Cardinality(Ahead(k))
        /\ (Cardinality(Ahead(k)) = Cardinality(Ahead(i)) => Ahead(k) = Ahead(i))
    BY <1>2, <2>1, FS_Subset
  <2>. HIDE DEF Ahead
  <2>. QED
    BY <1>2, <2>1, <2>2
<1>4. \A i, k \in S : place[i] = place[k] => i = k
  <2>. SUFFICES ASSUME NEW i \in S, NEW k \in S, place[i] = place[k], i # k PROVE FALSE
    OBVIOUS
  <2>1. place[i] < place[k] \/ place[k] < place[i]
    BY <1>3 DEF Orders
  <2>2. place[i] \in Int /\ place[k] \in Int
    BY <1>2
  <2>. HIDE DEF place
  <2>. QED
    BY <2>1, <2>2
<1>. HIDE DEF place, Ahead, N
<1>5. place \in Injection(S, 1 .. N)
  <2>1. place \in [S -> 1 .. N]
    <3>1. place = [k \in S |-> place[k]]
      BY DEF place
    <3>. QED
      BY <1>2, <3>1
  <2>. QED
    BY <1>4, <2>1, Zenon DEF Injection, IsInjective
<1>6. \A n \in 1 .. N : \E k \in S : place[k] = n
  <2>1. place \in Surjection(S, 1 .. N)
    BY <1>1, <1>5, FS_Injection DEF N
  <2>. QED
    BY <2>1 DEF Surjection
<1>7. ASSUME NEW n \in 1 .. N
      PROVE  AtPlace(A, S, n) \in S /\ place[AtPlace(A, S, n)] = n
  <2>1. \A k \in S : (place[k] = n <=> Cardinality({j \in S : <<j, k>> \in A}) = n - 1)
    <3>1. \A k \in S : /\ place[k] = 1 + Cardinality({j \in S : <<j, k>> \in A})
                       /\ Cardinality({j \in S : <<j, k>> \in A}) \in Nat
      BY <1>2 DEF place, Ahead
    <3>. QED
      BY <1>1, <3>1
  <2>2. \E k \in S : Cardinality({j \in S : <<j, k>> \in A}) = n - 1
    BY <1>6, <2>1
  <2>3. /\ AtPlace(A, S, n) \in S
        /\ Cardinality({j \in S : <<j, AtPlace(A, S, n)>> \in A}) = n - 1
    BY <2>2 DEF AtPlace
  <2>. QED
    BY <2>1, <2>3
<1>8. \A k \in S : AtPlace(A, S, place[k]) = k
  BY <1>2, <1>4, <1>7
<1>9. ASSUME NEW m \in 1 .. N, NEW n \in 1 .. N, m < n
      PROVE  <<AtPlace(A, S, m), AtPlace(A, S, n)>> \in A
  <2>1. AtPlace(A, S, m) # AtPlace(A, S, n)
    BY <1>1, <1>7, <1>9
  <2>2. <<AtPlace(A, S, n), AtPlace(A, S, m)>> \notin A
    <3>. SUFFICES ASSUME <<AtPlace(A, S, n), AtPlace(A, S, m)>> \in A PROVE FALSE
      OBVIOUS
    <3>1. n < m
      BY <1>3, <1>7
    <3>. QED
      BY <1>1, <1>9, <3>1
  <2>. QED
    BY <1>7, <2>1, <2>2 DEF Orders
<1>. QED
  BY <1>2, <1>7, <1>8, <1>9 DEF N

\* What StableSort makes of a list.
Arranged(list, A) == [n \in DOMAIN list |-> list[AtPlace(A, DOMAIN list, n)]]

\* The members in two places are in the order of A.
Ordered(sorted, m, n, N, list, A) ==
  \E j, k \in 1 .. N :
    sorted[m] = list[j] /\ sorted[n] = list[k] /\ <<j, k>> \in A

\* It has the same members, in the order of A.
Sorts(sorted, N, list, A) ==
  /\ DOMAIN sorted = 1 .. N
  /\ ToSet(sorted) = ToSet(list)
  /\ \A n \in 1 .. N : \E k \in 1 .. N : sorted[n] = list[k]
  /\ \A m, n \in 1 .. N : m < n => Ordered(sorted, m, n, N, list, A)

LEMMA Rearranged ==
  ASSUME NEW N \in Nat, NEW list, DOMAIN list = 1 .. N, NEW A, Orders(A, 1 .. N)
  PROVE  Sorts(Arranged(list, A), N, list, A)
<1>. DEFINE sorted == Arranged(list, A)
<1>1. IsFiniteSet(1 .. N) /\ Cardinality(1 .. N) = N
  BY FS_Interval
<1>2. /\ \A n \in 1 .. N : AtPlace(A, 1 .. N, n) \in 1 .. N
      /\ \A k \in 1 .. N : \E n \in 1 .. N : AtPlace(A, 1 .. N, n) = k
      /\ \A m, n \in 1 .. N :
           m < n => <<AtPlace(A, 1 .. N, m), AtPlace(A, 1 .. N, n)>> \in A
  <2>. DEFINE I == 1 .. N
  <2>0. IsFiniteSet(I) /\ Cardinality(I) = N /\ Orders(A, I)
    BY <1>1
  <2>. HIDE DEF I
  <2>1. /\ \A n \in 1 .. N : AtPlace(A, I, n) \in I
        /\ \A k \in I : \E n \in 1 .. N : AtPlace(A, I, n) = k
        /\ \A m, n \in 1 .. N : m < n => <<AtPlace(A, I, m), AtPlace(A, I, n)>> \in A
    BY <2>0, Placed
  <2>. QED
    BY <2>1 DEF I
<1>3. \A n \in 1 .. N : sorted[n] = list[AtPlace(A, 1 .. N, n)]
  BY DEF Arranged
<1>4. DOMAIN sorted = 1 .. N
  BY DEF Arranged
<1>. HIDE DEF sorted
<1>5. ToSet(sorted) = ToSet(list)
  BY <1>2, <1>3, <1>4 DEF ToSet
<1>6. Sorts(sorted, N, list, A)
  BY <1>2, <1>3, <1>4, <1>5 DEF Sorts, Ordered
<1>. QED
  BY <1>6 DEF sorted

-----------------------------------------------------------------------------
(* Fields *)

\* Every accepted reading is counted in the trend of one field; dashboard,
\* trends and ranking are of the same fields, and most readings rank first.
THEOREM FieldsCounted == ReportsSpec => []FieldsAccounted
<1>1. ASSUME StoredOK PROVE FieldsAccounted
  <2>. DEFINE shown == Fields(Accepted)
              count == [f \in shown |-> Cardinality(GroupByField(Accepted, f))]
              list == SetToSeq(shown)
              N == Cardinality(shown)
  <2>1. /\ DOMAIN Trends = shown
        /\ \A f \in shown : Trends[f].samples = count[f]
    BY DEF Trends
  <2>2. Accepted \in SUBSET All /\ \A f \in shown : GroupByField(Accepted, f) \in SUBSET All
    BY DEF Accepted, GroupByField
  <2>3. /\ IsFiniteSet(shown) /\ N \in Nat /\ IsFiniteSet(Accepted)
        /\ \A f \in shown : count[f] \in Nat
    BY <1>1, <2>2, SomeFinite, FieldsFinite
  <2>4. SumFunction([f \in shown |-> Trends[f].samples]) = Cardinality(Accepted)
    <3>. DEFINE g == [d \in Accepted |-> stored[d].field]
    <3>1. g \in [Accepted -> shown]
      BY DEF Fields
    <3>2. count \in [shown -> Nat]
      BY <2>3
    <3>3. \A f \in shown : count[f] = Cardinality({d \in Accepted : g[d] = f})
      BY DEF GroupByField
    <3>4. [f \in shown |-> Trends[f].samples] = count /\ DOMAIN count = shown
      BY <2>1
    <3>. HIDE DEF g, count, shown
    <3>5. SumFunctionOnSet(count, shown) = Cardinality(Accepted)
      BY <2>3, <3>1, <3>2, <3>3, SumOfGroups
    <3>. QED
      BY <3>4, <3>5, SumOfFunction
  <2>5. /\ DOMAIN SummarizeFields = shown
        /\ \A f \in shown : SummarizeFields[f]["moisture"].of = Trends[f].samples
    BY <2>1 DEF SummarizeFields, Average, Measures
  <2>6. /\ ToSet(RankFields) = shown
        /\ \A f \in shown : Trends[RankFields[1]].samples >= Trends[f].samples
    <3>. DEFINE Before(f, g) == \/ count[f] > count[g]
                                \/ count[f] = count[g] /\ f < g
                A == {p \in (DOMAIN list) \X (DOMAIN list) :
                        \/ Before(list[p[1]], list[p[2]])
                        \/ ~Before(list[p[2]], list[p[1]]) /\ p[1] < p[2]}
    <3>1. /\ DOMAIN list = 1 .. N /\ ToSet(list) = shown
          /\ \A k \in 1 .. N : list[k] \in shown
      BY <2>3, SetListed
    <3>2. \A f \in shown : f \in Nat
      BY <1>1, <2>2, Typed, ReportsAssumption DEF Fields
    <3>3. RankFields = Arranged(list, A)
      <4>1. \A j, k \in DOMAIN list :
              /\ Cardinality(GroupByField(Accepted, list[j])) = count[list[j]]
              /\ Cardinality(GroupByField(Accepted, list[k])) = count[list[k]]
        BY <3>1
      <4>. DEFINE many(f) == Cardinality(GroupByField(Accepted, f))
                  Ranks(f, g) == \/ many(f) > many(g)
                                 \/ many(f) = many(g) /\ f < g
                  B == {p \in (DOMAIN list) \X (DOMAIN list) :
                          \/ Ranks(list[p[1]], list[p[2]])
                          \/ ~Ranks(list[p[2]], list[p[1]]) /\ p[1] < p[2]}
      <4>2. RankFields = Arranged(list, B)
        BY Zenon DEF RankFields, StableSort, Arranged
      <4>3. A = B
        <5>1. \A k \in DOMAIN list : many(list[k]) = count[list[k]]
          BY <4>1
        <5>2. \A j, k \in DOMAIN list :
                Ranks(list[j], list[k]) <=> Before(list[j], list[k])
          <6>. HIDE DEF many, count, list
          <6>. QED
            BY <5>1
        <5>. HIDE DEF Ranks, Before, list
        <5>. QED
          BY <5>2
      <4>. HIDE DEF A, B, list
      <4>. QED
        BY <4>2, <4>3
    <3>. HIDE DEF list, shown, count, N
    <3>31. \A j, k : <<j, k>> \in A <=>
             /\ j \in 1 .. N /\ k \in 1 .. N
             /\ \/ Before(list[j], list[k])
                \/ ~Before(list[k], list[j]) /\ j < k
      BY <3>1
    <3>32. A \subseteq (1 .. N) \X (1 .. N)
      BY <3>1
    <3>33. \A k \in 1 .. N : list[k] \in Nat /\ count[list[k]] \in Nat
      BY <2>3, <3>1, <3>2
    <3>. HIDE DEF A
    <3>4. Orders(A, 1 .. N)
      <4>1. \A i \in 1 .. N : <<i, i>> \notin A
        BY <2>3, <3>31, <3>33
      <4>2. \A i, j \in 1 .. N : i # j => <<i, j>> \in A \/ <<j, i>> \in A
        BY <2>3, <3>31, <3>33
      <4>3. \A i, j, k \in 1 .. N :
              <<i, j>> \in A /\ <<j, k>> \in A => <<i, k>> \in A
        <5>. SUFFICES ASSUME NEW i \in 1 .. N, NEW j \in 1 .. N, NEW k \in 1 .. N,
                             <<i, j>> \in A, <<j, k>> \in A
                      PROVE  <<i, k>> \in A
          OBVIOUS
        <5>1. /\ Before(list[i], list[j]) \/ (~Before(list[j], list[i]) /\ i < j)
              /\ Before(list[j], list[k]) \/ (~Before(list[k], list[j]) /\ j < k)
          BY <3>31
        <5>2. Before(list[i], list[k]) \/ (~Before(list[k], list[i]) /\ i < k)
          BY <2>3, <3>33, <5>1
        <5>. QED
          BY <3>31, <5>2
      <4>. QED
        BY <3>32, <4>1, <4>2, <4>3 DEF Orders
    <3>5. \A j, k \in 1 .. N : <<j, k>> \in A => count[list[j]] >= count[list[k]]
      BY <2>3, <3>31, <3>33
    <3>6. Sorts(RankFields, N, list, A)
      <4>. HIDE DEF Before
      <4>1. N \in Nat /\ DOMAIN list = 1 .. N
        BY <2>3, <3>1
      <4>. QED
        BY <4>1, <3>3, <3>4, Rearranged
    <3>7. ASSUME NEW f \in shown
          PROVE  RankFields[1] \in shown /\ count[RankFields[1]] >= count[f]
      <4>1. PICK n \in 1 .. N : RankFields[n] = f
        BY <3>1, <3>6 DEF ToSet, Sorts
      <4>2. 1 \in 1 .. N /\ (n = 1 \/ 1 < n)
        BY <2>3
      <4>3. RankFields[1] \in shown
        BY <3>1, <3>6, <4>2 DEF Sorts
      <4>4. count[RankFields[1]] >= count[RankFields[n]]
        <5>1. CASE n = 1
          BY <2>3, <4>3, <5>1
        <5>2. CASE 1 < n
          <6>1. PICK j \in 1 .. N, k \in 1 .. N :
                  RankFields[1] = list[j] /\ RankFields[n] = list[k] /\ <<j, k>> \in A
            <7>1. Ordered(RankFields, 1, n, N, list, A)
              BY <3>6, <4>2, <5>2 DEF Sorts
            <7>. QED
              BY <7>1 DEF Ordered
          <6>. QED
            BY <3>5, <6>1
        <5>. QED
          BY <4>2, <5>1, <5>2
      <4>. QED
        BY <4>1, <4>3, <4>4
    <3>. QED
      BY <2>1, <3>1, <3>6, <3>7 DEF Sorts
  <2>. QED
    BY <2>1, <2>4, <2>5, <2>6 DEF FieldsAccounted
<1>. QED
  BY <1>1, StoredHolds, PTL

-----------------------------------------------------------------------------
(* Alerts *)

LEMMA LeastOf ==
  ASSUME NEW G \in SUBSET Nat, G # {}
  PROVE  \E n \in G : \A m \in G : n <= m
<1>1. \E n \in G : \A m \in G : ~ (<<m, n>> \in OpToRel(<, Nat))
  BY NatLessThanWellFounded, WFMin
<1>2. PICK n \in G : \A m \in G : ~ (<<m, n>> \in OpToRel(<, Nat))
  BY <1>1
<1>3. ASSUME NEW m \in G PROVE n <= m
  <2>1. m \in Nat /\ n \in Nat
    OBVIOUS
  <2>2. ~ (m < n)
    BY <1>2, <2>1 DEF OpToRel
  <2>. QED
    BY <2>1, <2>2
<1>. QED
  BY <1>3

\* The recursive function that FlattenSeq applies.
Flattens(f, seqs, n) ==
  f = [i \in 1 .. n |-> IF i = 1 THEN seqs[i] ELSE f[i - 1] \o seqs[i]]

LEMMA FlattenUnfold ==
  ASSUME NEW seqs, Len(seqs) # 0
  PROVE  FlattenSeq(seqs) = (CHOOSE f : Flattens(f, seqs, Len(seqs)))[Len(seqs)]
BY Zenon DEF FlattenSeq, Flattens

LEMMA FlattensStep ==
  ASSUME NEW f, NEW seqs, NEW n \in Nat, Flattens(f, seqs, n), NEW i \in 1 .. n
  PROVE  f[i] = IF i = 1 THEN seqs[i] ELSE f[i - 1] \o seqs[i]
<1>. DEFINE e(g, j) == IF j = 1 THEN seqs[j] ELSE g[j - 1] \o seqs[j]
<1>1. f = [j \in 1 .. n |-> e(f, j)]
  BY Zenon DEF Flattens
<1>. HIDE DEF e
<1>2. f[i] = e(f, i)
  BY <1>1
<1>. QED
  BY <1>2 DEF e

\* There is one for every list of lists.
LEMMA FlattensExists ==
  ASSUME NEW seqs, NEW n \in Nat
  PROVE  \E f : Flattens(f, seqs, n)
<1>. DEFINE G == {m \in Nat : ~ \E f : Flattens(f, seqs, m)}
<1>. SUFFICES ASSUME G # {} PROVE FALSE
  OBVIOUS
<1>1. PICK m \in G : \A k \in G : m <= k
  BY LeastOf
<1>2. m \in Nat /\ ~ \E f : Flattens(f, seqs, m)
  OBVIOUS
<1>3. CASE m = 0
  <2>1. Flattens([i \in 1 .. 0 |-> 0], seqs, 0)
    BY DEF Flattens
  <2>. QED
    BY <1>2, <1>3, <2>1
<1>4. CASE m # 0
  <2>1. m - 1 \in Nat /\ m - 1 \notin G
    BY <1>1, <1>2, <1>4
  <2>2. PICK f : Flattens(f, seqs, m - 1)
    BY <2>1
  <2>. DEFINE h == [i \in 1 .. m |->
                      IF i < m THEN f[i]
                      ELSE IF i = 1 THEN seqs[i] ELSE f[i - 1] \o seqs[i]]
              e(g, i) == IF i = 1 THEN seqs[i] ELSE g[i - 1] \o seqs[i]
  <2>3. ASSUME NEW i \in 1 .. m PROVE h[i] = e(h, i)
    <3>1. CASE i < m
      <4>1. i \in 1 .. (m - 1)
        BY <1>2, <3>1
      <4>2. f[i] = IF i = 1 THEN seqs[i] ELSE f[i - 1] \o seqs[i]
        BY <2>1, <2>2, <4>1, FlattensStep
      <4>3. h[i] = f[i] /\ (i # 1 => h[i - 1] = f[i - 1])
        BY <1>2, <3>1
      <4>. HIDE DEF h
      <4>. QED
        BY <4>2, <4>3
    <3>2. CASE ~ i < m
      <4>1. i = m
        BY <1>2, <3>2
      <4>2. h[i] = IF i = 1 THEN seqs[i] ELSE f[i - 1] \o seqs[i]
        BY <3>2
      <4>3. i # 1 => h[i - 1] = f[i - 1]
        BY <1>2, <4>1
      <4>. HIDE DEF h
      <4>. QED
        BY <4>2, <4>3
    <3>. QED
      BY <3>1, <3>2
  <2>4. h = [i \in 1 .. m |-> h[i]]
    OBVIOUS
  <2>. HIDE DEF h, e
  <2>5. h = [i \in 1 .. m |-> e(h, i)]
    BY <2>3, <2>4
  <2>6. Flattens(h, seqs, m)
    BY <2>5, Zenon DEF Flattens, e
  <2>. QED
    BY <1>2, <2>6
<1>. QED
  BY <1>3, <1>4

\* A list behind another holds what either holds.
LEMMA ConcatHolds ==
  ASSUME NEW T, NEW p \in Seq(T), NEW q \in Seq(T)
  PROVE  p \o q \in Seq(T) /\ ToSet(p \o q) = ToSet(p) \cup ToSet(q)
<1>1. /\ p \o q \in Seq(T)
      /\ Len(p \o q) = Len(p) + Len(q)
      /\ \A j \in 1 .. Len(p) + Len(q) :
           (p \o q)[j] = IF j <= Len(p) THEN p[j] ELSE q[j - Len(p)]
  BY ConcatProperties
<1>2. /\ Len(p) \in Nat /\ DOMAIN p = 1 .. Len(p)
      /\ Len(q) \in Nat /\ DOMAIN q = 1 .. Len(q)
      /\ DOMAIN (p \o q) = 1 .. (Len(p) + Len(q))
  BY <1>1
<1>3. \A x : x \in ToSet(p \o q) <=> x \in ToSet(p) \/ x \in ToSet(q)
  <2>1. ASSUME NEW j \in DOMAIN (p \o q)
        PROVE  (p \o q)[j] \in ToSet(p) \/ (p \o q)[j] \in ToSet(q)
    <3>1. CASE j <= Len(p)
      BY <1>1, <1>2, <3>1 DEF ToSet
    <3>2. CASE ~ j <= Len(p)
      <4>1. j - Len(p) \in DOMAIN q
        BY <1>2, <3>2
      <4>. QED
        BY <1>1, <1>2, <3>2, <4>1 DEF ToSet
    <3>. QED
      BY <3>1, <3>2
  <2>2. ASSUME NEW j \in DOMAIN p PROVE p[j] \in ToSet(p \o q)
    <3>1. j \in DOMAIN (p \o q) /\ (p \o q)[j] = p[j]
      BY <1>1, <1>2
    <3>. QED
      BY <3>1 DEF ToSet
  <2>3. ASSUME NEW j \in DOMAIN q PROVE q[j] \in ToSet(p \o q)
    <3>1. /\ j + Len(p) \in DOMAIN (p \o q)
          /\ (p \o q)[j + Len(p)] = q[j]
      BY <1>1, <1>2
    <3>. QED
      BY <3>1 DEF ToSet
  <2>. QED
    BY <2>1, <2>2, <2>3 DEF ToSet
<1>. QED
  BY <1>1, <1>3

\* A flattened list holds just what the lists in it hold.
LEMMA Flattened ==
  ASSUME NEW T, NEW seqs \in Seq(Seq(T))
  PROVE  /\ FlattenSeq(seqs) \in Seq(T)
         /\ \A x : x \in ToSet(FlattenSeq(seqs)) <=> \E k \in DOMAIN seqs : x \in ToSet(seqs[k])
<1>. DEFINE N == Len(seqs)
<1>0. N \in Nat /\ DOMAIN seqs = 1 .. N /\ \A i \in 1 .. N : seqs[i] \in Seq(T)
  OBVIOUS
<1>1. CASE N = 0
  <2>1. FlattenSeq(seqs) = seqs /\ DOMAIN seqs = {}
    BY <1>1 DEF FlattenSeq
  <2>2. seqs = << >>
    BY <1>1, EmptySeq
  <2>. QED
    BY <2>1, <2>2 DEF ToSet
<1>2. CASE N # 0
  <2>. DEFINE f == CHOOSE g : Flattens(g, seqs, N)
  <2>1. Flattens(f, seqs, N)
    <3>1. \E g : Flattens(g, seqs, N)
      BY <1>0, FlattensExists
    <3>. QED
      BY <3>1, Zenon
  <2>2. FlattenSeq(seqs) = f[N]
    BY <1>2, FlattenUnfold
  <2>. HIDE DEF f, N
  <2>3. \A i \in 1 .. N : f[i] = IF i = 1 THEN seqs[i] ELSE f[i - 1] \o seqs[i]
    BY <1>0, <2>1, FlattensStep
  <2>. DEFINE Right(i) ==
                /\ f[i] \in Seq(T)
                /\ \A x : x \in ToSet(f[i]) <=> \E k \in 1 .. i : x \in ToSet(seqs[k])
              G == {i \in 1 .. N : ~Right(i)}
  <2>4. G = {}
    <3>. SUFFICES ASSUME G # {} PROVE FALSE
      OBVIOUS
    <3>0. G \subseteq Nat
      BY <1>0
    <3>. HIDE DEF G
    <3>1. PICK i \in G : \A k \in G : i <= k
      BY <3>0, LeastOf
    <3>2. i \in 1 .. N /\ ~Right(i)
      BY DEF G
    <3>3. CASE i = 1
      <4>1. f[1] = seqs[1] /\ seqs[1] \in Seq(T)
        BY <1>0, <2>3, <3>2, <3>3
      <4>2. 1 .. 1 = {1}
        OBVIOUS
      <4>3. Right(1)
        BY <4>1, <4>2
      <4>. QED
        BY <3>2, <3>3, <4>3
    <3>4. CASE i # 1
      <4>1. i - 1 \in 1 .. N /\ i - 1 \notin G
        BY <1>0, <3>1, <3>2, <3>4
      <4>2. Right(i - 1)
        BY <4>1 DEF G
      <4>3. f[i] = f[i - 1] \o seqs[i] /\ seqs[i] \in Seq(T)
        BY <1>0, <2>3, <3>2, <3>4
      <4>. DEFINE p == f[i - 1]
                  q == seqs[i]
      <4>4. p \in Seq(T) /\ q \in Seq(T)
        BY <4>2, <4>3
      <4>. HIDE DEF p, q
      <4>5. p \o q \in Seq(T) /\ ToSet(p \o q) = ToSet(p) \cup ToSet(q)
        BY <4>4, ConcatHolds
      <4>6. 1 .. i = (1 .. (i - 1)) \cup {i}
        BY <1>0, <3>2, <3>4
      <4>7. Right(i)
        BY <4>2, <4>3, <4>5, <4>6 DEF p, q
      <4>. QED
        BY <3>2, <4>7
    <3>. QED
      BY <3>3, <3>4
  <2>5. N \in 1 .. N
    BY <1>0, <1>2
  <2>6. Right(N)
    BY <2>4, <2>5
  <2>. QED
    BY <1>0, <2>2, <2>6
<1>. QED
  BY <1>1, <1>2

LEMMA MeasuresFinite == \A S \in SUBSET Measures : IsFiniteSet(S)
<1>1. Measures = (({"moisture"} \cup {"temperature"}) \cup {"light"}) \cup {"battery"}
  BY DEF Measures
<1>2. IsFiniteSet({"moisture"} \cup {"temperature"})
  BY FS_Singleton, FS_Union
<1>3. IsFiniteSet(({"moisture"} \cup {"temperature"}) \cup {"light"})
  BY <1>2, FS_Singleton, FS_Union
<1>4. IsFiniteSet(Measures)
  BY <1>1, <1>3, FS_Singleton, FS_Union
<1>. QED
  BY <1>4, FS_Subset

\* A judge's issues are finitely many, each a warning or critical.
Judged(issues) ==
  IsFiniteSet(issues) /\ \A i \in issues : i.severity \in {"warning", "critical"}

LEMMA JudgedUnion ==
  ASSUME NEW a, NEW b, Judged(a), Judged(b)
  PROVE  Judged(a \cup b)
BY FS_Union DEF Judged

LEMMA JudgedImage ==
  ASSUME NEW S \in SUBSET Measures, NEW g,
         \A m \in S : g[m].severity \in {"warning", "critical"}
  PROVE  Judged({g[m] : m \in S})
<1>1. IsFiniteSet(S)
  BY MeasuresFinite
<1>2. IsFiniteSet({g[m] : m \in S})
  BY <1>1, FiniteImage
<1>. QED
  BY <1>2 DEF Judged

LEMMA DiagnoseJudges == \A values : Judged(Diagnose(values))
<1>. SUFFICES ASSUME NEW values PROVE Judged(Diagnose(values))
  OBVIOUS
<1>. DEFINE P == {n \in Measures : values[n] = NotFinite}
            Q == {n \in {"battery"} : Within(values[n], [low |-> 0, high |-> 9])}
            p == [m \in Measures |-> Issue(<<"not_finite", m>>, "critical")]
            q == [m \in Measures |-> Issue(<<"low", m>>, "warning")]
<1>1. P \in SUBSET Measures /\ Q \in SUBSET Measures
  BY DEF Measures
<1>2. Diagnose(values) = {p[m] : m \in P} \cup {q[m] : m \in Q}
  BY <1>1 DEF Diagnose
<1>3. \A m \in Measures : p[m].severity = "critical" /\ q[m].severity = "warning"
  BY DEF Issue
<1>. HIDE DEF P, Q, p, q
<1>4. Judged({p[m] : m \in P}) /\ Judged({q[m] : m \in Q})
  BY <1>1, <1>3, JudgedImage
<1>. QED
  BY <1>2, <1>4, JudgedUnion

LEMMA CheckJudges == \A values : Judged(Check(values))
<1>. SUFFICES ASSUME NEW values PROVE Judged(Check(values))
  OBVIOUS
<1>. DEFINE P == {n \in Measures \ {"battery"} : ~Within(values[n], settings[n])}
            Q == {n \in {"battery"} : Within(values[n], [low |-> 0, high |-> 14])}
            p == [m \in Measures |-> Issue(<<"range", m>>, "critical")]
            q == [m \in Measures |-> Issue(<<"battery_low">>, "warning")]
<1>1. P \in SUBSET Measures /\ Q \in SUBSET Measures
  BY DEF Measures
<1>2. Check(values) = {p[m] : m \in P} \cup {q[m] : m \in Q}
  BY <1>1 DEF Check
<1>3. \A m \in Measures : p[m].severity = "critical" /\ q[m].severity = "warning"
  BY DEF Issue
<1>. HIDE DEF P, Q, p, q
<1>4. Judged({p[m] : m \in P}) /\ Judged({q[m] : m \in Q})
  BY <1>1, <1>3, JudgedImage
<1>. QED
  BY <1>2, <1>4, JudgedUnion

LEMMA EvaluateJudges == \A row : Judged(Evaluate(row))
<1>. SUFFICES ASSUME NEW row PROVE Judged(Evaluate(row))
  OBVIOUS
<1>. DEFINE unsettled == Issue(<<"pending">>, "warning")
<1>0. unsettled.severity = "warning"
  BY DEF Issue
<1>1. Judged({unsettled})
  <2>. HIDE DEF unsettled
  <2>. QED
    BY <1>0, FS_Singleton DEF Judged
<1>. QED
  BY <1>1, DiagnoseJudges DEF Evaluate

AlertFrom(row, i) ==
  [reading |-> row.id, field |-> row.field, severity |-> i.severity,
   code |-> i.code, resolved |-> FALSE]

\* The list of alerts holds those of the issues of each row, and no others.
LEMMA AlertsListed ==
  ASSUME NEW N \in Nat, NEW rows, DOMAIN rows = 1 .. N,
         NEW issues, \A k \in 1 .. N : Judged(issues[k])
  PROVE  /\ \E T : AlertsOf(rows, issues) \in Seq(T)
         /\ \A x : x \in ToSet(AlertsOf(rows, issues)) <=>
                     \E k \in 1 .. N : \E i \in issues[k] : x = AlertFrom(rows[k], i)
<1>. DEFINE of(k) == {AlertFrom(rows[k], i) : i \in issues[k]}
            seqs == [k \in DOMAIN rows |-> SetToSeq(of(k))]
            T == UNION {of(k) : k \in 1 .. N}
<1>1. AlertsOf(rows, issues) = FlattenSeq(seqs)
  BY DEF AlertsOf, AlertFrom
<1>2. \A k \in 1 .. N : IsFiniteSet(of(k))
  <2>. SUFFICES ASSUME NEW k \in 1 .. N PROVE IsFiniteSet(of(k))
    OBVIOUS
  <2>. DEFINE g == [i \in issues[k] |-> AlertFrom(rows[k], i)]
  <2>1. of(k) = {g[i] : i \in issues[k]}
    OBVIOUS
  <2>. HIDE DEF g, of
  <2>. QED
    BY <2>1, FiniteImage DEF Judged
<1>. HIDE DEF of
<1>3. \A k \in 1 .. N : seqs[k] \in Seq(T) /\ ToSet(seqs[k]) = of(k)
  <2>. SUFFICES ASSUME NEW k \in 1 .. N
                PROVE  SetToSeq(of(k)) \in Seq(T) /\ ToSet(SetToSeq(of(k))) = of(k)
    OBVIOUS
  <2>1. /\ Cardinality(of(k)) \in Nat
        /\ SetToSeq(of(k)) \in [1 .. Cardinality(of(k)) -> of(k)]
        /\ ToSet(SetToSeq(of(k))) = of(k)
    BY <1>2, SetListed
  <2>2. of(k) \subseteq T
    OBVIOUS
  <2>. HIDE DEF T
  <2>. QED
    BY <2>1, <2>2
<1>4. DOMAIN seqs = 1 .. N
  OBVIOUS
<1>. HIDE DEF T
<1>5. seqs \in Seq(Seq(T))
  <2>1. seqs = [k \in 1 .. N |-> seqs[k]]
    BY <1>4
  <2>. HIDE DEF seqs
  <2>. QED
    BY <1>3, <2>1
<1>. HIDE DEF seqs
<1>6. /\ FlattenSeq(seqs) \in Seq(T)
      /\ \A x : x \in ToSet(FlattenSeq(seqs)) <=> \E k \in 1 .. N : x \in ToSet(seqs[k])
  BY <1>4, <1>5, Flattened
<1>7. \A k \in 1 .. N : \A x : x \in of(k) <=> \E i \in issues[k] : x = AlertFrom(rows[k], i)
  BY DEF of
<1>8. \E S : AlertsOf(rows, issues) \in Seq(S)
  BY <1>1, <1>6, Zenon
<1>9. ASSUME NEW x
      PROVE  x \in ToSet(AlertsOf(rows, issues)) <=>
               \E k \in 1 .. N : \E i \in issues[k] : x = AlertFrom(rows[k], i)
  <2>1. x \in ToSet(AlertsOf(rows, issues)) <=> \E k \in 1 .. N : x \in of(k)
    BY <1>1, <1>3, <1>6
  <2>. QED
    BY <1>7, <2>1, Zenon
<1>. QED
  BY <1>8, <1>9, Zenon

\* A stable sort by a number orders the places.
LEMMA KeyOrders ==
  ASSUME NEW N \in Nat, NEW key, \A k \in 1 .. N : key[k] \in Int, NEW A,
         A \subseteq (1 .. N) \X (1 .. N),
         \A j, k \in 1 .. N :
           <<j, k>> \in A <=> key[j] < key[k] \/ (key[j] = key[k] /\ j < k)
  PROVE  Orders(A, 1 .. N)
<1>1. \A i \in 1 .. N : <<i, i>> \notin A
  OBVIOUS
<1>2. \A i, j \in 1 .. N : i # j => <<i, j>> \in A \/ <<j, i>> \in A
  OBVIOUS
<1>3. \A i, j, k \in 1 .. N : <<i, j>> \in A /\ <<j, k>> \in A => <<i, k>> \in A
  OBVIOUS
<1>. QED
  BY <1>1, <1>2, <1>3 DEF Orders

\* All that is stored is listed, in whatever order.
LEMMA AllListed ==
  ASSUME StoredOK, NEW rows \in ListReadings
  PROVE  \E N \in Nat : DOMAIN rows = 1 .. N /\ ToSet(rows) = {stored[d] : d \in All}
<1>. DEFINE S == {stored[d] : d \in All}
<1>1. IsFiniteSet(S)
  BY FiniteImage DEF StoredOK
<1>2. Cardinality(S) \in Nat
  BY <1>1, FS_CardinalityType
<1>. QED
  BY <1>2 DEF ListReadings, All

\* An alert of a judge is open, and no mere information.
Raised(x) ==
  /\ x.resolved = FALSE /\ x.severity \in {"warning", "critical"}
  /\ Resolve(x).resolved = TRUE

LEMMA FromIsRaised ==
  ASSUME NEW row, NEW i, i.severity \in {"warning", "critical"}
  PROVE  Raised(AlertFrom(row, i))
BY DEF Raised, Resolve, AlertFrom

LEMMA CheckedAre ==
  ASSUME StoredOK, NEW rows \in ListReadings
  PROVE  /\ \E T : CheckMany(rows) \in Seq(T)
         /\ \A x \in ToSet(CheckMany(rows)) : Raised(x)
<1>. DEFINE issues == [k \in DOMAIN rows |-> Check(rows[k].values)]
<1>1. PICK N \in Nat : DOMAIN rows = 1 .. N
  BY AllListed
<1>2. \A k \in 1 .. N : Judged(issues[k])
  BY <1>1, CheckJudges
<1>3. CheckMany(rows) = AlertsOf(rows, issues)
  BY DEF CheckMany
<1>. HIDE DEF issues
<1>4. /\ \E T : AlertsOf(rows, issues) \in Seq(T)
      /\ \A x : x \in ToSet(AlertsOf(rows, issues)) <=>
                  \E k \in 1 .. N : \E i \in issues[k] : x = AlertFrom(rows[k], i)
  BY <1>1, <1>2, AlertsListed
<1>5. \A k \in 1 .. N : \A i \in issues[k] : Raised(AlertFrom(rows[k], i))
  BY <1>2, FromIsRaised DEF Judged
<1>. QED
  BY <1>3, <1>4, <1>5

\* Every issue that the diagnosis finds is alerted.
LEMMA AlertsAre ==
  ASSUME StoredOK, NEW alerts \in Alerts
  PROVE  /\ \E T : alerts \in Seq(T)
         /\ \A x \in ToSet(alerts) : Raised(x)
         /\ \A d \in All : \A i \in Evaluate(stored[d]) :
              AlertFrom(stored[d], i) \in ToSet(alerts)
<1>0. PICK rows \in ListReadings : alerts = EvaluateMany(rows)
  BY DEF Alerts
<1>. DEFINE issues == [k \in DOMAIN rows |-> Evaluate(rows[k])]
<1>1. PICK N \in Nat : DOMAIN rows = 1 .. N /\ ToSet(rows) = {stored[d] : d \in All}
  BY AllListed
<1>2. \A k \in 1 .. N : Judged(issues[k])
  BY <1>1, EvaluateJudges
<1>3. alerts = AlertsOf(rows, issues)
  BY <1>0 DEF EvaluateMany
<1>6. \A d \in All : \E k \in 1 .. N : stored[d] = rows[k] /\ issues[k] = Evaluate(stored[d])
  BY <1>1 DEF ToSet
<1>. HIDE DEF issues
<1>4. /\ \E T : AlertsOf(rows, issues) \in Seq(T)
      /\ \A x : x \in ToSet(AlertsOf(rows, issues)) <=>
                  \E k \in 1 .. N : \E i \in issues[k] : x = AlertFrom(rows[k], i)
  BY <1>1, <1>2, AlertsListed
<1>5. \A k \in 1 .. N : \A i \in issues[k] : Raised(AlertFrom(rows[k], i))
  BY <1>2, FromIsRaised DEF Judged
<1>. QED
  BY <1>3, <1>4, <1>5, <1>6

\* A healthy summary is of no alerts, thus of readings that none is raised of,
\* thus of accepted ones, whose values are within the settings.
THEOREM HealthyReviewed == ReportsSpec => []HealthyIsReviewed
<1>1. ASSUME StoredOK, NEW alerts \in Alerts, Summarize(alerts).healthy
      PROVE  /\ \A d \in All : ValidateValues(stored[d].values)
             /\ \A now \in Instants :
                  LET health == ComputeHealth(now)
                  IN  health.pending = 0 /\ (health.stale = 0 => health.label = "healthy")
  <2>1. /\ Unresolved(alerts, "warning") = {}
        /\ Unresolved(alerts, "critical") = {}
    BY <1>1 DEF Summarize
  <2>2. ToSet(alerts) = {}
    <3>. SUFFICES ASSUME NEW k \in DOMAIN alerts PROVE FALSE
      BY DEF ToSet
    <3>1. Raised(alerts[k])
      BY <1>1, AlertsAre DEF ToSet
    <3>. QED
      BY <2>1, <3>1 DEF Raised, Unresolved
  <2>3. \A d \in All : Evaluate(stored[d]) = {}
    BY <1>1, <2>2, AlertsAre
  <2>4. \A d \in All : stored[d].status # "pending"
    BY <2>3 DEF Evaluate
  <2>5. \A d \in All : stored[d].status = "accepted" /\ ValidateValues(stored[d].values)
    BY <1>1, <2>4 DEF StoredOK, StatusOf
  <2>6. Cardinality(Waiting) = 0
    <3>1. Waiting = {}
      BY <2>5 DEF Waiting
    <3>. QED
      BY <3>1, FS_EmptySet
  <2>7. ASSUME NEW now \in Instants
        PROVE  /\ ComputeHealth(now).pending = 0
               /\ ComputeHealth(now).stale = 0 => ComputeHealth(now).label = "healthy"
    <3>. DEFINE stale == Cardinality({d \in All : Stale(now, d)})
                score == 100 - 15 * 0 - 10 * stale
    <3>1. ComputeHealth(now) =
            [pending |-> 0, stale |-> stale,
             label |-> IF score < 40 THEN "critical"
                       ELSE IF score < 70 THEN "attention" ELSE "healthy"]
      BY <2>6 DEF ComputeHealth
    <3>. HIDE DEF stale
    <3>. QED
      BY <3>1
  <2>. QED
    BY <2>5, <2>7
<1>2. StoredOK => HealthyIsReviewed
  BY <1>1 DEF HealthyIsReviewed
<1>. QED
  BY <1>2, StoredHolds, PTL

\* Of the merged alerts, the worst that are left come first.
THEOREM WorstComesFirst == ReportsSpec => []WorstFirst
<1>1. ASSUME StoredOK PROVE WorstFirst
  <2>. SUFFICES ASSUME NEW rows \in ListReadings, NEW alerts \in Alerts
                PROVE  LET merged == Merge(CheckMany(rows), alerts)
                       IN  \A n \in 0 .. Len(merged) :
                             LET left == [k \in DOMAIN merged |->
                                            IF k <= n THEN Resolve(merged[k]) ELSE merged[k]]
                             IN  /\ n < Len(merged) => merged[n + 1].severity = Highest(left)
                                 /\ Summarize(left).healthy <=> n = Len(merged)
    BY DEF WorstFirst
  <2>. DEFINE list == CheckMany(rows) \o alerts
              N == Len(list)
              merged == Merge(CheckMany(rows), alerts)
              rank == [info |-> 1, warning |-> 2, critical |-> 3]
              A == {p \in (DOMAIN list) \X (DOMAIN list) :
                      \/ rank[list[p[1]].severity] > rank[list[p[2]].severity]
                      \/ ~ (rank[list[p[2]].severity] > rank[list[p[1]].severity])
                         /\ p[1] < p[2]}
              key == [k \in 1 .. N |-> 0 - rank[list[k].severity]]
  <2>1. merged = Arranged(list, A)
    BY Zenon DEF Merge, SortBySeverity, StableSort, Arranged
  <2>2. /\ N \in Nat /\ DOMAIN list = 1 .. N
        /\ \A k \in 1 .. N : Raised(list[k])
    <3>1. PICK T : CheckMany(rows) \in Seq(T)
      BY <1>1, CheckedAre
    <3>2. PICK U : alerts \in Seq(U)
      BY <1>1, AlertsAre
    <3>. DEFINE a == CheckMany(rows)
                b == alerts
    <3>3. a \in Seq(T \cup U) /\ b \in Seq(T \cup U)
      <4>. HIDE DEF a, b
      <4>1. a \in Seq(T) /\ b \in Seq(U)
        BY <3>1, <3>2 DEF a, b
      <4>. QED
        BY <4>1
    <3>4. (\A x \in ToSet(a) : Raised(x)) /\ (\A x \in ToSet(b) : Raised(x))
      BY <1>1, CheckedAre, AlertsAre
    <3>. HIDE DEF a, b
    <3>5. a \o b \in Seq(T \cup U) /\ ToSet(a \o b) = ToSet(a) \cup ToSet(b)
      BY <3>3, ConcatHolds
    <3>6. /\ Len(a \o b) \in Nat /\ DOMAIN (a \o b) = 1 .. Len(a \o b)
          /\ \A k \in DOMAIN (a \o b) : Raised((a \o b)[k])
      BY <3>4, <3>5 DEF ToSet
    <3>. QED
      BY <3>6 DEF a, b
  <2>. HIDE DEF list, N
  <2>3. \A k \in 1 .. N : list[k].severity \in {"warning", "critical"}
    BY <2>2 DEF Raised
  <2>4. rank["warning"] = 2 /\ rank["critical"] = 3
    OBVIOUS
  <2>. HIDE DEF rank
  <2>5. A \subseteq (1 .. N) \X (1 .. N)
    BY <2>2
  <2>6. \A k \in 1 .. N : rank[list[k].severity] \in Nat /\ key[k] = 0 - rank[list[k].severity]
    BY <2>3, <2>4
  <2>7. \A j, k \in 1 .. N :
          <<j, k>> \in A <=>
            \/ rank[list[j].severity] > rank[list[k].severity]
            \/ ~ (rank[list[k].severity] > rank[list[j].severity]) /\ j < k
    BY <2>2
  <2>. HIDE DEF A, key
  <2>8. Orders(A, 1 .. N)
    <3>1. \A j, k \in 1 .. N :
            <<j, k>> \in A <=> key[j] < key[k] \/ (key[j] = key[k] /\ j < k)
      <4>1. \A j, k \in 1 .. N :
              /\ rank[list[j].severity] > rank[list[k].severity] <=> key[j] < key[k]
              /\ ~ (rank[list[k].severity] > rank[list[j].severity])
                   <=> key[j] < key[k] \/ key[j] = key[k]
        BY <2>6
      <4>. QED
        BY <2>7, <4>1
    <3>2. \A k \in 1 .. N : key[k] \in Int
      BY <2>6
    <3>. QED
      BY <2>2, <2>5, <3>1, <3>2, KeyOrders
  <2>9. Sorts(merged, N, list, A)
    BY <2>1, <2>2, <2>8, Rearranged
  <2>. HIDE DEF merged
  <2>10. DOMAIN merged = 1 .. N /\ \A k \in 1 .. N : Raised(merged[k])
    BY <2>2, <2>9 DEF Sorts
\* No warning stands before a critical alert.
  <2>11. ASSUME NEW m \in 1 .. N, NEW k \in 1 .. N, m <= k, merged[k].severity = "critical"
         PROVE  merged[m].severity = "critical"
    <3>1. CASE m = k
      BY <2>11, <3>1
    <3>2. CASE m < k
      <4>1. Ordered(merged, m, k, N, list, A)
        BY <2>9, <3>2 DEF Sorts
      <4>2. PICK i \in 1 .. N, j \in 1 .. N :
              merged[m] = list[i] /\ merged[k] = list[j] /\ <<i, j>> \in A
        BY <4>1 DEF Ordered
      <4>3. list[j].severity = "critical" /\ list[i].severity \in {"warning", "critical"}
        BY <2>3, <2>11, <4>2
      <4>4. ~ (rank["critical"] > rank[list[i].severity])
            \/ rank[list[i].severity] > rank["critical"]
        BY <2>7, <4>2, <4>3
      <4>5. list[i].severity # "warning"
        BY <2>4, <4>4
      <4>. QED
        BY <4>2, <4>3, <4>5
    <3>. QED
      BY <2>2, <2>11, <3>1, <3>2
  <2>12. Len(merged) = N
    BY <2>2, <2>10
  <2>13. ASSUME NEW n \in 0 .. N
         PROVE  LET left == [k \in DOMAIN merged |->
                               IF k <= n THEN Resolve(merged[k]) ELSE merged[k]]
                IN  /\ n < N => merged[n + 1].severity = Highest(left)
                    /\ Summarize(left).healthy <=> n = N
    <3>. DEFINE left == [k \in DOMAIN merged |->
                           IF k <= n THEN Resolve(merged[k]) ELSE merged[k]]
    <3>1. \A k \in 1 .. N : /\ left[k].resolved <=> k <= n
                            /\ ~ k <= n => left[k] = merged[k]
      BY <2>10 DEF Raised
    <3>2. DOMAIN left = 1 .. N
      BY <2>10
    <3>. HIDE DEF left
    <3>3. \A s : Unresolved(left, s) = {k \in 1 .. N : n < k /\ merged[k].severity = s}
      BY <2>2, <3>1, <3>2 DEF Unresolved
    <3>4. CASE n = N
      <4>1. \A s : Unresolved(left, s) = {}
        BY <2>2, <3>3, <3>4
      <4>2. Summarize(left).healthy
        BY <4>1 DEF Summarize
      <4>. QED
        BY <2>2, <3>4, <4>2 DEF left
    <3>5. CASE n # N
      <4>1. n + 1 \in 1 .. N /\ n < n + 1 /\ n < N
        BY <2>2, <3>5
      <4>2. merged[n + 1].severity \in {"warning", "critical"}
        BY <2>10, <4>1 DEF Raised
      <4>3. n + 1 \in Unresolved(left, merged[n + 1].severity)
        BY <3>3, <4>1
      <4>4. ~ Summarize(left).healthy
        BY <4>2, <4>3 DEF Summarize
      <4>5. Unresolved(left, "critical") # {} => merged[n + 1].severity = "critical"
        <5>. SUFFICES ASSUME NEW k \in Unresolved(left, "critical")
                      PROVE  merged[n + 1].severity = "critical"
          OBVIOUS
        <5>1. k \in 1 .. N /\ n < k /\ merged[k].severity = "critical"
          BY <3>3
        <5>2. n + 1 <= k
          BY <2>2, <5>1
        <5>. QED
          BY <2>11, <4>1, <5>1, <5>2
      <4>6. merged[n + 1].severity = Highest(left)
        BY <4>2, <4>3, <4>5 DEF Highest
      <4>. QED
        BY <3>5, <4>4, <4>6 DEF left
    <3>. QED
      BY <3>4, <3>5
  <2>. QED
    BY <2>12, <2>13 DEF merged
<1>. QED
  BY <1>1, StoredHolds, PTL
=============================================================================
