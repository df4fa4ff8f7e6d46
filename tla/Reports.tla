------------------------------ MODULE Reports -------------------------------
(***************************************************************************)
(* What is computed of the stored readings: the analytics of fields and    *)
(* vendors, windows, freshness, health, the field summaries of the         *)
(* dashboard, and the alerts.  Each is a pure function of the list that    *)
(* one transaction reads, so the store is all the state there is; readings *)
(* come into it as Conversion makes them.                                  *)
(*                                                                         *)
(* Times are numbers.  An average is kept as a sum and a count, and of two *)
(* readings at one time a sort may put either first.                       *)
(***************************************************************************)
EXTENDS AlertLists

CONSTANTS
  Devices,     \* keys of readings
  VendorOf,    \* device -> its vendor, a part of the key
  FieldNames,  \* fields, numbered in the order of their names
  Instants,    \* times of capture
  StaleAfter,  \* a setting: the age at which a reading is not stale yet
  Kept         \* bound: the raw readings of which some may be stored

ASSUME ReportsAssumption ==
  /\ FieldNames \subseteq Nat /\ Instants \subseteq Nat \ {0}
  /\ StaleAfter \in Nat \ {0} /\ Kept \subseteq Raws

VARIABLE stored  \* the bucket of readings: device -> reading

reportVars == <<vars, stored>>

\* PutReading, of a value that can be marshalled: over an earlier reading, if
\* there is one.
Keep(d, f, t) ==
  /\ Converted
  /\ raw \in Kept
  /\ \A m \in Measures : reading.values[m] # NotFinite
  /\ stored' = [i \in DOMAIN stored \cup {d} |->
                  IF i # d THEN stored[i]
                  ELSE [id |-> d, field |-> f, at |-> t,
                        status |-> reading.status, values |-> reading.values]]
  /\ reading' = None
  /\ raw' \in Kept
  /\ UNCHANGED settings

Deliver ==
  /\ Next
  /\ DOMAIN stored # {} => raw' \in Kept
  /\ UNCHANGED stored

ReportsInit == Init /\ stored = [d \in {} |-> 0]

ReportsNext ==
  \/ Deliver
  \/ \E d \in Devices, f \in FieldNames, t \in Instants : Keep(d, f, t)

ReportsSpec == ReportsInit /\ [][ReportsNext]_reportVars

-----------------------------------------------------------------------------
(* Lists and groups *)

\* The lists that ListReadings may return: by time of capture, those of one
\* time in any order, for the sort is not stable.
ListReadings ==
  LET S == {stored[d] : d \in DOMAIN stored}
  IN  {rows \in [1 .. Cardinality(S) -> S] :
         /\ ToSet(rows) = S
         /\ \A j, k \in DOMAIN rows : j < k => rows[j].at <= rows[k].at}

All == DOMAIN stored
Accepted == {d \in All : stored[d].status = "accepted"}
Waiting == {d \in All : stored[d].status \in {"pending", "retried"}}

Fields(ids) == {stored[d].field : d \in ids}
GroupByField(ids, f) == {d \in ids : stored[d].field = f}

Earliest(ids) == {d \in ids : \A e \in ids : stored[d].at <= stored[e].at}
Latest(ids) == {d \in ids : \A e \in ids : stored[d].at >= stored[e].at}

Average(ids, measure) ==
  [sum |-> SumFunction([d \in ids |-> stored[d].values[measure]]),
   of  |-> Cardinality(ids)]

\* The fields of a dashboard.
SummarizeFields ==
  [f \in Fields(Accepted) |-> [m \in Measures |-> Average(GroupByField(Accepted, f), m)]]

\* Mutant: the end of a window belongs to it.
InWindowClosed(d, start, end) == stored[d].at >= start /\ stored[d].at <= end

InWindow(d, start, end) == stored[d].at >= start /\ stored[d].at < end

FilterReadings(start, end) == {d \in All : InWindow(d, start, end)}

NewWindow(start, end) == start < end

WindowAverage(start, end) ==
  IF NewWindow(start, end) THEN Average(FilterReadings(start, end), "moisture")
  ELSE [sum |-> 0, of |-> 0]

\* What Operations.Alerts may return.
Alerts == {EvaluateMany(rows) : rows \in ListReadings}

-----------------------------------------------------------------------------
(* Analytics *)

\* Mutant: the later reading is taken from the earlier one.
DirectionReversed(change) ==
  IF change = 0 THEN "steady" ELSE IF change < 0 THEN "rising" ELSE "falling"

\* Steady is a change of less than 0.01.
Direction(change) ==
  IF change = 0 THEN "steady" ELSE IF change > 0 THEN "rising" ELSE "falling"

\* Which readings may be the first and the last after sorting by time.
Ends(rows) ==
  {p \in Earliest(rows) \X Latest(rows) : p[1] # p[2] \/ Cardinality(rows) = 1}

MoistureChange(p) == stored[p[2]].values["moisture"] - stored[p[1]].values["moisture"]

\* Mutant: pending readings take part in the trend.
TrendsOfAll ==
  [f \in Fields(All) |->
     LET rows == GroupByField(All, f)
     IN  [samples |-> Cardinality(rows),
          directions |-> {Direction(MoistureChange(p)) : p \in Ends(rows)}]]

\* The directions that the trend of a field may have.
Trends ==
  [f \in Fields(Accepted) |->
     LET rows == GroupByField(Accepted, f)
     IN  [samples |-> Cardinality(rows),
          directions |-> {Direction(MoistureChange(p)) : p \in Ends(rows)}]]

RankFields ==
  LET count(f) == Cardinality(GroupByField(Accepted, f))
  IN  StableSort(SetToSeq(Fields(Accepted)), LAMBDA f, g :
        \/ count(f) > count(g)
        \/ count(f) = count(g) /\ f < g)

DistinctVendors == {VendorOf[d] : d \in All}
OfVendor(v) == {d \in All : VendorOf[d] = v}

\* Mutant: a vendor may lack one of the fields.
CoverageButOne(expected) ==
  [v \in DistinctVendors |->
     [fields |-> Cardinality(Fields(OfVendor(v))),
      complete |-> Cardinality(Fields(OfVendor(v))) + 1 >= Cardinality(expected)]]

Coverage(expected) ==
  [v \in DistinctVendors |->
     [fields |-> Cardinality(Fields(OfVendor(v))),
      complete |-> Cardinality(Fields(OfVendor(v))) >= Cardinality(expected)]]

\* Mutant: a reading is not fresh any more as soon as it has the age.
FreshnessStrict(now) ==
  [f \in Fields(All) |->
     \E d \in Latest(GroupByField(All, f)) : now - stored[d].at \in 0 .. (StaleAfter - 1)]

FreshnessByField(now) ==
  [f \in Fields(All) |->
     \E d \in Latest(GroupByField(All, f)) : now - stored[d].at \in 0 .. StaleAfter]

\* Operations.Stale.
Stale(now, d) == now > stored[d].at + StaleAfter

ComputeHealth(now) ==
  LET pending == Cardinality(Waiting)
      stale   == Cardinality({d \in All : Stale(now, d)})
      score   == 100 - 15 * pending - 10 * stale
  IN  [pending |-> pending, stale |-> stale,
       label |-> IF score < 40 THEN "critical"
                 ELSE IF score < 70 THEN "attention" ELSE "healthy"]

-----------------------------------------------------------------------------
(* Properties *)

\* Each accepted reading is counted in exactly one trend, the dashboard shows
\* the same fields with the same numbers of readings, and the ranking lists
\* them, one with most readings first.
FieldsAccounted ==
  LET shown == DOMAIN Trends
  IN  /\ SumFunction([f \in shown |-> Trends[f].samples]) = Cardinality(Accepted)
      /\ DOMAIN SummarizeFields = shown
      /\ \A f \in shown : SummarizeFields[f]["moisture"].of = Trends[f].samples
      /\ ToSet(RankFields) = shown
      /\ \A f \in shown : Trends[RankFields[1]].samples >= Trends[f].samples

\* Where moisture never drops from an accepted reading to a later one, the
\* trend is not falling, and where it never grows, not rising, whichever of
\* those of one time a sort puts first: unless all are of one time.
TrendFollowsReadings ==
  \A f \in Fields(Accepted) :
    LET rows == GroupByField(Accepted, f)
        later == {p \in rows \X rows : stored[p[1]].at < stored[p[2]].at}
    IN  later # {} =>
          /\ (\A p \in later : MoistureChange(p) >= 0)
               => "falling" \notin Trends[f].directions
          /\ (\A p \in later : MoistureChange(p) <= 0)
               => "rising" \notin Trends[f].directions

\* Windows that adjoin split the readings between them: none is counted twice
\* and none is lost at the border, in sums and in counts.
WindowsTile ==
  \A a, b, c \in Instants :
    a < b /\ b < c =>
      LET left == WindowAverage(a, b)
          right == WindowAverage(b, c)
          whole == WindowAverage(a, c)
      IN  left.sum + right.sum = whole.sum /\ left.of + right.of = whole.of

\* A vendor that has readings of expected fields only, and is said to be
\* complete, has all of them, though Coverage compares numbers of fields.
CompleteCoversAll ==
  \A expected \in {e \in SUBSET FieldNames : IsFiniteSet(e)} :
    LET coverage == Coverage(expected)
    IN  \A v \in DOMAIN coverage :
          coverage[v].complete /\ Fields(OfVendor(v)) \subseteq expected
            => Fields(OfVendor(v)) = expected

\* The three judges of age agree, also at the border: a field is fresh just if
\* its latest reading is neither stale nor of the future, and if health counts
\* no stale reading, then only readings of the future keep a field from it.
FreshnessAgrees ==
  \A now \in Instants :
    \A f \in Fields(All) :
      LET last == Latest(GroupByField(All, f))
          future == \E d \in last : stored[d].at > now
      IN  /\ FreshnessByField(now)[f] <=> (~future /\ \A d \in last : ~Stale(now, d))
          /\ ComputeHealth(now).stale = 0 => FreshnessByField(now)[f] \/ future

\* If the summary of the alerts is healthy, no stored reading waits for review
\* and each is within the settings; health takes off points for nothing but
\* age.
HealthyIsReviewed ==
  (\E alerts \in Alerts : Summarize(alerts).healthy) =>
    /\ \A d \in All : ValidateValues(stored[d].values)
    /\ \A now \in Instants :
         LET health == ComputeHealth(now)
         IN  health.pending = 0 /\ (health.stale = 0 => health.label = "healthy")

\* An operator who resolves the merged alerts from the first on always has one
\* of the worst that are left before him, and the summary turns healthy with
\* the last of them and not earlier.
WorstFirst ==
  \A rows \in ListReadings, alerts \in Alerts :
    LET merged == Merge(CheckMany(rows), alerts)
    IN  \A n \in 0 .. Len(merged) :
          LET left == [k \in DOMAIN merged |->
                         IF k <= n THEN Resolve(merged[k]) ELSE merged[k]]
          IN  /\ n < Len(merged) => merged[n + 1].severity = Highest(left)
              /\ Summarize(left).healthy <=> n = Len(merged)
=============================================================================
