----------------------------- MODULE AlertLists -----------------------------
(***************************************************************************)
(* Lists of alerts: those of the readings of a list, by the diagnosis      *)
(* (alerts.Evaluate) or by the policy (Policy.CheckMany), and what is done *)
(* with them: sorting, merging, resolving and summing up.                  *)
(*                                                                         *)
(* The alerts of one reading are listed in any order, for the order of the *)
(* checks; ids, messages and times of alerts are left out.                 *)
(***************************************************************************)
EXTENDS Conversion, SequencesExt

\* The alerts of listed rows, one row after the other, of the issues of each.
AlertsOf(rows, issues) ==
  FlattenSeq(
    [k \in DOMAIN rows |->
       SetToSeq({[reading  |-> rows[k].id, field |-> rows[k].field,
                       severity |-> i.severity, code |-> i.code,
                       resolved |-> FALSE] : i \in issues[k]})])

EvaluateMany(rows) == AlertsOf(rows, [k \in DOMAIN rows |-> Evaluate(rows[k])])
CheckMany(rows) == AlertsOf(rows, [k \in DOMAIN rows |-> Check(rows[k].values)])

\* The member of a set in a given place of a total order of it.
AtPlace(ahead, S, n) ==
  CHOOSE k \in S : Cardinality({j \in S : <<j, k>> \in ahead}) = n - 1

\* sort.SliceStable.
StableSort(list, Before(_, _)) ==
  LET ahead == {p \in (DOMAIN list) \X (DOMAIN list) :
                  \/ Before(list[p[1]], list[p[2]])
                  \/ ~Before(list[p[2]], list[p[1]]) /\ p[1] < p[2]}
  IN  [n \in DOMAIN list |-> list[AtPlace(ahead, DOMAIN list, n)]]

\* Mutant: the names of the severities are compared, as by alerts.Sort, and
\* "warning" is the greatest.
SortByName(alerts) ==
  LET place == [critical |-> 1, info |-> 2, warning |-> 3]
  IN  StableSort(alerts, LAMBDA x, y : place[x.severity] > place[y.severity])

SortBySeverity(alerts) ==
  LET rank == [info |-> 1, warning |-> 2, critical |-> 3]
  IN  StableSort(alerts, LAMBDA x, y : rank[x.severity] > rank[y.severity])

Merge(primary, secondary) == SortBySeverity(primary \o secondary)

Resolve(alert) == [alert EXCEPT !.resolved = TRUE]

Unresolved(alerts, severity) ==
  {k \in DOMAIN alerts : ~alerts[k].resolved /\ alerts[k].severity = severity}

\* Mutant: warnings are no reason for concern.
SummarizeCritical(alerts) ==
  [total |-> Len(alerts), healthy |-> Unresolved(alerts, "critical") = {}]

Summarize(alerts) ==
  [total    |-> Len(alerts),
   healthy  |-> Unresolved(alerts, "warning") \cup Unresolved(alerts, "critical") = {}]

Highest(alerts) ==
  IF Unresolved(alerts, "critical") # {} THEN "critical"
  ELSE IF Unresolved(alerts, "warning") # {} THEN "warning" ELSE "info"
=============================================================================
