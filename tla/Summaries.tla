----------------------------- MODULE Summaries -----------------------------
(***************************************************************************)
(* The counts of a batch: the incremental ones of processing.Aggregator    *)
(* and the recount of model.SensorBatch.Recalculate.  The text of a        *)
(* summary is left out.                                                    *)
(***************************************************************************)
EXTENDS Naturals, FiniteSets

ZeroSummary == [total |-> 0, accepted |-> 0, pending |-> 0, failed |-> FALSE]

InReview(status) == status \in {"pending", "retried"}

Summaries ==
  [total : Nat, accepted : Nat, pending : Nat, failed : BOOLEAN]

\* Mutant: only retried readings count as failures.
AddStatusMasked(summary, status) ==
  LET waiting == summary.pending + (IF status = "retried" THEN 1 ELSE 0)
  IN  [total    |-> summary.total + 1,
       accepted |-> summary.accepted + (IF status = "accepted" THEN 1 ELSE 0),
       pending  |-> waiting,
       failed   |-> waiting > 0]

\* The summary after one more reading.
AddStatus(summary, status) ==
  LET waiting == summary.pending + (IF InReview(status) THEN 1 ELSE 0)
  IN  [total    |-> summary.total + 1,
       accepted |-> summary.accepted + (IF status = "accepted" THEN 1 ELSE 0),
       pending  |-> waiting,
       failed   |-> waiting > 0]

\* The summary of a finite set of readings, counted from scratch.
Recalculate(rows) ==
  LET waiting == Cardinality({r \in rows : InReview(r.status)})
  IN  [total    |-> Cardinality(rows),
       accepted |-> Cardinality({r \in rows : r.status = "accepted"}),
       pending  |-> waiting,
       failed   |-> waiting > 0]
=============================================================================
