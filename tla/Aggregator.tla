----------------------------- MODULE Aggregator -----------------------------
(***************************************************************************)
(* processing.Aggregator: the running summary of every batch id, shared by *)
(* all calls of the process and lost when it ends.  Each method holds the  *)
(* aggregator's mutex, so it is one step.                                  *)
(***************************************************************************)
EXTENDS Summaries

VARIABLE byBatch   \* batch id -> summary

\* A map read of a key that is absent yields the zero Summary.
Snapshot(b) == IF b \in DOMAIN byBatch THEN byBatch[b] ELSE ZeroSummary

SetSummary(b, summary) ==
  byBatch' = [k \in DOMAIN byBatch \cup {b} |->
                IF k = b THEN summary ELSE byBatch[k]]

\* Mutant: an entry that exists is kept instead of being reset.
BeginKeepingOld(b) == SetSummary(b, Snapshot(b))

Begin(b) == SetSummary(b, ZeroSummary)

Add(b, status) == SetSummary(b, AddStatus(Snapshot(b), status))
=============================================================================
