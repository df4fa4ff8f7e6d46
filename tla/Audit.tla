------------------------------- MODULE Audit -------------------------------
(***************************************************************************)
(* audit.Recorder: the number of the next entry lives in memory and starts *)
(* at zero in every process; the entries live in the store under the key   *)
(* "audit-<number>".  Record holds the recorder's mutex across PutAudit,   *)
(* so it is one step.                                                      *)
(***************************************************************************)
EXTENDS Store

VARIABLE sequence   \* Recorder.sequence

\* Mutant: the sequence is not advanced.
RecordInPlace(entry) ==
  /\ UNCHANGED sequence
  /\ PutAudit(sequence + 1, entry)

\* Recorder.Record when PutAudit commits.
Record(entry) ==
  /\ sequence' = sequence + 1
  /\ PutAudit(sequence + 1, entry)

\* Recorder.Record when PutAudit fails: the number is spent all the same.
RecordLost ==
  /\ sequence' = sequence + 1
  /\ UNCHANGED storeVars
=============================================================================
