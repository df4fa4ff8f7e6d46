---------------------------- MODULE BatchLedger ----------------------------
(***************************************************************************)
(* What ProcessBatch promises its callers, with no store, goroutine or     *)
(* aggregator in sight: a call gathers readings and then either gives up   *)
(* or enters, in one step, a batch whose counts are exact in the ledger of *)
(* batches.  An entry is only ever replaced by a later call for its id.    *)
(* Of a batch that several calls share only the readings are promised.     *)
(***************************************************************************)
EXTENDS Naturals

CONSTANTS
  Calls,
  Batches,
  Counts(_), \* the counts of a set of readings
  Shared     \* the batches whose counts are not promised

VARIABLES
  stage,    \* call -> "new", "open" or "over"
  subject,  \* call -> its batch id
  gathered, \* call -> set of readings
  ledger    \* batch id -> [readings, summary, errors]

ledgerVars == <<stage, subject, gathered, ledger>>

Init ==
  /\ stage = [c \in Calls |-> "new"]
  /\ subject \in [Calls -> Batches]
  /\ gathered = [c \in Calls |-> {}]
  /\ ledger = [b \in {} |-> 0]

Open(c, b) ==
  /\ stage[c] = "new"
  /\ stage' = [stage EXCEPT ![c] = "open"]
  /\ subject' = [subject EXCEPT ![c] = b]
  /\ UNCHANGED <<gathered, ledger>>

\* Any readings may come, and none is lost.
Gather(c) ==
  /\ stage[c] = "open"
  /\ gathered[c] \subseteq gathered'[c]
  /\ gathered' = [gathered EXCEPT ![c] = gathered'[c]]
  /\ UNCHANGED <<stage, subject, ledger>>

\* The number of errors is open; the counts are exact, but for shared batches.
Commit(c) ==
  LET b == subject[c]
      entry == [readings |-> gathered[c],
                summary  |-> IF b \in Shared THEN ledger'[b].summary
                             ELSE Counts(gathered[c]),
                errors   |-> ledger'[b].errors]
  IN  /\ stage[c] = "open"
      /\ gathered[c] # {}
      /\ stage' = [stage EXCEPT ![c] = "over"]
      /\ b \in DOMAIN ledger' /\ ledger'[b].errors \in Nat
      /\ ledger' = [k \in DOMAIN ledger \cup {b} |->
                      IF k = b THEN entry ELSE ledger[k]]
      /\ UNCHANGED <<subject, gathered>>

\* A set of calls ends without an entry: one that fails or is refused, or all
\* those a crash cuts off.
GiveUp(C) ==
  /\ stage' = [c \in Calls |-> IF c \in C THEN "over" ELSE stage[c]]
  /\ UNCHANGED <<subject, gathered, ledger>>

Next ==
  \/ \E c \in Calls : Gather(c) \/ Commit(c) \/ \E b \in Batches : Open(c, b)
  \/ \E C \in SUBSET Calls : GiveUp(C)

Spec == Init /\ [][Next]_ledgerVars
=============================================================================
