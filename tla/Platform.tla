------------------------------ MODULE Platform ------------------------------
(***************************************************************************)
(* The service as a whole: calls of ProcessBatch (Ingest), of Retry and of *)
(* the operators' Dashboard and Reconcile (Operations) share one store and *)
(* one audit recorder.  Nothing in the service keeps them apart: its mutex *)
(* is never locked.  The constant Mixed tells whether the callers do.      *)
(***************************************************************************)
EXTENDS Ingest, Operations

CONSTANTS
  Admins, Offers, RetryLimit, Overlap,   \* as in Retry
  Mixed,       \* FALSE: a batch is not retried or reconciled while it is received
  Maintained,  \* FALSE: nobody updates, deletes or purges pending items
  MaxEntries   \* bound on the audit log: no retry begins beyond it

ASSUME DisciplineAssumption ==
  Mixed \in BOOLEAN /\ Maintained \in BOOLEAN /\ MaxEntries \in Nat

VARIABLE call   \* admin -> the state of its call of Retry

R == INSTANCE Retry WITH Waiting <- ReadingIds, Settled <- {}

ASSUME AdministratorsAssumption ==
  /\ \A id \in ReadingIds : Offers[id] \subseteq R!Offer
  /\ RetryLimit \in Nat
  /\ Overlap \subseteq ReadingIds

platformVars == <<vars, call, desk>>

PlatformInit ==
  /\ Init
  /\ call = [a \in Admins |-> R!NoCall]
  /\ desk = [o \in Operators |-> AtRest(NoAnswer)]

-----------------------------------------------------------------------------

Received(b) == \E c \in Calls : InFlight(c) /\ batchOf[c] = b
Retried(b) == \E id \in {b} \X Devices : R!InRetry(id)
Reconciling(b) ==
  \E o \in Operators : desk[o].at = "reconciling" /\ desk[o].subject = b

Receive(c) ==
  /\ \/ Refuse(c)
     \/ \E b \in Batches, S \in SUBSET Sources :
          /\ Mixed \/ ~(Retried(b) \/ Reconciling(b))
          /\ Start(c, b, S)
     \/ CallStep(c)
  /\ UNCHANGED <<call, desk>>

Administer(a) ==
  /\ \/ \E id \in ReadingIds :
          /\ Mixed \/ ~Received(id[1])
          /\ sequence < MaxEntries
          /\ R!Load(a, id)
     \/ R!RetryStep(a)
  /\ UNCHANGED <<byBatch, callVars, desk>>

Operate(o) ==
  /\ \/ Inspect(o)
     \/ \E b \in Batches : LoadBatch(o, b, "snapshotting")
     \/ \E b \in Batches : (Mixed \/ ~Received(b)) /\ LoadBatch(o, b, "reconciling")
     \/ StoreBatch(o)
     \/ Maintained /\ Maintain(o)
  /\ UNCHANGED <<byBatch, sequence, callVars, restarts, call>>

PlatformClose == CloseStore /\ UNCHANGED <<call, desk>>

PlatformRestart ==
  /\ Restart
  /\ call' = [a \in Admins |-> R!NoCall]
  /\ desk' = [o \in Operators |-> AtRest(NoAnswer)]

PlatformRest ==
  /\ \A c \in Calls : phase[c] # "idle" /\ ~InFlight(c)
  /\ \A a \in Admins : call[a].at = "idle"
  /\ UNCHANGED platformVars

PlatformNext ==
  \/ \E c \in Calls : Receive(c)
  \/ \E a \in Admins : Administer(a)
  \/ \E o \in Operators : Operate(o)
  \/ PlatformClose \/ PlatformRestart \/ PlatformRest

PlatformSpec == PlatformInit /\ [][PlatformNext]_platformVars

-----------------------------------------------------------------------------
(* Properties *)

DeskTypeOK ==
  \A o \in Operators :
    /\ desk[o].at \in {"idle", "viewing", "reconciling", "snapshotting",
                       "updating", "purging"}
    /\ DOMAIN desk[o].rows \subseteq ReadingIds
    /\ desk[o].at \in {"reconciling", "snapshotting"} =>
         desk[o].subject \in Batches /\ desk[o].copy \in SavedBatch
    /\ desk[o].at = "updating" =>
         desk[o].subject \in ReadingIds /\ desk[o].copy \in PendingItem
    /\ desk[o].doomed \subseteq ReadingIds
    /\ desk[o].answer.kind \in {"none", "dashboard", "snapshot"}

\* Types of the whole state.
PlatformTypeOK ==
  /\ MemoryTypeOK /\ CallTypeOK /\ R!CallTypeOK /\ DeskTypeOK
  /\ \A id \in DOMAIN pending : id \in ReadingIds /\ pending[id] \in PendingItem
  /\ \A id \in DOMAIN readings : id \in ReadingIds /\ readings[id] \in Status
  /\ \A b \in DOMAIN batches : b \in Batches /\ batches[b] \in SavedBatch
  /\ \A k \in DOMAIN audits : k \in Nat
       /\ audits[k] \in AuditEntry \cup R!AuditEntry

\* No item counts more attempts than the limit, though SaveBatch writes back
\* copies of items that were retried meanwhile.
LimitKeptByAll == R!AttemptsBounded

\* An item that tells the administrator it was accepted has an accepted
\* reading behind it, that no batch overwrites.
AcceptedStaysBacked == R!AcceptedBacked

\* A reading that waits for review in the store does so in its saved batch, from
\* which batches are reported, once every call that collected anything for the
\* batch has succeeded and collected the reading: a reconciliation, which writes
\* back a copy of the batch, does not undo a call.
WaitingReported ==
  \A id \in DOMAIN readings :
    LET served == {c \in Calls : all[c] # {} /\ batchOf[c] = id[1]}
        settled == \A c \in served : phase[c] = "ok" /\ \E r \in all[c] : r.id = id
    IN  readings[id] = "pending" /\ settled =>
          /\ id[1] \in DOMAIN batches
          /\ \E r \in batches[id[1]].readings : r.id = id /\ InReview(r.status)

\* A snapshot holds the pending item of each reading that waits for review in
\* the batch it shows, though the two are read at different times: the items
\* are written before the batch, and listed after it.
SnapshotComplete ==
  \A o \in Operators :
    LET s == desk[o].answer
    IN  s.kind = "snapshot" =>
          \A r \in s.batch.readings : r.status = "pending" => r.id \in s.items

\* A batch id that one call at most has used.
UsedOnce(b) == Cardinality({c \in Calls : phase[c] # "idle" /\ batchOf[c] = b}) <= 1

\* While the report of the batches is complete, no stored reading of a reported
\* batch waits for review, though the report looks at the batches as they were
\* saved or reconciled, and the reading may have been retried since.
ReportNeverTooGood ==
  Complete(BuildReport) =>
    \A id \in DOMAIN readings :
      id[1] \in DOMAIN batches /\ UsedOnce(id[1]) => readings[id] # "pending"

\* No call is under way but the operators', no batch id was used twice, no
\* item was retried twice, and the store has not been reopened.
Calm ==
  /\ \A c \in Calls : ~InFlight(c)
  /\ \A c, d \in Calls :
       c # d /\ phase[c] # "idle" /\ phase[d] # "idle" => batchOf[c] # batchOf[d]
  /\ \A a \in Admins : call[a].at = "idle"
  /\ \A id \in DOMAIN pending : pending[id].attempts <= 1
  /\ restarts = 0 /\ UNCHANGED restarts

\* A dashboard that is asked for while the service is calm tells how many
\* readings are accepted and how many wait for review, though it takes the
\* first number for the readings that have no pending item.
DashboardExact ==
  [][\A o \in Operators :
       Calm /\ desk[o].at = "viewing" /\ desk'[o].at = "idle"
       /\ db = "open" /\ desk[o].rows = readings
         => /\ desk'[o].answer.accepted = Cardinality(Having("accepted", readings))
            /\ desk'[o].answer.pending = Cardinality(Having("pending", readings))
     ]_platformVars
=============================================================================
