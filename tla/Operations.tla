----------------------------- MODULE Operations -----------------------------
(***************************************************************************)
(* The operators' side of the service, each operation a few transactions   *)
(* with nothing held in between: Service.Dashboard lists the readings and  *)
(* then the pending items, Operations.Reconcile reads a batch and writes   *)
(* it back with its counts redone, Store.SnapshotBatch reads a batch and   *)
(* then its items, and the store's maintenance updates, deletes and purges *)
(* pending items.                                                          *)
(*                                                                         *)
(* The field summaries of a dashboard are left out, but for whether there  *)
(* is any, and so are times: a purge picks any set of items, for those     *)
(* last updated before its cutoff.                                         *)
(***************************************************************************)
EXTENDS Integers, Summaries, Store, Functions

CONSTANT Operators   \* callers, one call at a time each

VARIABLE desk        \* operator -> the locals of its call

Empty == [k \in {} |-> 0]
NoAnswer == [kind |-> "none"]

\* What an operator is at; the readings it has listed, the item or the batch
\* it has read, the items it has yet to purge; and the answer it got last.
AtRest(answer) ==
  [at |-> "idle", rows |-> Empty, subject |-> <<>>, copy |-> Empty,
   doomed |-> {}, answer |-> answer]

Assign(o, work) == desk' = [desk EXCEPT ![o] = work]
Leave(o) == Assign(o, AtRest(NoAnswer))

\* The first read of an operation; one that fails ends it without a trace.
Read(o, work) ==
  /\ desk[o].at = "idle"
  /\ db = "open"
  /\ Assign(o, work)
  /\ UNCHANGED storeVars

\* The last read of one.
Answer(o, answer) ==
  /\ \/ db = "open" /\ Assign(o, AtRest(answer))
     \/ db = "closed" /\ Leave(o)
  /\ UNCHANGED storeVars

-----------------------------------------------------------------------------
(* Dashboard *)

\* Ids that a bucket, or a copy of it, holds with a status.
Having(status, rows) == {id \in DOMAIN rows : rows[id] = status}

DashboardOf(rows, items) ==
  LET waiting == Cardinality(DOMAIN items)
  IN  [kind     |-> "dashboard",
       accepted |-> Cardinality(DOMAIN rows) - waiting,
       pending  |-> waiting,
       health   |-> IF Having("accepted", rows) = {} THEN "empty"
                    ELSE IF waiting > 0 THEN "attention" ELSE "healthy"]

ViewReadings(o) ==
  Read(o, [AtRest(NoAnswer) EXCEPT !.at = "viewing", !.rows = readings])

\* Mutant: items that were settled are counted too.
ViewPendingAny(o) ==
  desk[o].at = "viewing" /\ Answer(o, DashboardOf(desk[o].rows, pending))

ViewPending(o) ==
  /\ desk[o].at = "viewing"
  /\ Answer(o, DashboardOf(desk[o].rows, ListPending("pending")))

-----------------------------------------------------------------------------
(* Reconcile and SnapshotBatch *)

LoadBatch(o, b, purpose) ==
  /\ b \in DOMAIN batches
  /\ Read(o, [AtRest(NoAnswer) EXCEPT !.at = purpose, !.subject = b,
                                        !.copy = batches[b]])

\* Mutant: the readings are left out of what is written back.
ReconciledCounts(batch) ==
  [readings |-> {}, summary |-> Recalculate(batch.readings), errors |-> 0]

\* Recalculate, which also drops the number of errors from the summary.
Reconciled(batch) ==
  [batch EXCEPT !.summary = Recalculate(batch.readings), !.errors = 0]

StoreBatch(o) ==
  /\ desk[o].at = "reconciling"
  /\ \/ WriteCommits(TRUE) /\ PutBatch(desk[o].subject, Reconciled(desk[o].copy))
     \/ WriteFails(TRUE) /\ UNCHANGED storeVars
  /\ Leave(o)

\* Mutant: items that a retry has settled are left out.
SnapshotItemsPending(o) ==
  /\ desk[o].at = "snapshotting"
  /\ Answer(o, [kind |-> "snapshot", batch |-> desk[o].copy,
                items |-> {id \in DOMAIN ListPending("pending") :
                             id[1] = desk[o].subject}])

\* The items of the batch, of any status, listed after the batch is read.
SnapshotItems(o) ==
  /\ desk[o].at = "snapshotting"
  /\ Answer(o, [kind |-> "snapshot", batch |-> desk[o].copy,
                items |-> {id \in DOMAIN pending : id[1] = desk[o].subject}])

-----------------------------------------------------------------------------
(* BatchReport *)

\* Mutant: only readings that were retried count as pending.
StatsOfRetried(batch) ==
  [total   |-> Cardinality(batch.readings),
   pending |-> Cardinality({r \in batch.readings : r.status = "retried"})]

\* Stats of a batch, from the readings it was saved with.
Stats(batch) ==
  [total   |-> Cardinality(batch.readings),
   pending |-> Cardinality({r \in batch.readings : InReview(r.status)})]

\* The report of all batches, which one transaction lists.
BuildReport ==
  LET Total(count(_)) == SumFunction([b \in DOMAIN batches |-> count(b)])
  IN  [readings |-> Total(LAMBDA b : Stats(batches[b]).total),
       pending  |-> Total(LAMBDA b : Stats(batches[b]).pending)]

Complete(report) == report.readings > 0 /\ report.pending = 0

-----------------------------------------------------------------------------
(* Maintenance of the pending items *)

\* UpdatePendingStatus: pendingByID.
LoadItem(o, id) ==
  /\ id \in DOMAIN pending
  /\ Read(o, [AtRest(NoAnswer) EXCEPT !.at = "updating", !.subject = id,
                                        !.copy = pending[id]])

\* UpdatePendingStatus: PutPending.
StoreStatus(o, status) ==
  /\ desk[o].at = "updating"
  /\ \/ /\ WriteCommits(TRUE)
        /\ PutPending(desk[o].subject, [desk[o].copy EXCEPT !.status = status])
     \/ WriteFails(TRUE) /\ UNCHANGED storeVars
  /\ Leave(o)

\* A call of DeletePending by itself.
DeleteItem(o, id) ==
  /\ desk[o].at = "idle"
  /\ WriteCommits(TRUE)
  /\ DeletePending(id)
  /\ UNCHANGED desk

\* PurgeBefore: ListPending, and the items that are old enough.
ListOld(o, old) ==
  /\ old \subseteq DOMAIN pending /\ old # {}
  /\ Read(o, [AtRest(NoAnswer) EXCEPT !.at = "purging", !.doomed = old])

\* PurgeBefore: DeletePending, whatever became of the item; the first that
\* fails ends the purge.
PurgeItem(o, id) ==
  /\ desk[o].at = "purging"
  /\ id \in desk[o].doomed
  /\ \/ /\ WriteCommits(TRUE)
        /\ DeletePending(id)
        /\ IF desk[o].doomed = {id}
           THEN Leave(o)
           ELSE Assign(o, [desk[o] EXCEPT !.doomed = @ \ {id}])
     \/ WriteFails(TRUE) /\ Leave(o) /\ UNCHANGED storeVars

Inspect(o) == ViewReadings(o) \/ ViewPending(o) \/ SnapshotItems(o)

Maintain(o) ==
  \/ \E id \in ReadingIds : LoadItem(o, id) \/ DeleteItem(o, id) \/ PurgeItem(o, id)
  \/ \E status \in Status : StoreStatus(o, status)
  \/ \E old \in SUBSET ReadingIds : ListOld(o, old)
=============================================================================
