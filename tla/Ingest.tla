------------------------------- MODULE Ingest -------------------------------
(***************************************************************************)
(* Service.ProcessBatch (internal/sensors/service.go): concurrent calls    *)
(* that each collect the readings of several vendor adapters, one          *)
(* goroutine per adapter, write them to the store one by one, and then     *)
(* save the batch and an audit entry.                                      *)
(*                                                                         *)
(* One step is one store transaction, or one critical section of the       *)
(* aggregator or the recorder.  The section a goroutine runs under the     *)
(* call's local mutex is several steps, with the mutex held in between.    *)
(* Adapter.Fetch touches nothing that is shared, so it is one step with    *)
(* the Lock that follows it.                                               *)
(*                                                                         *)
(* A response of an adapter is what ConvertMany makes of it: the set of    *)
(* readings it converts (the order they come in is any order) and the      *)
(* number of raw readings it refuses.  A reading is accepted or pending,   *)
(* and storable unless json.Marshal refuses it: a NaN or infinite value    *)
(* converts to a pending reading that cannot be marshalled, a capture time *)
(* beyond the year 9999 to an accepted one.                                *)
(***************************************************************************)
EXTENDS Aggregator, Audit

CONSTANTS
  Calls,        \* calls of ProcessBatch, each made once
  Sources,      \* adapters
  Feeds,        \* Feeds[s]: the responses adapter s may give
  MaxBatchSize, \* settings.MaxBatchSize: most adapters in a request
  Shared,       \* the batch ids for which callers overlap calls
  MaxRestarts,  \* bound on the number of restarts
  NoReading     \* a value that is not a reading

Item == [pos : Nat, device : Devices, status : {"accepted", "pending"},
         storable : BOOLEAN]

ASSUME CallsAssumption == Calls # {} /\ Batches # {}
ASSUME FeedsAssumption ==
  \A s \in Sources : \A resp \in Feeds[s] :
    /\ resp.readings \subseteq Item
    /\ IsFiniteSet(resp.readings)
    /\ resp.errors \in Nat
ASSUME BoundsAssumption ==
  /\ MaxBatchSize \in Nat \ {0}
  /\ MaxRestarts \in Nat
  /\ Shared \subseteq Batches

Reading == [src : Sources, pos : Nat, id : ReadingIds,
            status : {"accepted", "pending"}, storable : BOOLEAN]

ASSUME NoReadingAssumption == NoReading \notin Reading

VARIABLES
  phase,    \* call -> where it stands
  batchOf,  \* call -> request.BatchID
  worker,   \* call -> adapter -> "fetching", "merging" (has mu) or "done"
  todo,     \* call -> readings the merging goroutine has still to take
  hand,     \* call -> the reading it is busy with
  step,     \* call -> its next move: "next", "item" or "reading"
  all,      \* call -> the slice of collected readings
  errs,     \* call -> length of the errs slice
  draft,    \* call -> the batch it is about to save
  listed,   \* call -> batchPending, the items listed for that batch
  restarts

callVars == <<phase, batchOf, worker, todo, hand, step, all, errs, draft, listed>>
vars == <<storeVars, byBatch, sequence, callVars, restarts>>

Phases == {"idle", "collecting", "listing", "saving", "recording",
           "ok", "failed", "lost"}
InFlight(c) == phase[c] \notin {"idle", "ok", "failed", "lost"}

NoBatch == [readings |-> {}, summary |-> ZeroSummary, errors |-> 0]
NoBucket == [k \in {} |-> 0]

\* Mutant: the status is left blank.
NewItemBlank == [status |-> "", attempts |-> 0]

\* pendingFor.
NewItem == [status |-> "pending", attempts |-> 0]

StoreInit ==
  /\ db = "open"
  /\ readings = NoBucket /\ pending = NoBucket
  /\ batches = NoBucket /\ audits = NoBucket

Init ==
  /\ StoreInit
  /\ byBatch = NoBucket
  /\ sequence = 0
  /\ phase = [c \in Calls |-> "idle"]
  /\ batchOf = [c \in Calls |-> CHOOSE b \in Batches : TRUE]
  /\ worker = [c \in Calls |-> [s \in Sources |-> "done"]]
  /\ todo = [c \in Calls |-> {}]
  /\ hand = [c \in Calls |-> NoReading]
  /\ step = [c \in Calls |-> "next"]
  /\ all = [c \in Calls |-> {}]
  /\ errs = [c \in Calls |-> 0]
  /\ draft = [c \in Calls |-> NoBatch]
  /\ listed = [c \in Calls |-> NoBucket]
  /\ restarts = 0

-----------------------------------------------------------------------------
(* The request *)

\* A request that Validate or the checks of its fields refuse.
Refuse(c) ==
  /\ phase[c] = "idle"
  /\ phase' = [phase EXCEPT ![c] = "failed"]
  /\ UNCHANGED <<storeVars, byBatch, sequence, batchOf, worker, todo, hand,
                 step, all, errs, draft, listed, restarts>>

\* What a caller that uses a batch id for one call at a time ensures.
BatchFree(b) == b \in Shared \/ \A d \in Calls : InFlight(d) => batchOf[d] # b

Start(c, b, S) ==
  /\ phase[c] = "idle"
  /\ S # {} /\ Cardinality(S) <= MaxBatchSize
  /\ BatchFree(b)
  /\ phase' = [phase EXCEPT ![c] = "collecting"]
  /\ batchOf' = [batchOf EXCEPT ![c] = b]
  /\ worker' = [worker EXCEPT ![c] =
                  [s \in Sources |-> IF s \in S THEN "fetching" ELSE "done"]]
  /\ Begin(b)
  /\ UNCHANGED <<storeVars, sequence, todo, hand, step, all, errs, draft,
                 listed, restarts>>

-----------------------------------------------------------------------------
(* The goroutine of one adapter *)

MutexFree(c) == \A s \in Sources : worker[c][s] # "merging"

FetchFails(c, s) ==
  /\ phase[c] = "collecting"
  /\ worker[c][s] = "fetching"
  /\ MutexFree(c)
  /\ worker' = [worker EXCEPT ![c][s] = "done"]
  /\ errs' = [errs EXCEPT ![c] = @ + 1]
  /\ UNCHANGED <<storeVars, byBatch, sequence, phase, batchOf, todo, hand,
                 step, all, draft, listed, restarts>>

\* The conversion errors are appended at the end of the section; nothing
\* reads the slice before all goroutines are done.
Fetch(c, s, resp) ==
  /\ phase[c] = "collecting"
  /\ worker[c][s] = "fetching"
  /\ MutexFree(c)
  /\ worker' = [worker EXCEPT ![c][s] = "merging"]
  /\ todo' = [todo EXCEPT ![c] =
                {[src |-> s, pos |-> i.pos, id |-> <<batchOf[c], i.device>>,
                  status |-> i.status, storable |-> i.storable]
                 : i \in resp.readings}]
  /\ errs' = [errs EXCEPT ![c] = @ + resp.errors]
  /\ UNCHANGED <<storeVars, byBatch, sequence, phase, batchOf, hand, step,
                 all, draft, listed, restarts>>

\* The first store write of a reading: a pending one gets its item first.
FirstWrite(r) == IF r.status = "pending" THEN "item" ELSE "reading"

\* append(all, reading) and aggregator.Add.
Tally(c, r) ==
  /\ phase[c] = "collecting"
  /\ step[c] = "next"
  /\ r \in todo[c]
  /\ all' = [all EXCEPT ![c] = @ \cup {r}]
  /\ todo' = [todo EXCEPT ![c] = @ \ {r}]
  /\ hand' = [hand EXCEPT ![c] = r]
  /\ step' = [step EXCEPT ![c] = FirstWrite(r)]
  /\ Add(batchOf[c], r.status)
  /\ UNCHANGED <<storeVars, sequence, phase, batchOf, worker, errs, draft,
                 listed, restarts>>

\* PutPending: its error is discarded.
StoreItem(c) ==
  /\ phase[c] = "collecting"
  /\ step[c] = "item"
  /\ \/ WriteCommits(TRUE) /\ PutPending(hand[c].id, NewItem)
     \/ WriteFails(TRUE) /\ UNCHANGED storeVars
  /\ step' = [step EXCEPT ![c] = "reading"]
  /\ UNCHANGED <<byBatch, sequence, phase, batchOf, worker, todo, hand, all,
                 errs, draft, listed, restarts>>

\* PutReading: its error is counted.
StoreReading(c) ==
  /\ phase[c] = "collecting"
  /\ step[c] = "reading"
  /\ \/ /\ WriteCommits(hand[c].storable)
        /\ PutReading(hand[c].id, hand[c].status)
        /\ UNCHANGED errs
     \/ /\ WriteFails(hand[c].storable)
        /\ errs' = [errs EXCEPT ![c] = @ + 1]
        /\ UNCHANGED storeVars
  /\ step' = [step EXCEPT ![c] = "next"]
  /\ hand' = [hand EXCEPT ![c] = NoReading]
  /\ UNCHANGED <<byBatch, sequence, phase, batchOf, worker, todo, all, draft,
                 listed, restarts>>

\* Mutant: the reading is stored before its pending item.
WriteOutReadingFirst(c) ==
  LET early == step[c] = "item"
      item  == hand[c].status = "pending" /\ ~early
  IN  /\ phase[c] = "collecting" /\ step[c] # "next"
      /\ \/ /\ WriteCommits(item \/ hand[c].storable)
            /\ IF item THEN PutPending(hand[c].id, NewItem)
                       ELSE PutReading(hand[c].id, hand[c].status)
         \/ WriteFails(item \/ hand[c].storable) /\ UNCHANGED storeVars
      /\ step' = [step EXCEPT ![c] = IF early THEN "reading" ELSE "next"]
      /\ hand' = IF early THEN hand ELSE [hand EXCEPT ![c] = NoReading]
      /\ UNCHANGED <<byBatch, sequence, phase, batchOf, worker, todo, all,
                     errs, draft, listed, restarts>>

\* The store writes of the reading in hand: its item, if any, and the reading.
WriteOut(c) == StoreItem(c) \/ StoreReading(c)

\* Mutant: a goroutine that has collected nothing returns without Unlock.
UnlockUnlessEmpty(c, s) ==
  /\ phase[c] = "collecting"
  /\ worker[c][s] = "merging"
  /\ step[c] = "next" /\ todo[c] = {} /\ all[c] # {}
  /\ worker' = [worker EXCEPT ![c][s] = "done"]
  /\ UNCHANGED <<storeVars, byBatch, sequence, phase, batchOf, todo, hand,
                 step, all, errs, draft, listed, restarts>>

\* The deferred Unlock and Done.
Unlock(c, s) ==
  /\ phase[c] = "collecting"
  /\ worker[c][s] = "merging"
  /\ step[c] = "next" /\ todo[c] = {}
  /\ worker' = [worker EXCEPT ![c][s] = "done"]
  /\ UNCHANGED <<storeVars, byBatch, sequence, phase, batchOf, todo, hand,
                 step, all, errs, draft, listed, restarts>>

-----------------------------------------------------------------------------
(* After wg.Wait *)

AllDone(c) == \A s \in Sources : worker[c][s] = "done"

\* Mutant: one error fails the batch.
JoinEmptyStrict(c) ==
  /\ phase[c] = "collecting" /\ AllDone(c)
  /\ all[c] = {} \/ errs[c] > 0
  /\ phase' = [phase EXCEPT ![c] = "failed"]
  /\ UNCHANGED <<storeVars, byBatch, sequence, batchOf, worker, todo, hand,
                 step, all, errs, draft, listed, restarts>>

JoinEmpty(c) ==
  /\ phase[c] = "collecting" /\ AllDone(c)
  /\ all[c] = {}
  /\ phase' = [phase EXCEPT ![c] = "failed"]
  /\ UNCHANGED <<storeVars, byBatch, sequence, batchOf, worker, todo, hand,
                 step, all, errs, draft, listed, restarts>>

\* The counts of the batch are those of the shared aggregator.
Join(c) ==
  /\ phase[c] = "collecting" /\ AllDone(c)
  /\ all[c] # {}
  /\ phase' = [phase EXCEPT ![c] = "listing"]
  /\ draft' = [draft EXCEPT ![c] = [readings |-> all[c],
                                    summary  |-> Snapshot(batchOf[c]),
                                    errors   |-> errs[c]]]
  /\ UNCHANGED <<storeVars, byBatch, sequence, batchOf, worker, todo, hand,
                 step, all, errs, listed, restarts>>

\* The copies of the batch's pending items that SaveBatch will write back.
List(c) ==
  /\ phase[c] = "listing"
  /\ \/ /\ db = "open"
        /\ phase' = [phase EXCEPT ![c] = "saving"]
        /\ listed' = [listed EXCEPT ![c] =
                        Select(ListPending("pending"), {batchOf[c]} \X Devices)]
     \/ /\ db = "closed"
        /\ phase' = [phase EXCEPT ![c] = "failed"]
        /\ UNCHANGED listed
  /\ UNCHANGED <<storeVars, byBatch, sequence, batchOf, worker, todo, hand,
                 step, all, errs, draft, restarts>>

\* One status per reading id.  Readings with the same id overwrite each
\* other, in the order an unstable sort by id leaves them in.
Written(rows) ==
  {w \in [{r.id : r \in rows} -> {r.status : r \in rows}] :
     \A id \in DOMAIN w : \E r \in rows : r.id = id /\ r.status = w[id]}

Save(c) ==
  /\ phase[c] = "saving"
  /\ LET storable == \A r \in all[c] : r.storable
     IN \/ /\ WriteCommits(storable)
           /\ \E w \in Written(all[c]) :
                SaveBatch(batchOf[c], draft[c], w, listed[c])
           /\ phase' = [phase EXCEPT ![c] = "recording"]
        \/ /\ WriteFails(storable)
           /\ phase' = [phase EXCEPT ![c] = "failed"]
           /\ UNCHANGED storeVars
  /\ UNCHANGED <<byBatch, sequence, batchOf, worker, todo, hand, step, all,
                 errs, draft, listed, restarts>>

\* audit.Record("batch_received").  The batch stays saved if it fails.
RecordBatch(c) ==
  /\ phase[c] = "recording"
  /\ \/ /\ WriteCommits(TRUE)
        /\ Record([action |-> "batch_received", subject |-> batchOf[c]])
        /\ phase' = [phase EXCEPT ![c] = "ok"]
     \/ /\ WriteFails(TRUE)
        /\ RecordLost
        /\ phase' = [phase EXCEPT ![c] = "failed"]
  /\ UNCHANGED <<byBatch, batchOf, worker, todo, hand, step, all, errs,
                 draft, listed, restarts>>

-----------------------------------------------------------------------------
(* The process *)

\* main's deferred Close, while requests may still be running.
CloseStore ==
  /\ Close
  /\ UNCHANGED <<byBatch, sequence, callVars, restarts>>

\* The process ends, at any point, and a new one opens the file.
Restart ==
  /\ restarts < MaxRestarts
  /\ restarts' = restarts + 1
  /\ Open
  /\ byBatch' = NoBucket
  /\ sequence' = 0
  /\ phase' = [c \in Calls |-> IF InFlight(c) THEN "lost" ELSE phase[c]]
  /\ UNCHANGED <<batchOf, worker, todo, hand, step, all, errs, draft, listed>>

CallStep(c) ==
  \/ \E s \in Sources : FetchFails(c, s) \/ Unlock(c, s)
  \/ \E s \in Sources : \E resp \in Feeds[s] : Fetch(c, s, resp)
  \/ \E r \in todo[c] : Tally(c, r)
  \/ WriteOut(c)
  \/ JoinEmpty(c) \/ Join(c) \/ List(c) \/ Save(c) \/ RecordBatch(c)

\* Every call has returned: the service is idle.
Rest ==
  /\ \A c \in Calls : phase[c] # "idle" /\ ~InFlight(c)
  /\ UNCHANGED vars

Next ==
  \/ \E c \in Calls : \/ Refuse(c)
                      \/ \E b \in Batches, S \in SUBSET Sources : Start(c, b, S)
                      \/ CallStep(c)
  \/ CloseStore
  \/ Restart
  \/ Rest

Spec == Init /\ [][Next]_vars

\* The scheduler runs every goroutine, and every Fetch returns: the adapters
\* give up when the context of the request is done.
FairSpec == Spec /\ \A c \in Calls : WF_vars(CallStep(c))

-----------------------------------------------------------------------------
(* Properties *)

SavedBatch == [readings : SUBSET Reading, summary : Summaries, errors : Nat]
AuditEntry == [action : {"batch_received"}, subject : Batches]

StoreTypeOK ==
  /\ db \in {"open", "closed"}
  /\ DOMAIN readings \subseteq ReadingIds
  /\ \A id \in DOMAIN readings : readings[id] \in Status
  /\ DOMAIN pending \subseteq ReadingIds
  /\ \A id \in DOMAIN pending : pending[id] \in PendingItem
  /\ DOMAIN batches \subseteq Batches
  /\ \A b \in DOMAIN batches : batches[b] \in SavedBatch
  /\ DOMAIN audits \subseteq Nat
  /\ \A k \in DOMAIN audits : audits[k] \in AuditEntry

MemoryTypeOK ==
  /\ DOMAIN byBatch \subseteq Batches
  /\ \A b \in DOMAIN byBatch : byBatch[b] \in Summaries
  /\ sequence \in Nat
  /\ restarts \in 0..MaxRestarts

CallTypeOK ==
  /\ phase \in [Calls -> Phases]
  /\ batchOf \in [Calls -> Batches]
  /\ worker \in [Calls -> [Sources -> {"fetching", "merging", "done"}]]
  /\ todo \in [Calls -> SUBSET Reading]
  /\ hand \in [Calls -> Reading \cup {NoReading}]
  /\ step \in [Calls -> {"next", "item", "reading"}]
  /\ \A c \in Calls : step[c] # "next" => hand[c] \in Reading
  /\ all \in [Calls -> SUBSET Reading]
  /\ errs \in [Calls -> Nat]
  /\ draft \in [Calls -> SavedBatch]
  /\ DOMAIN listed = Calls
  /\ \A c \in Calls : DOMAIN listed[c] \subseteq ReadingIds
  /\ \A c \in Calls : \A id \in DOMAIN listed[c] : listed[c][id] \in PendingItem

\* Types of the whole state; a busy goroutine has a reading in hand.
TypeOK == StoreTypeOK /\ MemoryTypeOK /\ CallTypeOK

\* No stored reading waits for review without a pending item an administrator
\* can retry, whatever the interleaving of goroutines and calls and wherever
\* the process dies: the goroutines write the item before the reading.
NoUntrackedPending ==
  \A id \in DOMAIN readings : readings[id] = "pending" => id \in DOMAIN pending

\* The counts of a saved batch are those of the readings saved in it, though
\* they were kept by an aggregator that concurrent calls share and that
\* survives earlier calls for the same id; calls for one id must not overlap,
\* but those for other ids may.
NoMaskedFailure ==
  \A b \in DOMAIN batches \ Shared :
    batches[b].summary = Recalculate(batches[b].readings)

\* A saved batch counts each of its readings that waits for review as a partial
\* failure, whatever calls overlapped.
PendingCounted ==
  \A b \in DOMAIN batches :
    LET waiting == {r \in batches[b].readings : InReview(r.status)}
    IN  waiting # {} => /\ batches[b].summary.pending >= Cardinality(waiting)
                        /\ batches[b].summary.failed

\* Every reading of a saved batch can be found in the bucket of readings,
\* even if storing it one by one failed: SaveBatch writes both at once.
SavedBatchStored ==
  \A b \in DOMAIN batches : \A r \in batches[b].readings :
    r.id \in DOMAIN readings

\* A call that got any reading at all saves its batch and succeeds: failures
\* of adapters and conversions are partial, as long as the store is sound.
PartialFailureSaved ==
  \A c \in Calls :
    phase[c] = "failed" /\ db = "open" /\ restarts = 0 => all[c] = {}

\* There is one audit entry for each call that succeeded.
AuditPerBatch ==
  \A b \in Batches :
    Cardinality({k \in DOMAIN audits : audits[k].subject = b})
      = Cardinality({c \in Calls : phase[c] = "ok" /\ batchOf[c] = b})

\* The same, as long as the audit log is that of one process.
AuditOfOneProcess == restarts = 0 => AuditPerBatch

\* Refinement: what a call has collected is what it has gathered, a batch is
\* entered in the ledger by the transaction that saves it, and a call is over
\* from then on.
Stage ==
  [c \in Calls |->
     IF phase[c] = "idle" THEN "new"
     ELSE IF phase[c] \in {"collecting", "listing", "saving"} THEN "open"
     ELSE "over"]

Ledger == INSTANCE BatchLedger WITH
  Counts <- Recalculate,
  stage <- Stage, subject <- batchOf, gathered <- all, ledger <- batches

LedgerSpec == Ledger!Spec

\* ProcessBatch always returns: no goroutine keeps the mutex, and wg.Wait
\* waits for no goroutine that is gone.
EveryCallReturns ==
  \A c \in Calls : phase[c] = "collecting" ~> ~InFlight(c)
=============================================================================
