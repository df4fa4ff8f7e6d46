# A TLA+ model of the farm sensor platform

This directory is a verification project for the Go program
`farm-sensor-platform`: modules that model its stateful parts, TLC
configurations that model-check them on small instances, and theorems that the
TLA+ proof system TLAPS checks for all instances. `PROJECT.json` lists, for
each definition, the source lines it stands for; the runs; the mutants of the
code that each property catches; the hazards; and the theorems.

    tlc -workers 2 -config Ingest_overlap.cfg MCIngest.tla
    tlapm IngestProofs.tla

## 1. The system

A process (`cmd/farmserver`) opens one bbolt file and serves read-only HTTP
requests; batches, retries and maintenance enter through the exported methods
of `sensors.Service`, `sensors.Operations` and `persistence.Store`. Goroutines
call them concurrently. `Service.mu` is declared and never locked, so only the
following are atomic: one bbolt transaction, one method of the aggregator, one
method of the recorder, and the section a goroutine runs under the local mutex
of its own call.

| Component | State | Operations | What makes it correct |
|---|---|---|---|
| `Service.ProcessBatch` | locals of a call: `all`, `errs`, `wg`, `mu` | collect from adapters in goroutines, store item by item, save the batch, audit | counts match the saved readings; failures are partial; each reading in review has an item; every call returns |
| `Service.Retry` | a copy of the item | read item, fetch, store reading, item and audit entry | the limit holds; an accepted item has an accepted reading; the log accounts for each attempt |
| `persistence.Store` | four buckets, the handle | one transaction for each method; several for `PurgeBefore`, `SnapshotBatch`, `UpdatePendingStatus`, `Health` | `SaveBatch` is atomic; a closed store refuses; buckets survive |
| `processing.Aggregator` | summary by batch id, in memory | `Begin`, `Add`, `Snapshot` | an entry counts the readings of one call |
| `audit.Recorder` | `sequence`, in memory | `Record` | every entry has a key of its own |
| `Service.Dashboard`, `Operations` | locals | two transactions each; reports, trends and alerts list one bucket | the answer matches one state of the store; nothing is lost; a report is not better than the store |
| `normalize.Mapper`, `alerts`, `config` | settings | `Convert`, `Diagnose`, `Evaluate`, `Check`, `Validate` | status, diagnosis, alerts and policy agree |
| `adapter` | fixtures; catalogue by vendor; the channels of barriers | `Fetch`, `Register`, `FetchAll` | one adapter per vendor; `FetchAll` loses no vendor; fetches meet at a barrier and wait no longer than their context |
| `analytics`, `processing` reports and windows, lists of `alerts` | none | pure functions of lists | totals add up; different judges of age, order and health agree |
| `api`, `observability` | none | encode answers, log | - |

How they interact: `ProcessBatch` calls `Fetch` of each adapter and the mapper
in a goroutine, the aggregator for each reading, the store in transactions of
its own, and last the recorder, which calls the store under its mutex. `Retry`
calls the store, an adapter, the mapper, the store twice, and the recorder.
The operators' calls use the store only. All share the buckets; all but the
operators share the recorder.

What is hard: calls for one batch id share one entry of the aggregator; copies
of items are written back after other transactions (`Retry`, `SaveBatch`,
`UpdatePendingStatus`, `Reconcile`); pairs of writes that belong together are
separate transactions (item and reading, batch and audit entry); two of the
errors are discarded; part of the state lives in memory and starts over with
the process; a value that JSON cannot express fails a write. The list with
lines is under `hazards` in `PROJECT.json`.

## 2. The modules

    Store        buckets, transactions, Open and Close
    Audit        EXTENDS Store: the recorder
    Summaries    counts of a set of readings, incremental and from scratch
    Aggregator   EXTENDS Summaries: the shared entries
    Ingest       EXTENDS Aggregator, Audit: ProcessBatch, the process
    BatchLedger  abstract specification that Ingest implements
    Retry        EXTENDS Audit: Retry, the process
    ReviewBoard  abstract specification that Retry implements
    Adapters     fixtures, barriers with their coordinator, the catalogue
    Operations   EXTENDS Store, Summaries: dashboards, snapshots, maintenance
    Platform     EXTENDS Ingest, Operations, with an instance of Retry
    Conversion   one raw reading through mapper, diagnosis, alerts and policy
    AlertLists   EXTENDS Conversion: lists of alerts
    Reports      EXTENDS AlertLists: what is computed of the stored readings
    MC...        values of the constants for TLC
    SumsProofs   lemmas on sums and counts over finite sets
    ...Proofs    theorems about the module of that name

**Store.** A bucket is a function from the keys present to their values. A
reading is represented by its status, an item by its status and attempts; the
key `batch:vendor:external_id` is a pair of a batch and a device. A write
commits only if the store is open and the value can be marshalled; it may fail
on an open store where `IOErrors` is TRUE.

**Ingest.** `phase[c]` follows a call through `ProcessBatch` and
`worker[c][s]` a goroutine; `"merging"` means that it holds `mu`. One reading
is three steps: `Tally` (append and `Add`), `StoreItem` for a pending one, and
`StoreReading`. After `wg.Wait` come `Join` (or `JoinEmpty`), `List`, `Save`
and `RecordBatch`. `Restart` may come at any point: it keeps the buckets and
resets entries, sequence and calls. `CloseStore` is the deferred `Close` of
`main`, with calls still running. An adapter's response is the set of readings
it converts to and a number of refused ones.

**Retry.** `Load`, `Fetched`, `StoreAccepted`, `Update` and `RecordRetry` with
the copy of the item in `call[a].copy`. `Offers[id]` is what `raw[0]` may
convert to in a retry of item `id`, of any device (`AnyOffers` in
`Platform_mixed`). Its initial state is the store of a process
that died in `ProcessBatch` before `SaveBatch`: readings and items, no batch.

**ReviewBoard.** A review of an item is one step that counts, up to the limit,
and accepts only what is stored as accepted; a stored reading that is accepted
stays so. `Retry!Board` maps the items that are retried by one call at a time,
with the readings stored for them, to it; the fetch, the audit entry, restarts,
closing and retries of other items are stutters.

**Adapters.** A client is a goroutine that fetches from one adapter or runs
`FetchAll`: `BeginAll` (the vendors), `Choose` (`Get` of the next, in the order
of their names) and `Return`. A fetch behind a barrier goes through `Arrive` and
`Await`, each a `select` of a channel and the context, before `FixtureFetch`.
`Cancel` ends a context at any point. The coordinator is the one of
`TestSensorBatchKeepsFailures`, which receives as many tokens as it expects
fetches and closes the other channel. A second registration of a vendor only
returns an error, and so is no step.

**BatchLedger.** A call gathers readings and then either gives up or enters a
batch in one step, with exact counts if its id is not `Shared`. `Ingest!Ledger`
maps `all` to what is
gathered and the bucket of batches to the ledger; goroutines, mutex, store
writes, listing and auditing are stutters.

**Operations, Platform.** The first transaction of an operation is one step,
the second another. A purge chooses any set of items, which covers every
cutoff and update time. `Platform` adds nothing but interleaving: `Receive`,
`Administer` and `Operate` are the steps of the components.

**AlertLists, Reports.** `Keep` stores a converted reading under the key of its
device, over one that is there; nothing that JSON cannot express is stored.
Everything else is a function of what is stored: an average is a sum and a
count, scores are kept where a label depends on them, times are numbers, and of
two readings at one time either may come first: `ListReadings` is the set of
all lists that are sorted by time, for `sort.Slice` is not stable. Settings are
those of the conversion, for one process has one `Settings`.

**Conversion.** A raw key is a measure in some spelling, or unknown to the
alias table; if several keys fold to one measure, any of the values may win, as
map iteration is random. Floats are integers plus `NotFinite`.

Three constants state a discipline of the callers that the code does not
enforce: `Shared` (the batch ids that calls overlap for), `Overlap` (the items
whose retries overlap), `Mixed` (a batch is retried or reconciled while it is
received; snapshots and dashboards are always free). `Maintained` tells whether
anybody changes items by hand.

## 3. The runs

| Run | Property | Instance | Result |
|---|---|---|---|
| `Ingest_overlap` | `TypeOK`, `NoMaskedFailure`, `NoUntrackedPending`, `PartialFailureSaved`, `AuditOfOneProcess`, `LedgerSpec` | 2 calls, 2 adapters, 2 devices, 2 batches, for one of which calls overlap, 1 restart | holds, 1.9M states |
| `Ingest_live` | `SavedBatchStored`, `EveryCallReturns` | 2 overlapping calls, any write may fail, a reading of a NaN; fair | holds, 180k |
| `Retry_overlap` | `TypeOK`, `AttemptsBounded`, `AcceptedBacked`, `AuditHistory`, `RetryReturns`, `BoardSpec` | 2 administrators, 2 items, one of them retried in turns only, limit 2, 1 restart; fair | holds, 98k |
| `Adapters_rendezvous` | `TypeOK`, `FetchAllAccounts`, `FetchesMeet`, `CancelledReturns`, `BarrierLifts` | 2 clients, 3 adapters (2 behind barriers, 1 failing) of 2 vendors, a channel of 1, 2 fetches expected; fair | holds, 190k |
| `Platform_mixed` | `PlatformTypeOK`, `LimitKeptByAll` | 1 call, 1 administrator, 1 operator, 1 restart, maintenance; answers of any device | holds, 1.6M |
| `Platform_calm` | `AcceptedStaysBacked`, `SnapshotComplete`, `ReportNeverTooGood`, `WaitingReported`, `DashboardExact` | 2 calls, 2 batches, 1 administrator, 1 operator | holds, 720k |
| `Reports_judges` | `TypeOK`, `AcceptedIsSound`, `ClearIsInRange`, `FieldsAccounted`, `TrendFollowsReadings`, `WindowsTile`, `CompleteCoversAll`, `FreshnessAgrees`, `HealthyIsReviewed`, `WorstFirst` | 2 settings, values around each bound; up to 3 stored readings in 2 fields, of 2 vendors, at 3 times | holds, 130k |

What they show, in the order of the hazards: a reading that waits for review
always has an item (`NoUntrackedPending`), because a goroutine writes the item
first; the counts of a batch are those of its readings (`NoMaskedFailure`) as
long as no two calls for its id overlap; a call that got anything saves it
(`PartialFailureSaved`) and is audited once (`AuditOfOneProcess`); what could
not be stored one by one is stored with the batch (`SavedBatchStored`); the
attempts that an item counts never pass the limit, even where calls and
maintenance overlap (`AttemptsBounded`, `LimitKeptByAll`: this is about the
boundary, not about attempts that a stale copy takes back); an accepted item
has an accepted reading (`AcceptedBacked`), also next to ingestion that keeps its hands off the batch
(`AcceptedStaysBacked`); the audit log tells the history of each item
(`AuditHistory`), and for an item retried in turns all of this together is a
board of reviews (`BoardSpec`); no call is stuck (`EveryCallReturns`,
`RetryReturns`). `FetchAll` accounts for each vendor (`FetchAllAccounts`); a
barrier lifts only when the expected fetches are there (`FetchesMeet`), lifts
when they are (`BarrierLifts`), and holds nobody whose context is done
(`CancelledReturns`). A report is complete only if nothing waits
(`ReportNeverTooGood`), and what waits is in the saved batch that reports are
made of, though several calls and operators save it (`WaitingReported`). Of the stored readings, fields are counted once and
alike everywhere (`FieldsAccounted`), trends follow the readings, also where some are of
one time (`TrendFollowsReadings`), windows that adjoin share no reading and lose none
(`WindowsTile`), three judges of age agree at the border (`FreshnessAgrees`),
coverage by numbers is coverage where no unexpected field is seen
(`CompleteCoversAll`), healthy alerts leave nothing to review
(`HealthyIsReviewed`), and merged alerts are in the order in which to work
(`WorstFirst`).

Five runs end in a counterexample, where the code does not do what a comment,
message, test or document of the repository says:

- `Ingest_masked` (`PendingCounted`): `Begin` of an overlapping call resets the
  counts of a batch, which is saved with a pending reading, a pending count of
  zero, and not as failed.
- `Ingest_reopened`: a new recorder starts numbering at one and overwrites the
  audit entries of the earlier process.
- `Retry_limit`: overlapping retries lose an attempt, so that more retries than
  the limit are made.
- `Platform_overwritten`: a batch still being received overwrites the reading
  that a retry accepted.
- `Platform_reconciled`: a reconciliation writes the batch it read earlier over
  the one that a call saved in between, whose waiting reading is then in no
  saved batch and in no report. With `Operators = {}` the same instance has no
  counterexample: the two calls, which take turns, do not do it by themselves.

The models also contain behaviours that limit what the properties can ask, each
listed under `hazards`: with `IOErrors`, the discarded error of `PutPending`
leaves a pending reading without an item; a NaN in one reading keeps the whole
batch from being saved; the first reading of a vendor's answer to a retry may
be of another device; an accepted item can be retried and become pending;
`Validate` lets settings pass with which every reading is pending; a reading
with unknown keys only is taken for zeros; a call or a retry that ends before
its audit entry leaves what it stored without one; and a dashboard of a busy
service shows two lists read at different times. For the answers of other
devices, `AcceptedBacked`, `BoardSpec`, `AcceptedStaysBacked` and
`DashboardExact` state the device as a premise (`AlignedOffers` in their runs,
`Aligned` in the theorems).

**Bounds, and why they are enough.** Two calls are the least that interfere;
they share at most one aggregator entry, one recorder and one file, so a third
call adds no new kind of step. Two adapters make goroutines queue for the
mutex, and the feeds make them deliver the same device, a bad and a good
reading of it, refused readings, and nothing. One restart separates two
processes; what a process finds depends only on the buckets. In `Retry_overlap`
two items are the least of which one is retried in turns while another is not;
the vendor's answers for the latter are favourable only, and the limit is two
and not the default three, for the state space: the third attempt is what a
wrong limit would show, and the proofs cover every limit and answer. Two
clients and a channel of one token make a fetch wait to arrive, wait at the
barrier, and be cancelled in either place. Three readings are the least for two
in one field and one in another, or for one in each of two windows and one at
the border; the times are apart by less than, exactly and more than the age at
which a reading is not stale yet. The
operator's answers are kept in the state only so that a property can speak of
them. `MaxRestarts` bounds restarts, `MaxEntries` the audit log: with
maintenance the attempts of an item can go back, and retries would not end.

**Symmetry** is used for calls in runs of safety properties and for
administrators; never in the runs that check liveness.

**Fairness.** `FairSpec` asks for weak fairness of the steps of each call: the
Go scheduler runs every goroutine that can run, `sync.Mutex` hands itself over
to a waiter, and a `Fetch` returns, at the latest when the context of the
request is done. Nothing is assumed of callers, of `Close` or of `Restart`.
Weak fairness of the whole call is enough because its goroutines do not compete
with other calls for the mutex. In `Adapters` the coordinator runs on as well,
and nobody is assumed to register, to fetch or to end a context; a channel that
two fetches want is never taken again and again by one, as a fetch sends once.

**Deadlock** is checked in all runs: `Rest` stands for the idle service, so a
deadlock would be a call that is stuck.

## 4. The proofs

All theorems hold for every value of the constants that satisfies the named
assumptions of the modules: any calls, adapters, devices, batches,
administrators, operators, readings, settings, limits and numbers of restarts.
Each theorem of the form `Spec => []Property` follows from an inductive
invariant that holds initially, is kept by each action (one step of the proof
for each) and implies the property. TLC checked each of these invariants on an
instance before it was proved. A theorem that needs more than the assumptions
of the modules says so: `IOErrors = FALSE` (writes on an open store do not
fail), `Overlap`, `Mixed`, `Maintained` (the disciplines of
section 2), `Aligned` (vendors answer with the device asked for, in a form the
store takes), `AllStorable` (no reading of a NaN), `DistinctDevices` (no device
is delivered twice). The longest list, that of `DashboardsExact`, holds of the
instance `Platform_calm`.

### ProcessBatch (`IngestProofs`)

- `TypeCorrect`: the types.
- `PendingTracked`: `NoUntrackedPending`, if writes do not fail. The invariant
  has to say where each pending reading of a call is: not yet tallied, in hand
  with its item still to be stored, or stored already; and that a listed item is
  an item.
- `CountsExact`: `NoMaskedFailure`, of the batch ids that no two calls overlap
  for, while calls for others may (`Shared`). The invariant says that the
  aggregator's entry of such a batch in flight is the recount of what its call
  has collected, and that its drafts are recounts; it rests on a
  lemma that `AddStatus` is `Recalculate` of one more reading.
- `BatchesStored`: `SavedBatchStored`, whatever fails. What a call drafts is
  what it collected, and no reading is ever deleted.
- `PartialFailure`: `PartialFailureSaved`, if writes do not fail and every
  value can be stored: otherwise a NaN keeps a batch from being saved. A call in
  flight finds the store open and every reading it collected storable.
- `AuditedOnce`: `AuditOfOneProcess`. Keys are used up to the sequence, so that
  no entry replaces another; the entries of a batch are as many as its calls
  that succeeded.
- `ImplementsLedger`: every step is a step of `BatchLedger` or a stutter, from
  the invariant of `CountsExact`.

### Retry (`RetryProofs`)

- `TypeCorrect`: the types.
- `LimitKept`: no item exceeds the limit. The attempts of an item are not
  monotonic under overlapping calls, so the invariant bounds each copy: below
  the limit until the fetch, at most the limit after it.
- `AcceptedItemsBacked`: an accepted item has an accepted reading, if answers
  are aligned and writes do not fail. The invariant adds that a call which is
  about to write an accepted copy has stored the reading.
- `HistoryTold`: `AuditHistory` if writes do not fail, also while other items
  are retried by several calls at a time. The invariant relates the number of
  entries of an item to its attempts in each move of the one call that works on
  it, and every key to the sequence.
- `ImplementsBoard`: every step of `Retry` is a step of `ReviewBoard` or a
  stutter, for items retried in turns, aligned answers and writes that do not
  fail. Needed of each call on such an item: it is the only one, and its copy is
  the stored item until the fetch and counts one attempt more after it, in
  every process.

### The service as a whole (`PlatformProofs`)

The lemmas `RetryMoves` and `DeskMoves` say what a step of a retry and of an
operator does to the store that is shared, and `IngestMoves` that every other
step is one of `Ingest`. So the lemmas of `IngestProofs` about the steps of
`Ingest` are used again here, and only the interference is new.

- `PlatformTypes`: `PlatformTypeOK`, together with what it needs: the stored
  batches and the copies of them are finite, without which a recount is no
  number.
- `PlatformLimit`: `LimitKeptByAll`. Every copy of an item, whether of a retry,
  in the list of a call or on an operator's desk, keeps the limit too.
- `PendingStaysTracked`, `CountsStayExact`, `BatchesStayStored`,
  `BatchesStayAudited`: what is proved of `ProcessBatch` alone holds in company.
  An operator's copy of a batch holds readings that are stored, and gets counts
  of its own readings; a retry replaces readings by accepted ones and takes
  numbers of the recorder that no other call gets.
- `SnapshotsComplete`: `SnapshotComplete`, if items are not maintained by hand
  and writes do not fail. The copy of a batch tracks its pending readings from
  the first transaction to the second, because items are never deleted.
- `WaitingStaysReported`: `WaitingReported`, if a batch is neither reconciled
  nor retried while it is received. The invariant: a stored reading that waits
  is in its saved batch, or a call that collected anything for the batch has
  yet to save it, or has saved it without that reading. Reconciling a batch
  keeps its readings because its copy is still the stored batch, and a retry
  stores readings only as accepted.
- `AcceptedStays`: `AcceptedStaysBacked`, under the disciplines. A call of
  `ProcessBatch` that is about to write a pending reading, or a list of pending
  items, finds none of them accepted; a batch that is received is not retried.
- `ReportsHonest`: `ReportNeverTooGood`, without any discipline. A stored
  reading that waits was collected so by a call for its batch, and a stored
  batch holds all that some call for it collected; if that is the same call, the
  report counts the reading.
- `DashboardsExact`: `DashboardExact`, under the disciplines. The invariant
  matches each waiting item that was retried at most once with a waiting
  reading, one that is about to be stored, or a retry that is about to settle
  it; it needs that retries work on good copies, that lists are still true, and
  that a call collects at most one reading of a device.

### Adapters, conversion, reports

- `AdaptersProofs!TypeCorrect`: the types, with the fact that the vendors
  `FetchAll` found stay in the catalogue.
- `AdaptersProofs!AllAccounted`: `FetchAllAccounts`. The invariant splits the
  vendors found into those still to ask, the one being asked, those with rows
  and those that failed, with the rows of the third as asked for.
- `AdaptersProofs!TheyMeet`: `FetchesMeet`, for finitely many clients. While no
  context has ended and the barrier is down, tokens in the channel and tokens
  received add up to the fetches that wait.
- `ConversionProofs!TypeCorrect`, `AcceptedSound`, `ClearInRange`: status,
  diagnosis, policy and alerts agree for all integers and all settings.
- `ReportsProofs!ReportsConvert`: `Reports` implements `Conversion`, so that
  the theorems of the latter hold of what is stored. The one invariant of
  `Reports` is `StoredOK`: finitely many readings, each judged by the settings
  of the process. The other theorems of `ReportsProofs` follow from it by
  calculation: `TrendsFollow`, `WindowsAdjoin`, `CompleteCovers`,
  `FreshnessAgree`, `FieldsCounted`, `HealthyReviewed`, `WorstComesFirst`.

Induction over data is out of the prover's reach: the library's induction
theorems take an operator as parameter. So `SumsProofs` proves that a sum over
a finite set adds up, splits and does not depend on the order from the
definition of the fold, by looking at a set of least size for which it would
fail. The list of a stable sort is described by the place each element gets,
the number of those that come before it, and flattening by the least index at
which it would go wrong. No module declares a recursive operator.

**Only model-checked:** the liveness properties (`EveryCallReturns`,
`RetryReturns`, `CancelledReturns`, `BarrierLifts`), because TLAPS has no rule
here for fairness and `ENABLED`. Every invariant, action property and
refinement that a passing run checks has a theorem.

## 5. What is not modelled

- The HTTP interface and the logger: handlers that read only, one call of the
  service each, and output. They add no state and no order of calls that the
  models do not already allow; a closed store is an error in both.
- Texts: messages, summaries, narratives, `Explain`, `VendorLine`, encodings
  such as `MarshalSummary` and `ParseStatus`. Helpers that no code calls and
  that repeat a modelled one: `QualityLabel`, `ShouldPend`, `CanRetry`,
  `IsActionable`, `OrderedVendors`, `SortByFreshness`. `alerts.Sort`, which only a
  test calls, without looking at the order.
- Floating point: values are integers and a token for NaN and the infinities;
  averages are sums and counts, so their rounding is left out, and a change of
  less than 0.01 is no change.
- Update and creation times of items: a purge picks any items, which covers
  every cutoff. `StoreHealth`, four counts in four transactions that nothing
  relates to each other, and single reads that only return what is stored.
- A torn bbolt transaction (bbolt's own promise), and batch ids that contain
  colons, by which two readings could have one key.
- What runs of one process cannot show of settings: readings stored under other
  settings than those the alerts are raised with.

## 6. Plan

Done: store, recorder, aggregator, ingestion with its ledger, retries with
their board, operators and their reports, adapters with catalogue and barriers,
the composition, the rules of a reading, lists of alerts, and analytics; and
the theorems of section 4. Left:

1. An abstract specification of `Platform` under its disciplines, a ledger and
   a board on one store, with the theorem that `Platform` implements it.
2. Of the audit log of several processes, what is left of the history: the
   entries of the last one.
3. Maintenance with update times, should the code come to promise something of
   purges next to retries.
