---------------------------- MODULE IngestProofs ----------------------------
(* Proofs about module Ingest, for any number of calls, adapters, devices     *)
(* and restarts.                                                              *)
EXTENDS Ingest, StoreProofs, FiniteSetTheorems

\* The aggregator's summaries keep their type.
LEMMA SummaryTypes ==
  /\ ZeroSummary \in Summaries
  /\ \A summary \in Summaries, status \in Status :
       AddStatus(summary, status) \in Summaries
BY SMT DEF ZeroSummary, Summaries, AddStatus, InReview

\* The types of the whole state but the audit log, to which other parts of the
\* service write too.
DataTypeOK ==
  /\ db \in {"open", "closed"}
  /\ DOMAIN readings \subseteq ReadingIds
  /\ \A id \in DOMAIN readings : readings[id] \in Status
  /\ DOMAIN pending \subseteq ReadingIds
  /\ \A id \in DOMAIN pending : pending[id] \in PendingItem
  /\ DOMAIN batches \subseteq Batches
  /\ \A b \in DOMAIN batches : batches[b] \in SavedBatch

SharedTypeOK == DataTypeOK /\ MemoryTypeOK /\ CallTypeOK

\* A store write of a well-typed value keeps the types of the store.
LEMMA WriteTypes ==
  ASSUME DataTypeOK
  PROVE  /\ \A id \in ReadingIds, status \in Status :
              PutReading(id, status) => DataTypeOK'
         /\ \A id \in ReadingIds, item \in PendingItem :
              PutPending(id, item) => DataTypeOK'
         /\ \A b \in Batches, batch \in SavedBatch :
              PutBatch(b, batch) => DataTypeOK'
         /\ \A id : DeletePending(id) => DataTypeOK'
         /\ \A key, entry : PutAudit(key, entry) => DataTypeOK'
         /\ UNCHANGED storeVars => DataTypeOK'
         /\ Close \/ Open => DataTypeOK'
<1>1. ASSUME NEW id \in ReadingIds, NEW status \in Status, PutReading(id, status)
      PROVE  DataTypeOK'
  BY <1>1, PutTyped DEF DataTypeOK, PutReading
<1>2. ASSUME NEW id \in ReadingIds, NEW item \in PendingItem, PutPending(id, item)
      PROVE  DataTypeOK'
  BY <1>2, PutTyped DEF DataTypeOK, PutPending
<1>3. ASSUME NEW b \in Batches, NEW batch \in SavedBatch, PutBatch(b, batch)
      PROVE  DataTypeOK'
  BY <1>3, PutTyped DEF DataTypeOK, PutBatch
<1>4. ASSUME NEW id, DeletePending(id) PROVE DataTypeOK'
  BY <1>4 DEF DataTypeOK, DeletePending, Select
<1>5. ASSUME NEW key, NEW entry, PutAudit(key, entry) PROVE DataTypeOK'
  BY <1>5 DEF DataTypeOK, PutAudit
<1>6. UNCHANGED storeVars => DataTypeOK'
  BY DEF DataTypeOK, storeVars
<1>7. Close \/ Open => DataTypeOK'
  BY DEF DataTypeOK, Close, Open, buckets
<1>. QED
  BY <1>1, <1>2, <1>3, <1>4, <1>5, <1>6, <1>7

-----------------------------------------------------------------------------
(* Type correctness *)

LEMMA InitTypes == Init => TypeOK
<1>. SUFFICES ASSUME Init PROVE TypeOK
  OBVIOUS
<1>1. StoreTypeOK
  BY DEF Init, StoreInit, StoreTypeOK, NoBucket
<1>2. MemoryTypeOK
  BY BoundsAssumption DEF Init, MemoryTypeOK, NoBucket
<1>3. CallTypeOK
  <2>1. (CHOOSE b \in Batches : TRUE) \in Batches
    BY CallsAssumption
  <2>2. NoBatch \in SavedBatch
    BY SummaryTypes DEF NoBatch, SavedBatch
  <2>. QED
    BY <2>1, <2>2 DEF Init, CallTypeOK, Phases, NoBucket
<1>. QED
  BY <1>1, <1>2, <1>3 DEF TypeOK

\* Every action keeps the types.
LEMMA NextSharedTypes == SharedTypeOK /\ [Next]_vars => SharedTypeOK'
<1>. SUFFICES ASSUME SharedTypeOK, [Next]_vars PROVE SharedTypeOK'
  OBVIOUS
<1>. USE DEF SharedTypeOK
<1>1. ASSUME NEW c \in Calls, Refuse(c) PROVE SharedTypeOK'
  <2>. USE <1>1 DEF Refuse
  <2>1. DataTypeOK'
    BY WriteTypes
  <2>2. MemoryTypeOK'
    BY DEF MemoryTypeOK
  <2>3. CallTypeOK'
    BY DEF CallTypeOK, Phases
  <2>. QED
    BY <2>1, <2>2, <2>3
<1>2. ASSUME NEW c \in Calls, NEW b \in Batches, NEW S \in SUBSET Sources,
             Start(c, b, S)
      PROVE  SharedTypeOK'
  <2>. USE <1>2 DEF Start
  <2>1. DataTypeOK'
    BY WriteTypes
  <2>2. MemoryTypeOK'
    BY SummaryTypes DEF MemoryTypeOK, Begin, SetSummary
  <2>3. CallTypeOK'
    BY DEF CallTypeOK, Phases
  <2>. QED
    BY <2>1, <2>2, <2>3
<1>3. ASSUME NEW c \in Calls, NEW s \in Sources, FetchFails(c, s) PROVE SharedTypeOK'
  <2>. USE <1>3 DEF FetchFails
  <2>1. DataTypeOK'
    BY WriteTypes
  <2>2. MemoryTypeOK'
    BY DEF MemoryTypeOK
  <2>3. CallTypeOK'
    BY DEF CallTypeOK
  <2>. QED
    BY <2>1, <2>2, <2>3
<1>4. ASSUME NEW c \in Calls, NEW s \in Sources, Unlock(c, s) PROVE SharedTypeOK'
  <2>. USE <1>4 DEF Unlock
  <2>1. DataTypeOK'
    BY WriteTypes
  <2>2. MemoryTypeOK'
    BY DEF MemoryTypeOK
  <2>3. CallTypeOK'
    BY DEF CallTypeOK
  <2>. QED
    BY <2>1, <2>2, <2>3
<1>5. ASSUME NEW c \in Calls, NEW s \in Sources, NEW resp \in Feeds[s],
             Fetch(c, s, resp)
      PROVE  SharedTypeOK'
  <2>. USE <1>5 DEF Fetch
  <2>1. DataTypeOK'
    BY WriteTypes
  <2>2. MemoryTypeOK'
    BY DEF MemoryTypeOK
  <2>3. todo' \in [Calls -> SUBSET Reading]
    <3>1. \A i \in resp.readings :
            [src |-> s, pos |-> i.pos, id |-> <<batchOf[c], i.device>>,
             status |-> i.status, storable |-> i.storable] \in Reading
      BY FeedsAssumption DEF CallTypeOK, Item, Reading, ReadingIds
    <3>. QED
      BY <3>1 DEF CallTypeOK
  <2>4. errs' \in [Calls -> Nat]
    BY FeedsAssumption DEF CallTypeOK
  <2>5. CallTypeOK'
    BY <2>3, <2>4 DEF CallTypeOK
  <2>. QED
    BY <2>1, <2>2, <2>5
<1>6. ASSUME NEW c \in Calls, NEW r \in todo[c], Tally(c, r) PROVE SharedTypeOK'
  <2>. USE <1>6 DEF Tally
  <2>0. r \in Reading
    BY DEF CallTypeOK
  <2>1. DataTypeOK'
    BY WriteTypes
  <2>2. MemoryTypeOK'
    <3>1. Snapshot(batchOf[c]) \in Summaries
      BY SummaryTypes DEF Snapshot, MemoryTypeOK
    <3>2. AddStatus(Snapshot(batchOf[c]), r.status) \in Summaries
      BY <2>0, <3>1, SummaryTypes DEF Reading, Status
    <3>. QED
      BY <3>2 DEF MemoryTypeOK, CallTypeOK, Add, SetSummary
  <2>3. CallTypeOK'
    BY <2>0 DEF CallTypeOK, FirstWrite
  <2>. QED
    BY <2>1, <2>2, <2>3
<1>7. ASSUME NEW c \in Calls, StoreItem(c) PROVE SharedTypeOK'
  <2>. USE <1>7 DEF StoreItem
  <2>1. DataTypeOK'
    <3>1. hand[c].id \in ReadingIds /\ NewItem \in PendingItem
      BY DEF CallTypeOK, Reading, NewItem, PendingItem, Status
    <3>. QED
      BY <3>1, WriteTypes
  <2>2. MemoryTypeOK'
    BY DEF MemoryTypeOK
  <2>3. CallTypeOK'
    BY DEF CallTypeOK
  <2>. QED
    BY <2>1, <2>2, <2>3
<1>8. ASSUME NEW c \in Calls, StoreReading(c) PROVE SharedTypeOK'
  <2>. USE <1>8 DEF StoreReading
  <2>1. DataTypeOK'
    <3>1. hand[c].id \in ReadingIds /\ hand[c].status \in Status
      BY DEF CallTypeOK, Reading, Status
    <3>. QED
      BY <3>1, WriteTypes
  <2>2. MemoryTypeOK'
    BY DEF MemoryTypeOK
  <2>3. CallTypeOK'
    BY DEF CallTypeOK
  <2>. QED
    BY <2>1, <2>2, <2>3
<1>9. ASSUME NEW c \in Calls, JoinEmpty(c) PROVE SharedTypeOK'
  <2>. USE <1>9 DEF JoinEmpty
  <2>1. DataTypeOK'
    BY WriteTypes
  <2>2. MemoryTypeOK'
    BY DEF MemoryTypeOK
  <2>3. CallTypeOK'
    BY DEF CallTypeOK, Phases
  <2>. QED
    BY <2>1, <2>2, <2>3
<1>10. ASSUME NEW c \in Calls, Join(c) PROVE SharedTypeOK'
  <2>. USE <1>10 DEF Join
  <2>1. DataTypeOK'
    BY WriteTypes
  <2>2. MemoryTypeOK'
    BY DEF MemoryTypeOK
  <2>3. CallTypeOK'
    <3>1. Snapshot(batchOf[c]) \in Summaries
      BY SummaryTypes DEF Snapshot, MemoryTypeOK
    <3>2. [readings |-> all[c], summary |-> Snapshot(batchOf[c]),
           errors |-> errs[c]] \in SavedBatch
      BY <3>1 DEF CallTypeOK, SavedBatch
    <3>. QED
      BY <3>2 DEF CallTypeOK, Phases
  <2>. QED
    BY <2>1, <2>2, <2>3
<1>11. ASSUME NEW c \in Calls, List(c) PROVE SharedTypeOK'
  <2>. USE <1>11 DEF List
  <2>1. DataTypeOK'
    BY WriteTypes
  <2>2. MemoryTypeOK'
    BY DEF MemoryTypeOK
  <2>3. CallTypeOK'
    <3>. DEFINE found == Select(ListPending("pending"), {batchOf[c]} \X Devices)
    <3>1. DOMAIN found \subseteq ReadingIds
          /\ \A id \in DOMAIN found : found[id] \in PendingItem
      BY DEF Select, ListPending, DataTypeOK
    <3>. HIDE DEF found
    <3>2. CASE listed' = [listed EXCEPT ![c] = found]
      BY <3>1, <3>2 DEF CallTypeOK, Phases
    <3>3. CASE UNCHANGED listed
      BY <3>3 DEF CallTypeOK, Phases
    <3>. QED
      BY <3>2, <3>3 DEF found
  <2>. QED
    BY <2>1, <2>2, <2>3
<1>12. ASSUME NEW c \in Calls, Save(c) PROVE SharedTypeOK'
  <2>. USE <1>12 DEF Save
  <2>1. DataTypeOK'
    <3>1. ASSUME NEW w \in Written(all[c]),
                 SaveBatch(batchOf[c], draft[c], w, listed[c])
          PROVE  DataTypeOK'
      <4>. HIDE DEF Save
      <4>1. DOMAIN w \subseteq ReadingIds /\ \A id \in DOMAIN w : w[id] \in Status
        <5>1. \A r \in all[c] : r.id \in ReadingIds /\ r.status \in Status
          BY DEF CallTypeOK, Reading, Status
        <5>2. ASSUME NEW id \in DOMAIN w
              PROVE  id \in ReadingIds /\ w[id] \in Status
          <6>1. PICK r \in all[c] : r.id = id /\ r.status = w[id]
            BY DEF Written
          <6>. QED
            BY <5>1, <6>1
        <5>. QED
          BY <5>2
      <4>2. batchOf[c] \in Batches /\ draft[c] \in SavedBatch
        BY DEF CallTypeOK
      <4>3. DOMAIN listed[c] \subseteq ReadingIds
            /\ \A id \in DOMAIN listed[c] : listed[c][id] \in PendingItem
        BY DEF CallTypeOK
      <4>4. DOMAIN batches' \subseteq Batches
            /\ \A b \in DOMAIN batches' : batches'[b] \in SavedBatch
        BY <3>1, <4>2, PutTyped DEF DataTypeOK, SaveBatch
      <4>5. DOMAIN readings' \subseteq ReadingIds
            /\ \A id \in DOMAIN readings' : readings'[id] \in Status
        BY <3>1, <4>1, PutAllTyped DEF DataTypeOK, SaveBatch
      <4>6. DOMAIN pending' \subseteq ReadingIds
            /\ \A id \in DOMAIN pending' : pending'[id] \in PendingItem
        BY <3>1, <4>3, PutAllTyped DEF DataTypeOK, SaveBatch
      <4>. QED
        BY <3>1, <4>4, <4>5, <4>6 DEF DataTypeOK, SaveBatch
    <3>. QED
      BY <3>1, WriteTypes
  <2>2. MemoryTypeOK'
    BY DEF MemoryTypeOK
  <2>3. CallTypeOK'
    BY DEF CallTypeOK, Phases
  <2>. QED
    BY <2>1, <2>2, <2>3
<1>13. ASSUME NEW c \in Calls, RecordBatch(c) PROVE SharedTypeOK'
  <2>. USE <1>13 DEF RecordBatch
  <2>1. DataTypeOK'
    BY WriteTypes DEF Record, RecordLost
  <2>2. MemoryTypeOK'
    <3>1. sequence' = sequence + 1
      BY DEF Record, RecordLost
    <3>. QED
      BY <3>1 DEF MemoryTypeOK
  <2>3. CallTypeOK'
    BY DEF CallTypeOK, Phases
  <2>. QED
    BY <2>1, <2>2, <2>3
<1>14. ASSUME CloseStore PROVE SharedTypeOK'
  <2>. USE <1>14 DEF CloseStore, callVars
  <2>1. DataTypeOK'
    BY WriteTypes
  <2>2. MemoryTypeOK'
    BY DEF MemoryTypeOK
  <2>3. CallTypeOK'
    BY DEF CallTypeOK
  <2>. QED
    BY <2>1, <2>2, <2>3
<1>15. ASSUME Restart PROVE SharedTypeOK'
  <2>. USE <1>15 DEF Restart
  <2>1. DataTypeOK'
    BY WriteTypes
  <2>2. MemoryTypeOK'
    BY BoundsAssumption DEF MemoryTypeOK, NoBucket
  <2>3. CallTypeOK'
    BY DEF CallTypeOK, Phases
  <2>. QED
    BY <2>1, <2>2, <2>3
<1>16. ASSUME UNCHANGED vars PROVE SharedTypeOK'
  <2>. USE <1>16 DEF vars, callVars
  <2>1. DataTypeOK'
    BY WriteTypes
  <2>2. MemoryTypeOK'
    BY DEF MemoryTypeOK
  <2>3. CallTypeOK'
    BY DEF CallTypeOK
  <2>. QED
    BY <2>1, <2>2, <2>3
<1>. QED
  BY <1>1, <1>2, <1>3, <1>4, <1>5, <1>6, <1>7, <1>8, <1>9, <1>10, <1>11,
     <1>12, <1>13, <1>14, <1>15, <1>16
  DEF Next, CallStep, WriteOut, Rest

\* Every action leaves the audit log alone or adds an entry of its own.
LEMMA NextAudits ==
  CallTypeOK /\ [Next]_vars =>
    audits' = audits \/ \E entry \in AuditEntry : PutAudit(sequence + 1, entry)
<1>. SUFFICES ASSUME CallTypeOK, [Next]_vars,
                     audits' # audits
              PROVE  \E entry \in AuditEntry : PutAudit(sequence + 1, entry)
  OBVIOUS
<1>1. ASSUME NEW c \in Calls,
             \/ Refuse(c)
             \/ \E b \in Batches, S \in SUBSET Sources : Start(c, b, S)
             \/ \E s \in Sources : FetchFails(c, s) \/ Unlock(c, s)
             \/ \E s \in Sources : \E resp \in Feeds[s] : Fetch(c, s, resp)
             \/ \E r \in todo[c] : Tally(c, r)
      PROVE  FALSE
  BY <1>1 DEF Refuse, Start, FetchFails, Unlock, Fetch, Tally, storeVars
<1>2. ASSUME NEW c \in Calls,
             \/ StoreItem(c) \/ StoreReading(c)
             \/ JoinEmpty(c) \/ Join(c) \/ List(c) \/ Save(c)
      PROVE  FALSE
  BY <1>2
  DEF StoreItem, StoreReading, JoinEmpty, Join, List, Save, PutPending,
      PutReading, SaveBatch, storeVars
<1>3. ASSUME CloseStore \/ Restart \/ UNCHANGED vars PROVE FALSE
  BY <1>3 DEF CloseStore, Restart, Close, Open, buckets, vars, storeVars
<1>4. PICK c \in Calls : RecordBatch(c)
  BY <1>1, <1>2, <1>3 DEF Next, CallStep, WriteOut, Rest
<1>5. [action |-> "batch_received", subject |-> batchOf[c]] \in AuditEntry
  BY DEF CallTypeOK, AuditEntry
<1>. QED
  BY <1>4, <1>5 DEF RecordBatch, Record, RecordLost, storeVars

\* Hence every action keeps all types.
LEMMA NextTypes == TypeOK /\ [Next]_vars => TypeOK'
<1>. SUFFICES ASSUME TypeOK, [Next]_vars PROVE TypeOK'
  OBVIOUS
<1>1. SharedTypeOK'
  BY NextSharedTypes DEF TypeOK, StoreTypeOK, SharedTypeOK, DataTypeOK
<1>2. DOMAIN audits' \subseteq Nat /\ \A k \in DOMAIN audits' : audits'[k] \in AuditEntry
  <2>1. /\ DOMAIN audits \subseteq Nat
        /\ \A k \in DOMAIN audits : audits[k] \in AuditEntry
        /\ sequence + 1 \in Nat
    BY DEF TypeOK, StoreTypeOK, MemoryTypeOK
  <2>2. CASE audits' = audits
    BY <2>1, <2>2
  <2>3. ASSUME NEW entry \in AuditEntry, PutAudit(sequence + 1, entry)
        PROVE  /\ DOMAIN audits' \subseteq Nat
               /\ \A k \in DOMAIN audits' : audits'[k] \in AuditEntry
    BY <2>1, <2>3, PutTyped DEF PutAudit
  <2>. QED
    BY <2>2, <2>3, NextAudits DEF TypeOK
<1>. QED
  BY <1>1, <1>2 DEF TypeOK, StoreTypeOK, SharedTypeOK, DataTypeOK

\* The state is well typed in every behaviour of ProcessBatch calls.
THEOREM TypeCorrect == Spec => []TypeOK
<1>. QED
  BY InitTypes, NextTypes, PTL DEF Spec
-----------------------------------------------------------------------------
(* Batches are finite *)

LEMMA RecalculateTypes ==
  ASSUME NEW rows, IsFiniteSet(rows)
  PROVE  Recalculate(rows) \in Summaries
<1>1. /\ Cardinality(rows) \in Nat
      /\ Cardinality({r \in rows : InReview(r.status)}) \in Nat
      /\ Cardinality({r \in rows : r.status = "accepted"}) \in Nat
  BY FS_Subset, FS_CardinalityType
<1>. QED
  BY <1>1 DEF Recalculate, Summaries

FiniteCall(c) == IsFiniteSet(all[c]) /\ IsFiniteSet(draft[c].readings)

FiniteInv ==
  /\ \A c \in Calls : FiniteCall(c)
  /\ \A b \in DOMAIN batches : IsFiniteSet(batches[b].readings)

LEMMA InitFinite == Init => FiniteInv
<1>. SUFFICES ASSUME Init PROVE FiniteInv
  OBVIOUS
<1>1. \A c \in Calls : all[c] = {} /\ draft[c].readings = {}
  BY DEF Init, NoBatch
<1>2. DOMAIN batches = {}
  BY DEF Init, StoreInit, NoBucket
<1>. QED
  BY <1>1, <1>2, FS_EmptySet DEF FiniteInv, FiniteCall

\* Readings are collected one by one, and saved as they were collected.
LEMMA StepFinite == CallTypeOK /\ FiniteInv /\ [Next]_vars => FiniteInv'
<1>. SUFFICES ASSUME CallTypeOK, FiniteInv, [Next]_vars PROVE FiniteInv'
  OBVIOUS
<1>0. /\ all \in [Calls -> SUBSET Reading] /\ draft \in [Calls -> SavedBatch]
      /\ \A c \in Calls : FiniteCall(c)
      /\ \A b \in DOMAIN batches : IsFiniteSet(batches[b].readings)
  BY DEF CallTypeOK, FiniteInv
<1>1. ASSUME UNCHANGED <<all, draft, batches>> PROVE FiniteInv'
  BY <1>0, <1>1 DEF FiniteInv, FiniteCall
<1>2. ASSUME NEW c \in Calls,
             \/ Refuse(c)
             \/ \E b \in Batches, S \in SUBSET Sources : Start(c, b, S)
             \/ \E s \in Sources : FetchFails(c, s) \/ Unlock(c, s)
             \/ \E s \in Sources : \E resp \in Feeds[s] : Fetch(c, s, resp)
      PROVE  FiniteInv'
  BY <1>1, <1>2 DEF Refuse, Start, FetchFails, Unlock, Fetch, storeVars
<1>3. ASSUME NEW c \in Calls, NEW r \in todo[c], Tally(c, r) PROVE FiniteInv'
  <2>1. /\ all' = [all EXCEPT ![c] = all[c] \cup {r}]
        /\ UNCHANGED <<draft, batches>>
    BY <1>3 DEF Tally, storeVars
  <2>2. IsFiniteSet(all[c] \cup {r})
    BY <1>0, FS_AddElement DEF FiniteCall
  <2>. QED
    BY <1>0, <2>1, <2>2 DEF FiniteInv, FiniteCall
<1>4. ASSUME NEW c \in Calls,
             \/ StoreItem(c) \/ StoreReading(c) \/ JoinEmpty(c) \/ List(c)
             \/ RecordBatch(c)
      PROVE  FiniteInv'
  BY <1>1, <1>4
  DEF StoreItem, StoreReading, JoinEmpty, List, RecordBatch, Record, RecordLost,
      PutReading, PutPending, PutAudit, storeVars
<1>5. ASSUME NEW c \in Calls, Join(c) PROVE FiniteInv'
  <2>1. /\ UNCHANGED <<all, batches>>
        /\ draft' = [draft EXCEPT ![c] = draft'[c]]
        /\ draft'[c].readings = all[c]
    BY <1>0, <1>5 DEF Join, storeVars
  <2>2. \A d \in Calls : FiniteCall(d)'
    BY <1>0, <2>1 DEF FiniteCall
  <2>. QED
    BY <1>0, <2>1, <2>2 DEF FiniteInv
<1>6. ASSUME NEW c \in Calls, Save(c) PROVE FiniteInv'
  <2>1. UNCHANGED <<all, draft>>
        /\ (batches' = batches \/ batches' = Put(batches, batchOf[c], draft[c]))
    BY <1>6 DEF Save, SaveBatch, storeVars
  <2>2. \A b \in DOMAIN batches' : IsFiniteSet(batches'[b].readings)
    BY <1>0, <2>1 DEF Put, FiniteCall
  <2>. QED
    BY <1>0, <2>1, <2>2 DEF FiniteInv, FiniteCall
<1>7. ASSUME CloseStore \/ Restart \/ UNCHANGED vars PROVE FiniteInv'
  BY <1>1, <1>7
  DEF CloseStore, Restart, Close, Open, buckets, vars, callVars, storeVars
<1>. QED
  BY <1>2, <1>3, <1>4, <1>5, <1>6, <1>7 DEF Next, CallStep, WriteOut, Rest

-----------------------------------------------------------------------------
(* What ProcessBatch writes to the store *)

NothingWritten == UNCHANGED <<readings, pending, batches>>

ItemWritten(c) ==
  /\ phase[c] = "collecting" /\ step[c] = "item" /\ db = "open"
  /\ PutPending(hand[c].id, NewItem)
  /\ step' = [step EXCEPT ![c] = "reading"]
  /\ UNCHANGED <<phase, batchOf, hand, all, listed>>

ReadingWritten(c) ==
  /\ phase[c] = "collecting" /\ step[c] = "reading" /\ db = "open"
  /\ PutReading(hand[c].id, hand[c].status)
  /\ UNCHANGED <<phase, batchOf, all, listed>>

BatchWritten(c) ==
  /\ phase[c] = "saving" /\ db = "open"
  /\ \E w \in Written(all[c]) : SaveBatch(batchOf[c], draft[c], w, listed[c])
  /\ phase' = [phase EXCEPT ![c] = "recording"]
  /\ UNCHANGED <<batchOf, all, listed>>

LEMMA NextWrites ==
  [Next]_vars =>
    \/ NothingWritten
    \/ \E c \in Calls : ItemWritten(c) \/ ReadingWritten(c) \/ BatchWritten(c)
<1>. SUFFICES ASSUME [Next]_vars
              PROVE  \/ NothingWritten
                     \/ \E c \in Calls : \/ ItemWritten(c) \/ ReadingWritten(c)
                                         \/ BatchWritten(c)
  OBVIOUS
<1>1. ASSUME NEW c \in Calls,
             \/ Refuse(c)
             \/ \E b \in Batches, S \in SUBSET Sources : Start(c, b, S)
             \/ \E s \in Sources : FetchFails(c, s) \/ Unlock(c, s)
             \/ \E s \in Sources : \E resp \in Feeds[s] : Fetch(c, s, resp)
             \/ \E r \in todo[c] : Tally(c, r)
             \/ JoinEmpty(c) \/ Join(c)
      PROVE  NothingWritten
  BY <1>1
  DEF Refuse, Start, FetchFails, Unlock, Fetch, Tally, JoinEmpty, Join, storeVars,
      NothingWritten
<1>2. ASSUME NEW c \in Calls, List(c) \/ RecordBatch(c) PROVE NothingWritten
  BY <1>2 DEF List, RecordBatch, Record, RecordLost, PutAudit, storeVars,
              NothingWritten
<1>3. ASSUME NEW c \in Calls, StoreItem(c) PROVE NothingWritten \/ ItemWritten(c)
  BY <1>3 DEF StoreItem, WriteCommits, storeVars, NothingWritten, ItemWritten
<1>4. ASSUME NEW c \in Calls, StoreReading(c)
      PROVE  NothingWritten \/ ReadingWritten(c)
  BY <1>4 DEF StoreReading, WriteCommits, storeVars, NothingWritten, ReadingWritten
<1>5. ASSUME NEW c \in Calls, Save(c) PROVE NothingWritten \/ BatchWritten(c)
  BY <1>5 DEF Save, WriteCommits, storeVars, NothingWritten, BatchWritten
<1>6. ASSUME CloseStore \/ Restart \/ UNCHANGED vars PROVE NothingWritten
  BY <1>6 DEF CloseStore, Restart, Close, Open, buckets, vars, storeVars,
              NothingWritten
<1>. QED
  BY <1>1, <1>2, <1>3, <1>4, <1>5, <1>6 DEF Next, CallStep, WriteOut, Rest

\* The items a call lists are those the store holds as pending at one moment.
LEMMA NextListed ==
  CallTypeOK /\ [Next]_vars =>
    \A d \in Calls :
      \/ listed'[d] = listed[d]
      \/ listed'[d] = Select(ListPending("pending"), {batchOf[d]} \X Devices)
<1>. SUFFICES ASSUME CallTypeOK, [Next]_vars, NEW d \in Calls,
                     listed'[d] # listed[d]
              PROVE  listed'[d] =
                       Select(ListPending("pending"), {batchOf[d]} \X Devices)
  OBVIOUS
<1>1. listed' # listed
  OBVIOUS
<1>2. PICK c \in Calls : List(c)
  <2>1. ~(CloseStore \/ Restart \/ UNCHANGED vars)
    BY <1>1 DEF CloseStore, Restart, vars, callVars
  <2>2. ASSUME NEW c \in Calls,
               \/ Refuse(c)
               \/ \E b \in Batches, S \in SUBSET Sources : Start(c, b, S)
               \/ \E s \in Sources : FetchFails(c, s) \/ Unlock(c, s)
               \/ \E s \in Sources : \E resp \in Feeds[s] : Fetch(c, s, resp)
        PROVE  listed' = listed
    BY <2>2 DEF Refuse, Start, FetchFails, Unlock, Fetch
  <2>3. ASSUME NEW c \in Calls,
               \/ \E r \in todo[c] : Tally(c, r)
               \/ StoreItem(c) \/ StoreReading(c) \/ JoinEmpty(c) \/ Join(c)
               \/ Save(c) \/ RecordBatch(c)
        PROVE  listed' = listed
    BY <2>3 DEF Tally, StoreItem, StoreReading, JoinEmpty, Join, Save, RecordBatch
  <2>. QED
    BY <1>1, <2>1, <2>2, <2>3 DEF Next, CallStep, WriteOut, Rest
<1>. DEFINE found == Select(ListPending("pending"), {batchOf[c]} \X Devices)
<1>3. listed' = [listed EXCEPT ![c] = found]
  BY <1>1, <1>2 DEF List
<1>. HIDE DEF found
<1>4. listed'[d] = found /\ d = c
  BY <1>3 DEF CallTypeOK
<1>. QED
  BY <1>4 DEF found

\* Only Start puts a call in flight.
LEMMA FlightKept ==
  ASSUME CallTypeOK, NEW c \in Calls, Refuse(c) \/ CallStep(c)
  PROVE  batchOf' = batchOf /\ \A d \in Calls : InFlight(d)' => InFlight(d)
<1>0. phase \in [Calls -> Phases]
  BY DEF CallTypeOK
<1>1. ASSUME \/ \E s \in Sources : FetchFails(c, s) \/ Unlock(c, s)
             \/ \E s \in Sources : \E resp \in Feeds[s] : Fetch(c, s, resp)
             \/ \E r \in todo[c] : Tally(c, r)
             \/ StoreItem(c) \/ StoreReading(c)
      PROVE  UNCHANGED <<phase, batchOf>>
  BY <1>1 DEF FetchFails, Unlock, Fetch, Tally, StoreItem, StoreReading
<1>2. CASE Refuse(c) \/ JoinEmpty(c) \/ Join(c) \/ List(c) \/ Save(c) \/ RecordBatch(c)
  BY <1>0, <1>2 DEF Refuse, JoinEmpty, Join, List, Save, RecordBatch, InFlight
<1>. QED
  BY <1>1, <1>2 DEF CallStep, WriteOut, InFlight

-----------------------------------------------------------------------------
(* Where a call stands *)

\* The goroutines of a call: a reading is in hand or to be taken only while
\* one of them has the mutex, a call that has not started has collected
\* nothing, and one that is past wg.Wait has no goroutine left.
CallPhase(c) ==
  /\ phase[c] = "idle" => all[c] = {} /\ todo[c] = {} /\ step[c] = "next"
  /\ InFlight(c) /\ MutexFree(c) => todo[c] = {} /\ step[c] = "next"
  /\ phase[c] \in {"idle", "listing", "saving", "recording"} => AllDone(c)
  /\ \A s, t \in Sources :
       worker[c][s] = "merging" /\ worker[c][t] = "merging" => s = t
  /\ phase[c] \in {"listing", "saving"} => all[c] # {}

PhaseInv == \A c \in Calls : CallPhase(c)

\* What makes NoUntrackedPending inductive.  A pending reading that a live
\* call has collected has its item, or the item is about to be written, or
\* the store is closed and the call can write no reading either.
CallTracked(c) ==
  InFlight(c) /\ db = "open" =>
    /\ \A r \in all[c] : r.status = "pending" =>
         r.id \in DOMAIN pending \/ (hand[c] = r /\ step[c] = "item")
    /\ step[c] = "reading" /\ hand[c].status = "pending" =>
         hand[c].id \in DOMAIN pending

TrackedInv == NoUntrackedPending /\ \A c \in Calls : CallTracked(c)

\* What makes NoMaskedFailure inductive: no two calls in flight have the same
\* batch id, unless it is a shared one; if it is not, the aggregator's entry
\* counts exactly what the call has collected.  No reading is counted twice,
\* and the draft is final.
CallCount(c) ==
  /\ IsFiniteSet(all[c])
  /\ phase[c] = "collecting" =>
       /\ batchOf[c] \notin Shared => Snapshot(batchOf[c]) = Recalculate(all[c])
       /\ todo[c] \cap all[c] = {}
       /\ \A r \in todo[c] \cup all[c] : worker[c][r.src] # "fetching"
  /\ phase[c] \in {"listing", "saving"} =>
       /\ draft[c] = [readings |-> all[c], summary |-> draft[c].summary,
                      errors |-> errs[c]]
       /\ batchOf[c] \notin Shared => draft[c].summary = Recalculate(all[c])

Exclusive ==
  \A c, d \in Calls :
    InFlight(c) /\ InFlight(d) /\ batchOf[c] = batchOf[d] /\ batchOf[c] \notin Shared
      => c = d

CountInv == NoMaskedFailure /\ \A c \in Calls : CallCount(c)

LEMMA InitPhase == Init => PhaseInv
BY DEF Init, PhaseInv, CallPhase, InFlight, AllDone

\* Every action keeps the invariant on where calls stand.
LEMMA StepPhase == CallTypeOK /\ PhaseInv /\ [Next]_vars => PhaseInv'
<1>. SUFFICES ASSUME CallTypeOK, PhaseInv, [Next]_vars, NEW d \in Calls
              PROVE  CallPhase(d)'
  BY DEF PhaseInv
<1>0. /\ CallPhase(d)
      /\ phase \in [Calls -> Phases]
      /\ worker \in [Calls -> [Sources -> {"fetching", "merging", "done"}]]
      /\ todo \in [Calls -> SUBSET Reading]
      /\ step \in [Calls -> {"next", "item", "reading"}]
      /\ all \in [Calls -> SUBSET Reading]
  BY DEF CallTypeOK, PhaseInv
<1>. USE <1>0 DEF CallPhase, InFlight, MutexFree, AllDone
<1>1. ASSUME NEW c \in Calls, Refuse(c) PROVE CallPhase(d)'
  BY <1>1 DEF Refuse
<1>2. ASSUME NEW c \in Calls, NEW b \in Batches, NEW S \in SUBSET Sources,
             Start(c, b, S)
      PROVE  CallPhase(d)'
  BY <1>2 DEF Start
<1>3. ASSUME NEW c \in Calls, NEW s \in Sources, FetchFails(c, s)
      PROVE  CallPhase(d)'
  BY <1>3 DEF FetchFails
<1>4. ASSUME NEW c \in Calls, NEW s \in Sources, Unlock(c, s)
      PROVE  CallPhase(d)'
  BY <1>4 DEF Unlock
<1>5. ASSUME NEW c \in Calls, NEW s \in Sources, NEW resp \in Feeds[s],
             Fetch(c, s, resp)
      PROVE  CallPhase(d)'
  BY <1>5 DEF Fetch
<1>6. ASSUME NEW c \in Calls, NEW r \in todo[c], Tally(c, r)
      PROVE  CallPhase(d)'
  BY <1>6 DEF Tally
<1>7. ASSUME NEW c \in Calls, StoreItem(c) PROVE CallPhase(d)'
  BY <1>7 DEF StoreItem
<1>8. ASSUME NEW c \in Calls, StoreReading(c) PROVE CallPhase(d)'
  BY <1>8 DEF StoreReading
<1>9. ASSUME NEW c \in Calls, JoinEmpty(c) \/ Join(c) PROVE CallPhase(d)'
  BY <1>9 DEF JoinEmpty, Join
<1>10. ASSUME NEW c \in Calls, List(c) PROVE CallPhase(d)'
  BY <1>10 DEF List
<1>11. ASSUME NEW c \in Calls, Save(c) PROVE CallPhase(d)'
  BY <1>11 DEF Save
<1>12. ASSUME NEW c \in Calls, RecordBatch(c) PROVE CallPhase(d)'
  BY <1>12 DEF RecordBatch
<1>13. ASSUME CloseStore \/ UNCHANGED vars PROVE CallPhase(d)'
  BY <1>13 DEF CloseStore, vars, callVars
<1>14. ASSUME Restart PROVE CallPhase(d)'
  BY <1>14 DEF Restart
<1>. QED
  <2>. HIDE <1>0 DEF CallPhase, InFlight, MutexFree, AllDone
  <2>. QED
    BY <1>1, <1>2, <1>3, <1>4, <1>5, <1>6, <1>7, <1>8, <1>9, <1>10, <1>11,
       <1>12, <1>13, <1>14
    DEF Next, CallStep, WriteOut, Rest

LEMMA NextPhase == TypeOK /\ PhaseInv /\ [Next]_vars => PhaseInv'
BY StepPhase DEF TypeOK

-----------------------------------------------------------------------------
(* What a call has collected *)

\* Readings of its own batch; the one in hand is one of them, and the batch it
\* is about to save consists of them.
CallCollected(c) ==
  /\ \A r \in all[c] \cup todo[c] : r.id[1] = batchOf[c]
  /\ step[c] # "next" => hand[c] \in all[c]
  /\ phase[c] \in {"listing", "saving"} => draft[c].readings = all[c]

CollectInv == \A c \in Calls : CallCollected(c)

LEMMA InitCollect == Init => CollectInv
BY DEF Init, CollectInv, CallCollected

LEMMA StepCollect ==
  CallTypeOK /\ PhaseInv /\ CollectInv /\ [Next]_vars => CollectInv'
<1>. SUFFICES ASSUME CallTypeOK, PhaseInv, CollectInv, [Next]_vars, NEW d \in Calls
              PROVE  CallCollected(d)'
  BY DEF CollectInv
<1>0. /\ CallCollected(d) /\ CallPhase(d)
      /\ phase \in [Calls -> Phases] /\ batchOf \in [Calls -> Batches]
      /\ todo \in [Calls -> SUBSET Reading] /\ all \in [Calls -> SUBSET Reading]
      /\ hand \in [Calls -> Reading \cup {NoReading}]
      /\ step \in [Calls -> {"next", "item", "reading"}]
      /\ draft \in [Calls -> SavedBatch]
  BY DEF CallTypeOK, PhaseInv, CollectInv
<1>1. ASSUME UNCHANGED <<batchOf, todo, hand, step, all, draft>>,
             phase'[d] \in {"listing", "saving"} => phase[d] \in {"listing", "saving"}
      PROVE  CallCollected(d)'
  BY <1>0, <1>1 DEF CallCollected
<1>2. ASSUME NEW c \in Calls, Refuse(c) \/ JoinEmpty(c) \/ List(c) \/ Save(c)
                              \/ RecordBatch(c)
      PROVE  CallCollected(d)'
  BY <1>0, <1>1, <1>2 DEF Refuse, JoinEmpty, List, Save, RecordBatch
<1>3. ASSUME NEW c \in Calls, NEW b \in Batches, NEW S \in SUBSET Sources,
             Start(c, b, S)
      PROVE  CallCollected(d)'
  BY <1>0, <1>3 DEF Start, CallPhase, CallCollected
<1>4. ASSUME NEW c \in Calls, NEW s \in Sources, FetchFails(c, s) \/ Unlock(c, s)
      PROVE  CallCollected(d)'
  BY <1>0, <1>1, <1>4 DEF FetchFails, Unlock
<1>5. ASSUME NEW c \in Calls, NEW s \in Sources, NEW resp \in Feeds[s],
             Fetch(c, s, resp)
      PROVE  CallCollected(d)'
  <2>1. /\ UNCHANGED <<phase, batchOf, hand, step, all, draft>>
        /\ \A r \in todo'[d] : r \in todo[d] \/ (d = c /\ r.id[1] = batchOf[c])
    BY <1>0, <1>5 DEF Fetch
  <2>. QED
    BY <1>0, <2>1 DEF CallCollected
<1>6. ASSUME NEW c \in Calls, NEW r \in todo[c], Tally(c, r)
      PROVE  CallCollected(d)'
  <2>1. CASE d = c
    <3>1. /\ all'[d] = all[d] \cup {r} /\ todo'[d] = todo[d] \ {r} /\ hand'[d] = r
          /\ phase[d] = "collecting" /\ UNCHANGED <<phase, batchOf>>
      BY <1>0, <1>6, <2>1 DEF Tally
    <3>. QED
      BY <1>0, <2>1, <3>1 DEF CallCollected
  <2>2. CASE d # c
    BY <1>0, <1>6, <2>2 DEF Tally, CallCollected
  <2>. QED
    BY <2>1, <2>2
<1>7. ASSUME NEW c \in Calls, StoreItem(c) \/ StoreReading(c) PROVE CallCollected(d)'
  <2>1. /\ UNCHANGED <<phase, batchOf, todo, all, draft>>
        /\ step'[d] # "next" => step[d] # "next" /\ hand'[d] = hand[d]
    BY <1>0, <1>7 DEF StoreItem, StoreReading
  <2>. QED
    BY <1>0, <2>1 DEF CallCollected
<1>8. ASSUME NEW c \in Calls, Join(c) PROVE CallCollected(d)'
  BY <1>0, <1>8 DEF Join, CallCollected
<1>9. ASSUME CloseStore \/ UNCHANGED vars PROVE CallCollected(d)'
  BY <1>1, <1>9 DEF CloseStore, vars, callVars
<1>10. ASSUME Restart PROVE CallCollected(d)'
  BY <1>0, <1>1, <1>10 DEF Restart, InFlight
<1>. QED
  BY <1>2, <1>3, <1>4, <1>5, <1>6, <1>7, <1>8, <1>9, <1>10 DEF Next, CallStep, WriteOut, Rest

-----------------------------------------------------------------------------
(* No pending reading without an item *)

LEMMA InitTracked == Init => TrackedInv
BY DEF Init, StoreInit, NoBucket, TrackedInv, NoUntrackedPending, CallTracked,
       InFlight

\* No call opens or closes the store.
LEMMA CallsKeepOpen ==
  ASSUME NEW c \in Calls,
         \/ Refuse(c) \/ CallStep(c)
         \/ \E b \in Batches, S \in SUBSET Sources : Start(c, b, S)
  PROVE  db' = db
BY DEF Refuse, Start, CallStep, WriteOut, FetchFails, Unlock, Fetch, Tally, StoreItem,
       StoreReading, JoinEmpty, Join, List, Save, RecordBatch, Record, RecordLost,
       PutAudit, PutPending, PutReading, SaveBatch, storeVars

\* A call is in flight on an open store only if the store was open already: a
\* restart leaves no call in flight.
LEMMA FlightOpen ==
  ASSUME CallTypeOK, [Next]_vars, NEW d \in Calls, InFlight(d)', db' = "open"
  PROVE  db = "open"
<1>1. ~Restart
  BY DEF CallTypeOK, Restart, InFlight
<1>2. ASSUME CloseStore \/ UNCHANGED vars PROVE db' = db \/ db' = "closed"
  BY <1>2 DEF CloseStore, Close, vars, storeVars
<1>. QED
  BY <1>1, <1>2, CallsKeepOpen DEF Next, Rest

\* The pending readings a live call has collected have ids in a set, but for one
\* whose item is about to be written.
Covered(c, ids) ==
  InFlight(c) =>
    /\ \A r \in all[c] : r.status = "pending" =>
         r.id \in ids \/ (hand[c] = r /\ step[c] = "item")
    /\ step[c] = "reading" /\ hand[c].status = "pending" => hand[c].id \in ids

\* Every action keeps them in a set that grows with the items they write.
LEMMA StepCovered ==
  ASSUME CallTypeOK, PhaseInv, [Next]_vars, NEW d \in Calls,
         NEW ids, Covered(d, ids), NEW more, ids \subseteq more,
         StoreItem(d) => hand[d].id \in more
  PROVE  /\ InFlight(d)' =>
              /\ \A r \in all'[d] : r.status = "pending" =>
                   r.id \in more \/ (hand'[d] = r /\ step'[d] = "item")
              /\ step'[d] = "reading" /\ hand'[d].status = "pending" =>
                   hand'[d].id \in more
<1>. DEFINE Grown ==
       InFlight(d)' =>
         /\ \A r \in all'[d] : r.status = "pending" =>
              r.id \in more \/ (hand'[d] = r /\ step'[d] = "item")
         /\ step'[d] = "reading" /\ hand'[d].status = "pending" =>
              hand'[d].id \in more
<1>0. /\ CallPhase(d)
      /\ phase \in [Calls -> Phases]
      /\ step \in [Calls -> {"next", "item", "reading"}]
      /\ hand \in [Calls -> Reading \cup {NoReading}]
      /\ all \in [Calls -> SUBSET Reading]
      /\ todo \in [Calls -> SUBSET Reading]
  BY DEF CallTypeOK, PhaseInv
\* Steps that neither collect nor store.
<1>1. ASSUME all'[d] = all[d], hand'[d] = hand[d], step'[d] = step[d],
             InFlight(d)' => InFlight(d)
      PROVE  Grown
  BY <1>1 DEF Covered
<1>2. ASSUME NEW c \in Calls,
             Refuse(c) \/ JoinEmpty(c) \/ Join(c) \/ List(c) \/ Save(c) \/ RecordBatch(c)
      PROVE  Grown
  <2>1. UNCHANGED <<all, hand, step>>
    BY <1>2 DEF Refuse, JoinEmpty, Join, List, Save, RecordBatch
  <2>2. InFlight(d)' => InFlight(d)
    BY <1>0, <1>2 DEF Refuse, JoinEmpty, Join, List, Save, RecordBatch, InFlight
  <2>. QED
    BY <1>1, <2>1, <2>2
<1>3. ASSUME NEW c \in Calls, NEW s \in Sources,
             \/ FetchFails(c, s) \/ Unlock(c, s)
             \/ \E resp \in Feeds[s] : Fetch(c, s, resp)
      PROVE  Grown
  BY <1>1, <1>3 DEF FetchFails, Unlock, Fetch, InFlight
<1>4. ASSUME NEW c \in Calls, NEW b \in Batches, NEW S \in SUBSET Sources,
             Start(c, b, S)
      PROVE  Grown
  <2>1. CASE d # c
    BY <1>0, <1>1, <1>4, <2>1 DEF Start, InFlight
  <2>2. CASE d = c
    BY <1>0, <1>4, <2>2 DEF Start, CallPhase
  <2>. QED
    BY <2>1, <2>2
<1>5. ASSUME NEW c \in Calls, NEW r \in todo[c], Tally(c, r) PROVE Grown
  BY <1>0, <1>5 DEF Tally, FirstWrite, Covered, InFlight
<1>6. ASSUME NEW c \in Calls, StoreItem(c) PROVE Grown
  BY <1>0, <1>6 DEF StoreItem, Covered, InFlight
<1>7. ASSUME NEW c \in Calls, StoreReading(c) PROVE Grown
  BY <1>0, <1>7 DEF StoreReading, Covered, InFlight
<1>8. ASSUME CloseStore \/ UNCHANGED vars PROVE Grown
  BY <1>1, <1>8 DEF CloseStore, vars, callVars, InFlight
<1>9. ASSUME Restart PROVE Grown
  BY <1>0, <1>9 DEF Restart, InFlight
<1>. QED
  BY <1>2, <1>3, <1>4, <1>5, <1>6, <1>7, <1>8, <1>9 DEF Next, CallStep, WriteOut, Rest

\* If no write fails on an open store, every action keeps pending readings
\* and their items together.
LEMMA StepTracked ==
  ASSUME IOErrors = FALSE
  PROVE  CallTypeOK /\ PhaseInv /\ TrackedInv /\ [Next]_vars => TrackedInv'
<1>. SUFFICES ASSUME CallTypeOK, PhaseInv, TrackedInv, [Next]_vars
              PROVE  NoUntrackedPending' /\ \A d \in Calls : CallTracked(d)'
  BY DEF TrackedInv
<1>1. DOMAIN pending \subseteq DOMAIN pending'
  BY NextWrites
  DEF NothingWritten, ItemWritten, ReadingWritten, BatchWritten, PutPending,
      PutReading, SaveBatch, Put, PutAll
<1>2. ASSUME NEW d \in Calls PROVE CallTracked(d)'
  <2>. SUFFICES ASSUME InFlight(d)', db' = "open" PROVE CallTracked(d)'
    BY DEF CallTracked
  <2>1. db = "open"
    BY FlightOpen
  <2>2. Covered(d, DOMAIN pending)
    BY <2>1 DEF TrackedInv, CallTracked, Covered
  <2>3. StoreItem(d) => hand[d].id \in DOMAIN pending'
    BY <2>1 DEF StoreItem, WriteFails, PutPending, Put
  <2>. QED
    BY <1>1, <2>2, <2>3, StepCovered DEF CallTracked
<1>3. CASE NothingWritten
  BY <1>2, <1>3 DEF NothingWritten, TrackedInv, NoUntrackedPending
<1>4. ASSUME NEW c \in Calls, ItemWritten(c) PROVE NoUntrackedPending'
  BY <1>1, <1>4 DEF ItemWritten, PutPending, TrackedInv, NoUntrackedPending
<1>5. ASSUME NEW c \in Calls, ReadingWritten(c) PROVE NoUntrackedPending'
  <2>1. hand[c].status = "pending" => hand[c].id \in DOMAIN pending
    BY <1>5 DEF ReadingWritten, TrackedInv, CallTracked, InFlight
  <2>2. \A id \in DOMAIN readings' : readings'[id] = "pending" =>
          \/ id \in DOMAIN readings /\ readings[id] = "pending"
          \/ hand[c].status = "pending" /\ id = hand[c].id
    BY <1>5 DEF ReadingWritten, PutReading, Put
  <2>. QED
    BY <1>1, <2>1, <2>2 DEF TrackedInv, NoUntrackedPending
<1>6. ASSUME NEW c \in Calls, BatchWritten(c) PROVE NoUntrackedPending'
  <2>1. \A r \in all[c] : r.status = "pending" => r.id \in DOMAIN pending
    BY <1>6
    DEF BatchWritten, PhaseInv, CallPhase, TrackedInv, CallTracked, InFlight,
        MutexFree, AllDone
  <2>2. PICK w \in Written(all[c]) : readings' = PutAll(readings, w)
    BY <1>6 DEF BatchWritten, SaveBatch
  <2>3. \A id \in DOMAIN w : w[id] = "pending" => id \in DOMAIN pending
    BY <2>1 DEF Written
  <2>. QED
    BY <1>1, <2>2, <2>3 DEF TrackedInv, NoUntrackedPending, PutAll
<1>. QED
  BY <1>2, <1>3, <1>4, <1>5, <1>6, NextWrites

LEMMA NextTracked ==
  ASSUME IOErrors = FALSE
  PROVE  TypeOK /\ PhaseInv /\ TrackedInv /\ [Next]_vars => TrackedInv'
BY StepTracked DEF TypeOK

\* On a store whose writes do not fail, no pending reading is ever without
\* its item: for any number of calls, for the same batch too, and wherever
\* the process closes the store or dies.
THEOREM PendingTracked ==
  ASSUME IOErrors = FALSE
  PROVE  Spec => []NoUntrackedPending
<1>1. Init => TypeOK /\ PhaseInv /\ TrackedInv
  BY InitTypes, InitPhase, InitTracked
<1>2. TypeOK /\ PhaseInv /\ TrackedInv /\ [Next]_vars
        => (TypeOK /\ PhaseInv /\ TrackedInv)'
  BY NextTypes, NextPhase, NextTracked
<1>3. TrackedInv => NoUntrackedPending
  BY DEF TrackedInv
<1>. QED
  BY <1>1, <1>2, <1>3, PTL DEF Spec

-----------------------------------------------------------------------------
(* Exact counts *)

\* Counting one more reading is what Add does to a summary.
LEMMA RecalculateAdd ==
  ASSUME NEW rows, IsFiniteSet(rows), NEW r, r \notin rows
  PROVE  Recalculate(rows \cup {r}) = AddStatus(Recalculate(rows), r.status)
<1>. DEFINE Accepted(R) == {x \in R : x.status = "accepted"}
            Waiting(R) == {x \in R : InReview(x.status)}
<1>. USE DEF InReview
<1>1. /\ IsFiniteSet(Accepted(rows)) /\ Cardinality(Accepted(rows)) \in Nat
      /\ IsFiniteSet(Waiting(rows)) /\ Cardinality(Waiting(rows)) \in Nat
      /\ Cardinality(rows) \in Nat
  BY FS_Subset, FS_CardinalityType
<1>2. Cardinality(rows \cup {r}) = Cardinality(rows) + 1
  BY FS_AddElement
<1>3. Cardinality(Accepted(rows \cup {r}))
        = Cardinality(Accepted(rows)) + (IF r.status = "accepted" THEN 1 ELSE 0)
  <2>1. CASE r.status = "accepted"
    <3>1. Accepted(rows \cup {r}) = Accepted(rows) \cup {r}
      BY <2>1
    <3>. QED
      BY <1>1, <2>1, <3>1, FS_AddElement
  <2>2. CASE r.status # "accepted"
    <3>1. Accepted(rows \cup {r}) = Accepted(rows)
      BY <2>2
    <3>. QED
      BY <1>1, <2>2, <3>1
  <2>. QED
    BY <2>1, <2>2
<1>4. Cardinality(Waiting(rows \cup {r}))
        = Cardinality(Waiting(rows)) + (IF InReview(r.status) THEN 1 ELSE 0)
  <2>1. CASE InReview(r.status)
    <3>1. Waiting(rows \cup {r}) = Waiting(rows) \cup {r}
      BY <2>1
    <3>. QED
      BY <1>1, <2>1, <3>1, FS_AddElement
  <2>2. CASE ~InReview(r.status)
    <3>1. Waiting(rows \cup {r}) = Waiting(rows)
      BY <2>2
    <3>. HIDE DEF Waiting
    <3>. QED
      BY <1>1, <2>2, <3>1
  <2>. QED
    BY <2>1, <2>2
<1>. QED
  BY <1>1, <1>2, <1>3, <1>4 DEF Recalculate, AddStatus

LEMMA RecalculateEmpty == Recalculate({}) = ZeroSummary
<1>1. /\ {r \in {} : InReview(r.status)} = {}
      /\ {r \in {} : r.status = "accepted"} = {}
  OBVIOUS
<1>2. /\ Cardinality({r \in {} : InReview(r.status)}) = 0
      /\ Cardinality({r \in {} : r.status = "accepted"}) = 0
      /\ Cardinality({}) = 0
  BY <1>1, FS_EmptySet
<1>3. (0 > 0) = FALSE
  BY SMT
<1>. QED
  BY <1>2, <1>3, Zenon DEF Recalculate, ZeroSummary

\* Calls that are in flight together have different batch ids, or a shared one.
LEMMA StepExclusive == CallTypeOK /\ Exclusive /\ [Next]_vars => Exclusive'
<1>. SUFFICES ASSUME CallTypeOK, Exclusive, [Next]_vars PROVE Exclusive'
  OBVIOUS
<1>0. phase \in [Calls -> Phases] /\ batchOf \in [Calls -> Batches]
  BY DEF CallTypeOK
<1>1. ASSUME NEW c \in Calls, NEW b \in Batches, NEW S \in SUBSET Sources,
             Start(c, b, S)
      PROVE  Exclusive'
  BY <1>0, <1>1 DEF Start, BatchFree, Exclusive, InFlight
<1>2. ASSUME batchOf' = batchOf, \A c \in Calls : InFlight(c)' => InFlight(c)
      PROVE  Exclusive'
  BY <1>2 DEF Exclusive
<1>3. ASSUME NEW c \in Calls, Refuse(c) \/ JoinEmpty(c) \/ Join(c) \/ List(c)
                              \/ Save(c) \/ RecordBatch(c)
      PROVE  batchOf' = batchOf /\ \A d \in Calls : InFlight(d)' => InFlight(d)
  BY <1>0, <1>3 DEF Refuse, JoinEmpty, Join, List, Save, RecordBatch, InFlight
<1>4. ASSUME NEW c \in Calls,
             \/ \E s \in Sources : FetchFails(c, s) \/ Unlock(c, s)
             \/ \E s \in Sources : \E resp \in Feeds[s] : Fetch(c, s, resp)
             \/ \E r \in todo[c] : Tally(c, r)
             \/ StoreItem(c) \/ StoreReading(c)
      PROVE  batchOf' = batchOf /\ \A d \in Calls : InFlight(d)' => InFlight(d)
  BY <1>4 DEF FetchFails, Unlock, Fetch, Tally, StoreItem, StoreReading, InFlight
<1>5. ASSUME CloseStore \/ Restart \/ UNCHANGED vars
      PROVE  batchOf' = batchOf /\ \A d \in Calls : InFlight(d)' => InFlight(d)
  BY <1>0, <1>5 DEF CloseStore, Restart, vars, callVars, InFlight
<1>. QED
  BY <1>1, <1>2, <1>3, <1>4, <1>5 DEF Next, CallStep, WriteOut, Rest

LEMMA InitCount == Init => Exclusive /\ CountInv
<1>. SUFFICES ASSUME Init PROVE Exclusive /\ CountInv
  OBVIOUS
<1>1. Exclusive /\ NoMaskedFailure
  BY DEF Init, StoreInit, NoBucket, Exclusive, InFlight, NoMaskedFailure
<1>2. \A c \in Calls : CallCount(c)
  BY FS_EmptySet DEF Init, CallCount
<1>. QED
  BY <1>1, <1>2 DEF CountInv

\* Every action keeps the counts exact of the batches that callers use for one
\* call at a time.
LEMMA StepCount ==
  CallTypeOK /\ PhaseInv /\ Exclusive /\ CountInv /\ [Next]_vars => CountInv'
<1>. SUFFICES ASSUME CallTypeOK, PhaseInv, Exclusive, CountInv, [Next]_vars,
                     NEW d \in Calls
              PROVE  NoMaskedFailure' /\ CallCount(d)'
  BY CallsAssumption DEF CountInv
<1>0. /\ CallCount(d) /\ CallPhase(d) /\ NoMaskedFailure
      /\ phase \in [Calls -> Phases]
      /\ batchOf \in [Calls -> Batches]
      /\ worker \in [Calls -> [Sources -> {"fetching", "merging", "done"}]]
      /\ todo \in [Calls -> SUBSET Reading]
      /\ all \in [Calls -> SUBSET Reading]
      /\ errs \in [Calls -> Nat]
      /\ draft \in [Calls -> SavedBatch]
  BY DEF CallTypeOK, PhaseInv, CountInv
<1>. DEFINE Same == UNCHANGED <<batchOf, worker, todo, all, draft>>
            Later == \/ phase'[d] = phase[d] /\ errs'[d] = errs[d]
                     \/ phase'[d] \notin {"collecting", "listing", "saving"}
\* Steps that leave the collected readings and the aggregator alone.
<1>1. ASSUME Same, byBatch' = byBatch, Later PROVE CallCount(d)'
  BY <1>0, <1>1 DEF CallCount, Snapshot
<1>2. ASSUME batches' = batches PROVE NoMaskedFailure'
  BY <1>0, <1>2 DEF NoMaskedFailure
<1>3. ASSUME NEW c \in Calls, Refuse(c) \/ JoinEmpty(c) \/ RecordBatch(c)
      PROVE  NoMaskedFailure' /\ CallCount(d)'
  <2>1. Same /\ byBatch' = byBatch /\ batches' = batches
    BY <1>3 DEF Refuse, JoinEmpty, RecordBatch, Record, RecordLost, PutAudit,
                storeVars
  <2>2. Later
    BY <1>0, <1>3 DEF Refuse, JoinEmpty, RecordBatch
  <2>. QED
    BY <1>1, <1>2, <2>1, <2>2
<1>4. ASSUME NEW c \in Calls, NEW b \in Batches, NEW S \in SUBSET Sources,
             Start(c, b, S)
      PROVE  NoMaskedFailure' /\ CallCount(d)'
  <2>1. NoMaskedFailure'
    BY <1>2, <1>4 DEF Start, storeVars
  <2>2. CASE d = c
    <3>1. all'[d] = {} /\ todo'[d] = {} /\ batchOf'[d] = b
          /\ phase'[d] = "collecting"
      BY <1>0, <1>4, <2>2 DEF Start, CallPhase
    <3>2. Snapshot(batchOf[d])' = ZeroSummary
      BY <1>4, <3>1 DEF Start, Begin, SetSummary, Snapshot
    <3>. QED
      <4>1. IsFiniteSet({}) /\ Recalculate({}) = ZeroSummary
        BY RecalculateEmpty, FS_EmptySet
      <4>. QED
        BY <2>1, <3>1, <3>2, <4>1 DEF CallCount
  <2>3. CASE d # c
    <3>1. phase'[d] = phase[d] /\ batchOf'[d] = batchOf[d]
          /\ UNCHANGED <<todo, all, errs, draft>> /\ worker'[d] = worker[d]
      BY <1>0, <1>4, <2>3 DEF Start
    <3>2. phase[d] = "collecting" /\ batchOf[d] \notin Shared => batchOf[d] # b
      BY <1>4 DEF Start, BatchFree, InFlight
    <3>3. phase[d] = "collecting" /\ batchOf[d] \notin Shared =>
            Snapshot(batchOf[d])' = Snapshot(batchOf[d])
      BY <1>4, <3>1, <3>2 DEF Start, Begin, SetSummary, Snapshot
    <3>4. Recalculate(all[d])' = Recalculate(all[d])
      BY <3>1
    <3>. QED
      BY <1>0, <2>1, <3>1, <3>3, <3>4 DEF CallCount
  <2>. QED
    BY <2>1, <2>2, <2>3
<1>5. ASSUME NEW c \in Calls, NEW s \in Sources, FetchFails(c, s) \/ Unlock(c, s)
      PROVE  NoMaskedFailure' /\ CallCount(d)'
  <2>1. NoMaskedFailure'
    BY <1>2, <1>5 DEF FetchFails, Unlock, storeVars
  <2>2. UNCHANGED <<phase, batchOf, todo, all, draft, byBatch>>
        /\ (d # c => errs'[d] = errs[d])
    BY <1>0, <1>5 DEF FetchFails, Unlock
  <2>3. \A t \in Sources : worker'[d][t] = "fetching" => worker[d][t] = "fetching"
    <3>1. worker' = [worker EXCEPT ![c][s] = "done"]
      BY <1>5 DEF FetchFails, Unlock
    <3>. QED
      BY <1>0, <3>1
  <2>4. phase[c] = "collecting"
    BY <1>5 DEF FetchFails, Unlock
  <2>5. \A r \in todo[d] \cup all[d] : r.src \in Sources
    BY <1>0 DEF Reading
  <2>. QED
    BY <1>0, <2>1, <2>2, <2>3, <2>4, <2>5 DEF CallCount, Snapshot
<1>6. ASSUME NEW c \in Calls, NEW s \in Sources, NEW resp \in Feeds[s],
             Fetch(c, s, resp)
      PROVE  NoMaskedFailure' /\ CallCount(d)'
  <2>1. NoMaskedFailure'
    BY <1>2, <1>6 DEF Fetch, storeVars
  <2>2. UNCHANGED <<phase, batchOf, all, draft, byBatch>> /\ phase[c] = "collecting"
    BY <1>6 DEF Fetch
  <2>3. CASE d # c
    <3>1. worker'[d] = worker[d] /\ todo'[d] = todo[d] /\ errs'[d] = errs[d]
      BY <1>0, <1>6, <2>3 DEF Fetch
    <3>. QED
      BY <1>0, <2>1, <2>2, <3>1 DEF CallCount, Snapshot
  <2>4. CASE d = c
    <3>1. \A r \in todo'[d] : r.src = s
      BY <1>0, <1>6, <2>4 DEF Fetch
    <3>2. \A r \in all[d] : r.src # s
      BY <1>0, <1>6, <2>2, <2>4 DEF Fetch, CallCount
    <3>3. worker'[d] = [worker[d] EXCEPT ![s] = "merging"]
      BY <1>0, <1>6, <2>4 DEF Fetch
    <3>4. \A r \in all[d] : worker'[d][r.src] # "fetching"
      BY <1>0, <2>2, <2>4, <3>3 DEF CallCount, Reading
    <3>. QED
      BY <1>0, <2>1, <2>2, <2>4, <3>1, <3>2, <3>3, <3>4 DEF CallCount, Snapshot
  <2>. QED
    BY <2>3, <2>4
<1>7. ASSUME NEW c \in Calls, NEW r \in todo[c], Tally(c, r)
      PROVE  NoMaskedFailure' /\ CallCount(d)'
  <2>1. NoMaskedFailure'
    BY <1>2, <1>7 DEF Tally, storeVars
  <2>2. UNCHANGED <<phase, batchOf, worker, draft, errs>>
        /\ phase[c] = "collecting"
    BY <1>7 DEF Tally
  <2>3. CASE d # c
    <3>1. todo'[d] = todo[d] /\ all'[d] = all[d]
      BY <1>0, <1>7, <2>3 DEF Tally
    <3>2. phase[d] = "collecting" /\ batchOf[d] \notin Shared
            => batchOf[d] # batchOf[c]
      BY <2>2, <2>3 DEF Exclusive, InFlight
    <3>3. phase[d] = "collecting" /\ batchOf[d] \notin Shared =>
            Snapshot(batchOf[d])' = Snapshot(batchOf[d])
      BY <1>7, <2>2, <3>2 DEF Tally, Add, SetSummary, Snapshot
    <3>. QED
      BY <1>0, <2>1, <2>2, <3>1, <3>3 DEF CallCount, Snapshot
  <2>4. CASE d = c
    <3>1. all'[d] = all[d] \cup {r} /\ todo'[d] = todo[d] \ {r}
      BY <1>0, <1>7, <2>4 DEF Tally
    <3>2. /\ r \notin all[d] /\ IsFiniteSet(all[d])
          /\ batchOf[d] \notin Shared => Snapshot(batchOf[d]) = Recalculate(all[d])
      BY <1>0, <2>2, <2>4 DEF CallCount
    <3>3. batchOf[d] \notin Shared =>
            Snapshot(batchOf[d])' = AddStatus(Recalculate(all[d]), r.status)
      BY <1>7, <2>2, <2>4, <3>2 DEF Tally, Add, SetSummary, Snapshot
    <3>4. /\ IsFiniteSet(all'[d])
          /\ batchOf[d] \notin Shared => Snapshot(batchOf[d])' = Recalculate(all'[d])
      BY <3>1, <3>2, <3>3, RecalculateAdd, FS_AddElement
    <3>. QED
      BY <1>0, <2>1, <2>2, <2>4, <3>1, <3>4 DEF CallCount, Snapshot
  <2>. QED
    BY <2>3, <2>4
<1>8. ASSUME NEW c \in Calls, StoreItem(c) \/ StoreReading(c)
      PROVE  NoMaskedFailure' /\ CallCount(d)'
  <2>1. Same /\ UNCHANGED <<byBatch, phase, batches>> /\ phase[c] = "collecting"
    BY <1>8 DEF StoreItem, StoreReading, PutPending, PutReading, storeVars
  <2>2. d # c => errs'[d] = errs[d]
    BY <1>0, <1>8 DEF StoreItem, StoreReading
  <2>. QED
    BY <1>0, <1>2, <2>1, <2>2 DEF CallCount, Snapshot
<1>9. ASSUME NEW c \in Calls, Join(c) PROVE NoMaskedFailure' /\ CallCount(d)'
  BY <1>0, <1>2, <1>9 DEF Join, storeVars, CallCount, Snapshot
<1>10. ASSUME NEW c \in Calls, List(c) PROVE NoMaskedFailure' /\ CallCount(d)'
  BY <1>0, <1>2, <1>10 DEF List, storeVars, CallCount, Snapshot
<1>11. ASSUME NEW c \in Calls, Save(c) PROVE NoMaskedFailure' /\ CallCount(d)'
  <2>1. Same /\ byBatch' = byBatch /\ Later
    BY <1>0, <1>11 DEF Save
  <2>2. NoMaskedFailure'
    <3>1. CASE UNCHANGED storeVars
      BY <1>2, <3>1 DEF storeVars
    <3>2. CASE batches' = Put(batches, batchOf[c], draft[c])
      <4>0. phase[c] = "saving" /\ CallCount(c)
        BY <1>11 DEF Save, CountInv
      <4>1. batchOf[c] \notin Shared =>
              draft[c].summary = Recalculate(draft[c].readings)
        BY <4>0 DEF CallCount
      <4>. QED
        BY <1>0, <3>2, <4>1 DEF NoMaskedFailure, Put
    <3>. QED
      BY <1>11, <3>1, <3>2 DEF Save, SaveBatch
  <2>. QED
    BY <1>1, <2>1, <2>2
<1>12. ASSUME CloseStore \/ UNCHANGED vars PROVE NoMaskedFailure' /\ CallCount(d)'
  <2>1. Same /\ UNCHANGED <<byBatch, phase, errs, batches>>
    BY <1>12 DEF CloseStore, Close, buckets, vars, callVars, storeVars
  <2>. QED
    BY <1>1, <1>2, <2>1
<1>13. ASSUME Restart PROVE NoMaskedFailure' /\ CallCount(d)'
  <2>1. batches' = batches /\ UNCHANGED all
    BY <1>13 DEF Restart, Open, buckets
  <2>2. phase'[d] \notin {"collecting", "listing", "saving"}
    BY <1>0, <1>13 DEF Restart, InFlight, Phases
  <2>. QED
    BY <1>0, <1>2, <2>1, <2>2 DEF CallCount
<1>. QED
  BY <1>3, <1>4, <1>5, <1>6, <1>7, <1>8, <1>9, <1>10, <1>11, <1>12, <1>13
  DEF Next, CallStep, WriteOut, Rest

\* Every saved batch carries the exact counts of its readings, and masks no
\* failure, if callers use its id for one call at a time, whatever they do with
\* other ids.
THEOREM CountsExact == Spec => []NoMaskedFailure
<1>. DEFINE IInv == TypeOK /\ PhaseInv /\ Exclusive /\ CountInv
<1>1. Init => IInv
  BY InitTypes, InitPhase, InitCount
<1>2. IInv /\ [Next]_vars => IInv'
  BY NextTypes, NextPhase, StepExclusive, StepCount DEF TypeOK
<1>3. IInv => NoMaskedFailure
  BY DEF CountInv
<1>. QED
  BY <1>1, <1>2, <1>3, PTL DEF Spec

-----------------------------------------------------------------------------
(* Refinement *)

\* Every step of ProcessBatch calls is a step of the ledger or changes
\* nothing the ledger shows.
LEMMA NextLedger ==
  TypeOK /\ PhaseInv /\ CountInv /\ [Next]_vars => [Ledger!Next]_(Ledger!ledgerVars)
<1>. SUFFICES ASSUME TypeOK, PhaseInv, CountInv, [Next]_vars
              PROVE  [Ledger!Next]_(Ledger!ledgerVars)
  OBVIOUS
<1>0. /\ phase \in [Calls -> Phases]
      /\ batchOf \in [Calls -> Batches]
      /\ all \in [Calls -> SUBSET Reading]
      /\ errs \in [Calls -> Nat]
  BY DEF TypeOK, CallTypeOK
<1>1. ASSUME UNCHANGED <<Stage, batchOf, all, batches>>
      PROVE  [Ledger!Next]_(Ledger!ledgerVars)
  BY <1>1 DEF Ledger!ledgerVars
<1>2. ASSUME NEW C \in SUBSET Calls, UNCHANGED <<batchOf, all, batches>>,
             Stage' = [c \in Calls |-> IF c \in C THEN "over" ELSE Stage[c]]
      PROVE  [Ledger!Next]_(Ledger!ledgerVars)
  BY <1>2 DEF Ledger!Next, Ledger!GiveUp
<1>3. ASSUME NEW c \in Calls, phase' = [phase EXCEPT ![c] = "failed"],
             UNCHANGED <<storeVars, batchOf, all>>
      PROVE  [Ledger!Next]_(Ledger!ledgerVars)
  <2>1. Stage' = [d \in Calls |-> IF d \in {c} THEN "over" ELSE Stage[d]]
    BY <1>0, <1>3 DEF Stage
  <2>. QED
    BY <1>2, <1>3, <2>1 DEF storeVars
<1>4. ASSUME NEW c \in Calls, Refuse(c) \/ JoinEmpty(c)
      PROVE  [Ledger!Next]_(Ledger!ledgerVars)
  BY <1>3, <1>4 DEF Refuse, JoinEmpty
<1>5. ASSUME NEW c \in Calls, NEW b \in Batches, NEW S \in SUBSET Sources,
             Start(c, b, S)
      PROVE  [Ledger!Next]_(Ledger!ledgerVars)
  <2>1. Stage[c] = "new" /\ Stage' = [Stage EXCEPT ![c] = "open"]
    BY <1>0, <1>5 DEF Start, Stage
  <2>2. Ledger!Open(c, b)
    BY <1>5, <2>1 DEF Start, Ledger!Open, storeVars
  <2>. QED
    BY <2>2 DEF Ledger!Next
<1>6. ASSUME NEW c \in Calls, NEW r \in todo[c], Tally(c, r)
      PROVE  [Ledger!Next]_(Ledger!ledgerVars)
  <2>1. Stage[c] = "open" /\ Stage' = Stage
    BY <1>6 DEF Tally, Stage
  <2>2. Ledger!Gather(c)
    BY <1>0, <1>6, <2>1 DEF Tally, Ledger!Gather, storeVars
  <2>. QED
    BY <2>2 DEF Ledger!Next
<1>7. ASSUME NEW c \in Calls,
             \/ \E s \in Sources : FetchFails(c, s) \/ Unlock(c, s)
             \/ \E s \in Sources : \E resp \in Feeds[s] : Fetch(c, s, resp)
             \/ StoreItem(c) \/ StoreReading(c)
      PROVE  [Ledger!Next]_(Ledger!ledgerVars)
  <2>1. UNCHANGED <<phase, batchOf, all, batches>>
    BY <1>7 DEF FetchFails, Unlock, Fetch, StoreItem, StoreReading, storeVars,
                PutPending, PutReading
  <2>. QED
    BY <1>1, <2>1 DEF Stage
<1>8. ASSUME NEW c \in Calls, Join(c) PROVE [Ledger!Next]_(Ledger!ledgerVars)
  <2>1. Stage' = Stage
    BY <1>0, <1>8 DEF Join, Stage
  <2>. QED
    BY <1>1, <1>8, <2>1 DEF Join, storeVars
<1>9. ASSUME NEW c \in Calls, List(c) PROVE [Ledger!Next]_(Ledger!ledgerVars)
  <2>1. CASE phase' = [phase EXCEPT ![c] = "saving"]
    <3>1. Stage' = Stage
      BY <1>0, <1>9, <2>1 DEF List, Stage
    <3>. QED
      BY <1>1, <1>9, <3>1 DEF List, storeVars
  <2>2. CASE phase' = [phase EXCEPT ![c] = "failed"]
    BY <1>3, <1>9, <2>2 DEF List
  <2>. QED
    BY <1>9, <2>1, <2>2 DEF List
<1>10. ASSUME NEW c \in Calls, Save(c) PROVE [Ledger!Next]_(Ledger!ledgerVars)
  <2>1. CASE phase' = [phase EXCEPT ![c] = "failed"] /\ UNCHANGED storeVars
    BY <1>3, <1>10, <2>1 DEF Save
  <2>2. CASE /\ phase' = [phase EXCEPT ![c] = "recording"]
             /\ batches' = Put(batches, batchOf[c], draft[c])
    <3>1. phase[c] = "saving" /\ CallCount(c) /\ CallPhase(c)
          /\ UNCHANGED <<batchOf, all>>
      BY <1>10 DEF Save, CountInv, PhaseInv
    <3>2. Stage[c] = "open" /\ Stage' = [Stage EXCEPT ![c] = "over"]
      BY <1>0, <2>2, <3>1 DEF Stage
    <3>. DEFINE b == batchOf[c]
                counts == IF b \in Shared THEN batches'[b].summary
                          ELSE Recalculate(all[c])
                entry == [readings |-> all[c], summary |-> counts,
                          errors |-> batches'[b].errors]
    <3>3. /\ all[c] # {}
          /\ draft[c] = [readings |-> all[c], summary |-> draft[c].summary,
                         errors |-> errs[c]]
          /\ b \notin Shared => draft[c].summary = Recalculate(all[c])
      BY <3>1 DEF CallCount, CallPhase
    <3>4. /\ b \in DOMAIN batches'
          /\ batches'[b] = draft[c]
          /\ batches' = [k \in DOMAIN batches \cup {b} |->
                          IF k = b THEN draft[c] ELSE batches[k]]
      BY <2>2 DEF Put
    <3>5. batches'[b].errors = errs[c] /\ errs[c] \in Nat
      BY <1>0, <3>3, <3>4
    <3>6. batches' = [k \in DOMAIN batches \cup {b} |->
                       IF k = b THEN entry ELSE batches[k]]
      <4>0. draft[c].summary = counts
        BY <3>3, <3>4
      <4>1. draft[c] = entry
        BY <3>3, <3>5, <4>0
      <4>. QED
        BY <3>4, <4>1
    <3>7. Ledger!Commit(c)
      BY <3>1, <3>2, <3>3, <3>4, <3>5, <3>6 DEF Ledger!Commit
    <3>. QED
      BY <3>7 DEF Ledger!Next
  <2>. QED
    BY <1>10, <2>1, <2>2 DEF Save, SaveBatch
<1>11. ASSUME NEW c \in Calls, RecordBatch(c)
       PROVE  [Ledger!Next]_(Ledger!ledgerVars)
  <2>1. Stage' = Stage
    BY <1>0, <1>11 DEF RecordBatch, Stage
  <2>. QED
    BY <1>1, <1>11, <2>1
    DEF RecordBatch, Record, RecordLost, PutAudit, storeVars
<1>12. ASSUME CloseStore \/ UNCHANGED vars PROVE [Ledger!Next]_(Ledger!ledgerVars)
  BY <1>1, <1>12
  DEF CloseStore, Close, buckets, vars, callVars, storeVars, Stage
<1>13. ASSUME Restart PROVE [Ledger!Next]_(Ledger!ledgerVars)
  <2>. DEFINE C == {c \in Calls : InFlight(c)}
  <2>1. Stage' = [c \in Calls |-> IF c \in C THEN "over" ELSE Stage[c]]
    BY <1>0, <1>13 DEF Restart, Stage, InFlight
  <2>. QED
    BY <1>2, <1>13, <2>1 DEF Restart, Open, buckets
<1>. QED
  BY <1>4, <1>5, <1>6, <1>7, <1>8, <1>9, <1>10, <1>11, <1>12, <1>13
  DEF Next, CallStep, WriteOut, Rest

\* ProcessBatch implements the ledger: a call enters all it gathered in one
\* step, with exact counts if callers use its batch id for one call at a time,
\* or enters nothing.
THEOREM ImplementsLedger == Spec => LedgerSpec
<1>. DEFINE IInv == TypeOK /\ PhaseInv /\ Exclusive /\ CountInv
<1>1. Init => IInv /\ Ledger!Init
  <2>1. Init => Ledger!Init
    BY InitTypes DEF Init, StoreInit, NoBucket, Stage, Ledger!Init, TypeOK,
                     CallTypeOK
  <2>. QED
    BY <2>1, InitTypes, InitPhase, InitCount
<1>2. IInv /\ [Next]_vars => IInv' /\ [Ledger!Next]_(Ledger!ledgerVars)
  BY NextTypes, NextPhase, StepExclusive, StepCount, NextLedger DEF TypeOK
<1>. QED
  BY <1>1, <1>2, PTL DEF Spec, LedgerSpec, Ledger!Spec

-----------------------------------------------------------------------------
(* Saved batches *)

\* A batch is saved beside the readings it consists of, and no reading is ever
\* deleted.
LEMMA StepStored ==
  CollectInv /\ SavedBatchStored /\ [Next]_vars => SavedBatchStored'
<1>. SUFFICES ASSUME CollectInv, SavedBatchStored, [Next]_vars
              PROVE  SavedBatchStored'
  OBVIOUS
<1>1. CASE NothingWritten
  BY <1>1 DEF NothingWritten, SavedBatchStored
<1>2. ASSUME NEW c \in Calls, ItemWritten(c) \/ ReadingWritten(c)
      PROVE  SavedBatchStored'
  BY <1>2 DEF ItemWritten, PutPending, ReadingWritten, PutReading, Put, SavedBatchStored
<1>3. ASSUME NEW c \in Calls, BatchWritten(c) PROVE SavedBatchStored'
  <2>1. PICK w \in Written(all[c]) : SaveBatch(batchOf[c], draft[c], w, listed[c])
    BY <1>3 DEF BatchWritten
  <2>2. draft[c].readings = all[c]
    BY <1>3 DEF BatchWritten, CollectInv, CallCollected
  <2>3. \A r \in all[c] : r.id \in DOMAIN readings'
    BY <2>1 DEF Written, SaveBatch, PutAll
  <2>4. DOMAIN readings \subseteq DOMAIN readings'
    BY <2>1 DEF SaveBatch, PutAll
  <2>5. \A b \in DOMAIN batches' :
          batches'[b] = draft[c] \/ (b \in DOMAIN batches /\ batches'[b] = batches[b])
    BY <2>1 DEF SaveBatch, Put
  <2>. QED
    BY <2>2, <2>3, <2>4, <2>5 DEF SavedBatchStored
<1>. QED
  BY <1>1, <1>2, <1>3, NextWrites

\* Every reading of a saved batch is in the bucket of readings, whatever
\* writes failed before and however calls for one batch overlap.
THEOREM BatchesStored == Spec => []SavedBatchStored
<1>1. Init => SavedBatchStored
  BY DEF Init, StoreInit, NoBucket, SavedBatchStored
<1>2. TypeOK => CallTypeOK
  BY DEF TypeOK
<1>. QED
  BY <1>1, <1>2, InitTypes, InitPhase, InitCollect, NextTypes, NextPhase,
     StepCollect, StepStored, PTL
  DEF Spec

-----------------------------------------------------------------------------
(* Partial failures *)

\* Adapters deliver readings that JSON can express.
AllStorable ==
  \A s \in Sources : \A resp \in Feeds[s] : \A i \in resp.readings : i.storable

\* What makes PartialFailureSaved inductive: a save can fail only for a
\* reading that cannot be stored, and none is collected.
CallSound(c) ==
  /\ \A r \in todo[c] \cup all[c] : r.storable
  /\ phase[c] = "failed" /\ db = "open" /\ restarts = 0 => all[c] = {}

SoundInv == \A c \in Calls : CallSound(c)

\* If adapters deliver what can be stored and no write fails on an open store,
\* no action makes a call fail that has collected a reading.
LEMMA NextSound ==
  ASSUME AllStorable, IOErrors = FALSE
  PROVE  TypeOK /\ PhaseInv /\ SoundInv /\ [Next]_vars => SoundInv'
<1>. SUFFICES ASSUME TypeOK, PhaseInv, SoundInv, [Next]_vars, NEW d \in Calls
              PROVE  CallSound(d)'
  BY DEF SoundInv
<1>0. /\ CallSound(d) /\ CallPhase(d)
      /\ phase \in [Calls -> Phases]
      /\ all \in [Calls -> SUBSET Reading]
      /\ todo \in [Calls -> SUBSET Reading]
      /\ db \in {"open", "closed"}
      /\ restarts \in Nat
  BY DEF TypeOK, StoreTypeOK, MemoryTypeOK, CallTypeOK, PhaseInv, SoundInv
\* Steps that collect nothing, of calls that do not fail by them.
<1>1. ASSUME UNCHANGED <<all, todo, restarts>>, db' = "open" => db = "open",
             phase'[d] = "failed" /\ db' = "open" => phase[d] = "failed"
      PROVE  CallSound(d)'
  BY <1>0, <1>1 DEF CallSound
<1>2. ASSUME NEW c \in Calls, Refuse(c) \/ JoinEmpty(c) PROVE CallSound(d)'
  <2>1. all[c] = {}
    BY <1>2 DEF Refuse, JoinEmpty, PhaseInv, CallPhase
  <2>. QED
    BY <1>0, <1>2, <2>1 DEF Refuse, JoinEmpty, CallSound, storeVars
<1>3. ASSUME NEW c \in Calls, NEW b \in Batches, NEW S \in SUBSET Sources,
             Start(c, b, S)
      PROVE  CallSound(d)'
  BY <1>0, <1>1, <1>3 DEF Start, storeVars
<1>4. ASSUME NEW c \in Calls, NEW s \in Sources, FetchFails(c, s) \/ Unlock(c, s)
      PROVE  CallSound(d)'
  BY <1>0, <1>1, <1>4 DEF FetchFails, Unlock, storeVars
<1>5. ASSUME NEW c \in Calls, NEW s \in Sources, NEW resp \in Feeds[s],
             Fetch(c, s, resp)
      PROVE  CallSound(d)'
  <2>1. UNCHANGED <<phase, all, restarts, db>> /\ (d # c => todo'[d] = todo[d])
    BY <1>0, <1>5 DEF Fetch, storeVars
  <2>2. d = c => \A r \in todo'[d] : r.storable
    BY <1>0, <1>5 DEF Fetch, AllStorable
  <2>. QED
    BY <1>0, <2>1, <2>2 DEF CallSound
<1>6. ASSUME NEW c \in Calls, NEW r \in todo[c], Tally(c, r)
      PROVE  CallSound(d)'
  BY <1>0, <1>6 DEF Tally, CallSound, storeVars
<1>7. ASSUME NEW c \in Calls, StoreItem(c) \/ StoreReading(c) PROVE CallSound(d)'
  <2>1. UNCHANGED <<phase, all, todo, restarts, db>>
    BY <1>7 DEF StoreItem, StoreReading, PutPending, PutReading, storeVars
  <2>. QED
    BY <1>1, <2>1
<1>8. ASSUME NEW c \in Calls, Join(c) \/ List(c) PROVE CallSound(d)'
  BY <1>0, <1>1, <1>8 DEF Join, List, storeVars
<1>9. ASSUME NEW c \in Calls, Save(c) PROVE CallSound(d)'
  <2>1. \A r \in all[c] : r.storable
    BY DEF SoundInv, CallSound
  <2>2. UNCHANGED <<all, todo, restarts, db>>
        /\ (phase' = [phase EXCEPT ![c] = "failed"] => db = "closed")
        /\ \/ phase' = [phase EXCEPT ![c] = "failed"]
           \/ phase' = [phase EXCEPT ![c] = "recording"]
    BY <1>0, <1>9, <2>1 DEF Save, SaveBatch, WriteFails, storeVars
  <2>. QED
    BY <1>0, <1>1, <2>2
<1>10. ASSUME NEW c \in Calls, RecordBatch(c) PROVE CallSound(d)'
  BY <1>0, <1>1, <1>10
  DEF RecordBatch, Record, RecordLost, PutAudit, WriteFails, storeVars
<1>11. ASSUME CloseStore \/ UNCHANGED vars PROVE CallSound(d)'
  BY <1>0, <1>1, <1>11 DEF CloseStore, Close, buckets, vars, callVars, storeVars
<1>12. ASSUME Restart PROVE CallSound(d)'
  BY <1>0, <1>12 DEF Restart, CallSound
<1>. QED
  BY <1>2, <1>3, <1>4, <1>5, <1>6, <1>7, <1>8, <1>9, <1>10, <1>11, <1>12
  DEF Next, CallStep, WriteOut, Rest

\* A call that collected a reading does not fail while its process keeps the
\* store open, however many adapters and conversions fail, if what adapters
\* deliver can be stored and writes do not fail.
THEOREM PartialFailure ==
  ASSUME AllStorable, IOErrors = FALSE
  PROVE  Spec => []PartialFailureSaved
<1>1. Init => SoundInv
  BY DEF Init, SoundInv, CallSound
<1>2. SoundInv => PartialFailureSaved
  BY DEF SoundInv, CallSound, PartialFailureSaved
<1>. QED
  BY <1>1, <1>2, InitTypes, InitPhase, NextTypes, NextPhase, NextSound, PTL
  DEF Spec

-----------------------------------------------------------------------------
(* The audit log *)

Entries(b) ==
  {k \in DOMAIN audits : audits[k].action = "batch_received" /\ audits[k].subject = b}
Succeeded(b) == {c \in Calls : phase[c] = "ok" /\ batchOf[c] = b}

\* What makes AuditOfOneProcess inductive: the keys of a process are used up
\* to its sequence, so that the next entry replaces none.
LogInv ==
  restarts = 0 =>
    /\ IsFiniteSet(DOMAIN audits)
    /\ \A k \in DOMAIN audits : k <= sequence
    /\ \A b \in Batches :
         /\ IsFiniteSet(Succeeded(b))
         /\ Cardinality(Entries(b)) = Cardinality(Succeeded(b))

\* Every action of the first process adds an entry just if it ends a call with
\* success.
LEMMA StepLog ==
  MemoryTypeOK /\ CallTypeOK /\ DOMAIN audits \subseteq Nat /\ LogInv /\ [Next]_vars
    => LogInv'
<1>. SUFFICES ASSUME MemoryTypeOK, CallTypeOK, DOMAIN audits \subseteq Nat, LogInv,
                     [Next]_vars, restarts' = 0
              PROVE  LogInv'
  BY DEF LogInv
<1>1. ~Restart
  BY DEF Restart, MemoryTypeOK
<1>2. restarts = 0
  <2>1. ASSUME NEW c \in Calls,
               \/ Refuse(c)
               \/ \E b \in Batches, S \in SUBSET Sources : Start(c, b, S)
               \/ \E s \in Sources : FetchFails(c, s) \/ Unlock(c, s)
               \/ \E s \in Sources : \E resp \in Feeds[s] : Fetch(c, s, resp)
        PROVE  restarts' = restarts
    BY <2>1 DEF Refuse, Start, FetchFails, Unlock, Fetch
  <2>2. ASSUME NEW c \in Calls,
               \/ \E r \in todo[c] : Tally(c, r)
               \/ StoreItem(c) \/ StoreReading(c) \/ JoinEmpty(c) \/ Join(c)
               \/ List(c) \/ Save(c) \/ RecordBatch(c)
        PROVE  restarts' = restarts
    BY <2>2
    DEF Tally, StoreItem, StoreReading, JoinEmpty, Join, List, Save, RecordBatch
  <2>3. CloseStore \/ UNCHANGED vars => restarts' = restarts
    BY DEF CloseStore, vars
  <2>. QED
    BY <1>1, <2>1, <2>2, <2>3 DEF Next, CallStep, WriteOut, Rest
<1>0. /\ phase \in [Calls -> Phases]
      /\ batchOf \in [Calls -> Batches]
      /\ sequence \in Nat /\ DOMAIN audits \subseteq Nat
      /\ IsFiniteSet(DOMAIN audits)
      /\ \A k \in DOMAIN audits : k <= sequence
      /\ \A b \in Batches :
           /\ IsFiniteSet(Succeeded(b))
           /\ Cardinality(Entries(b)) = Cardinality(Succeeded(b))
  BY <1>2 DEF MemoryTypeOK, CallTypeOK, LogInv
\* Steps that end no call with success and record nothing.
<1>3. ASSUME audits' = audits, sequence' \in Nat, sequence <= sequence',
             \A b \in Batches : Succeeded(b)' = Succeeded(b)
      PROVE  LogInv'
  <2>1. \A b \in Batches : Entries(b)' = Entries(b)
    BY <1>3 DEF Entries
  <2>2. \A k \in DOMAIN audits' : k <= sequence'
    BY <1>0, <1>3
  <2>3. IsFiniteSet(DOMAIN audits')
    BY <1>0, <1>3
  <2>4. ASSUME NEW b \in Batches
        PROVE  /\ IsFiniteSet(Succeeded(b)')
               /\ Cardinality(Entries(b)') = Cardinality(Succeeded(b)')
    BY <1>0, <1>3, <2>1
  <2>. QED
    BY <2>2, <2>3, <2>4 DEF LogInv
<1>4. ASSUME NEW c \in Calls, phase[c] # "ok",
             NEW p \in Phases \ {"ok"}, phase' = [phase EXCEPT ![c] = p],
             \A d \in Calls : d # c => batchOf'[d] = batchOf[d]
      PROVE  \A b \in Batches : Succeeded(b)' = Succeeded(b)
  BY <1>0, <1>4 DEF Succeeded
<1>5. ASSUME NEW c \in Calls, Refuse(c) \/ JoinEmpty(c) \/ Join(c) \/ List(c) \/ Save(c)
      PROVE  LogInv'
  <2>1. PICK p \in Phases \ {"ok"} : phase' = [phase EXCEPT ![c] = p]
    BY <1>5 DEF Refuse, JoinEmpty, Join, List, Save, Phases
  <2>2. UNCHANGED <<audits, sequence, batchOf>> /\ phase[c] # "ok"
    BY <1>5 DEF Refuse, JoinEmpty, Join, List, Save, SaveBatch, storeVars
  <2>3. \A b \in Batches : Succeeded(b)' = Succeeded(b)
    BY <1>4, <2>1, <2>2
  <2>. QED
    BY <1>0, <1>3, <2>2, <2>3
<1>6. ASSUME NEW c \in Calls, NEW b \in Batches, NEW S \in SUBSET Sources,
             Start(c, b, S)
      PROVE  LogInv'
  <2>1. UNCHANGED <<audits, sequence>> /\ "collecting" \in Phases \ {"ok"}
    BY <1>6 DEF Start, Phases, storeVars
  <2>2. /\ phase[c] # "ok" /\ phase' = [phase EXCEPT ![c] = "collecting"]
        /\ \A d \in Calls : d # c => batchOf'[d] = batchOf[d]
    BY <1>0, <1>6 DEF Start
  <2>3. \A a \in Batches : Succeeded(a)' = Succeeded(a)
    BY <1>4, <2>1, <2>2
  <2>. QED
    BY <1>0, <1>3, <2>1, <2>3
<1>7. ASSUME NEW c \in Calls,
             \/ \E s \in Sources : FetchFails(c, s) \/ Unlock(c, s)
             \/ \E s \in Sources : \E resp \in Feeds[s] : Fetch(c, s, resp)
             \/ \E r \in todo[c] : Tally(c, r)
             \/ StoreItem(c) \/ StoreReading(c)
      PROVE  LogInv'
  <2>1. UNCHANGED <<audits, sequence, phase, batchOf>>
    BY <1>7 DEF FetchFails, Unlock, Fetch, Tally, StoreItem, StoreReading,
                PutPending, PutReading, storeVars
  <2>. QED
    BY <1>0, <1>3, <2>1 DEF Succeeded
<1>8. ASSUME NEW c \in Calls, RecordBatch(c) PROVE LogInv'
  <2>0. phase[c] = "recording" /\ batchOf' = batchOf /\ sequence' = sequence + 1
    BY <1>8 DEF RecordBatch, Record, RecordLost
  <2>1. CASE RecordLost /\ phase' = [phase EXCEPT ![c] = "failed"]
    <3>1. audits' = audits /\ "failed" \in Phases \ {"ok"}
      BY <2>1 DEF RecordLost, storeVars, Phases
    <3>2. \A b \in Batches : Succeeded(b)' = Succeeded(b)
      BY <1>4, <2>0, <2>1, <3>1
    <3>. QED
      BY <1>0, <1>3, <2>0, <3>1, <3>2
  <2>. DEFINE new == sequence + 1
              subject == batchOf[c]
              entry == [action |-> "batch_received", subject |-> subject]
  <2>2. CASE audits' = Put(audits, new, entry) /\ phase' = [phase EXCEPT ![c] = "ok"]
    <3>1. /\ DOMAIN audits' = DOMAIN audits \cup {new} /\ new \notin DOMAIN audits
          /\ audits'[new].subject = subject
          /\ audits'[new].action = "batch_received"
          /\ \A k \in DOMAIN audits : audits'[k] = audits[k]
      BY <1>0, <2>2 DEF Put
    <3>2. IsFiniteSet(DOMAIN audits') /\ \A k \in DOMAIN audits' : k <= sequence'
      <4>1. IsFiniteSet(DOMAIN audits')
        BY <1>0, <3>1, FS_AddElement
      <4>. QED
        BY <1>0, <2>0, <3>1, <4>1
    <3>3. ASSUME NEW b \in Batches
          PROVE  /\ IsFiniteSet(Succeeded(b)')
                 /\ Cardinality(Entries(b)') = Cardinality(Succeeded(b)')
      <4>1. CASE b = subject
        <5>1. Entries(b)' = Entries(b) \cup {new} /\ new \notin Entries(b)
          BY <3>1, <4>1 DEF Entries
        <5>2. Succeeded(b)' = Succeeded(b) \cup {c} /\ c \notin Succeeded(b)
          BY <1>0, <2>0, <2>2, <4>1 DEF Succeeded
        <5>3. IsFiniteSet(Entries(b))
          BY <1>0, FS_Subset DEF Entries
        <5>4. Cardinality(Entries(b)') = Cardinality(Entries(b)) + 1
          BY <5>1, <5>3, FS_AddElement
        <5>5. /\ IsFiniteSet(Succeeded(b)')
              /\ Cardinality(Succeeded(b)') = Cardinality(Succeeded(b)) + 1
          BY <1>0, <5>2, FS_AddElement
        <5>. QED
          BY <1>0, <5>4, <5>5
      <4>2. CASE b # subject
        <5>1. Entries(b)' = Entries(b)
          BY <3>1, <4>2 DEF Entries
        <5>2. Succeeded(b)' = Succeeded(b)
          BY <1>0, <2>0, <2>2, <4>2 DEF Succeeded
        <5>. QED
          BY <1>0, <5>1, <5>2
      <4>. QED
        BY <4>1, <4>2
    <3>. QED
      BY <3>2, <3>3 DEF LogInv
  <2>. QED
    BY <1>8, <2>1, <2>2 DEF RecordBatch, Record, PutAudit
<1>9. ASSUME CloseStore \/ UNCHANGED vars PROVE LogInv'
  <2>1. UNCHANGED <<audits, sequence, phase, batchOf>>
    BY <1>9 DEF CloseStore, Close, buckets, vars, callVars, storeVars
  <2>. QED
    BY <1>0, <1>3, <2>1 DEF Succeeded
<1>. QED
  BY <1>1, <1>5, <1>6, <1>7, <1>8, <1>9 DEF Next, CallStep, WriteOut, Rest

\* As long as the log is that of one process, it has exactly one entry for
\* each call that succeeded, also if calls for one batch overlap and writes
\* fail.
THEOREM AuditedOnce == Spec => []AuditOfOneProcess
<1>1. Init => LogInv
  <2>. SUFFICES ASSUME Init PROVE LogInv
    OBVIOUS
  <2>1. DOMAIN audits = {}
    BY DEF Init, StoreInit, NoBucket
  <2>2. \A b : Entries(b) = {} /\ Succeeded(b) = {}
    BY <2>1 DEF Init, Entries, Succeeded
  <2>. QED
    BY <2>1, <2>2, FS_EmptySet DEF LogInv
<1>2. TypeOK /\ LogInv => AuditOfOneProcess
  <2>. SUFFICES ASSUME TypeOK, LogInv, restarts = 0, NEW b \in Batches
                PROVE  Cardinality({k \in DOMAIN audits : audits[k].subject = b})
                         = Cardinality({c \in Calls : phase[c] = "ok" /\ batchOf[c] = b})
    BY DEF AuditOfOneProcess, AuditPerBatch
  <2>1. \A k \in DOMAIN audits : audits[k].action = "batch_received"
    BY DEF TypeOK, StoreTypeOK, AuditEntry
  <2>2. Entries(b) = {k \in DOMAIN audits : audits[k].subject = b}
    BY <2>1 DEF Entries
  <2>. QED
    BY <2>2 DEF LogInv, Succeeded
<1>3. TypeOK => MemoryTypeOK /\ CallTypeOK /\ DOMAIN audits \subseteq Nat
  BY DEF TypeOK, StoreTypeOK
<1>. QED
  BY <1>1, <1>2, <1>3, InitTypes, NextTypes, StepLog, PTL DEF Spec
=============================================================================
