--------------------------- MODULE PlatformProofs ---------------------------
(* Proofs about module Platform, for any number of calls, administrators,     *)
(* operators, batches and restarts: what the parts of the service keep of     *)
(* each other's promises although they share the store.                       *)
EXTENDS Platform, IngestProofs, SumsProofs

-----------------------------------------------------------------------------
(* The parts and the store they share *)

\* Retry's writes are those of the store of ProcessBatch.
LEMMA SharedStore ==
  /\ UNCHANGED R!storeVars <=> UNCHANGED storeVars
  /\ \A storable : /\ R!WriteCommits(storable) <=> WriteCommits(storable)
                   /\ R!WriteFails(storable) <=> WriteFails(storable)
  /\ \A id, status : R!PutReading(id, status) <=> PutReading(id, status)
  /\ \A id, item : R!PutPending(id, item) <=> PutPending(id, item)
  /\ \A entry : R!Record(entry) <=> Record(entry)
  /\ R!RecordLost <=> RecordLost
BY DEF R!storeVars, storeVars, R!WriteCommits, WriteCommits, R!WriteFails,
       WriteFails, R!PutReading, PutReading, R!PutPending, PutPending, R!Record,
       Record, R!RecordLost, RecordLost, R!PutAudit, PutAudit, R!Put, Put

\* What a step of a call of Retry does: copy an item, ...
Loads(a) ==
  \E id \in ReadingIds \cap DOMAIN pending :
    /\ Mixed \/ ~Received(id[1])
    /\ call[a].at = "idle" /\ pending[id].attempts < RetryLimit
    /\ ~(id \notin Overlap /\ R!InRetry(id))
    /\ call'[a] = R!Loaded(id, pending[id])
    /\ UNCHANGED <<storeVars, sequence>>

\* ... fetch, in vain or not, ...
GivesUp(a) ==
  call[a].at = "fetching" /\ call'[a] = R!NoCall /\ UNCHANGED <<storeVars, sequence>>

Fetches(a) ==
  /\ call[a].at = "fetching"
  /\ \E offer \in Offers[call[a].target] :
       call'[a] = [at     |-> R!AfterFetch(offer.status),
                   target |-> call[a].target,
                   copy   |-> R!Attempted(call[a].copy, offer.status),
                   got    |-> offer]
  /\ UNCHANGED <<storeVars, sequence>>

\* ... write the reading, the item and the audit entry.
Stores(a) ==
  /\ call[a].at = "storing"
  /\ call'[a] = [call[a] EXCEPT !.at = "updating"]
  /\ \/ /\ WriteCommits(call[a].got.storable)
        /\ PutReading(call[a].got.id, call[a].got.status)
     \/ WriteFails(call[a].got.storable) /\ UNCHANGED storeVars
  /\ UNCHANGED sequence

Updates(a) ==
  /\ call[a].at = "updating"
  /\ \/ /\ WriteCommits(TRUE)
        /\ PutPending(call[a].target, call[a].copy)
        /\ call'[a] = [call[a] EXCEPT !.at = "recording"]
     \/ WriteFails(TRUE) /\ UNCHANGED storeVars /\ call'[a] = R!NoCall
  /\ UNCHANGED sequence

Records(a) ==
  /\ call[a].at = "recording"
  /\ call'[a] = R!NoCall
  /\ \/ Record([action |-> "pending_retry", subject |-> call[a].target,
                detail |-> call[a].copy.status])
     \/ RecordLost

RetryMove(a) ==
  Loads(a) \/ GivesUp(a) \/ Fetches(a) \/ Stores(a) \/ Updates(a) \/ Records(a)

LEMMA RetryMoves ==
  ASSUME R!CallTypeOK, NEW a \in Admins, Administer(a)
  PROVE  /\ call' = [call EXCEPT ![a] = call'[a]]
         /\ UNCHANGED <<byBatch, callVars, desk, restarts, batches, db>>
         /\ RetryMove(a)
<1>0. call \in [Admins -> R!Call]
  BY DEF R!CallTypeOK
<1>1. ASSUME NEW id \in ReadingIds, R!Load(a, id), Mixed \/ ~Received(id[1])
      PROVE  /\ call' = [call EXCEPT ![a] = R!Loaded(id, pending[id])]
             /\ id \in DOMAIN pending /\ pending[id].attempts < RetryLimit
             /\ call[a].at = "idle" /\ ~(id \notin Overlap /\ R!InRetry(id))
             /\ UNCHANGED <<storeVars, sequence, restarts>>
  BY <1>1, SharedStore DEF R!Load, R!BelowLimit, R!ItemFree
<1>2. ASSUME R!NothingFetched(a)
      PROVE  /\ call' = [call EXCEPT ![a] = R!NoCall] /\ call[a].at = "fetching"
             /\ UNCHANGED <<storeVars, sequence, restarts>>
  BY <1>2, SharedStore DEF R!NothingFetched, R!Return
<1>3. ASSUME NEW offer \in Offers[call[a].target], R!Fetched(a, offer)
      PROVE  /\ call[a].at = "fetching"
             /\ call' = [call EXCEPT ![a] =
                          [at     |-> R!AfterFetch(offer.status),
                           target |-> call[a].target,
                           copy   |-> R!Attempted(call[a].copy, offer.status),
                           got    |-> offer]]
             /\ UNCHANGED <<storeVars, sequence, restarts>>
  BY <1>3, SharedStore DEF R!Fetched
<1>4. ASSUME R!StoreAccepted(a)
      PROVE  /\ call[a].at = "storing"
             /\ call' = [call EXCEPT ![a] = [call[a] EXCEPT !.at = "updating"]]
             /\ \/ /\ WriteCommits(call[a].got.storable)
                   /\ PutReading(call[a].got.id, call[a].got.status)
                \/ WriteFails(call[a].got.storable) /\ UNCHANGED storeVars
             /\ UNCHANGED <<sequence, restarts>>
  BY <1>4, SharedStore DEF R!StoreAccepted, R!Goto
<1>5. ASSUME R!Update(a)
      PROVE  /\ call[a].at = "updating"
             /\ \/ /\ WriteCommits(TRUE)
                   /\ PutPending(call[a].target, call[a].copy)
                   /\ call' = [call EXCEPT ![a] = [call[a] EXCEPT !.at = "recording"]]
                \/ /\ WriteFails(TRUE) /\ UNCHANGED storeVars
                   /\ call' = [call EXCEPT ![a] = R!NoCall]
             /\ UNCHANGED <<sequence, restarts>>
  BY <1>5, SharedStore DEF R!Update, R!Goto, R!Return
<1>6. ASSUME R!RecordRetry(a)
      PROVE  /\ call[a].at = "recording"
             /\ call' = [call EXCEPT ![a] = R!NoCall]
             /\ \/ Record([action |-> "pending_retry", subject |-> call[a].target,
                           detail |-> call[a].copy.status])
                \/ RecordLost
             /\ UNCHANGED restarts
  BY <1>6, SharedStore DEF R!RecordRetry, R!Return
<1>7. \/ \E id \in ReadingIds : (Mixed \/ ~Received(id[1])) /\ R!Load(a, id)
      \/ R!NothingFetched(a)
      \/ \E offer \in Offers[call[a].target] : R!Fetched(a, offer)
      \/ R!StoreAccepted(a) \/ R!Update(a) \/ R!RecordRetry(a)
  BY DEF Administer, R!RetryStep
<1>8. UNCHANGED <<byBatch, callVars, desk>>
  BY DEF Administer
<1>9. UNCHANGED <<batches, db, restarts>>
  BY <1>1, <1>2, <1>3, <1>4, <1>5, <1>6, <1>7
  DEF PutReading, PutPending, Record, RecordLost, PutAudit, storeVars
<1>10. \A new : call' = [call EXCEPT ![a] = new] => call'[a] = new
  BY <1>0
<1>11. RetryMove(a)
  BY <1>1, <1>2, <1>3, <1>4, <1>5, <1>6, <1>7, <1>10
  DEF RetryMove, Loads, GivesUp, Fetches, Stores, Updates, Records
<1>. QED
  BY <1>1, <1>2, <1>3, <1>4, <1>5, <1>6, <1>7, <1>8, <1>9, <1>10, <1>11

\* The locals of an operator's call: every field is there.
WellFormed(work) ==
  work \in [at : {work.at}, rows : {work.rows}, subject : {work.subject},
            copy : {work.copy}, doomed : {work.doomed}, answer : {work.answer}]

DeskForm == DOMAIN desk = Operators /\ \A o \in Operators : WellFormed(desk[o])

\* An operator who rests has nothing on the desk but the last answer.
LEMMA Resting ==
  ASSUME NEW answer
  PROVE  /\ WellFormed(AtRest(answer))
         /\ AtRest(answer).at = "idle" /\ AtRest(answer).answer = answer
         /\ DOMAIN AtRest(answer).rows = {} /\ AtRest(answer).doomed = {}
         /\ AtRest(answer).subject = <<>>
BY DEF AtRest, WellFormed, Empty

\* The locals an operation begins with.
LEMMA Begun ==
  ASSUME NEW x, NEW y, NEW z
  PROVE  /\ [AtRest(NoAnswer) EXCEPT !.at = x, !.rows = y] \in
              [at : {x}, rows : {y}, subject : {<<>>}, copy : {Empty},
               doomed : {{}}, answer : {NoAnswer}]
         /\ [AtRest(NoAnswer) EXCEPT !.at = x, !.subject = y, !.copy = z] \in
              [at : {x}, rows : {Empty}, subject : {y}, copy : {z},
               doomed : {{}}, answer : {NoAnswer}]
         /\ [AtRest(NoAnswer) EXCEPT !.at = x, !.doomed = y] \in
              [at : {x}, rows : {Empty}, subject : {<<>>}, copy : {Empty},
               doomed : {y}, answer : {NoAnswer}]
<1>. DEFINE rest == AtRest(NoAnswer)
<1>1. rest \in [at : {"idle"}, rows : {Empty}, subject : {<<>>}, copy : {Empty},
                doomed : {{}}, answer : {NoAnswer}]
  BY DEF AtRest
<1>. HIDE DEF rest
<1>2. [rest EXCEPT !.at = x, !.rows = y] \in
        [at : {x}, rows : {y}, subject : {<<>>}, copy : {Empty},
         doomed : {{}}, answer : {NoAnswer}]
  BY <1>1
<1>3. [rest EXCEPT !.at = x, !.subject = y, !.copy = z] \in
        [at : {x}, rows : {Empty}, subject : {y}, copy : {z},
         doomed : {{}}, answer : {NoAnswer}]
  BY <1>1
<1>4. [rest EXCEPT !.at = x, !.doomed = y] \in
        [at : {x}, rows : {Empty}, subject : {<<>>}, copy : {Empty},
         doomed : {y}, answer : {NoAnswer}]
  BY <1>1
<1>. QED
  BY <1>2, <1>3, <1>4 DEF rest

\* What an operator's step does: begin a call with a read, ...
Opened(o) ==
  /\ desk[o].at = "idle" /\ db = "open" /\ UNCHANGED storeVars
  /\ \/ desk'[o] = [AtRest(NoAnswer) EXCEPT !.at = "viewing", !.rows = readings]
     \/ \E b \in DOMAIN batches, purpose \in {"snapshotting", "reconciling"} :
          /\ purpose = "reconciling" => Mixed \/ ~Received(b)
          /\ desk'[o] = [AtRest(NoAnswer) EXCEPT
                           !.at = purpose, !.subject = b, !.copy = batches[b]]
     \/ Maintained /\ \E id \in DOMAIN pending :
          desk'[o] = [AtRest(NoAnswer) EXCEPT
                        !.at = "updating", !.subject = id, !.copy = pending[id]]
     \/ Maintained /\ \E old \in SUBSET ReadingIds :
          desk'[o] = [AtRest(NoAnswer) EXCEPT !.at = "purging", !.doomed = old]

\* ... end it with a second one, ...
Viewed(o) ==
  /\ desk[o].at = "viewing" /\ UNCHANGED storeVars
  /\ \/ /\ db = "open"
        /\ desk'[o] = AtRest(DashboardOf(desk[o].rows, ListPending("pending")))
     \/ db = "closed" /\ desk'[o] = AtRest(NoAnswer)

Snapped(o) ==
  /\ desk[o].at = "snapshotting" /\ UNCHANGED storeVars
  /\ \/ desk'[o] =
          AtRest([kind |-> "snapshot", batch |-> desk[o].copy,
                  items |-> {id \in DOMAIN pending : id[1] = desk[o].subject}])
     \/ desk'[o] = AtRest(NoAnswer)

\* ... or with a write, ...
Rewritten(o) ==
  /\ desk[o].at = "reconciling" /\ desk'[o] = AtRest(NoAnswer)
  /\ \/ PutBatch(desk[o].subject, Reconciled(desk[o].copy))
     \/ WriteFails(TRUE) /\ UNCHANGED storeVars

Updated(o) ==
  /\ Maintained
  /\ desk[o].at = "updating" /\ desk'[o] = AtRest(NoAnswer)
  /\ \/ \E status \in Status :
          PutPending(desk[o].subject, [desk[o].copy EXCEPT !.status = status])
     \/ WriteFails(TRUE) /\ UNCHANGED storeVars

\* ... or delete an item, in a call of its own or in a purge.
Deleted(o) ==
  /\ Maintained
  /\ desk'[o] = desk[o]
  /\ \E id \in ReadingIds : DeletePending(id)

Purged(o) ==
  /\ Maintained
  /\ desk[o].at = "purging"
  /\ \/ /\ \E id \in ReadingIds : DeletePending(id)
        /\ \/ desk'[o] = AtRest(NoAnswer)
           \/ \E id \in ReadingIds :
                desk'[o] = [desk[o] EXCEPT !.doomed = @ \ {id}]
     \/ WriteFails(TRUE) /\ UNCHANGED storeVars /\ desk'[o] = AtRest(NoAnswer)

DeskMove(o) ==
  \/ Opened(o) \/ Viewed(o) \/ Snapped(o) \/ Rewritten(o) \/ Updated(o)
  \/ Deleted(o) \/ Purged(o)

LEMMA DeskMoves ==
  ASSUME DeskForm, NEW o \in Operators, Operate(o)
  PROVE  /\ DeskForm'
         /\ \A p \in Operators : p # o => desk'[p] = desk[p]
         /\ UNCHANGED <<byBatch, sequence, callVars, restarts, call, db, audits>>
         /\ DeskMove(o)
<1>0. ASSUME NEW work, Assign(o, work), WellFormed(work)
      PROVE  /\ DeskForm' /\ desk'[o] = work
             /\ \A p \in Operators : p # o => desk'[p] = desk[p]
  BY <1>0 DEF DeskForm, Assign
<1>. DEFINE Kept == \A p \in Operators : p # o => desk'[p] = desk[p]
            Blank == AtRest(NoAnswer)
<1>1. ASSUME NEW answer, Assign(o, AtRest(answer))
      PROVE  DeskForm' /\ Kept /\ desk'[o] = AtRest(answer)
  BY <1>0, <1>1, Resting
<1>2. ASSUME NEW x, NEW y, NEW z
      PROVE  /\ WellFormed([Blank EXCEPT !.at = x, !.rows = y])
             /\ WellFormed([Blank EXCEPT !.at = x, !.subject = y, !.copy = z])
             /\ WellFormed([Blank EXCEPT !.at = x, !.doomed = y])
  <2>. DEFINE w1 == [Blank EXCEPT !.at = x, !.rows = y]
              w2 == [Blank EXCEPT !.at = x, !.subject = y, !.copy = z]
              w3 == [Blank EXCEPT !.at = x, !.doomed = y]
  <2>1. /\ w1 \in [at : {x}, rows : {y}, subject : {<<>>}, copy : {Empty},
                   doomed : {{}}, answer : {NoAnswer}]
        /\ w2 \in [at : {x}, rows : {Empty}, subject : {y}, copy : {z},
                   doomed : {{}}, answer : {NoAnswer}]
        /\ w3 \in [at : {x}, rows : {Empty}, subject : {<<>>}, copy : {Empty},
                   doomed : {y}, answer : {NoAnswer}]
    BY Begun
  <2>. HIDE DEF w1, w2, w3
  <2>2. WellFormed(w1) /\ WellFormed(w2) /\ WellFormed(w3)
    BY <2>1 DEF WellFormed
  <2>. QED
    BY <2>2 DEF w1, w2, w3
<1>3. ASSUME NEW d PROVE WellFormed([desk[o] EXCEPT !.doomed = @ \ {d}])
  <2>1. \A w : WellFormed(w) => WellFormed([w EXCEPT !.doomed = @ \ {d}])
    BY DEF WellFormed
  <2>. QED
    BY <2>1 DEF DeskForm
<1>. HIDE DEF Blank, Kept
<1>4. ASSUME ViewReadings(o)
      PROVE  /\ DeskForm' /\ Kept /\ desk[o].at = "idle" /\ db = "open"
             /\ UNCHANGED storeVars
             /\ desk'[o] = [Blank EXCEPT !.at = "viewing", !.rows = readings]
  BY <1>0, <1>2, <1>4 DEF ViewReadings, Read, Blank, Kept
<1>5. ASSUME ViewPending(o)
      PROVE  /\ DeskForm' /\ Kept /\ desk[o].at = "viewing" /\ UNCHANGED storeVars
             /\ \/ /\ db = "open"
                   /\ desk'[o] =
                        AtRest(DashboardOf(desk[o].rows, ListPending("pending")))
                \/ db = "closed" /\ desk'[o] = AtRest(NoAnswer)
  BY <1>1, <1>5 DEF ViewPending, Answer, Leave, Kept
<1>6. ASSUME SnapshotItems(o)
      PROVE  /\ DeskForm' /\ Kept /\ desk[o].at = "snapshotting" /\ UNCHANGED storeVars
             /\ \/ desk'[o] =
                     AtRest([kind |-> "snapshot", batch |-> desk[o].copy,
                             items |-> {id \in DOMAIN pending :
                                          id[1] = desk[o].subject}])
                \/ desk'[o] = AtRest(NoAnswer)
  BY <1>1, <1>6 DEF SnapshotItems, Answer, Leave, Kept
<1>7. ASSUME NEW b, NEW purpose, LoadBatch(o, b, purpose)
      PROVE  /\ DeskForm' /\ Kept /\ desk[o].at = "idle" /\ db = "open"
             /\ UNCHANGED storeVars /\ b \in DOMAIN batches
             /\ desk'[o] = [Blank EXCEPT !.at = purpose, !.subject = b,
                                         !.copy = batches[b]]
  <2>. DEFINE work == [Blank EXCEPT !.at = purpose, !.subject = b,
                                    !.copy = batches[b]]
  <2>1. WellFormed(work)
    BY <1>2
  <2>2. Assign(o, work) /\ desk[o].at = "idle" /\ db = "open" /\ UNCHANGED storeVars
    BY <1>7 DEF LoadBatch, Read, Blank
  <2>. HIDE DEF work
  <2>3. DeskForm' /\ Kept /\ desk'[o] = work
    BY <1>0, <2>1, <2>2 DEF Kept, DeskMove, Deleted
  <2>. QED
    BY <1>7, <2>2, <2>3 DEF LoadBatch, work
<1>8. ASSUME StoreBatch(o)
      PROVE  /\ DeskForm' /\ Kept /\ desk[o].at = "reconciling"
             /\ desk'[o] = AtRest(NoAnswer)
             /\ \/ PutBatch(desk[o].subject, Reconciled(desk[o].copy))
                \/ WriteFails(TRUE) /\ UNCHANGED storeVars
  BY <1>1, <1>8 DEF StoreBatch, Leave, Kept
<1>9. ASSUME NEW id, LoadItem(o, id)
      PROVE  /\ DeskForm' /\ Kept /\ desk[o].at = "idle" /\ db = "open"
             /\ UNCHANGED storeVars /\ id \in DOMAIN pending
             /\ desk'[o] = [Blank EXCEPT !.at = "updating", !.subject = id,
                                         !.copy = pending[id]]
  <2>. DEFINE work == [Blank EXCEPT !.at = "updating", !.subject = id,
                                    !.copy = pending[id]]
  <2>1. WellFormed(work)
    BY <1>2
  <2>2. Assign(o, work) /\ desk[o].at = "idle" /\ db = "open" /\ UNCHANGED storeVars
    BY <1>9 DEF LoadItem, Read, Blank
  <2>. HIDE DEF work
  <2>3. DeskForm' /\ Kept /\ desk'[o] = work
    BY <1>0, <2>1, <2>2 DEF Kept, DeskMove, Deleted
  <2>. QED
    BY <1>9, <2>2, <2>3 DEF LoadItem, work
<1>10. ASSUME NEW status, StoreStatus(o, status)
       PROVE  /\ DeskForm' /\ Kept /\ desk[o].at = "updating"
              /\ desk'[o] = AtRest(NoAnswer)
              /\ \/ PutPending(desk[o].subject,
                               [desk[o].copy EXCEPT !.status = status])
                 \/ WriteFails(TRUE) /\ UNCHANGED storeVars
  BY <1>1, <1>10 DEF StoreStatus, Leave, Kept
<1>11. ASSUME NEW id, DeleteItem(o, id)
       PROVE  DeskForm' /\ Kept /\ desk'[o] = desk[o] /\ DeletePending(id)
  BY <1>11 DEF DeleteItem, DeskForm, Kept
<1>12. ASSUME NEW old, ListOld(o, old)
       PROVE  /\ DeskForm' /\ Kept /\ desk[o].at = "idle" /\ db = "open"
              /\ UNCHANGED storeVars
              /\ desk'[o] = [Blank EXCEPT !.at = "purging", !.doomed = old]
  BY <1>0, <1>2, <1>12 DEF ListOld, Read, Blank, Kept
<1>13. ASSUME NEW id, PurgeItem(o, id)
       PROVE  /\ DeskForm' /\ Kept /\ desk[o].at = "purging"
              /\ \/ /\ DeletePending(id)
                    /\ \/ desk'[o] = AtRest(NoAnswer)
                       \/ desk'[o] = [desk[o] EXCEPT !.doomed = @ \ {id}]
                 \/ /\ WriteFails(TRUE) /\ UNCHANGED storeVars
                    /\ desk'[o] = AtRest(NoAnswer)
  <2>1. CASE Leave(o)
    BY <1>1, <1>13, <2>1 DEF PurgeItem, Leave, Kept
  <2>2. CASE Assign(o, [desk[o] EXCEPT !.doomed = @ \ {id}]) /\ DeletePending(id)
    BY <1>0, <1>3, <1>13, <2>2 DEF PurgeItem, Kept
  <2>. QED
    BY <1>13, <2>1, <2>2 DEF PurgeItem
<1>14. UNCHANGED <<byBatch, sequence, callVars, restarts, call>>
  BY DEF Operate
<1>15. ASSUME NEW b, NEW batch, NEW id, NEW item,
              \/ PutBatch(b, batch) \/ PutPending(id, item)
              \/ DeletePending(id) \/ UNCHANGED storeVars
       PROVE  UNCHANGED <<db, audits>>
  BY <1>15 DEF PutBatch, PutPending, DeletePending, storeVars
<1>16. CASE Inspect(o)
  BY <1>4, <1>5, <1>6, <1>14, <1>15, <1>16
  DEF Inspect, Blank, Kept, DeskMove, Opened, Viewed, Snapped
<1>17. CASE \/ \E b \in Batches : LoadBatch(o, b, "snapshotting")
            \/ \E b \in Batches : (Mixed \/ ~Received(b)) /\ LoadBatch(o, b, "reconciling")
  <2>1. PICK b \in Batches, purpose \in {"snapshotting", "reconciling"} :
          LoadBatch(o, b, purpose) /\ (purpose = "reconciling" => Mixed \/ ~Received(b))
    BY <1>17
  <2>2. /\ desk[o].at = "idle" /\ db = "open" /\ UNCHANGED storeVars
        /\ DeskForm' /\ Kept /\ b \in DOMAIN batches
        /\ desk'[o] = [Blank EXCEPT !.at = purpose, !.subject = b, !.copy = batches[b]]
    BY <1>7, <2>1
  <2>3. Opened(o)
    BY <2>1, <2>2 DEF Opened, Blank
  <2>4. UNCHANGED <<db, audits>>
    BY <1>15, <2>2
  <2>. QED
    BY <1>14, <2>2, <2>3, <2>4 DEF Kept, DeskMove
<1>18. CASE StoreBatch(o)
  BY <1>8, <1>14, <1>15, <1>18 DEF Kept, DeskMove, Rewritten
<1>19. CASE Maintained /\ Maintain(o)
  <2>1. CASE \E id \in ReadingIds : LoadItem(o, id)
    BY <1>9, <1>14, <1>15, <1>19, <2>1 DEF Blank, Kept, DeskMove, Opened
  <2>2. CASE \E id \in ReadingIds : DeleteItem(o, id)
    BY <1>11, <1>14, <1>15, <1>19, <2>2 DEF Kept, DeskMove, Deleted
  <2>3. CASE \E id \in ReadingIds : PurgeItem(o, id)
    BY <1>13, <1>14, <1>15, <1>19, <2>3 DEF Kept, DeskMove, Purged
  <2>4. CASE \E status \in Status : StoreStatus(o, status)
    BY <1>10, <1>14, <1>15, <1>19, <2>4 DEF Kept, DeskMove, Updated
  <2>5. CASE \E old \in SUBSET ReadingIds : ListOld(o, old)
    BY <1>12, <1>14, <1>15, <1>19, <2>5 DEF Blank, Kept, DeskMove, Opened
  <2>. QED
    BY <1>19, <2>1, <2>2, <2>3, <2>4, <2>5 DEF Maintain
<1>20. \/ Inspect(o)
       \/ \E b \in Batches : LoadBatch(o, b, "snapshotting")
       \/ \E b \in Batches : (Mixed \/ ~Received(b)) /\ LoadBatch(o, b, "reconciling")
       \/ StoreBatch(o)
       \/ Maintained /\ Maintain(o)
  BY DEF Operate
<1>. QED
  BY <1>16, <1>17, <1>18, <1>19, <1>20

\* The same of a first read, field by field.
LEMMA OpenedFields ==
  ASSUME NEW o \in Operators, Opened(o)
  PROVE  /\ desk'[o].answer.kind = "none"
         /\ \/ desk'[o].at = "viewing" /\ desk'[o].rows = readings
               /\ desk'[o].subject = <<>>
            \/ \E b \in DOMAIN batches :
                 /\ desk'[o].at \in {"snapshotting", "reconciling"}
                 /\ desk'[o].at = "reconciling" => Mixed \/ ~Received(b)
                 /\ desk'[o].subject = b /\ desk'[o].copy = batches[b]
            \/ /\ Maintained
               /\ \E id \in DOMAIN pending :
                    /\ desk'[o].at = "updating"
                    /\ desk'[o].subject = id /\ desk'[o].copy = pending[id]
            \/ Maintained /\ desk'[o].at = "purging"
<1>0. NoAnswer.kind = "none"
  BY DEF NoAnswer
<1>1. CASE desk'[o] = [AtRest(NoAnswer) EXCEPT !.at = "viewing", !.rows = readings]
  <2>1. [AtRest(NoAnswer) EXCEPT !.at = "viewing", !.rows = readings] \in
          [at : {"viewing"}, rows : {readings}, subject : {<<>>}, copy : {Empty},
           doomed : {{}}, answer : {NoAnswer}]
    BY Begun
  <2>. QED
    BY <1>0, <1>1, <2>1
<1>2. ASSUME NEW b \in DOMAIN batches, NEW purpose \in {"snapshotting", "reconciling"},
             purpose = "reconciling" => Mixed \/ ~Received(b),
             desk'[o] = [AtRest(NoAnswer) EXCEPT
                           !.at = purpose, !.subject = b, !.copy = batches[b]]
      PROVE  /\ desk'[o].answer.kind = "none"
             /\ desk'[o].at \in {"snapshotting", "reconciling"}
             /\ desk'[o].at = "reconciling" => Mixed \/ ~Received(b)
             /\ desk'[o].subject = b /\ desk'[o].copy = batches[b]
  <2>1. [AtRest(NoAnswer) EXCEPT !.at = purpose, !.subject = b, !.copy = batches[b]] \in
          [at : {purpose}, rows : {Empty}, subject : {b}, copy : {batches[b]},
           doomed : {{}}, answer : {NoAnswer}]
    BY Begun
  <2>. QED
    BY <1>0, <1>2, <2>1
<1>3. ASSUME NEW id \in DOMAIN pending,
             desk'[o] = [AtRest(NoAnswer) EXCEPT
                           !.at = "updating", !.subject = id, !.copy = pending[id]]
      PROVE  /\ desk'[o].answer.kind = "none"
             /\ desk'[o].at = "updating"
             /\ desk'[o].subject = id /\ desk'[o].copy = pending[id]
  <2>1. [AtRest(NoAnswer) EXCEPT !.at = "updating", !.subject = id, !.copy = pending[id]]
          \in [at : {"updating"}, rows : {Empty}, subject : {id}, copy : {pending[id]},
               doomed : {{}}, answer : {NoAnswer}]
    BY Begun
  <2>. QED
    BY <1>0, <1>3, <2>1
<1>4. ASSUME NEW old,
             desk'[o] = [AtRest(NoAnswer) EXCEPT !.at = "purging", !.doomed = old]
      PROVE  desk'[o].answer.kind = "none" /\ desk'[o].at = "purging"
  <2>1. [AtRest(NoAnswer) EXCEPT !.at = "purging", !.doomed = old] \in
          [at : {"purging"}, rows : {Empty}, subject : {<<>>}, copy : {Empty},
           doomed : {old}, answer : {NoAnswer}]
    BY Begun
  <2>. QED
    BY <1>0, <1>4, <2>1
<1>. QED
  BY <1>1, <1>2, <1>3, <1>4 DEF Opened

-----------------------------------------------------------------------------
(* Type correctness *)

\* The state of the parts outside Ingest when the process starts.
Idle ==
  /\ call = [a \in Admins |-> R!NoCall]
  /\ desk = [o \in Operators |-> AtRest(NoAnswer)]

IdleTypes ==
  /\ R!CallTypeOK /\ DeskForm /\ DeskTypeOK
  /\ \A a \in Admins : call[a].at = "idle" /\ call[a].target = <<>>
  /\ \A o \in Operators : /\ desk[o].at = "idle"
                          /\ desk[o].answer.kind = "none"
                          /\ desk[o].subject = <<>>

LEMMA IdleTyped == Idle => IdleTypes
<1>. SUFFICES ASSUME Idle PROVE IdleTypes
  OBVIOUS
<1>1. R!CallTypeOK
  BY DEF Idle, R!CallTypeOK, R!Call, R!Moves, R!NoCall, R!NewItem, R!PendingItem,
         R!Status
<1>2. /\ NoAnswer.kind = "none" /\ R!NoCall.at = "idle" /\ R!NoCall.target = <<>>
  BY DEF NoAnswer, R!NoCall
<1>3. DeskForm /\ DeskTypeOK
  BY <1>2, Resting DEF Idle, DeskForm, DeskTypeOK
<1>. QED
  BY <1>1, <1>2, <1>3, Resting DEF Idle, IdleTypes

AuditsTypeOK ==
  \A k \in DOMAIN audits : k \in Nat /\ audits[k] \in AuditEntry \cup R!AuditEntry

\* What makes PlatformTypeOK inductive.
StateTypeOK ==
  SharedTypeOK /\ R!CallTypeOK /\ DeskTypeOK /\ DeskForm /\ AuditsTypeOK

LEMMA InitState == PlatformInit => StateTypeOK
<1>. SUFFICES ASSUME PlatformInit PROVE StateTypeOK
  OBVIOUS
<1>1. Init /\ TypeOK
  BY InitTypes DEF PlatformInit
<1>2. SharedTypeOK /\ AuditsTypeOK
  BY <1>1 DEF TypeOK, StoreTypeOK, SharedTypeOK, DataTypeOK, Init, StoreInit,
              NoBucket, AuditsTypeOK
<1>3. IdleTypes
  BY IdleTyped DEF PlatformInit, Idle
<1>. QED
  BY <1>2, <1>3 DEF StateTypeOK, IdleTypes

\* Retry leaves the call well typed, and what it writes is.
LEMMA AdministerTypes ==
  ASSUME StateTypeOK, NEW a \in Admins, Administer(a)
  PROVE  StateTypeOK'
<1>0. /\ call \in [Admins -> R!Call] /\ DataTypeOK
      /\ call[a].at # "idle" => call[a].target \in ReadingIds
      /\ call[a].at = "storing" => call[a].got \in R!Offer
      /\ call[a] \in R!Call
      /\ R!CallTypeOK /\ AuditsTypeOK /\ sequence \in Nat
      /\ R!PendingItem = PendingItem /\ R!Status = Status
      /\ R!ReadingIds = ReadingIds
  BY DEF StateTypeOK, SharedTypeOK, MemoryTypeOK, R!CallTypeOK, R!PendingItem,
         PendingItem, R!Status, Status, R!ReadingIds, ReadingIds
<1>1. /\ call' = [call EXCEPT ![a] = call'[a]]
      /\ UNCHANGED <<byBatch, callVars, desk, restarts>>
  BY <1>0, RetryMoves
\* It is enough to look at the call, the store and the sequence.
<1>2. ASSUME call'[a] \in R!Call,
             call'[a].at # "idle" => call'[a].target \in ReadingIds,
             call'[a].at = "storing" => call'[a].got \in R!Offer,
             DataTypeOK', AuditsTypeOK', sequence' \in Nat
      PROVE  StateTypeOK'
  <2>1. R!CallTypeOK'
    BY <1>0, <1>1, <1>2 DEF R!CallTypeOK
  <2>2. DeskTypeOK' /\ DeskForm'
    BY <1>1 DEF StateTypeOK, DeskTypeOK, DeskForm
  <2>3. MemoryTypeOK' /\ CallTypeOK'
    BY <1>1, <1>2 DEF StateTypeOK, SharedTypeOK, MemoryTypeOK, CallTypeOK, callVars
  <2>. QED
    BY <1>2, <2>1, <2>2, <2>3 DEF StateTypeOK, SharedTypeOK
<1>3. UNCHANGED storeVars => DataTypeOK' /\ AuditsTypeOK'
  BY <1>0 DEF DataTypeOK, AuditsTypeOK, storeVars
<1>4. R!NoCall \in R!Call /\ R!NoCall.at = "idle"
  BY DEF R!NoCall, R!Call, R!Moves, R!NewItem, R!PendingItem, R!Status
<1>5. ASSUME NEW id \in ReadingIds \cap DOMAIN pending,
             call'[a] = R!Loaded(id, pending[id]), UNCHANGED <<storeVars, sequence>>
      PROVE  StateTypeOK'
  <2>1. R!Loaded(id, pending[id]) \in R!Call
        /\ R!Loaded(id, pending[id]).target = id
        /\ R!Loaded(id, pending[id]).at = "fetching"
    BY <1>0 DEF R!Loaded, R!Call, R!Moves, DataTypeOK
  <2>. QED
    BY <1>0, <1>2, <1>3, <1>5, <2>1
<1>6. ASSUME call'[a] = R!NoCall, UNCHANGED <<storeVars, sequence>>
      PROVE  StateTypeOK'
  BY <1>0, <1>2, <1>3, <1>4, <1>6
<1>7. ASSUME NEW offer \in Offers[call[a].target], call[a].at = "fetching",
             call'[a] = [at     |-> R!AfterFetch(offer.status),
                         target |-> call[a].target,
                         copy   |-> R!Attempted(call[a].copy, offer.status),
                         got    |-> offer],
             UNCHANGED <<storeVars, sequence>>
      PROVE  StateTypeOK'
  <2>1. offer \in R!Offer
    BY <1>0, <1>7, AdministratorsAssumption
  <2>2. R!Attempted(call[a].copy, offer.status) \in PendingItem
    BY <1>0, <2>1
    DEF R!Attempted, R!Call, R!Offer, PendingItem, Status
  <2>3. R!AfterFetch(offer.status) \in {"storing", "updating"}
    BY DEF R!AfterFetch
  <2>4. call'[a] \in R!Call /\ call'[a].got = offer
        /\ call'[a].target = call[a].target
    BY <1>0, <1>7, <2>1, <2>2, <2>3 DEF R!Call, R!Moves
  <2>. QED
    BY <1>0, <1>2, <1>3, <1>7, <2>1, <2>4
<1>8. ASSUME call[a].at = "storing", call'[a] = [call[a] EXCEPT !.at = "updating"],
             \/ PutReading(call[a].got.id, call[a].got.status)
             \/ UNCHANGED storeVars,
             UNCHANGED sequence
      PROVE  StateTypeOK'
  <2>1. call'[a] \in R!Call /\ call'[a].at = "updating"
        /\ call'[a].target = call[a].target
    BY <1>0, <1>8 DEF R!Call, R!Moves
  <2>2. call[a].got.id \in ReadingIds /\ call[a].got.status \in Status
    BY <1>0, <1>8 DEF R!Offer, Status
  <2>3. DataTypeOK' /\ AuditsTypeOK'
    BY <1>0, <1>3, <1>8, <2>2, WriteTypes DEF PutReading, AuditsTypeOK
  <2>. QED
    BY <1>0, <1>2, <1>8, <2>1, <2>3
<1>9. ASSUME call[a].at = "updating", PutPending(call[a].target, call[a].copy),
             call'[a] = [call[a] EXCEPT !.at = "recording"], UNCHANGED sequence
      PROVE  StateTypeOK'
  <2>1. call'[a] \in R!Call /\ call'[a].at = "recording"
        /\ call'[a].target = call[a].target
    BY <1>0, <1>9 DEF R!Call, R!Moves
  <2>2. call[a].copy \in PendingItem
    BY <1>0 DEF R!Call
  <2>3. DataTypeOK' /\ AuditsTypeOK'
    BY <1>0, <1>9, <2>2, WriteTypes DEF PutPending, AuditsTypeOK
  <2>. QED
    BY <1>0, <1>2, <1>9, <2>1, <2>3
<1>10. ASSUME call[a].at = "recording", call'[a] = R!NoCall,
              \/ Record([action |-> "pending_retry", subject |-> call[a].target,
                         detail |-> call[a].copy.status])
              \/ RecordLost
       PROVE  StateTypeOK'
  <2>. DEFINE entry == [action |-> "pending_retry", subject |-> call[a].target,
                        detail |-> call[a].copy.status]
  <2>1. entry \in R!AuditEntry /\ sequence + 1 \in Nat
    BY <1>0, <1>10 DEF R!AuditEntry, R!Call, PendingItem
  <2>. HIDE DEF entry
  <2>2. CASE Record(entry)
    <3>1. DataTypeOK'
      BY <1>0, <2>2, WriteTypes DEF Record
    <3>2. AuditsTypeOK'
      BY <1>0, <2>1, <2>2 DEF Record, PutAudit, Put, AuditsTypeOK
    <3>. QED
      BY <1>2, <1>4, <1>10, <2>1, <2>2, <3>1, <3>2 DEF Record
  <2>3. CASE RecordLost
    BY <1>2, <1>3, <1>4, <1>10, <2>1, <2>3 DEF RecordLost
  <2>. QED
    BY <1>10, <2>2, <2>3 DEF entry
<1>. QED
  <2>1. RetryMove(a)
    BY <1>0, RetryMoves
  <2>. QED
    BY <1>5, <1>6, <1>7, <1>8, <1>9, <1>10, <2>1
    DEF RetryMove, Loads, GivesUp, Fetches, Stores, Updates, Records

\* The batches the operators hold copies of are finite, like those they are
\* copies of.
FiniteDesk ==
  \A o \in Operators : desk[o].at \in {"reconciling", "snapshotting"} =>
    IsFiniteSet(desk[o].copy.readings)

\* What a maintainer deletes leaves the other items as they are.
LEMMA DeletedItems ==
  ASSUME NEW id, DeletePending(id)
  PROVE  /\ DOMAIN pending' = DOMAIN pending \ {id}
         /\ \A k \in DOMAIN pending' : pending'[k] = pending[k]
         /\ UNCHANGED <<db, readings, batches, audits>>
BY DEF DeletePending, Select

\* The operators' calls are well typed, and so is what they write.
LEMMA OperateTypes ==
  ASSUME StateTypeOK, FiniteDesk, NEW o \in Operators, Operate(o)
  PROVE  StateTypeOK'
<1>. DEFINE Good(work) ==
       /\ work.at \in {"idle", "viewing", "reconciling", "snapshotting",
                       "updating", "purging"}
       /\ DOMAIN work.rows \subseteq ReadingIds
       /\ work.at \in {"reconciling", "snapshotting"} =>
            work.subject \in Batches /\ work.copy \in SavedBatch
       /\ work.at = "updating" =>
            work.subject \in ReadingIds /\ work.copy \in PendingItem
       /\ work.doomed \subseteq ReadingIds
       /\ work.answer.kind \in {"none", "dashboard", "snapshot"}
<1>0. /\ DataTypeOK /\ AuditsTypeOK /\ \A p \in Operators : Good(desk[p])
      /\ DeskForm /\ FiniteDesk
  BY DEF StateTypeOK, SharedTypeOK, DeskTypeOK
<1>1. /\ DeskForm' /\ \A p \in Operators : p # o => desk'[p] = desk[p]
      /\ UNCHANGED <<byBatch, sequence, callVars, restarts, call, db, audits>>
  BY <1>0, DeskMoves
<1>. HIDE DEF Good
\* It is enough to look at the call and the store.
<1>2. ASSUME Good(desk'[o]), DataTypeOK' PROVE StateTypeOK'
  <2>1. \A p \in Operators : Good(desk'[p])
    BY <1>0, <1>1, <1>2
  <2>2. DeskTypeOK'
    BY <2>1 DEF DeskTypeOK, Good
  <2>3. R!CallTypeOK' /\ MemoryTypeOK' /\ CallTypeOK' /\ AuditsTypeOK'
    BY <1>1 DEF StateTypeOK, SharedTypeOK, MemoryTypeOK, CallTypeOK, callVars,
                R!CallTypeOK, AuditsTypeOK
  <2>. QED
    BY <1>1, <1>2, <2>2, <2>3 DEF StateTypeOK, SharedTypeOK
<1>3. UNCHANGED storeVars => DataTypeOK'
  BY <1>0, WriteTypes
<1>4. ASSUME NEW answer, answer.kind \in {"none", "dashboard", "snapshot"}
      PROVE  Good(AtRest(answer))
  BY <1>4, Resting DEF Good
<1>5. NoAnswer.kind = "none" /\ \A x, y : DashboardOf(x, y).kind = "dashboard"
  BY DEF NoAnswer, DashboardOf
<1>6. Good(AtRest(NoAnswer))
  BY <1>4, <1>5
<1>7. ASSUME NEW id \in ReadingIds, DeletePending(id) PROVE DataTypeOK'
  BY <1>0, <1>7, WriteTypes
<1>8. DOMAIN Empty = {}
  BY DEF Empty
<1>9. CASE desk[o].at = "idle" /\ UNCHANGED storeVars
           /\ desk'[o] = [AtRest(NoAnswer) EXCEPT !.at = "viewing", !.rows = readings]
  <2>0. [AtRest(NoAnswer) EXCEPT !.at = "viewing", !.rows = readings] \in
          [at : {"viewing"}, rows : {readings}, subject : {<<>>},
            copy : {Empty}, doomed : {{}}, answer : {NoAnswer}]
    BY Begun
  <2>1. desk'[o] \in [at : {"viewing"}, rows : {readings}, subject : {<<>>},
                      copy : {Empty}, doomed : {{}}, answer : {NoAnswer}]
    BY <1>9, <2>0
  <2>2. Good(desk'[o])
    BY <1>0, <1>5, <2>1 DEF Good, DataTypeOK
  <2>. QED
    BY <1>2, <1>3, <1>9, <2>2
<1>10. ASSUME NEW b \in DOMAIN batches,
              NEW purpose \in {"snapshotting", "reconciling"}, UNCHANGED storeVars,
              desk'[o] = [AtRest(NoAnswer) EXCEPT
                            !.at = purpose, !.subject = b, !.copy = batches[b]]
       PROVE  StateTypeOK'
  <2>0. [AtRest(NoAnswer) EXCEPT !.at = purpose, !.subject = b, !.copy = batches[b]] \in
          [at : {purpose}, rows : {Empty}, subject : {b},
            copy : {batches[b]}, doomed : {{}}, answer : {NoAnswer}]
    BY Begun
  <2>1. desk'[o] \in [at : {purpose}, rows : {Empty}, subject : {b},
                      copy : {batches[b]}, doomed : {{}}, answer : {NoAnswer}]
    BY <1>10, <2>0
  <2>2. b \in Batches /\ batches[b] \in SavedBatch
    BY <1>0 DEF DataTypeOK
  <2>3. Good(desk'[o])
    BY <1>5, <1>8, <2>1, <2>2 DEF Good
  <2>. QED
    BY <1>2, <1>3, <1>10, <2>3
<1>11. ASSUME NEW id \in DOMAIN pending, UNCHANGED storeVars,
              desk'[o] = [AtRest(NoAnswer) EXCEPT
                            !.at = "updating", !.subject = id, !.copy = pending[id]]
       PROVE  StateTypeOK'
  <2>0. [AtRest(NoAnswer) EXCEPT !.at = "updating", !.subject = id, !.copy = pending[id]]
          \in [at : {"updating"}, rows : {Empty}, subject : {id},
               copy : {pending[id]}, doomed : {{}}, answer : {NoAnswer}]
    BY Begun
  <2>1. desk'[o] \in [at : {"updating"}, rows : {Empty}, subject : {id},
                      copy : {pending[id]}, doomed : {{}}, answer : {NoAnswer}]
    BY <1>11, <2>0
  <2>2. id \in ReadingIds /\ pending[id] \in PendingItem
    BY <1>0 DEF DataTypeOK
  <2>3. Good(desk'[o])
    BY <1>5, <1>8, <2>1, <2>2 DEF Good
  <2>. QED
    BY <1>2, <1>3, <1>11, <2>3
<1>12. ASSUME NEW old \in SUBSET ReadingIds, UNCHANGED storeVars,
              desk'[o] = [AtRest(NoAnswer) EXCEPT !.at = "purging", !.doomed = old]
       PROVE  StateTypeOK'
  <2>0. [AtRest(NoAnswer) EXCEPT !.at = "purging", !.doomed = old] \in
          [at : {"purging"}, rows : {Empty}, subject : {<<>>},
            copy : {Empty}, doomed : {old}, answer : {NoAnswer}]
    BY Begun
  <2>1. desk'[o] \in [at : {"purging"}, rows : {Empty}, subject : {<<>>},
                      copy : {Empty}, doomed : {old}, answer : {NoAnswer}]
    BY <1>12, <2>0
  <2>2. Good(desk'[o])
    BY <1>5, <1>8, <2>1 DEF Good
  <2>. QED
    BY <1>2, <1>3, <1>12, <2>2
<1>13. ASSUME NEW answer, answer.kind \in {"none", "dashboard", "snapshot"},
              UNCHANGED storeVars, desk'[o] = AtRest(answer)
       PROVE  StateTypeOK'
  BY <1>2, <1>3, <1>4, <1>13
<1>14. CASE /\ desk[o].at = "reconciling" /\ desk'[o] = AtRest(NoAnswer)
            /\ \/ PutBatch(desk[o].subject, Reconciled(desk[o].copy))
               \/ WriteFails(TRUE) /\ UNCHANGED storeVars
  <2>1. desk[o].subject \in Batches /\ desk[o].copy \in SavedBatch
    BY <1>0, <1>14 DEF Good
  <2>2. Reconciled(desk[o].copy) \in SavedBatch
    <3>1. Recalculate(desk[o].copy.readings) \in Summaries
      BY <1>0, <1>14, RecalculateTypes DEF FiniteDesk
    <3>. QED
      BY <2>1, <3>1 DEF Reconciled, SavedBatch
  <2>. QED
    BY <1>0, <1>2, <1>3, <1>6, <1>14, <2>1, <2>2, WriteTypes
<1>15. CASE /\ desk[o].at = "updating" /\ desk'[o] = AtRest(NoAnswer)
            /\ \/ \E status \in Status :
                    PutPending(desk[o].subject, [desk[o].copy EXCEPT !.status = status])
               \/ WriteFails(TRUE) /\ UNCHANGED storeVars
  <2>1. desk[o].subject \in ReadingIds /\ desk[o].copy \in PendingItem
    BY <1>0, <1>15 DEF Good
  <2>2. \A status \in Status :
          [desk[o].copy EXCEPT !.status = status] \in PendingItem
    BY <2>1 DEF PendingItem
  <2>. QED
    BY <1>0, <1>2, <1>3, <1>6, <1>15, <2>1, <2>2, WriteTypes
<1>16. CASE /\ desk'[o] = desk[o]
            /\ \E id \in ReadingIds : DeletePending(id)
  BY <1>0, <1>2, <1>7, <1>16
<1>17. CASE /\ desk[o].at = "purging"
            /\ \E id \in ReadingIds : DeletePending(id)
            /\ \/ desk'[o] = AtRest(NoAnswer)
               \/ \E id \in ReadingIds :
                    desk'[o] = [desk[o] EXCEPT !.doomed = @ \ {id}]
  <2>1. ASSUME NEW id \in ReadingIds, desk'[o] = [desk[o] EXCEPT !.doomed = @ \ {id}]
        PROVE  Good(desk'[o])
    <3>. DEFINE work == desk[o]
    <3>1. /\ WellFormed(work) /\ Good(work)
          /\ desk'[o] = [work EXCEPT !.doomed = @ \ {id}]
      BY <1>0, <2>1 DEF DeskForm
    <3>. HIDE DEF work
    <3>2. desk'[o] \in [at : {work.at}, rows : {work.rows}, subject : {work.subject},
                        copy : {work.copy}, doomed : {work.doomed \ {id}},
                        answer : {work.answer}]
      BY <3>1 DEF WellFormed
    <3>. QED
      BY <3>1, <3>2 DEF Good
  <2>. QED
    BY <1>2, <1>6, <1>7, <1>17, <2>1
<1>18. CASE WriteFails(TRUE) /\ UNCHANGED storeVars /\ desk'[o] = AtRest(NoAnswer)
  BY <1>2, <1>3, <1>6, <1>18
<1>19. \A x, y : [kind |-> "snapshot", batch |-> x, items |-> y].kind = "snapshot"
  OBVIOUS
<1>20. CASE Opened(o)
  BY <1>9, <1>10, <1>11, <1>12, <1>20 DEF Opened
<1>21. CASE Viewed(o) \/ Snapped(o)
  BY <1>5, <1>13, <1>19, <1>21 DEF Viewed, Snapped
<1>22. CASE Rewritten(o) \/ Updated(o)
  BY <1>14, <1>15, <1>22 DEF Rewritten, Updated
<1>23. CASE Deleted(o) \/ Purged(o)
  BY <1>16, <1>17, <1>18, <1>23 DEF Deleted, Purged
<1>. QED
  BY <1>0, <1>20, <1>21, <1>22, <1>23, DeskMoves DEF DeskMove

\* What ProcessBatch, Close and a restart do to the parts outside Ingest.
LEMMA IngestMoves ==
  /\ \A c \in Calls : Receive(c) => [Next]_vars /\ UNCHANGED <<call, desk>>
  /\ PlatformClose \/ PlatformRest \/ UNCHANGED platformVars =>
       [Next]_vars /\ UNCHANGED <<call, desk>>
  /\ PlatformRestart =>
       Next /\ Restart /\ Idle' /\ IdleTypes'
<1>1. ASSUME NEW c \in Calls, Receive(c)
      PROVE  [Next]_vars /\ UNCHANGED <<call, desk>>
  BY <1>1 DEF Receive, Next
<1>2. ASSUME PlatformClose \/ PlatformRest \/ UNCHANGED platformVars
      PROVE  [Next]_vars /\ UNCHANGED <<call, desk>>
  BY <1>2 DEF PlatformClose, PlatformRest, platformVars, Next
<1>3. ASSUME PlatformRestart PROVE Next /\ Restart /\ Idle' /\ IdleTypes'
  <2>1. Next /\ Restart /\ Idle'
    BY <1>3 DEF PlatformRestart, Next, Idle
  <2>2. Idle' => IdleTypes'
    BY IdleTyped, PTL
  <2>. QED
    BY <2>1, <2>2
<1>. QED
  BY <1>1, <1>2, <1>3

BaseInv == StateTypeOK /\ FiniteInv /\ FiniteDesk

LEMMA InitBase == PlatformInit => BaseInv
<1>. SUFFICES ASSUME PlatformInit PROVE BaseInv
  OBVIOUS
<1>1. Init /\ IdleTypes
  BY IdleTyped DEF PlatformInit, Idle
<1>2. FiniteDesk
  BY <1>1 DEF IdleTypes, FiniteDesk
<1>. QED
  BY <1>1, <1>2, InitState, InitFinite DEF BaseInv

LEMMA NextBase == BaseInv /\ [PlatformNext]_platformVars => BaseInv'
<1>. SUFFICES ASSUME BaseInv, [PlatformNext]_platformVars PROVE BaseInv'
  OBVIOUS
<1>0. /\ SharedTypeOK /\ R!CallTypeOK /\ DeskTypeOK /\ DeskForm /\ AuditsTypeOK
      /\ StateTypeOK /\ FiniteInv /\ FiniteDesk
      /\ CallTypeOK /\ sequence \in Nat
  BY DEF BaseInv, StateTypeOK, SharedTypeOK, MemoryTypeOK
<1>1. ASSUME [Next]_vars PROVE SharedTypeOK' /\ AuditsTypeOK' /\ FiniteInv'
  <2>1. CASE audits' = audits
    BY <1>0, <1>1, <2>1, NextSharedTypes, StepFinite DEF AuditsTypeOK
  <2>2. ASSUME NEW entry \in AuditEntry, PutAudit(sequence + 1, entry)
        PROVE  AuditsTypeOK'
    BY <1>0, <2>2 DEF AuditsTypeOK, PutAudit, Put
  <2>. QED
    BY <1>0, <1>1, <2>1, <2>2, NextAudits, NextSharedTypes, StepFinite
<1>2. ASSUME [Next]_vars, UNCHANGED <<call, desk>> PROVE BaseInv'
  BY <1>0, <1>1, <1>2
  DEF BaseInv, StateTypeOK, R!CallTypeOK, DeskTypeOK, DeskForm, FiniteDesk
<1>3. CASE PlatformRestart
  <2>1. [Next]_vars /\ IdleTypes'
    BY <1>3, IngestMoves
  <2>. QED
    BY <1>1, <2>1 DEF BaseInv, StateTypeOK, FiniteDesk, IdleTypes
<1>4. ASSUME NEW a \in Admins, Administer(a) PROVE BaseInv'
  <2>1. UNCHANGED <<callVars, desk, batches>>
    BY <1>0, <1>4, RetryMoves
  <2>2. FiniteInv' /\ FiniteDesk'
    BY <1>0, <2>1 DEF FiniteInv, FiniteCall, FiniteDesk, callVars
  <2>. QED
    BY <1>0, <1>4, <2>2, AdministerTypes DEF BaseInv
<1>5. ASSUME NEW o \in Operators, Operate(o) PROVE BaseInv'
  <2>. SUFFICES FiniteInv' /\ FiniteDesk'
    BY <1>0, <1>5, OperateTypes DEF BaseInv
  <2>0. /\ UNCHANGED callVars /\ \A p \in Operators : p # o => desk'[p] = desk[p]
        /\ DeskMove(o)
    BY <1>0, <1>5, DeskMoves
  <2>1. ASSUME batches' = batches,
               desk'[o].at \in {"reconciling", "snapshotting"}
                 => IsFiniteSet(desk'[o].copy.readings)
        PROVE  FiniteInv' /\ FiniteDesk'
    BY <1>0, <2>0, <2>1 DEF FiniteInv, FiniteCall, FiniteDesk, callVars
  <2>2. AtRest(NoAnswer).at = "idle" /\ \A answer : AtRest(answer).at = "idle"
    BY Resting
  <2>3. CASE Opened(o)
    <3>1. batches' = batches
      BY <2>3 DEF Opened, storeVars
    <3>2. desk'[o].at \in {"reconciling", "snapshotting"}
            => \E b \in DOMAIN batches : desk'[o].copy = batches[b]
      BY <2>3, OpenedFields
    <3>. QED
      BY <1>0, <2>1, <3>1, <3>2 DEF FiniteInv
  <2>4. CASE Viewed(o) \/ Snapped(o)
    BY <2>1, <2>2, <2>4 DEF Viewed, Snapped, storeVars
  <2>5. CASE Updated(o)
    BY <2>1, <2>2, <2>5 DEF Updated, PutPending, storeVars
  <2>6. CASE Deleted(o)
    BY <1>0, <2>1, <2>6 DEF Deleted, DeletePending, FiniteDesk
  <2>7. CASE Purged(o)
    <3>1. batches' = batches
      BY <2>7 DEF Purged, DeletePending, storeVars
    <3>2. ASSUME NEW id, desk'[o] = [desk[o] EXCEPT !.doomed = @ \ {id}]
          PROVE  desk'[o].at = desk[o].at
      <4>1. WellFormed(desk[o])
        BY <1>0 DEF DeskForm
      <4>. QED
        BY <3>2, <4>1 DEF WellFormed
    <3>. QED
      BY <2>1, <2>2, <2>7, <3>1, <3>2 DEF Purged
  <2>8. CASE Rewritten(o)
    <3>1. CASE UNCHANGED storeVars
      BY <2>1, <2>2, <2>8, <3>1 DEF Rewritten, storeVars
    <3>2. CASE PutBatch(desk[o].subject, Reconciled(desk[o].copy))
      <4>1. /\ desk[o].copy \in SavedBatch
            /\ IsFiniteSet(desk[o].copy.readings)
        BY <1>0, <2>8 DEF Rewritten, DeskTypeOK, FiniteDesk
      <4>2. IsFiniteSet(Reconciled(desk[o].copy).readings)
        BY <4>1 DEF Reconciled, SavedBatch
      <4>3. \A b \in DOMAIN batches' : IsFiniteSet(batches'[b].readings)
        BY <1>0, <3>2, <4>2 DEF PutBatch, Put, FiniteInv
      <4>4. FiniteInv'
        BY <1>0, <2>0, <4>3 DEF FiniteInv, FiniteCall, callVars
      <4>5. FiniteDesk'
        BY <1>0, <2>0, <2>2, <2>8 DEF Rewritten, FiniteDesk
      <4>. QED
        BY <4>4, <4>5
    <3>. QED
      BY <2>8, <3>1, <3>2 DEF Rewritten
  <2>. QED
    BY <2>0, <2>3, <2>4, <2>5, <2>6, <2>7, <2>8 DEF DeskMove
<1>. QED
  BY <1>2, <1>3, <1>4, <1>5, IngestMoves DEF PlatformNext

\* The whole state is well typed in every behaviour of the service, however
\* the calls of its three parts interleave.
THEOREM PlatformTypes == PlatformSpec => []PlatformTypeOK
<1>1. BaseInv => PlatformTypeOK
  BY DEF BaseInv, StateTypeOK, SharedTypeOK, DataTypeOK, AuditsTypeOK,
         PlatformTypeOK
<1>. QED
  BY <1>1, InitBase, NextBase, PTL DEF PlatformSpec

-----------------------------------------------------------------------------
(* The limit of retries *)

\* What makes LimitKeptByAll inductive: every copy of an item that anyone may
\* still write back keeps to the limit, and Retry checked it on the one it
\* increments.
CopyLimited(a) ==
  /\ call[a].at = "fetching" => call[a].copy.attempts < RetryLimit
  /\ call[a].at \in {"storing", "updating"} => call[a].copy.attempts <= RetryLimit

ListLimited(c) == \A id \in DOMAIN listed[c] : listed[c][id].attempts <= RetryLimit

DeskLimited(o) == desk[o].at = "updating" => desk[o].copy.attempts <= RetryLimit

LimitInv ==
  /\ LimitKeptByAll
  /\ \A a \in Admins : CopyLimited(a)
  /\ \A c \in Calls : ListLimited(c)
  /\ \A o \in Operators : DeskLimited(o)

\* Calls of ProcessBatch write new items, or copies of items they listed.
LEMMA IngestLimit ==
  ASSUME CallTypeOK, LimitInv, [Next]_vars
  PROVE  LimitKeptByAll' /\ \A c \in Calls : ListLimited(c)'
<1>0. /\ \A id \in DOMAIN pending : pending[id].attempts <= RetryLimit
      /\ \A c \in Calls : ListLimited(c)
      /\ NewItem.attempts <= RetryLimit
  BY AdministratorsAssumption DEF LimitInv, LimitKeptByAll, R!AttemptsBounded, NewItem
<1>1. ASSUME NEW c \in Calls PROVE ListLimited(c)'
  <2>. DEFINE found == Select(ListPending("pending"), {batchOf[c]} \X Devices)
  <2>1. \A id \in DOMAIN found : found[id].attempts <= RetryLimit
    BY <1>0 DEF Select, ListPending
  <2>. HIDE DEF found
  <2>2. listed'[c] = listed[c] \/ listed'[c] = found
    BY NextListed DEF found
  <2>. QED
    BY <1>0, <2>1, <2>2 DEF ListLimited
<1>2. LimitKeptByAll'
  <2>1. CASE NothingWritten
    BY <1>0, <2>1 DEF NothingWritten, LimitKeptByAll, R!AttemptsBounded
  <2>2. ASSUME NEW c \in Calls, ItemWritten(c) PROVE LimitKeptByAll'
    BY <1>0, <2>2 DEF ItemWritten, PutPending, Put, LimitKeptByAll, R!AttemptsBounded
  <2>3. ASSUME NEW c \in Calls, ReadingWritten(c) PROVE LimitKeptByAll'
    BY <1>0, <2>3 DEF ReadingWritten, PutReading, LimitKeptByAll, R!AttemptsBounded
  <2>4. ASSUME NEW c \in Calls, BatchWritten(c) PROVE LimitKeptByAll'
    <3>1. pending' = PutAll(pending, listed[c])
      BY <2>4 DEF BatchWritten, SaveBatch
    <3>. QED
      BY <1>0, <3>1 DEF PutAll, ListLimited, LimitKeptByAll, R!AttemptsBounded
  <2>. QED
    BY <2>1, <2>2, <2>3, <2>4, NextWrites
<1>. QED
  BY <1>1, <1>2

\* Every step of the service keeps stored items and copies within the limit.
LEMMA NextLimit == BaseInv /\ LimitInv /\ [PlatformNext]_platformVars => LimitInv'
<1>. SUFFICES ASSUME BaseInv, LimitInv, [PlatformNext]_platformVars
              PROVE  LimitInv'
  OBVIOUS
<1>0. /\ CallTypeOK /\ R!CallTypeOK /\ DeskForm
      /\ \A id \in DOMAIN pending : pending[id].attempts \in Nat
                                    /\ pending[id] \in PendingItem
      /\ \A a \in Admins : call[a].copy.attempts \in Nat
      /\ call \in [Admins -> R!Call] /\ RetryLimit \in Nat
      /\ \A o \in Operators : desk[o].at = "updating" => desk[o].copy \in PendingItem
  BY AdministratorsAssumption
  DEF BaseInv, StateTypeOK, SharedTypeOK, DataTypeOK, PendingItem, R!CallTypeOK,
      R!Call, R!PendingItem, DeskTypeOK
<1>00. /\ \A id \in DOMAIN pending : pending[id].attempts <= RetryLimit
       /\ \A a \in Admins : CopyLimited(a)
       /\ \A c \in Calls : ListLimited(c)
       /\ \A o \in Operators : DeskLimited(o)
  BY DEF LimitInv, LimitKeptByAll, R!AttemptsBounded
<1>1. ASSUME [Next]_vars, UNCHANGED <<call, desk>> PROVE LimitInv'
  BY <1>0, <1>00, <1>1, IngestLimit DEF LimitInv, CopyLimited, DeskLimited
<1>2. CASE PlatformRestart
  <2>1. [Next]_vars /\ IdleTypes'
    BY <1>2, IngestMoves
  <2>. QED
    BY <1>0, <2>1, IngestLimit DEF LimitInv, CopyLimited, DeskLimited, IdleTypes
<1>3. ASSUME NEW a \in Admins, Administer(a) PROVE LimitInv'
  <2>1. /\ call' = [call EXCEPT ![a] = call'[a]]
        /\ UNCHANGED <<callVars, desk>> /\ RetryMove(a)
    BY <1>0, <1>3, RetryMoves
  \* It is enough to look at the items and the copy.
  <2>2. ASSUME CopyLimited(a)',
               \A id \in DOMAIN pending' : pending'[id].attempts <= RetryLimit
        PROVE  LimitInv'
    <3>1. \A b \in Admins : CopyLimited(b)'
      BY <1>0, <1>00, <2>1, <2>2 DEF CopyLimited
    <3>. QED
      BY <1>00, <2>1, <2>2, <3>1
      DEF LimitInv, LimitKeptByAll, R!AttemptsBounded, ListLimited, DeskLimited, callVars
  <2>3. UNCHANGED storeVars =>
          \A id \in DOMAIN pending' : pending'[id].attempts <= RetryLimit
    BY <1>00 DEF storeVars
  <2>4. R!NoCall.at = "idle"
    BY DEF R!NoCall
  <2>5. CASE Loads(a)
    BY <1>0, <2>2, <2>3, <2>5 DEF Loads, R!Loaded, CopyLimited
  <2>6. CASE GivesUp(a)
    BY <2>2, <2>3, <2>4, <2>6 DEF GivesUp, CopyLimited
  <2>7. CASE Fetches(a)
    <3>1. call'[a].copy.attempts = call[a].copy.attempts + 1
          /\ call[a].at = "fetching" /\ call'[a].at \in {"storing", "updating"}
      BY <2>7 DEF Fetches, R!Attempted, R!AfterFetch
    <3>2. CopyLimited(a)'
      BY <1>0, <1>00, <3>1 DEF CopyLimited
    <3>. QED
      BY <2>2, <2>3, <2>7, <3>2 DEF Fetches
  <2>8. CASE Stores(a)
    <3>1. call'[a].copy = call[a].copy /\ call'[a].at = "updating"
          /\ call[a].at = "storing"
      BY <1>0, <2>8 DEF Stores, R!Call
    <3>2. CopyLimited(a)'
      BY <1>00, <3>1 DEF CopyLimited
    <3>. QED
      BY <1>00, <2>2, <2>3, <2>8, <3>2 DEF Stores, PutReading
  <2>9. CASE Updates(a)
    <3>1. call'[a].at \in {"idle", "recording"}
      BY <1>0, <2>4, <2>9 DEF Updates, R!Call
    <3>2. CopyLimited(a)'
      BY <3>1 DEF CopyLimited
    <3>3. call[a].copy.attempts <= RetryLimit
      BY <1>00, <2>9 DEF Updates, CopyLimited
    <3>. QED
      <4>1. PutPending(call[a].target, call[a].copy) \/ UNCHANGED storeVars
        BY <2>9 DEF Updates
      <4>2. \A id \in DOMAIN pending' : pending'[id].attempts <= RetryLimit
        BY <1>00, <2>3, <3>3, <4>1 DEF PutPending, Put
      <4>. QED
        BY <2>2, <3>2, <4>2
  <2>10. CASE Records(a)
    BY <1>00, <2>2, <2>3, <2>4, <2>10
    DEF Records, CopyLimited, Record, PutAudit, RecordLost
  <2>. QED
    BY <2>1, <2>5, <2>6, <2>7, <2>8, <2>9, <2>10 DEF RetryMove
<1>4. ASSUME NEW o \in Operators, Operate(o) PROVE LimitInv'
  <2>1. /\ UNCHANGED <<callVars, call>> /\ \A p \in Operators : p # o => desk'[p] = desk[p]
        /\ DeskMove(o)
    BY <1>0, <1>4, DeskMoves
  \* It is enough to look at the items and the copy.
  <2>2. ASSUME DeskLimited(o)',
               \A id \in DOMAIN pending' : pending'[id].attempts <= RetryLimit
        PROVE  LimitInv'
    BY <1>00, <2>1, <2>2
    DEF LimitInv, LimitKeptByAll, R!AttemptsBounded, ListLimited, CopyLimited,
        DeskLimited, callVars
  <2>3. UNCHANGED <<pending>> =>
          \A id \in DOMAIN pending' : pending'[id].attempts <= RetryLimit
    BY <1>00
  <2>4. \A answer : AtRest(answer).at = "idle"
    BY Resting
  <2>5. CASE Opened(o)
    <3>1. pending' = pending
      BY <2>5 DEF Opened, storeVars
    <3>2. desk'[o].at = "updating"
            => \E id \in DOMAIN pending : desk'[o].copy = pending[id]
      BY <2>5, OpenedFields
    <3>4. DeskLimited(o)'
      BY <1>00, <3>2 DEF DeskLimited
    <3>. QED
      BY <2>2, <2>3, <3>1, <3>4
  <2>6. CASE Viewed(o) \/ Snapped(o) \/ Rewritten(o)
    <3>1. pending' = pending
      BY <2>6 DEF Viewed, Snapped, Rewritten, PutBatch, storeVars
    <3>2. DeskLimited(o)'
      BY <2>4, <2>6 DEF Viewed, Snapped, Rewritten, DeskLimited
    <3>. QED
      BY <2>2, <2>3, <3>1, <3>2
  <2>7. CASE Updated(o)
    <3>1. DeskLimited(o)'
      BY <2>4, <2>7 DEF Updated, DeskLimited
    <3>2. ASSUME NEW status \in Status,
                 PutPending(desk[o].subject, [desk[o].copy EXCEPT !.status = status])
          PROVE  \A id \in DOMAIN pending' : pending'[id].attempts <= RetryLimit
      <4>1. desk[o].copy \in PendingItem /\ desk[o].copy.attempts <= RetryLimit
        BY <1>0, <1>00, <2>7 DEF Updated, DeskLimited
      <4>2. [desk[o].copy EXCEPT !.status = status].attempts <= RetryLimit
        BY <4>1 DEF PendingItem
      <4>. QED
        BY <1>00, <3>2, <4>2 DEF PutPending, Put
    <3>. QED
      BY <2>2, <2>3, <2>7, <3>1, <3>2 DEF Updated, storeVars
  <2>8. ASSUME NEW id \in ReadingIds, DeletePending(id)
        PROVE  \A k \in DOMAIN pending' : pending'[k].attempts <= RetryLimit
    BY <1>00, <2>8, DeletedItems
  <2>9. CASE Deleted(o)
    BY <1>00, <2>2, <2>8, <2>9 DEF Deleted, DeskLimited
  <2>10. CASE Purged(o)
    <3>1. desk'[o].at \in {"idle", "purging"}
      <4>1. \A w, d : WellFormed(w) => [w EXCEPT !.doomed = d].at = w.at
        BY DEF WellFormed
      <4>. QED
        BY <1>0, <2>4, <2>10, <4>1 DEF Purged, DeskForm
    <3>2. DeskLimited(o)'
      BY <3>1 DEF DeskLimited
    <3>. QED
      BY <2>2, <2>3, <2>8, <2>10, <3>2 DEF Purged, storeVars
  <2>. QED
    BY <2>1, <2>5, <2>6, <2>7, <2>9, <2>10 DEF DeskMove
<1>. QED
  BY <1>1, <1>2, <1>3, <1>4, IngestMoves DEF PlatformNext

\* No item ever counts more attempts than the limit, though ProcessBatch, Retry
\* and the operators write back copies of items that others changed meanwhile.
THEOREM PlatformLimit == PlatformSpec => []LimitKeptByAll
<1>1. PlatformInit => LimitInv
  <2>. SUFFICES ASSUME PlatformInit PROVE LimitInv
    OBVIOUS
  <2>1. DOMAIN pending = {} /\ \A c \in Calls : DOMAIN listed[c] = {}
    BY DEF PlatformInit, Init, StoreInit, NoBucket
  <2>2. IdleTypes
    BY IdleTyped DEF PlatformInit, Idle
  <2>. QED
    BY <2>1, <2>2
    DEF LimitInv, LimitKeptByAll, R!AttemptsBounded, CopyLimited, ListLimited,
        DeskLimited, IdleTypes
<1>2. LimitInv => LimitKeptByAll
  BY DEF LimitInv
<1>. QED
  BY <1>1, <1>2, InitBase, NextBase, NextLimit, PTL DEF PlatformSpec

-----------------------------------------------------------------------------
(* What the parts keep of each other's invariants *)

\* Retry stores readings that are accepted only.
StoringAccepted ==
  \A a \in Admins : call[a].at = "storing" => call[a].got.status = "accepted"

\* The invariants of ProcessBatch that speak of its own locals, and the one of
\* Retry that does.
LocalInv == PhaseInv /\ CollectInv /\ StoringAccepted

LEMMA InitLocal == PlatformInit => LocalInv
<1>. SUFFICES ASSUME PlatformInit PROVE LocalInv
  OBVIOUS
<1>1. Init /\ IdleTypes
  BY IdleTyped DEF PlatformInit, Idle
<1>. QED
  BY <1>1, InitPhase, InitCollect DEF IdleTypes, LocalInv, StoringAccepted

LEMMA NextLocal == BaseInv /\ LocalInv /\ [PlatformNext]_platformVars => LocalInv'
<1>. SUFFICES ASSUME BaseInv, LocalInv, [PlatformNext]_platformVars
              PROVE  LocalInv'
  OBVIOUS
<1>0. /\ CallTypeOK /\ R!CallTypeOK /\ DeskForm /\ call \in [Admins -> R!Call]
      /\ PhaseInv /\ CollectInv /\ StoringAccepted
  BY DEF BaseInv, StateTypeOK, SharedTypeOK, R!CallTypeOK, LocalInv
<1>1. ASSUME [Next]_vars, StoringAccepted' PROVE LocalInv'
  BY <1>0, <1>1, StepPhase, StepCollect DEF LocalInv
<1>2. ASSUME UNCHANGED callVars, StoringAccepted' PROVE LocalInv'
  BY <1>0, <1>2
  DEF LocalInv, PhaseInv, CallPhase, CollectInv, CallCollected, InFlight, MutexFree,
      AllDone, callVars
<1>3. ASSUME [Next]_vars, UNCHANGED <<call, desk>> PROVE LocalInv'
  BY <1>0, <1>1, <1>3 DEF StoringAccepted
<1>4. CASE PlatformRestart
  BY <1>1, <1>4, IngestMoves DEF IdleTypes, StoringAccepted
<1>5. ASSUME NEW a \in Admins, Administer(a) PROVE LocalInv'
  <2>1. /\ call' = [call EXCEPT ![a] = call'[a]]
        /\ UNCHANGED callVars /\ RetryMove(a)
    BY <1>0, <1>5, RetryMoves
  <2>2. ASSUME call'[a].at = "storing" PROVE call'[a].got.status = "accepted"
    <3>1. R!NoCall.at = "idle" /\ \A id, item : R!Loaded(id, item).at = "fetching"
      BY DEF R!NoCall, R!Loaded
    <3>2. ~(Loads(a) \/ GivesUp(a) \/ Stores(a) \/ Updates(a) \/ Records(a))
      BY <1>0, <2>2, <3>1
      DEF Loads, GivesUp, Stores, Updates, Records, R!Call
    <3>3. PICK offer \in Offers[call[a].target] :
            call'[a] = [at     |-> R!AfterFetch(offer.status),
                        target |-> call[a].target,
                        copy   |-> R!Attempted(call[a].copy, offer.status),
                        got    |-> offer]
      BY <2>1, <3>2 DEF RetryMove, Fetches
    <3>4. R!AfterFetch(offer.status) = "storing" /\ call'[a].got = offer
      BY <2>2, <3>3
    <3>. QED
      BY <3>4 DEF R!AfterFetch
  <2>. QED
    BY <1>0, <1>2, <2>1, <2>2 DEF StoringAccepted
<1>6. ASSUME NEW o \in Operators, Operate(o) PROVE LocalInv'
  BY <1>0, <1>2, <1>6, DeskMoves DEF StoringAccepted
<1>. QED
  BY <1>3, <1>4, <1>5, <1>6, IngestMoves DEF PlatformNext

\* Without maintenance, the operators write nothing but batches.
LEMMA OperatorsKeep ==
  ASSUME DeskForm, Maintained = FALSE, NEW o \in Operators, Operate(o)
  PROVE  UNCHANGED <<callVars, call, db, restarts, readings, pending>>
<1>1. UNCHANGED <<callVars, call, db, restarts>> /\ DeskMove(o)
  BY DeskMoves
<1>2. CASE Opened(o) \/ Viewed(o) \/ Snapped(o) \/ Rewritten(o)
  BY <1>1, <1>2 DEF Opened, Viewed, Snapped, Rewritten, PutBatch, storeVars
<1>3. CASE Updated(o) \/ Deleted(o) \/ Purged(o)
  BY <1>3 DEF Updated, Deleted, Purged
<1>. QED
  BY <1>1, <1>2, <1>3 DEF DeskMove

\* Retry and the operators, but for maintenance, delete neither readings nor
\* items and make no reading pending.
LEMMA OthersKeep ==
  ASSUME BaseInv, StoringAccepted, Maintained = FALSE,
         \/ \E a \in Admins : Administer(a)
         \/ \E o \in Operators : Operate(o)
  PROVE  /\ UNCHANGED <<callVars, db, restarts>>
         /\ DOMAIN pending \subseteq DOMAIN pending'
         /\ DOMAIN readings \subseteq DOMAIN readings'
         /\ \A id \in DOMAIN readings' : readings'[id] = "pending" =>
              id \in DOMAIN readings /\ readings[id] = "pending"
<1>0. R!CallTypeOK /\ DeskForm
  BY DEF BaseInv, StateTypeOK
<1>1. ASSUME NEW a \in Admins, Administer(a)
      PROVE  /\ UNCHANGED <<callVars, db, restarts>>
             /\ DOMAIN pending \subseteq DOMAIN pending'
             /\ DOMAIN readings \subseteq DOMAIN readings'
             /\ \A id \in DOMAIN readings' : readings'[id] = "pending" =>
                  id \in DOMAIN readings /\ readings[id] = "pending"
  <2>1. UNCHANGED <<callVars, db, restarts>> /\ RetryMove(a)
    BY <1>0, <1>1, RetryMoves
  <2>2. CASE UNCHANGED <<readings, pending>>
    BY <2>1, <2>2
  <2>3. CASE Stores(a)
    BY <2>1, <2>2, <2>3 DEF Stores, StoringAccepted, PutReading, Put, storeVars
  <2>4. CASE Updates(a)
    BY <2>1, <2>2, <2>4 DEF Updates, PutPending, Put, storeVars
  <2>5. CASE Loads(a) \/ GivesUp(a) \/ Fetches(a) \/ Records(a)
    BY <2>2, <2>5 DEF Loads, GivesUp, Fetches, Records, Record, RecordLost,
                      PutAudit, storeVars
  <2>. QED
    BY <2>1, <2>3, <2>4, <2>5 DEF RetryMove
<1>2. ASSUME NEW o \in Operators, Operate(o)
      PROVE  UNCHANGED <<callVars, db, restarts, readings, pending>>
  BY <1>0, <1>2, OperatorsKeep
<1>. QED
  BY <1>1, <1>2

\* As long as nobody deletes items by hand, what ProcessBatch keeps of readings
\* and their items it keeps in company.
LEMMA PlatformTracked ==
  ASSUME Maintained = FALSE, IOErrors = FALSE
  PROVE  BaseInv /\ LocalInv /\ TrackedInv /\ [PlatformNext]_platformVars
           => TrackedInv'
<1>. SUFFICES ASSUME BaseInv, LocalInv, TrackedInv, [PlatformNext]_platformVars
              PROVE  TrackedInv'
  OBVIOUS
<1>1. CASE [Next]_vars
  BY <1>1, StepTracked DEF BaseInv, StateTypeOK, SharedTypeOK, LocalInv
<1>2. CASE \/ \E a \in Admins : Administer(a)
           \/ \E o \in Operators : Operate(o)
  <2>1. /\ UNCHANGED <<callVars, db>>
        /\ DOMAIN pending \subseteq DOMAIN pending'
        /\ \A id \in DOMAIN readings' : readings'[id] = "pending" =>
             id \in DOMAIN readings /\ readings[id] = "pending"
    BY <1>2, OthersKeep DEF LocalInv
  <2>2. NoUntrackedPending'
    BY <2>1 DEF TrackedInv, NoUntrackedPending
  <2>3. ASSUME NEW c \in Calls PROVE CallTracked(c)'
    BY <2>1 DEF TrackedInv, CallTracked, InFlight, callVars
  <2>. QED
    BY <2>2, <2>3 DEF TrackedInv
<1>. QED
  BY <1>1, <1>2, IngestMoves DEF PlatformNext

-----------------------------------------------------------------------------
(* Snapshots *)

\* The readings are of the batch, and those that wait for review have an item.
BatchTracked(b, batch) ==
  \A r \in batch.readings :
    r.id[1] = b /\ (r.status = "pending" => r.id \in DOMAIN pending)

\* What makes SnapshotComplete inductive: it is so of the batches in the store,
\* and of the copies operators have taken of them.
SnapshotInv ==
  /\ SnapshotComplete
  /\ \A b \in DOMAIN batches : BatchTracked(b, batches[b])
  /\ \A o \in Operators : desk[o].at \in {"snapshotting", "reconciling"} =>
       BatchTracked(desk[o].subject, desk[o].copy)

\* What a call saves is tracked, because its goroutines are done.
LEMMA SavedTracked ==
  ASSUME CallTypeOK, PhaseInv, CollectInv, TrackedInv,
         \A b \in DOMAIN batches : BatchTracked(b, batches[b]), [Next]_vars
  PROVE  /\ DOMAIN pending \subseteq DOMAIN pending'
         /\ \A b \in DOMAIN batches' : BatchTracked(b, batches[b])'
<1>1. DOMAIN pending \subseteq DOMAIN pending'
  BY NextWrites
  DEF NothingWritten, ItemWritten, ReadingWritten, BatchWritten, PutPending,
      PutReading, SaveBatch, Put, PutAll
<1>2. CASE batches' = batches
  BY <1>1, <1>2 DEF BatchTracked
<1>3. ASSUME NEW c \in Calls, BatchWritten(c)
      PROVE  \A b \in DOMAIN batches' : BatchTracked(b, batches[b])'
  <2>1. /\ batches' = Put(batches, batchOf[c], draft[c])
        /\ phase[c] = "saving" /\ db = "open"
    BY <1>3 DEF BatchWritten, SaveBatch
  <2>2. draft[c].readings = all[c] /\ \A r \in all[c] : r.id[1] = batchOf[c]
    BY <2>1 DEF CollectInv, CallCollected
  <2>3. \A r \in all[c] : r.status = "pending" => r.id \in DOMAIN pending
    BY <2>1
    DEF PhaseInv, CallPhase, TrackedInv, CallTracked, InFlight, MutexFree, AllDone
  <2>4. BatchTracked(batchOf[c], draft[c])
    BY <2>2, <2>3 DEF BatchTracked
  <2>5. \A b \in DOMAIN batches' : BatchTracked(b, batches'[b])
    BY <2>1, <2>4 DEF Put
  <2>. QED
    BY <1>1, <2>5 DEF BatchTracked
<1>. QED
  BY <1>1, <1>2, <1>3, NextWrites
  DEF NothingWritten, ItemWritten, ReadingWritten, PutPending, PutReading

LEMMA NextSnapshot ==
  ASSUME Maintained = FALSE, IOErrors = FALSE
  PROVE  BaseInv /\ LocalInv /\ TrackedInv /\ SnapshotInv
           /\ [PlatformNext]_platformVars => SnapshotInv'
<1>. SUFFICES ASSUME BaseInv, LocalInv, TrackedInv, SnapshotInv,
                     [PlatformNext]_platformVars
              PROVE  SnapshotInv'
  OBVIOUS
<1>0. /\ CallTypeOK /\ R!CallTypeOK /\ DeskForm
      /\ PhaseInv /\ CollectInv /\ StoringAccepted
      /\ \A b \in DOMAIN batches : BatchTracked(b, batches[b])
      /\ \A o \in Operators : desk[o].at \in {"snapshotting", "reconciling"} =>
           BatchTracked(desk[o].subject, desk[o].copy)
      /\ SnapshotComplete
      /\ \A o \in Operators : desk[o].at \in {"snapshotting", "reconciling"} =>
           desk[o].copy \in SavedBatch
  BY DEF BaseInv, StateTypeOK, SharedTypeOK, LocalInv, SnapshotInv, DeskTypeOK
<1>1. ASSUME [Next]_vars, UNCHANGED <<call, desk>> PROVE SnapshotInv'
  <2>1. DOMAIN pending \subseteq DOMAIN pending'
        /\ \A b \in DOMAIN batches' : BatchTracked(b, batches[b])'
    BY <1>0, <1>1, SavedTracked
  <2>. QED
    BY <1>0, <1>1, <2>1 DEF SnapshotInv, SnapshotComplete, BatchTracked
<1>2. CASE PlatformRestart
  <2>1. [Next]_vars /\ IdleTypes'
    BY <1>2, IngestMoves
  <2>2. \A b \in DOMAIN batches' : BatchTracked(b, batches[b])'
    BY <1>0, <2>1, SavedTracked
  <2>. QED
    BY <2>1, <2>2 DEF SnapshotInv, SnapshotComplete, IdleTypes
<1>3. ASSUME NEW a \in Admins, Administer(a) PROVE SnapshotInv'
  <2>1. UNCHANGED <<desk, batches>> /\ DOMAIN pending \subseteq DOMAIN pending'
    BY <1>0, <1>3, RetryMoves, OthersKeep
  <2>. QED
    BY <1>0, <2>1 DEF SnapshotInv, SnapshotComplete, BatchTracked
<1>4. ASSUME NEW o \in Operators, Operate(o) PROVE SnapshotInv'
  <2>1. /\ \A p \in Operators : p # o => desk'[p] = desk[p]
        /\ DeskMove(o) /\ DOMAIN pending \subseteq DOMAIN pending'
    BY <1>0, <1>4, DeskMoves, OthersKeep
  \* It is enough to look at the call and the batches.
  <2>2. ASSUME desk'[o].at \in {"snapshotting", "reconciling"} =>
                 BatchTracked(desk'[o].subject, desk'[o].copy),
               desk'[o].answer.kind = "snapshot" =>
                 \A r \in desk'[o].answer.batch.readings :
                   r.status = "pending" => r.id \in desk'[o].answer.items,
               \A b \in DOMAIN batches' : BatchTracked(b, batches'[b])
        PROVE  SnapshotInv'
    BY <1>0, <2>1, <2>2 DEF SnapshotInv, SnapshotComplete, BatchTracked
  <2>3. /\ NoAnswer.kind = "none"
        /\ \A answer : AtRest(answer).at = "idle" /\ AtRest(answer).answer = answer
        /\ \A x, y : DashboardOf(x, y).kind = "dashboard"
    BY Resting DEF NoAnswer, DashboardOf
  <2>4. CASE Opened(o)
    <3>1. batches' = batches
      BY <2>4 DEF Opened, storeVars
    <3>2. /\ desk'[o].answer.kind = "none"
          /\ desk'[o].at \in {"snapshotting", "reconciling"} =>
               \E b \in DOMAIN batches : /\ desk'[o].subject = b
                                         /\ desk'[o].copy = batches[b]
      BY <2>4, OpenedFields
    <3>. QED
      BY <1>0, <2>2, <3>1, <3>2
  <2>5. CASE Viewed(o)
    BY <1>0, <2>2, <2>3, <2>5 DEF Viewed, storeVars
  <2>6. CASE Snapped(o)
    <3>1. UNCHANGED batches /\ desk[o].at = "snapshotting"
      BY <2>6 DEF Snapped, storeVars
    <3>. DEFINE items == {id \in DOMAIN pending : id[1] = desk[o].subject}
                snapshot == [kind |-> "snapshot", batch |-> desk[o].copy,
                             items |-> items]
    <3>2. CASE desk'[o] = AtRest(snapshot)
      <4>1. desk'[o].at = "idle" /\ desk'[o].answer = snapshot
        BY <2>3, <3>2
      <4>2. \A r \in desk[o].copy.readings : r.status = "pending" => r.id \in items
        BY <1>0, <3>1 DEF BatchTracked
      <4>3. snapshot.batch = desk[o].copy /\ snapshot.items = items
        OBVIOUS
      <4>. HIDE DEF snapshot, items
      <4>4. \A r \in desk'[o].answer.batch.readings :
              r.status = "pending" => r.id \in desk'[o].answer.items
        BY <4>1, <4>2, <4>3
      <4>. QED
        BY <1>0, <2>2, <3>1, <4>1, <4>4
    <3>3. CASE desk'[o] = AtRest(NoAnswer)
      BY <1>0, <2>2, <2>3, <3>1, <3>3
    <3>. QED
      BY <2>6, <3>2, <3>3 DEF Snapped
  <2>7. CASE Rewritten(o)
    <3>1. desk'[o].at = "idle" /\ desk'[o].answer.kind = "none"
          /\ desk[o].at = "reconciling"
      BY <2>3, <2>7 DEF Rewritten
    <3>2. CASE UNCHANGED storeVars
      BY <1>0, <2>2, <3>1, <3>2 DEF storeVars
    <3>3. CASE PutBatch(desk[o].subject, Reconciled(desk[o].copy))
      <4>1. Reconciled(desk[o].copy).readings = desk[o].copy.readings
        BY <1>0, <3>1 DEF Reconciled, SavedBatch
      <4>2. BatchTracked(desk[o].subject, Reconciled(desk[o].copy))
        BY <1>0, <3>1, <4>1 DEF BatchTracked
      <4>3. \A b \in DOMAIN batches' : BatchTracked(b, batches'[b])
        BY <1>0, <3>3, <4>2 DEF PutBatch, Put
      <4>. QED
        BY <2>2, <3>1, <4>3
    <3>. QED
      BY <2>7, <3>2, <3>3 DEF Rewritten
  <2>8. CASE Updated(o) \/ Deleted(o) \/ Purged(o)
    BY <2>8 DEF Updated, Deleted, Purged
  <2>. QED
    BY <2>1, <2>4, <2>5, <2>6, <2>7, <2>8 DEF DeskMove
<1>. QED
  BY <1>1, <1>2, <1>3, <1>4, IngestMoves DEF PlatformNext

\* If nobody deletes items by hand and no write fails, a snapshot holds the item
\* of every reading that waits in the batch it shows, though the two are read
\* in two transactions while calls go on; and so does the store.
THEOREM SnapshotsComplete ==
  ASSUME Maintained = FALSE, IOErrors = FALSE
  PROVE  PlatformSpec => [](SnapshotComplete /\ NoUntrackedPending)
<1>1. PlatformInit => TrackedInv /\ SnapshotInv
  <2>. SUFFICES ASSUME PlatformInit PROVE TrackedInv /\ SnapshotInv
    OBVIOUS
  <2>1. Init /\ IdleTypes
    BY IdleTyped DEF PlatformInit, Idle
  <2>2. DOMAIN batches = {}
    BY <2>1 DEF Init, StoreInit, NoBucket
  <2>. QED
    BY <2>1, <2>2, InitTracked DEF SnapshotInv, SnapshotComplete, IdleTypes
<1>2. SnapshotInv /\ TrackedInv => SnapshotComplete /\ NoUntrackedPending
  BY DEF SnapshotInv, TrackedInv
<1>. QED
  BY <1>1, <1>2, InitBase, NextBase, InitLocal, NextLocal, PlatformTracked,
     NextSnapshot, PTL
  DEF PlatformSpec

-----------------------------------------------------------------------------
(* Batches that are reconciled *)

\* If callers keep the parts apart, a batch is not received anew while it is
\* retried or reconciled.
LEMMA ReceivedApart ==
  ASSUME CallTypeOK, Mixed = FALSE, NEW c \in Calls, Receive(c), NEW b, Received(b)'
  PROVE  Received(b) \/ ~(Retried(b) \/ Reconciling(b))
<1>1. CASE Refuse(c) \/ CallStep(c)
  BY <1>1, FlightKept DEF Received
<1>2. ASSUME NEW a \in Batches, NEW S \in SUBSET Sources, Start(c, a, S),
             ~(Retried(a) \/ Reconciling(a))
      PROVE  Received(b) \/ ~(Retried(b) \/ Reconciling(b))
  BY <1>2 DEF CallTypeOK, Start, Received, InFlight
<1>. QED
  BY <1>1, <1>2 DEF Receive

\* What a reconciliation rests on: the copy an operator redoes the counts of still holds the readings of the batch, which nobody is receiving.
CopyFaithful(o) ==
  desk[o].at = "reconciling" =>
    /\ desk[o].subject \in DOMAIN batches
    /\ desk[o].copy.readings = batches[desk[o].subject].readings
    /\ ~Received(desk[o].subject)

ReconcileInv == \A o \in Operators : CopyFaithful(o)

\* A step in which an operator writes a batch back, or does not.
BatchesKept ==
  \A b \in DOMAIN batches :
    b \in DOMAIN batches' /\ batches'[b].readings = batches[b].readings

LEMMA NextReconcile ==
  ASSUME Mixed = FALSE
  PROVE  BaseInv /\ ReconcileInv /\ [PlatformNext]_platformVars => ReconcileInv'
<1>. SUFFICES ASSUME BaseInv, ReconcileInv, [PlatformNext]_platformVars
              PROVE  ReconcileInv'
  OBVIOUS
<1>0. /\ CallTypeOK /\ R!CallTypeOK /\ DeskForm
      /\ \A o \in Operators : CopyFaithful(o)
      /\ \A o \in Operators : desk[o].at \in {"snapshotting", "reconciling"} =>
           desk[o].copy \in SavedBatch
  BY DEF BaseInv, StateTypeOK, SharedTypeOK, ReconcileInv, DeskTypeOK
\* Receiving a batch disturbs no other.
<1>1. ASSUME NEW c \in Calls, Receive(c) PROVE ReconcileInv'
  <2>1. [Next]_vars /\ UNCHANGED desk
    BY <1>1, IngestMoves
  <2>2. ASSUME NEW o \in Operators, desk[o].at = "reconciling"
        PROVE  ~Received(desk[o].subject)'
    <3>1. Reconciling(desk[o].subject) /\ ~Received(desk[o].subject)
      BY <1>0, <2>2 DEF Reconciling, CopyFaithful
    <3>2. ASSUME NEW b, Reconciling(b), ~Received(b) PROVE ~Received(b)'
      BY <1>0, <1>1, <3>2, ReceivedApart
    <3>3. ~(\E d \in Calls : InFlight(d)' /\ batchOf'[d] = desk[o].subject)
      BY <3>1, <3>2 DEF Received
    <3>. QED
      BY <2>1, <3>3 DEF Received
  <2>3. ASSUME NEW o \in Operators, desk[o].at = "reconciling"
        PROVE  /\ desk[o].subject \in DOMAIN batches'
               /\ batches'[desk[o].subject] = batches[desk[o].subject]
    <3>1. desk[o].subject \in DOMAIN batches /\ ~Received(desk[o].subject)
      BY <1>0, <2>3 DEF CopyFaithful
    <3>2. CASE batches' = batches
      BY <3>1, <3>2
    <3>3. ASSUME NEW d \in Calls, BatchWritten(d)
          PROVE  /\ desk[o].subject \in DOMAIN batches'
                 /\ batches'[desk[o].subject] = batches[desk[o].subject]
      BY <3>1, <3>3 DEF BatchWritten, SaveBatch, Put, Received, InFlight
    <3>. QED
      BY <2>1, <3>2, <3>3, NextWrites
      DEF NothingWritten, ItemWritten, ReadingWritten, PutPending, PutReading
  <2>4. ASSUME NEW o \in Operators PROVE CopyFaithful(o)'
    BY <1>0, <2>1, <2>2, <2>3 DEF CopyFaithful
  <2>. QED
    BY <2>1, <2>4 DEF ReconcileInv
<1>2. CASE PlatformClose \/ PlatformRest \/ UNCHANGED platformVars
  <2>1. UNCHANGED <<desk, batches, phase, batchOf>>
    BY <1>2
    DEF PlatformClose, CloseStore, Close, buckets, PlatformRest, platformVars, vars,
        storeVars, callVars
  <2>. QED
    BY <1>0, <2>1 DEF ReconcileInv, CopyFaithful, Received, InFlight
<1>3. CASE PlatformRestart
  <2>1. IdleTypes'
    BY <1>3, IngestMoves
  <2>. QED
    BY <2>1 DEF IdleTypes, ReconcileInv, CopyFaithful
<1>4. ASSUME NEW a \in Admins, Administer(a) PROVE ReconcileInv'
  <2>1. UNCHANGED <<desk, batches, phase, batchOf>>
    BY <1>0, <1>4, RetryMoves DEF callVars
  <2>. QED
    BY <1>0, <2>1 DEF ReconcileInv, CopyFaithful, Received, InFlight
<1>5. ASSUME NEW o \in Operators, Operate(o) PROVE ReconcileInv'
  <2>1. /\ \A p \in Operators : p # o => desk'[p] = desk[p]
        /\ DeskMove(o) /\ UNCHANGED <<phase, batchOf>>
    BY <1>0, <1>5, DeskMoves DEF callVars
  <2>2. \A b : Received(b)' <=> Received(b)
    BY <2>1 DEF Received, InFlight
  \* It is enough to look at the call and the batches.
  <2>3. ASSUME CopyFaithful(o)', BatchesKept PROVE ReconcileInv'
    <3>1. ASSUME NEW p \in Operators, p # o PROVE CopyFaithful(p)'
      <4>1. desk'[p] = desk[p]
        BY <2>1, <3>1
      <4>2. desk[p].at = "reconciling" =>
              /\ desk[p].subject \in DOMAIN batches'
              /\ desk[p].copy.readings = batches'[desk[p].subject].readings
              /\ ~Received(desk[p].subject)
        BY <1>0, <2>3 DEF CopyFaithful, BatchesKept
      <4>. QED
        BY <2>1, <4>1, <4>2 DEF CopyFaithful, Received, InFlight
    <3>. QED
      BY <2>3, <3>1 DEF ReconcileInv
  <2>4. \A answer : AtRest(answer).at = "idle"
    BY Resting
  <2>5. CASE Opened(o)
    <3>1. batches' = batches
      BY <2>5 DEF Opened, storeVars
    <3>2. desk'[o].at = "reconciling" =>
            \E b \in DOMAIN batches : /\ desk'[o].subject = b
                                      /\ desk'[o].copy = batches[b]
                                      /\ ~Received(b)
      BY <2>5, OpenedFields
    <3>3. CopyFaithful(o)'
      BY <2>1, <3>1, <3>2 DEF CopyFaithful, Received, InFlight
    <3>. QED
      BY <2>3, <3>1, <3>3 DEF BatchesKept
  <2>6. CASE Viewed(o) \/ Snapped(o)
    BY <2>3, <2>4, <2>6 DEF Viewed, Snapped, CopyFaithful, BatchesKept, storeVars
  <2>7. CASE Rewritten(o)
    <3>1. CopyFaithful(o)' /\ desk[o].at = "reconciling"
      BY <2>4, <2>7 DEF Rewritten, CopyFaithful
    <3>2. CASE UNCHANGED storeVars
      BY <2>3, <3>1, <3>2 DEF BatchesKept, storeVars
    <3>3. CASE PutBatch(desk[o].subject, Reconciled(desk[o].copy))
      <4>1. Reconciled(desk[o].copy).readings = batches[desk[o].subject].readings
        BY <1>0, <3>1 DEF Reconciled, SavedBatch, CopyFaithful
      <4>2. BatchesKept
        BY <3>3, <4>1 DEF PutBatch, Put, BatchesKept
      <4>. QED
        BY <2>3, <3>1, <4>2
    <3>. QED
      BY <2>7, <3>2, <3>3 DEF Rewritten
  <2>8. CASE Updated(o) \/ Deleted(o) \/ Purged(o)
    <3>1. batches' = batches
      BY <2>8, DeletedItems DEF Updated, Deleted, Purged, PutPending, storeVars
    <3>2. desk'[o].at = "reconciling" => desk'[o] = desk[o]
      <4>1. \A w, d : WellFormed(w) => [w EXCEPT !.doomed = d].at = w.at
        BY DEF WellFormed
      <4>. QED
        BY <1>0, <2>4, <2>8, <4>1 DEF Updated, Deleted, Purged, DeskForm
    <3>3. CopyFaithful(o)'
      BY <1>0, <2>1, <3>1, <3>2 DEF CopyFaithful, Received, InFlight
    <3>. QED
      BY <2>3, <3>1, <3>3 DEF BatchesKept
  <2>. QED
    BY <2>1, <2>5, <2>6, <2>7, <2>8 DEF DeskMove
<1>. QED
  BY <1>1, <1>2, <1>3, <1>4, <1>5 DEF PlatformNext

LEMMA InitReconcile == PlatformInit => ReconcileInv
BY IdleTyped DEF PlatformInit, Idle, IdleTypes, ReconcileInv, CopyFaithful

-----------------------------------------------------------------------------
(* Accepted items *)

\* Vendors answer with the device asked for, in a form the store takes.
Aligned ==
  \A id \in ReadingIds : \A offer \in Offers[id] : offer.id = id /\ offer.storable

\* The ids that no accepted item has.
Unsettled == {id \in ReadingIds :
                id \in DOMAIN pending => pending[id].status # "accepted"}

\* What makes AcceptedStaysBacked inductive.  A call that is being received
\* finds none of its pending readings accepted, and writes back pending items
\* only; ...
CallUnsettled(c) ==
  /\ db = "open" => Covered(c, Unsettled)
  /\ \A id \in DOMAIN listed[c] : listed[c][id].status = "pending"

\* ... a call of Retry that is about to tell that an item was accepted has
\* stored the reading, and the batch of that item is not being received.
RetryBacked(a) ==
  /\ call[a].at # "idle" => ~Received(call[a].target[1])
  /\ call[a].at = "storing" =>
       /\ call[a].got.id = call[a].target
       /\ call[a].got.storable
       /\ call[a].got.status = "accepted"
  /\ call[a].at = "updating" /\ call[a].copy.status = "accepted" /\ db = "open" =>
       /\ call[a].target \in DOMAIN readings
       /\ readings[call[a].target] = "accepted"

BackedInv ==
  /\ AcceptedStaysBacked
  /\ \A c \in Calls : CallUnsettled(c)
  /\ \A a \in Admins : RetryBacked(a)

LEMMA InitBacked == PlatformInit => BackedInv
<1>. SUFFICES ASSUME PlatformInit PROVE BackedInv
  OBVIOUS
<1>1. /\ DOMAIN pending = {} /\ \A c \in Calls : DOMAIN listed[c] = {}
      /\ \A c \in Calls : ~InFlight(c)
  BY DEF PlatformInit, Init, StoreInit, NoBucket, InFlight
<1>2. IdleTypes
  BY IdleTyped DEF PlatformInit, Idle
<1>. QED
  BY <1>1, <1>2
  DEF BackedInv, AcceptedStaysBacked, R!AcceptedBacked, CallUnsettled, Covered,
      RetryBacked, IdleTypes

\* A call of ProcessBatch settles nothing, and what it writes over is either a
\* reading of the batch it receives or keeps its value.
LEMMA ReceivedWrites ==
  ASSUME CallTypeOK, CollectInv, \A c \in Calls : CallUnsettled(c), [Next]_vars
  PROVE  /\ Unsettled \subseteq Unsettled'
         /\ \A id \in DOMAIN pending' : pending'[id].status = "accepted" =>
              id \in DOMAIN pending /\ pending[id].status = "accepted"
         /\ \A id \in DOMAIN readings :
              /\ id \in DOMAIN readings'
              /\ readings'[id] = readings[id] \/ Received(id[1])
<1>1. CASE NothingWritten
  BY <1>1 DEF NothingWritten, Unsettled
<1>2. ASSUME NEW c \in Calls, ItemWritten(c)
      PROVE  /\ readings' = readings
             /\ \A id \in DOMAIN pending' : pending'[id].status = "accepted" =>
                  id \in DOMAIN pending /\ pending[id].status = "accepted"
  BY <1>2 DEF ItemWritten, PutPending, Put, NewItem
<1>3. ASSUME NEW c \in Calls, ReadingWritten(c)
      PROVE  /\ pending' = pending
             /\ \A id \in DOMAIN readings :
                  /\ id \in DOMAIN readings'
                  /\ readings'[id] = readings[id] \/ Received(id[1])
  <2>1. hand[c].id[1] = batchOf[c] /\ InFlight(c)
    BY <1>3 DEF ReadingWritten, CollectInv, CallCollected, InFlight
  <2>. QED
    BY <1>3, <2>1 DEF ReadingWritten, PutReading, Put, Received
<1>4. ASSUME NEW c \in Calls, BatchWritten(c)
      PROVE  /\ \A id \in DOMAIN pending' : pending'[id].status = "accepted" =>
                  id \in DOMAIN pending /\ pending[id].status = "accepted"
             /\ \A id \in DOMAIN readings :
                  /\ id \in DOMAIN readings'
                  /\ readings'[id] = readings[id] \/ Received(id[1])
  <2>1. PICK w \in Written(all[c]) :
          /\ readings' = PutAll(readings, w)
          /\ pending' = PutAll(pending, listed[c])
    BY <1>4 DEF BatchWritten, SaveBatch
  <2>2. InFlight(c) /\ \A id \in DOMAIN w : id[1] = batchOf[c]
    BY <1>4 DEF BatchWritten, InFlight, Written, CollectInv, CallCollected
  <2>. QED
    BY <2>1, <2>2 DEF PutAll, Received, CallUnsettled
<1>. QED
  BY <1>1, <1>2, <1>3, <1>4, NextWrites DEF Unsettled

\* Receiving a batch keeps an accepted reading behind every accepted item.
LEMMA StepUnsettled ==
  ASSUME IOErrors = FALSE
  PROVE  CallTypeOK /\ PhaseInv /\ CollectInv /\ [Next]_vars /\ AcceptedStaysBacked
         /\ (\A c \in Calls : CallUnsettled(c))
           => AcceptedStaysBacked' /\ \A c \in Calls : CallUnsettled(c)'
<1>. SUFFICES ASSUME CallTypeOK, PhaseInv, CollectInv, [Next]_vars,
                     AcceptedStaysBacked, \A c \in Calls : CallUnsettled(c)
              PROVE  AcceptedStaysBacked' /\ \A c \in Calls : CallUnsettled(c)'
  OBVIOUS
<1>1. ASSUME NEW d \in Calls PROVE CallUnsettled(d)'
  <2>1. \A id \in DOMAIN listed'[d] : listed'[d][id].status = "pending"
    <3>. DEFINE found == Select(ListPending("pending"), {batchOf[d]} \X Devices)
    <3>1. \A id \in DOMAIN found : found[id].status = "pending"
      BY DEF Select, ListPending
    <3>. HIDE DEF found
    <3>2. listed'[d] = listed[d] \/ listed'[d] = found
      BY NextListed DEF found
    <3>. QED
      BY <3>1, <3>2 DEF CallUnsettled
  <2>2. ASSUME InFlight(d)', db' = "open" PROVE Covered(d, Unsettled)'
    <3>1. db = "open"
      BY <2>2, FlightOpen
    <3>2. Covered(d, Unsettled) /\ Unsettled \subseteq Unsettled'
      BY <3>1, ReceivedWrites DEF CallUnsettled
    <3>3. StoreItem(d) => hand[d].id \in Unsettled'
      <4>. SUFFICES ASSUME StoreItem(d) PROVE hand[d].id \in Unsettled'
        OBVIOUS
      <4>1. hand[d] \in Reading
        BY DEF StoreItem, CallTypeOK
      <4>2. pending' = Put(pending, hand[d].id, NewItem)
        BY <3>1 DEF StoreItem, WriteFails, PutPending
      <4>. QED
        BY <4>1, <4>2 DEF Put, NewItem, Unsettled, Reading
    <3>. QED
      BY <3>2, <3>3, StepCovered DEF Covered
  <2>. QED
    BY <2>1, <2>2 DEF CallUnsettled, Covered
<1>2. AcceptedStaysBacked'
  <2>1. \A id \in DOMAIN pending' : pending'[id].status = "accepted" =>
          /\ id \in DOMAIN pending /\ pending[id].status = "accepted"
          /\ id \in DOMAIN readings /\ readings[id] = "accepted"
          /\ id \in DOMAIN readings' /\ id \notin Unsettled
    BY ReceivedWrites DEF AcceptedStaysBacked, R!AcceptedBacked, Unsettled
  <2>2. CASE readings' = readings
    BY <2>1, <2>2 DEF AcceptedStaysBacked, R!AcceptedBacked
  <2>3. ASSUME NEW c \in Calls, ReadingWritten(c) PROVE AcceptedStaysBacked'
    <3>1. hand[c] \in Reading
      BY <2>3 DEF ReadingWritten, CallTypeOK
    <3>2. hand[c].status = "accepted" \/ hand[c].id \in Unsettled
      BY <2>3, <3>1 DEF ReadingWritten, CallUnsettled, Covered, InFlight, Reading
    <3>. QED
      BY <2>1, <2>3, <3>2
      DEF ReadingWritten, PutReading, Put, AcceptedStaysBacked, R!AcceptedBacked
  <2>4. ASSUME NEW c \in Calls, BatchWritten(c) PROVE AcceptedStaysBacked'
    <3>1. \A r \in all[c] : r.status = "accepted" \/ r.id \in Unsettled
      <4>1. InFlight(c) /\ step[c] = "next" /\ db = "open"
        BY <2>4
        DEF BatchWritten, PhaseInv, CallPhase, InFlight, MutexFree, AllDone
      <4>2. all[c] \in SUBSET Reading
        BY DEF CallTypeOK
      <4>. QED
        BY <4>1, <4>2 DEF Reading, CallUnsettled, Covered
    <3>2. PICK w \in Written(all[c]) : readings' = PutAll(readings, w)
      BY <2>4 DEF BatchWritten, SaveBatch
    <3>3. \A id \in DOMAIN w : w[id] = "accepted" \/ id \in Unsettled
      BY <3>1 DEF Written
    <3>. QED
      BY <2>1, <3>2, <3>3 DEF PutAll, AcceptedStaysBacked, R!AcceptedBacked
  <2>. QED
    BY <2>2, <2>3, <2>4, NextWrites DEF NothingWritten, ItemWritten, PutPending
<1>. QED
  BY <1>1, <1>2

\* Every step of the service keeps an accepted reading behind every accepted item.
LEMMA NextBacked ==
  ASSUME Aligned, Mixed = FALSE, Maintained = FALSE, IOErrors = FALSE
  PROVE  BaseInv /\ LocalInv /\ BackedInv /\ [PlatformNext]_platformVars => BackedInv'
<1>. SUFFICES ASSUME BaseInv, LocalInv, BackedInv, [PlatformNext]_platformVars
              PROVE  BackedInv'
  OBVIOUS
<1>0. /\ CallTypeOK /\ R!CallTypeOK /\ DeskForm /\ PhaseInv /\ CollectInv
      /\ call \in [Admins -> R!Call] /\ db \in {"open", "closed"}
      /\ \A a \in Admins : call[a].at # "idle" => call[a].target \in ReadingIds
      /\ AcceptedStaysBacked /\ \A c \in Calls : CallUnsettled(c)
      /\ \A a \in Admins : RetryBacked(a)
  BY DEF BaseInv, StateTypeOK, SharedTypeOK, DataTypeOK, LocalInv, BackedInv,
         R!CallTypeOK
<1>1. ASSUME [Next]_vars, \A a \in Admins : RetryBacked(a)' PROVE BackedInv'
  BY <1>0, <1>1, StepUnsettled DEF BackedInv
\* No batch is received anew while one of its items is retried.
<1>2. ASSUME NEW c \in Calls, Receive(c) PROVE BackedInv'
  <2>1. [Next]_vars /\ call' = call
    BY <1>2, IngestMoves
  <2>2. ASSUME NEW a \in Admins, call[a].at # "idle"
        PROVE  ~Received(call[a].target[1])'
    <3>1. ~Received(call[a].target[1]) /\ Retried(call[a].target[1])
      BY <1>0, <2>2 DEF RetryBacked, Retried, R!InRetry, ReadingIds
    <3>2. ASSUME NEW b, Retried(b), ~Received(b) PROVE ~Received(b)'
      BY <1>0, <1>2, <3>2, ReceivedApart
    <3>3. ~(\E d \in Calls : InFlight(d)' /\ batchOf'[d] = call[a].target[1])
      BY <3>1, <3>2 DEF Received
    <3>. QED
      BY <2>1, <3>3 DEF Received
  <2>3. db' = db
    BY <1>2, CallsKeepOpen DEF Receive
  <2>4. ASSUME NEW a \in Admins PROVE RetryBacked(a)'
    <3>1. \A id \in DOMAIN readings : id \in DOMAIN readings' /\
            (readings'[id] = readings[id] \/ Received(id[1]))
      BY <1>0, <2>1, ReceivedWrites
    <3>. QED
      BY <1>0, <2>1, <2>2, <2>3, <3>1 DEF RetryBacked
  <2>. QED
    BY <1>1, <2>1, <2>4
<1>3. CASE PlatformClose \/ PlatformRest \/ UNCHANGED platformVars
  <2>1. /\ [Next]_vars /\ UNCHANGED <<call, phase, batchOf, readings>>
        /\ db' \in {db, "closed"}
    BY <1>3, IngestMoves
    DEF PlatformClose, CloseStore, Close, buckets, PlatformRest, platformVars, vars,
        storeVars, callVars
  <2>2. \A a \in Admins : RetryBacked(a)'
    BY <1>0, <2>1 DEF RetryBacked, Received, InFlight
  <2>. QED
    BY <1>1, <2>1, <2>2
<1>4. CASE PlatformRestart
  <2>1. [Next]_vars /\ IdleTypes'
    BY <1>4, IngestMoves
  <2>. QED
    BY <1>1, <2>1 DEF IdleTypes, RetryBacked
<1>5. ASSUME NEW o \in Operators, Operate(o) PROVE BackedInv'
  <2>1. UNCHANGED <<callVars, call, db, readings, pending>>
    BY <1>0, <1>5, OperatorsKeep
  <2>2. Unsettled' = Unsettled
    BY <2>1 DEF Unsettled
  <2>. QED
    BY <1>0, <2>1, <2>2
    DEF BackedInv, AcceptedStaysBacked, R!AcceptedBacked, CallUnsettled, Covered,
        RetryBacked, Received, InFlight, callVars
<1>6. ASSUME NEW a \in Admins, Administer(a) PROVE BackedInv'
  <2>1. /\ call' = [call EXCEPT ![a] = call'[a]]
        /\ UNCHANGED <<callVars, db>> /\ RetryMove(a)
    BY <1>0, <1>6, RetryMoves
  <2>2. \A b : Received(b)' <=> Received(b)
    BY <2>1 DEF Received, InFlight, callVars
  <2>3. /\ R!NoCall.at = "idle"
        /\ \A id, item : /\ R!Loaded(id, item).at = "fetching"
                         /\ R!Loaded(id, item).target = id
    BY DEF R!NoCall, R!Loaded
  \* It is enough to look at the call, the readings and the items.
  <2>4. ASSUME \A id \in DOMAIN readings :
                 id \in DOMAIN readings' /\ readings'[id] \in {readings[id], "accepted"},
               pending' = pending, RetryBacked(a)'
        PROVE  BackedInv'
    <3>1. ASSUME NEW b \in Admins, b # a PROVE RetryBacked(b)'
      BY <1>0, <2>1, <2>2, <2>4, <3>1 DEF RetryBacked
    <3>2. AcceptedStaysBacked'
      BY <1>0, <2>4 DEF AcceptedStaysBacked, R!AcceptedBacked
    <3>3. ASSUME NEW c \in Calls PROVE CallUnsettled(c)'
      BY <1>0, <2>1, <2>4
      DEF CallUnsettled, Covered, Unsettled, InFlight, callVars
    <3>. QED
      BY <2>4, <3>1, <3>2, <3>3 DEF BackedInv
  <2>5. CASE Loads(a)
    <3>1. PICK id \in ReadingIds \cap DOMAIN pending :
            ~Received(id[1]) /\ call'[a] = R!Loaded(id, pending[id])
      BY <2>5 DEF Loads
    <3>. QED
      BY <2>2, <2>3, <2>4, <2>5, <3>1 DEF Loads, RetryBacked, storeVars
  <2>6. CASE GivesUp(a)
    BY <2>3, <2>4, <2>6 DEF GivesUp, RetryBacked, storeVars
  <2>7. CASE Fetches(a)
    <3>1. PICK offer \in Offers[call[a].target] :
            call'[a] = [at     |-> R!AfterFetch(offer.status),
                        target |-> call[a].target,
                        copy   |-> R!Attempted(call[a].copy, offer.status),
                        got    |-> offer]
      BY <2>7 DEF Fetches
    <3>2. /\ call[a].at = "fetching" /\ call[a].target \in ReadingIds
          /\ offer.id = call[a].target /\ offer.storable
          /\ offer.status \in {"accepted", "pending"}
      BY <1>0, <2>7, AdministratorsAssumption
      DEF Fetches, Aligned, R!Offer
    <3>3. RetryBacked(a)'
      BY <1>0, <2>2, <3>1, <3>2 DEF RetryBacked, R!AfterFetch, R!Attempted
    <3>. QED
      BY <2>4, <2>7, <3>3 DEF Fetches, storeVars
  <2>8. CASE Stores(a)
    <3>1. /\ call[a].at = "storing" /\ call'[a].at = "updating"
          /\ call'[a].target = call[a].target
          /\ call[a].got.id = call[a].target /\ call[a].got.storable
          /\ call[a].got.status = "accepted"
      BY <1>0, <2>8 DEF Stores, RetryBacked, R!Call
    <3>2. CASE PutReading(call[a].target, "accepted")
      <4>1. /\ \A id \in DOMAIN readings :
                 /\ id \in DOMAIN readings'
                 /\ readings'[id] \in {readings[id], "accepted"}
            /\ call[a].target \in DOMAIN readings'
            /\ readings'[call[a].target] = "accepted"
            /\ pending' = pending
        BY <3>2 DEF PutReading, Put
      <4>. QED
        BY <1>0, <2>2, <2>4, <3>1, <4>1 DEF RetryBacked
    <3>3. CASE db = "closed" /\ UNCHANGED storeVars
      BY <1>0, <2>2, <2>4, <3>1, <3>3 DEF RetryBacked, storeVars
    <3>. QED
      BY <2>8, <3>1, <3>2, <3>3 DEF Stores, WriteFails
  <2>9. CASE Updates(a)
    <3>1. /\ call'[a].at \in {"idle", "recording"}
          /\ call'[a].at = "recording" => call'[a].target = call[a].target
      BY <1>0, <2>3, <2>9 DEF Updates, R!Call
    <3>2. call[a].at = "updating" /\ ~Received(call[a].target[1])
      BY <1>0, <2>9 DEF Updates, RetryBacked
    <3>3. RetryBacked(a)'
      BY <2>2, <3>1, <3>2 DEF RetryBacked
    <3>4. CASE UNCHANGED storeVars
      BY <2>4, <3>3, <3>4 DEF storeVars
    <3>5. CASE PutPending(call[a].target, call[a].copy) /\ db = "open"
      <4>1. /\ pending' = Put(pending, call[a].target, call[a].copy)
            /\ readings' = readings
        BY <3>5 DEF PutPending
      <4>2. AcceptedStaysBacked'
        BY <1>0, <3>2, <3>5, <4>1
        DEF AcceptedStaysBacked, R!AcceptedBacked, Put, RetryBacked
      <4>3. ASSUME NEW c \in Calls PROVE CallUnsettled(c)'
        <5>1. ASSUME NEW r \in all[c], InFlight(c), r.id \in Unsettled
              PROVE  r.id \in Unsettled'
          <6>1. r.id # call[a].target
            BY <1>0, <3>2, <5>1 DEF CollectInv, CallCollected, Received
          <6>. QED
            BY <4>1, <5>1, <6>1 DEF Unsettled, Put
        <5>2. step[c] = "reading" => hand[c] \in all[c]
          BY <1>0 DEF CollectInv, CallCollected
        <5>. QED
          BY <1>0, <2>1, <5>1, <5>2 DEF CallUnsettled, Covered, InFlight, callVars
      <4>4. ASSUME NEW b \in Admins, b # a PROVE RetryBacked(b)'
        BY <1>0, <2>1, <2>2, <4>1, <4>4 DEF RetryBacked
      <4>. QED
        BY <3>3, <4>2, <4>3, <4>4 DEF BackedInv
    <3>. QED
      BY <2>9, <3>4, <3>5 DEF Updates, WriteCommits
  <2>10. CASE Records(a)
    BY <2>3, <2>4, <2>10
    DEF Records, Record, RecordLost, PutAudit, RetryBacked, storeVars
  <2>. QED
    BY <2>1, <2>5, <2>6, <2>7, <2>8, <2>9, <2>10 DEF RetryMove
<1>. QED
  BY <1>2, <1>3, <1>4, <1>5, <1>6 DEF PlatformNext

\* If callers do not retry a batch while it is received, vendors answer with the
\* device asked for, nobody maintains items by hand and writes do not fail, an
\* accepted item has an accepted reading, though ProcessBatch writes readings
\* and items back without asking what became of them.
THEOREM AcceptedStays ==
  ASSUME Aligned, Mixed = FALSE, Maintained = FALSE, IOErrors = FALSE
  PROVE  PlatformSpec => []AcceptedStaysBacked
<1>1. BackedInv => AcceptedStaysBacked
  BY DEF BackedInv
<1>. QED
  BY <1>1, InitBase, NextBase, InitLocal, NextLocal, InitBacked, NextBacked, PTL
  DEF PlatformSpec

-----------------------------------------------------------------------------
(* The report of the batches *)

\* The calls that were made.
Made == {c \in Calls : phase[c] # "idle"}

\* A call for batch b has collected these readings, and will collect no more.
Gathered(b, rows) ==
  \E c \in Calls : /\ phase[c] \notin {"idle", "collecting"}
                   /\ batchOf[c] = b /\ all[c] = rows

\* A call has collected a reading of this id that waits for review.
Waits(id) ==
  \E c \in Made : /\ batchOf[c] = id[1]
                  /\ \E r \in all[c] : r.id = id /\ r.status = "pending"

\* What makes ReportNeverTooGood inductive: a stored reading that waits was
\* collected so, by a call for its batch; a stored batch, and the copy of one
\* that is about to be written back, holds all that a call for it collected.
ReportInv ==
  /\ IsFiniteSet(Made)
  /\ \A id \in DOMAIN readings : readings[id] = "pending" => Waits(id)
  /\ \A b \in DOMAIN batches : Gathered(b, batches[b].readings)
  /\ \A o \in Operators : desk[o].at = "reconciling" =>
       Gathered(desk[o].subject, desk[o].copy.readings)

LEMMA InitReport == PlatformInit => ReportInv
<1>. SUFFICES ASSUME PlatformInit PROVE ReportInv
  OBVIOUS
<1>1. DOMAIN readings = {} /\ DOMAIN batches = {} /\ Made = {}
  BY DEF PlatformInit, Init, StoreInit, NoBucket, Made
<1>2. IdleTypes
  BY IdleTyped DEF PlatformInit, Idle
<1>. QED
  BY <1>1, <1>2, FS_EmptySet DEF IdleTypes, ReportInv

\* A call keeps its batch and what it has collected, and one call is made at
\* a time.
LEMMA CallsGoOn ==
  ASSUME CallTypeOK, [Next]_vars
  PROVE  /\ \A d \in Made : /\ d \in Made' /\ batchOf'[d] = batchOf[d]
                            /\ all[d] \subseteq all'[d]
         /\ \A d \in Made : phase[d] # "collecting" =>
              phase'[d] # "collecting" /\ all'[d] = all[d]
         /\ \E c \in Calls : Made' \subseteq Made \cup {c}
<1>0. /\ phase \in [Calls -> Phases] /\ batchOf \in [Calls -> Batches]
      /\ all \in [Calls -> SUBSET Reading]
  BY DEF CallTypeOK
<1>1. CASE UNCHANGED <<phase, batchOf, all>>
  BY <1>1, CallsAssumption DEF Made
<1>2. ASSUME NEW c \in Calls, NEW b \in Batches, NEW S \in SUBSET Sources, Start(c, b, S)
      PROVE  /\ phase[c] = "idle" /\ phase' = [phase EXCEPT ![c] = "collecting"]
             /\ batchOf' = [batchOf EXCEPT ![c] = b] /\ all' = all
  BY <1>2 DEF Start
<1>3. ASSUME NEW c \in Calls, NEW r \in todo[c], Tally(c, r)
      PROVE  /\ phase[c] = "collecting" /\ UNCHANGED <<phase, batchOf>>
             /\ all' = [all EXCEPT ![c] = @ \cup {r}]
  BY <1>3 DEF Tally
<1>4. ASSUME NEW c \in Calls,
             \/ Refuse(c) \/ JoinEmpty(c) \/ Join(c) \/ List(c) \/ Save(c)
             \/ RecordBatch(c)
      PROVE  /\ UNCHANGED <<batchOf, all>>
             /\ \E p \in Phases \ {"idle", "collecting"} :
                  phase' = [phase EXCEPT ![c] = p]
  BY <1>4 DEF Refuse, JoinEmpty, Join, List, Save, RecordBatch, Phases
<1>5. CASE Restart
  <2>1. /\ UNCHANGED <<batchOf, all>>
        /\ phase' = [c \in Calls |-> IF InFlight(c) THEN "lost" ELSE phase[c]]
    BY <1>5 DEF Restart
  <2>2. Made' = Made
    BY <1>0, <2>1 DEF Made, InFlight
  <2>. QED
    BY <1>0, <2>1, <2>2, CallsAssumption DEF Made, InFlight
<1>6. ASSUME NEW c \in Calls,
             \/ \E s \in Sources : FetchFails(c, s) \/ Unlock(c, s)
             \/ \E s \in Sources : \E resp \in Feeds[s] : Fetch(c, s, resp)
             \/ StoreItem(c) \/ StoreReading(c)
      PROVE  UNCHANGED <<phase, batchOf, all>>
  BY <1>6 DEF FetchFails, Unlock, Fetch, StoreItem, StoreReading
<1>7. CloseStore \/ Rest \/ UNCHANGED vars => UNCHANGED <<phase, batchOf, all>>
  BY DEF CloseStore, Rest, vars, callVars
<1>8. ASSUME NEW c \in Calls, NEW b \in Batches, NEW S \in SUBSET Sources, Start(c, b, S)
      PROVE  /\ \A d \in Made : /\ d \in Made' /\ batchOf'[d] = batchOf[d]
                                /\ all[d] \subseteq all'[d]
             /\ \A d \in Made : phase[d] # "collecting" =>
                  phase'[d] # "collecting" /\ all'[d] = all[d]
             /\ Made' \subseteq Made \cup {c}
  BY <1>0, <1>2, <1>8 DEF Made
<1>9. ASSUME NEW c \in Calls, NEW r \in todo[c], Tally(c, r)
      PROVE  /\ \A d \in Made : /\ d \in Made' /\ batchOf'[d] = batchOf[d]
                                /\ all[d] \subseteq all'[d]
             /\ \A d \in Made : phase[d] # "collecting" =>
                  phase'[d] # "collecting" /\ all'[d] = all[d]
             /\ Made' \subseteq Made \cup {c}
  BY <1>0, <1>3, <1>9 DEF Made
<1>10. ASSUME NEW c \in Calls,
              \/ Refuse(c) \/ JoinEmpty(c) \/ Join(c) \/ List(c) \/ Save(c)
              \/ RecordBatch(c)
       PROVE  /\ \A d \in Made : /\ d \in Made' /\ batchOf'[d] = batchOf[d]
                                 /\ all[d] \subseteq all'[d]
              /\ \A d \in Made : phase[d] # "collecting" =>
                   phase'[d] # "collecting" /\ all'[d] = all[d]
              /\ Made' \subseteq Made \cup {c}
  BY <1>0, <1>4, <1>10 DEF Made, Phases
<1>. QED
  BY <1>1, <1>5, <1>6, <1>7, <1>8, <1>9, <1>10 DEF Next, CallStep, WriteOut

\* What was collected stays so.
LEMMA GatheredStays ==
  ASSUME CallTypeOK, [Next]_vars
  PROVE  /\ \A b, rows : Gathered(b, rows) =>
              \E c \in Calls : /\ phase'[c] \notin {"idle", "collecting"}
                               /\ batchOf'[c] = b /\ all'[c] = rows
         /\ \A id : Waits(id) => Waits(id)'
<1>1. ASSUME NEW b, NEW rows, Gathered(b, rows)
      PROVE  \E c \in Calls : /\ phase'[c] \notin {"idle", "collecting"}
                              /\ batchOf'[c] = b /\ all'[c] = rows
  <2>1. PICK c \in Made : /\ phase[c] # "collecting"
                          /\ batchOf[c] = b /\ all[c] = rows
    BY <1>1 DEF Gathered, Made
  <2>2. c \in Made' /\ phase'[c] # "collecting" /\ batchOf'[c] = b /\ all'[c] = rows
    BY <2>1, CallsGoOn
  <2>. QED
    BY <2>2 DEF Made
<1>2. ASSUME NEW id, Waits(id) PROVE Waits(id)'
  <2>1. PICK c \in Made : /\ batchOf[c] = id[1]
                          /\ \E r \in all[c] : r.id = id /\ r.status = "pending"
    BY <1>2 DEF Waits
  <2>2. c \in Made' /\ batchOf'[c] = id[1] /\ all[c] \subseteq all'[c]
    BY <2>1, CallsGoOn
  <2>. QED
    BY <2>1, <2>2 DEF Waits
<1>. QED
  BY <1>1, <1>2

\* What ProcessBatch stores, it has collected.
LEMMA StepReport ==
  ASSUME CallTypeOK, CollectInv, ReportInv, [Next]_vars,
         (\A o \in Operators : desk[o].at = "reconciling" =>
            Gathered(desk[o].subject, desk[o].copy.readings))'
  PROVE  ReportInv'
<1>0. /\ phase \in [Calls -> Phases]
      /\ \A b \in DOMAIN batches :
           \E c \in Calls : /\ phase'[c] \notin {"idle", "collecting"}
                            /\ batchOf'[c] = b /\ all'[c] = batches[b].readings
      /\ \A id \in DOMAIN readings : readings[id] = "pending" => Waits(id)'
  BY GatheredStays DEF ReportInv, CallTypeOK
<1>1. IsFiniteSet(Made)'
  <2>1. PICK c \in Calls : Made' \subseteq Made \cup {c}
    BY CallsGoOn
  <2>2. IsFiniteSet(Made \cup {c})
    BY FS_AddElement DEF ReportInv
  <2>. QED
    BY <2>1, <2>2, FS_Subset
\* It is enough to look at what is written.
<1>2. ASSUME \A id \in DOMAIN readings' : readings'[id] = "pending" =>
               Waits(id)' \/ (id \in DOMAIN readings /\ readings[id] = "pending"),
             \A b \in DOMAIN batches' :
               \/ b \in DOMAIN batches /\ batches'[b] = batches[b]
               \/ \E c \in Calls : /\ phase'[c] \notin {"idle", "collecting"}
                                   /\ batchOf'[c] = b /\ all'[c] = batches'[b].readings
      PROVE  ReportInv'
  <2>1. \A id \in DOMAIN readings' : readings'[id] = "pending" => Waits(id)'
    BY <1>0, <1>2
  <2>2. \A b \in DOMAIN batches' :
          \E c \in Calls : /\ phase'[c] \notin {"idle", "collecting"}
                           /\ batchOf'[c] = b /\ all'[c] = batches'[b].readings
    BY <1>0, <1>2
  <2>3. (\A b \in DOMAIN batches : Gathered(b, batches[b].readings))'
    BY <2>2 DEF Gathered
  <2>. QED
    BY <1>1, <2>1, <2>3 DEF ReportInv
<1>3. CASE UNCHANGED <<readings, batches>>
  BY <1>2, <1>3
<1>4. ASSUME NEW c \in Calls, ReadingWritten(c) PROVE ReportInv'
  <2>1. /\ c \in Made' /\ all'[c] = all[c] /\ batchOf'[c] = batchOf[c]
        /\ hand[c] \in all[c] /\ hand[c].id[1] = batchOf[c] /\ batches' = batches
        /\ readings' = Put(readings, hand[c].id, hand[c].status)
    BY <1>4 DEF ReadingWritten, Made, CollectInv, CallCollected, PutReading
  <2>2. \A id : id = hand[c].id /\ hand[c].status = "pending" => Waits(id)'
    BY <2>1 DEF Waits
  <2>. QED
    BY <1>2, <2>1, <2>2 DEF Put
<1>5. ASSUME NEW c \in Calls, BatchWritten(c) PROVE ReportInv'
  <2>1. /\ phase'[c] = "recording" /\ all'[c] = all[c] /\ batchOf'[c] = batchOf[c]
        /\ draft[c].readings = all[c] /\ \A r \in all[c] : r.id[1] = batchOf[c]
    BY <1>0, <1>5 DEF BatchWritten, CollectInv, CallCollected
  <2>2. PICK w \in Written(all[c]) : /\ batches' = Put(batches, batchOf[c], draft[c])
                                     /\ readings' = PutAll(readings, w)
    BY <1>5 DEF BatchWritten, SaveBatch
  <2>3. \A id \in DOMAIN w : w[id] = "pending" => Waits(id)'
    <3>1. \A id \in DOMAIN w : \E r \in all[c] : r.id = id /\ r.status = w[id]
      BY DEF Written
    <3>2. c \in Made'
      BY <2>1 DEF Made
    <3>. QED
      BY <2>1, <3>1, <3>2 DEF Waits
  <2>. QED
    BY <1>2, <2>1, <2>2, <2>3 DEF Put, PutAll
<1>. QED
  BY <1>3, <1>4, <1>5, NextWrites DEF NothingWritten, ItemWritten, PutPending

\* A retry stores accepted readings only.
LEMMA RetriesAccept ==
  ASSUME R!CallTypeOK, StoringAccepted, NEW a \in Admins, Administer(a)
  PROVE  \A id \in DOMAIN readings' : readings'[id] = "pending" =>
           id \in DOMAIN readings /\ readings[id] = "pending"
<1>1. RetryMove(a)
  BY RetryMoves
<1>2. CASE Stores(a)
  <2>1. call[a].got.status = "accepted"
    BY <1>2 DEF Stores, StoringAccepted
  <2>. QED
    BY <1>2, <2>1 DEF Stores, PutReading, Put, storeVars
<1>3. CASE ~Stores(a)
  BY <1>1, <1>3
  DEF RetryMove, Loads, GivesUp, Fetches, Updates, Records, PutPending, Record,
      RecordLost, PutAudit, storeVars
<1>. QED
  BY <1>2, <1>3

LEMMA NextReport == BaseInv /\ LocalInv /\ ReportInv /\ [PlatformNext]_platformVars => ReportInv'
<1>. SUFFICES ASSUME BaseInv, LocalInv, ReportInv, [PlatformNext]_platformVars
              PROVE  ReportInv'
  OBVIOUS
<1>0. /\ CallTypeOK /\ R!CallTypeOK /\ DeskForm /\ CollectInv /\ StoringAccepted
      /\ call \in [Admins -> R!Call]
      /\ \A o \in Operators : desk[o].at \in {"snapshotting", "reconciling"} =>
           desk[o].copy \in SavedBatch
  BY DEF BaseInv, StateTypeOK, SharedTypeOK, LocalInv, R!CallTypeOK, DeskTypeOK
<1>1. ASSUME [Next]_vars, UNCHANGED desk PROVE ReportInv'
  <2>1. \A o \in Operators : desk'[o].at = "reconciling" =>
          \E c \in Calls : /\ phase'[c] \notin {"idle", "collecting"}
                           /\ batchOf'[c] = desk'[o].subject
                           /\ all'[c] = desk'[o].copy.readings
    BY <1>0, <1>1, GatheredStays DEF ReportInv
  <2>2. (\A o \in Operators : desk[o].at = "reconciling" =>
           Gathered(desk[o].subject, desk[o].copy.readings))'
    BY <2>1 DEF Gathered
  <2>. QED
    BY <1>0, <1>1, <2>2, StepReport
<1>2. CASE PlatformRestart
  <2>1. [Next]_vars /\ IdleTypes'
    BY <1>2, IngestMoves
  <2>. QED
    BY <1>0, <2>1, StepReport DEF IdleTypes
\* The others collect nothing.
<1>3. ASSUME UNCHANGED <<phase, batchOf, all>>
      PROVE  /\ Made' = Made
             /\ \A id : Waits(id)' <=> Waits(id)
             /\ \A b, rows : Gathered(b, rows)' <=> Gathered(b, rows)
  BY <1>3 DEF Made, Waits, Gathered
<1>4. ASSUME NEW a \in Admins, Administer(a) PROVE ReportInv'
  <2>1. UNCHANGED <<phase, batchOf, all, desk, batches>> /\ RetryMove(a)
    BY <1>0, <1>4, RetryMoves DEF callVars
  <2>2. \A id \in DOMAIN readings' : readings'[id] = "pending" =>
          id \in DOMAIN readings /\ readings[id] = "pending"
    BY <1>0, <1>4, RetriesAccept
  <2>. QED
    BY <1>3, <2>1, <2>2 DEF ReportInv, Gathered
<1>5. ASSUME NEW o \in Operators, Operate(o) PROVE ReportInv'
  <2>1. /\ \A p \in Operators : p # o => desk'[p] = desk[p]
        /\ DeskMove(o) /\ UNCHANGED <<phase, batchOf, all>>
    BY <1>0, <1>5, DeskMoves DEF callVars
  <2>2. readings' = readings
    BY <2>1, DeletedItems
    DEF DeskMove, Opened, Viewed, Snapped, Rewritten, Updated, Deleted, Purged,
        PutBatch, PutPending, storeVars
  \* It is enough to look at the desk and at the batch that is written.
  <2>3. ASSUME desk'[o].at = "reconciling" =>
                 Gathered(desk'[o].subject, desk'[o].copy.readings),
               \A b \in DOMAIN batches' :
                 \/ b \in DOMAIN batches /\ batches'[b] = batches[b]
                 \/ Gathered(b, batches'[b].readings)
        PROVE  ReportInv'
    <3>1. \A p \in Operators : desk'[p].at = "reconciling" =>
            Gathered(desk'[p].subject, desk'[p].copy.readings)
      BY <2>1, <2>3 DEF ReportInv
    <3>2. \A b \in DOMAIN batches' : Gathered(b, batches'[b].readings)
      BY <2>3 DEF ReportInv
    <3>. QED
      BY <1>3, <2>1, <2>2, <3>1, <3>2 DEF ReportInv, Gathered
  <2>4. \A answer : AtRest(answer).at = "idle"
    BY Resting
  <2>5. CASE Opened(o)
    <3>1. batches' = batches
      BY <2>5 DEF Opened, storeVars
    <3>2. desk'[o].at = "reconciling" =>
            \E b \in DOMAIN batches : /\ desk'[o].subject = b
                                      /\ desk'[o].copy = batches[b]
      BY <2>5, OpenedFields
    <3>3. \A b \in DOMAIN batches : Gathered(b, batches[b].readings)
      BY DEF ReportInv
    <3>. QED
      BY <2>3, <3>1, <3>2, <3>3
  <2>6. CASE Viewed(o) \/ Snapped(o)
    BY <2>3, <2>4, <2>6 DEF Viewed, Snapped, storeVars
  <2>7. CASE Rewritten(o)
    <3>1. desk'[o].at = "idle" /\ desk[o].at = "reconciling"
      BY <2>4, <2>7 DEF Rewritten
    <3>2. CASE UNCHANGED storeVars
      BY <2>3, <3>1, <3>2 DEF storeVars
    <3>3. CASE PutBatch(desk[o].subject, Reconciled(desk[o].copy))
      <4>1. Reconciled(desk[o].copy).readings = desk[o].copy.readings
        BY <1>0, <3>1 DEF Reconciled, SavedBatch
      <4>2. Gathered(desk[o].subject, desk[o].copy.readings)
        BY <3>1 DEF ReportInv
      <4>. QED
        BY <2>3, <3>1, <3>3, <4>1, <4>2 DEF PutBatch, Put
    <3>. QED
      BY <2>7, <3>2, <3>3 DEF Rewritten
  <2>8. CASE Updated(o) \/ Deleted(o) \/ Purged(o)
    <3>1. batches' = batches
      BY <2>8, DeletedItems DEF Updated, Deleted, Purged, PutPending, storeVars
    <3>2. desk'[o].at = "reconciling" => desk'[o] = desk[o]
      <4>1. \A w, d : WellFormed(w) => [w EXCEPT !.doomed = d].at = w.at
        BY DEF WellFormed
      <4>. QED
        BY <1>0, <2>4, <2>8, <4>1 DEF Updated, Deleted, Purged, DeskForm
    <3>. QED
      BY <2>3, <3>1, <3>2 DEF ReportInv
  <2>. QED
    BY <2>1, <2>5, <2>6, <2>7, <2>8 DEF DeskMove
<1>. QED
  <2>1. PlatformClose \/ PlatformRest \/ UNCHANGED platformVars => ReportInv'
    BY <1>1, IngestMoves
  <2>. QED
    BY <1>1, <1>2, <1>4, <1>5, <2>1, IngestMoves DEF PlatformNext

\* Of two calls for a batch that one call at most has used, both are one.
LEMMA UsedByOne ==
  ASSUME IsFiniteSet(Made), NEW b, UsedOnce(b), NEW c \in Made, NEW d \in Made,
         batchOf[c] = b, batchOf[d] = b
  PROVE  c = d
<1>. DEFINE U == {e \in Calls : phase[e] # "idle" /\ batchOf[e] = b}
<1>1. IsFiniteSet(U)
  BY FS_Subset DEF Made
<1>2. {c, d} \subseteq U /\ Cardinality(U) <= 1
  BY DEF Made, UsedOnce
<1>. HIDE DEF U
<1>3. Cardinality({c, d}) \in Nat /\ Cardinality({c, d}) <= 1 /\ Cardinality(U) \in Nat
  BY <1>1, <1>2, FS_Subset, FS_CardinalityType
<1>4. c # d => Cardinality({c, d}) = 2
  <2>. SUFFICES ASSUME c # d PROVE Cardinality({c, d}) = 2
    OBVIOUS
  <2>1. Cardinality({c}) = 1 /\ IsFiniteSet({c})
    BY FS_Singleton
  <2>2. Cardinality({c} \cup {d}) = Cardinality({c}) + 1
    BY <2>1, FS_AddElement
  <2>3. {c, d} = {c} \cup {d}
    OBVIOUS
  <2>. QED
    BY <2>1, <2>2, <2>3
<1>. QED
  BY <1>3, <1>4

\* A report with a batch in which a reading waits counts a pending one.
LEMMA ReportCounts ==
  ASSUME IsFiniteSet(DOMAIN batches),
         \A b \in DOMAIN batches : IsFiniteSet(batches[b].readings),
         NEW b \in DOMAIN batches, NEW r \in batches[b].readings, r.status = "pending"
  PROVE  BuildReport.pending # 0
<1>. DEFINE waiting(e) == {x \in batches[e].readings : InReview(x.status)}
            counts == [e \in DOMAIN batches |-> Stats(batches[e]).pending]
<1>1. \A e \in DOMAIN batches :
        IsFiniteSet(waiting(e)) /\ counts[e] = Cardinality(waiting(e))
  BY FS_Subset DEF Stats
<1>2. r \in waiting(b)
  BY DEF InReview
<1>3. BuildReport.pending = SumFunction(counts)
  BY DEF BuildReport
<1>4. DOMAIN counts = DOMAIN batches
  OBVIOUS
<1>. HIDE DEF waiting, counts
<1>5. \A e \in DOMAIN batches : counts[e] \in Nat
  BY <1>1, FS_CardinalityType
<1>6. counts[b] # 0
  BY <1>1, <1>2, FS_EmptySet
<1>7. SumFunction(counts) = SumFunctionOnSet(counts, DOMAIN batches)
  BY <1>4, SumOfFunction
<1>8. /\ SumFunctionOnSet(counts, DOMAIN batches) \in Nat
      /\ counts[b] <= SumFunctionOnSet(counts, DOMAIN batches)
  BY <1>5, SumBound
<1>. QED
  BY <1>3, <1>5, <1>6, <1>7, <1>8

LEMMA ReportFollows == BaseInv /\ LocalInv /\ ReportInv => ReportNeverTooGood
<1>. SUFFICES ASSUME BaseInv, LocalInv, ReportInv, Complete(BuildReport),
                     NEW id \in DOMAIN readings, id[1] \in DOMAIN batches,
                     UsedOnce(id[1]), readings[id] = "pending"
              PROVE  FALSE
  BY DEF ReportNeverTooGood
<1>1. PICK c \in Made : /\ batchOf[c] = id[1]
                        /\ \E r \in all[c] : r.status = "pending"
  BY DEF ReportInv, Waits
<1>2. PICK d \in Made : batchOf[d] = id[1] /\ all[d] = batches[id[1]].readings
  BY DEF ReportInv, Gathered, Made
<1>3. c = d
  BY <1>1, <1>2, UsedByOne DEF ReportInv
<1>4. PICK r \in batches[id[1]].readings : r.status = "pending"
  BY <1>1, <1>2, <1>3
<1>5. IsFiniteSet(DOMAIN batches)
  <2>1. IsFiniteSet({batchOf[e] : e \in Made})
    BY FiniteImage DEF ReportInv
  <2>2. DOMAIN batches \subseteq {batchOf[e] : e \in Made}
    BY DEF ReportInv, Gathered, Made
  <2>. QED
    BY <2>1, <2>2, FS_Subset
<1>6. BuildReport.pending # 0
  BY <1>4, <1>5, ReportCounts DEF BaseInv, FiniteInv
<1>. QED
  BY <1>6 DEF Complete

\* A report that is complete hides no stored reading that waits for review, of
\* a batch that was received once, though it counts the readings as they were
\* when the batch was saved or reconciled: retries, maintenance, failing writes
\* and restarts make no reading of such a batch pending that was not.
THEOREM ReportsHonest == PlatformSpec => []ReportNeverTooGood
BY ReportFollows, InitBase, NextBase, InitLocal, NextLocal, InitReport, NextReport, PTL
DEF PlatformSpec

-----------------------------------------------------------------------------
(* Dashboards *)

\* No device is reported by two vendors, or twice by one.
DistinctDevices ==
  \A s, t \in Sources : \A p \in Feeds[s], q \in Feeds[t] :
    \A i \in p.readings, j \in q.readings :
      i.device = j.device => s = t /\ (p = q => i = j)

\* What a call collects then: one reading of a device, that can be stored.
Delivered(r) ==
  \E resp \in Feeds[r.src] : \E i \in resp.readings : i.device = r.id[2]

CallTidy(c) ==
  /\ \A r \in all[c] \cup todo[c] :
       r.storable /\ Delivered(r) /\ worker[c][r.src] # "fetching"
  /\ \A r, q \in all[c] \cup todo[c] : r.id = q.id => r = q
  /\ step[c] = "item" => hand[c].status = "pending"

TidyInv == \A c \in Calls : CallTidy(c)

LEMMA InitTidy == Init => TidyInv
BY DEF Init, TidyInv, CallTidy

\* Every action keeps what a call collects tidy.
LEMMA StepTidy ==
  ASSUME AllStorable, DistinctDevices, CallTypeOK, PhaseInv, TidyInv, [Next]_vars
  PROVE  TidyInv'
<1>. SUFFICES ASSUME NEW d \in Calls PROVE CallTidy(d)'
  BY DEF TidyInv
<1>0. /\ CallTidy(d) /\ CallPhase(d)
      /\ phase \in [Calls -> Phases]
      /\ worker \in [Calls -> [Sources -> {"fetching", "merging", "done"}]]
      /\ todo \in [Calls -> SUBSET Reading] /\ all \in [Calls -> SUBSET Reading]
      /\ hand \in [Calls -> Reading \cup {NoReading}]
      /\ step \in [Calls -> {"next", "item", "reading"}]
  BY DEF CallTypeOK, PhaseInv, TidyInv
\* Steps that collect nothing.
<1>1. ASSUME UNCHANGED <<todo, all>>,
             step'[d] = "item" => step[d] = "item" /\ hand'[d] = hand[d],
             \A s \in Sources : worker'[d][s] = "fetching" => worker[d][s] = "fetching"
      PROVE  CallTidy(d)'
  BY <1>0, <1>1 DEF CallTidy, Reading
<1>2. ASSUME NEW c \in Calls, Refuse(c) \/ JoinEmpty(c) \/ Join(c) \/ List(c)
                              \/ Save(c) \/ RecordBatch(c)
      PROVE  CallTidy(d)'
  BY <1>0, <1>1, <1>2 DEF Refuse, JoinEmpty, Join, List, Save, RecordBatch
<1>3. ASSUME NEW c \in Calls, NEW b \in Batches, NEW S \in SUBSET Sources,
             Start(c, b, S)
      PROVE  CallTidy(d)'
  <2>1. CASE d = c
    BY <1>0, <1>3, <2>1 DEF Start, CallPhase, CallTidy
  <2>2. CASE d # c
    BY <1>0, <1>1, <1>3, <2>2 DEF Start
  <2>. QED
    BY <2>1, <2>2
<1>4. ASSUME NEW c \in Calls, NEW s \in Sources, FetchFails(c, s) \/ Unlock(c, s)
      PROVE  CallTidy(d)'
  BY <1>0, <1>1, <1>4 DEF FetchFails, Unlock
<1>5. ASSUME NEW c \in Calls, NEW s \in Sources, NEW resp \in Feeds[s],
             Fetch(c, s, resp)
      PROVE  CallTidy(d)'
  <2>1. CASE d # c
    BY <1>0, <1>5, <2>1 DEF Fetch, CallTidy
  <2>2. CASE d = c
    <3>1. /\ todo[d] = {} /\ worker[d][s] = "fetching"
          /\ worker'[d] = [worker[d] EXCEPT ![s] = "merging"]
          /\ UNCHANGED <<all, hand, step>>
      BY <1>0, <1>5, <2>2 DEF Fetch, CallPhase, InFlight
    <3>. DEFINE Row(i) == [src |-> s, pos |-> i.pos, id |-> <<batchOf[d], i.device>>,
                           status |-> i.status, storable |-> i.storable]
    <3>2. \A r \in todo'[d] :
            \E i \in resp.readings :
              /\ r = Row(i) /\ r.src = s /\ r.id = <<batchOf[d], i.device>>
              /\ r.storable = i.storable
      <4>1. todo'[d] = {Row(i) : i \in resp.readings}
        BY <1>0, <1>5, <2>2 DEF Fetch
      <4>2. \A i : /\ Row(i).src = s /\ Row(i).id = <<batchOf[d], i.device>>
                   /\ Row(i).storable = i.storable
        OBVIOUS
      <4>. HIDE DEF Row
      <4>3. \A r \in todo'[d] : \E i \in resp.readings : r = Row(i)
        BY <4>1
      <4>. QED
        BY <4>2, <4>3
    <3>. HIDE DEF Row
    <3>3. \A r \in todo'[d] : r.storable /\ Delivered(r) /\ r.src = s
      BY <3>2 DEF AllStorable, Delivered
    <3>4. \A r, q \in todo'[d] : r.id = q.id => r = q
      BY <3>2 DEF DistinctDevices
    <3>5. \A r \in todo'[d], q \in all[d] : r.id # q.id
      <4>. SUFFICES ASSUME NEW r \in todo'[d], NEW q \in all[d], r.id = q.id
                    PROVE  FALSE
        OBVIOUS
      <4>1. PICK i \in resp.readings : r.id[2] = i.device
        BY <3>2
      <4>2. q.src \in Sources /\ q.src # s /\ Delivered(q)
        BY <1>0, <3>1 DEF CallTidy, Reading
      <4>3. PICK p \in Feeds[q.src] : \E j \in p.readings : j.device = q.id[2]
        BY <4>2 DEF Delivered
      <4>. QED
        BY <4>1, <4>2, <4>3 DEF DistinctDevices
    <3>6. \A q \in all[d] : /\ q.storable /\ Delivered(q)
                            /\ q.src \in Sources /\ worker[d][q.src] # "fetching"
      BY <1>0 DEF CallTidy, Reading
    <3>7. \A r \in all'[d] \cup todo'[d] :
            r.storable /\ Delivered(r) /\ worker'[d][r.src] # "fetching"
      BY <1>0, <3>1, <3>3, <3>6
    <3>. QED
      BY <1>0, <3>1, <3>4, <3>5, <3>7 DEF CallTidy
  <2>. QED
    BY <2>1, <2>2
<1>6. ASSUME NEW c \in Calls, NEW r \in todo[c], Tally(c, r) PROVE CallTidy(d)'
  <2>1. /\ all'[d] \cup todo'[d] = all[d] \cup todo[d]
        /\ worker' = worker
    BY <1>0, <1>6 DEF Tally
  <2>2. step'[d] = "item" => hand'[d].status = "pending"
    BY <1>0, <1>6 DEF Tally, FirstWrite, CallTidy
  <2>. QED
    BY <1>0, <2>1, <2>2 DEF CallTidy
<1>7. ASSUME NEW c \in Calls, StoreItem(c) \/ StoreReading(c) PROVE CallTidy(d)'
  BY <1>0, <1>1, <1>7 DEF StoreItem, StoreReading
<1>8. CASE CloseStore \/ UNCHANGED vars
  BY <1>1, <1>8 DEF CloseStore, vars, callVars
<1>9. CASE Restart
  BY <1>1, <1>9 DEF Restart
<1>. QED
  BY <1>2, <1>3, <1>4, <1>5, <1>6, <1>7, <1>8, <1>9 DEF Next, CallStep, WriteOut, Rest

\* Nothing has disturbed the process: each call has a batch id of its own, and
\* the store was neither closed nor reopened.
Quiet ==
  /\ restarts = 0 /\ db = "open"
  /\ \A c, d \in Made : batchOf[c] = batchOf[d] => c = d

\* A retry works on a copy of the item that is still good.
RetryAlone(a) ==
  /\ call[a].at \in {"fetching", "storing", "updating"} =>
       /\ call[a].target \in DOMAIN pending
       /\ call[a].copy.status \in {"accepted", "pending"}
  /\ call[a].at = "fetching" => call[a].copy = pending[call[a].target]
  /\ call[a].at \in {"storing", "updating"} =>
       call[a].copy.attempts = pending[call[a].target].attempts + 1
  /\ call[a].at = "storing" => call[a].copy.status = "accepted"
  /\ \A b \in Admins :
       call[a].at # "idle" /\ call[b].at # "idle" /\ call[a].target = call[b].target
         => a = b

ItemSound(id) ==
  /\ Waits(id)
  /\ pending[id].status \in {"accepted", "pending"}
  /\ pending[id].attempts = 0 => pending[id].status = "pending"

\* What a call has listed for its batch.
ListSound(c) ==
  phase[c] = "saving" =>
    \A id \in DOMAIN listed[c] :
      id \in DOMAIN pending /\ id[1] = batchOf[c]
      /\ (Quiet => listed[c][id] = pending[id])

\* A reading is about to be stored for the item, ...
AboutToWait(id) ==
  \E c \in Calls : InFlight(c) /\ step[c] = "reading" /\ hand[c].id = id

\* ... or the item is about to be settled.
AboutToSettle(id) ==
  \E a \in Admins : call[a].at = "updating" /\ call[a].target = id
                    /\ call[a].copy.status = "accepted"

Matched(id) ==
  pending[id].status = "pending" /\ pending[id].attempts <= 1 =>
    \/ id \in DOMAIN readings /\ readings[id] = "pending"
    \/ AboutToWait(id) \/ AboutToSettle(id)

\* What makes DashboardExact hold: readings are accepted or wait, ...
ReadingsPlain ==
  /\ IsFiniteSet(DOMAIN readings)
  /\ \A id \in DOMAIN readings : readings[id] \in {"accepted", "pending"}

\* ... items are of readings that were collected as pending, retries and lists
\* are true to the items, and those that wait match readings that do.
DashInv ==
  /\ ReadingsPlain
  /\ \A a \in Admins : RetryAlone(a)
  /\ \A id \in DOMAIN pending : ItemSound(id)
  /\ \A c \in Calls : ListSound(c)
  /\ Quiet => \A id \in DOMAIN pending : Matched(id)

LEMMA InitDash == PlatformInit => DashInv
<1>. SUFFICES ASSUME PlatformInit PROVE DashInv
  OBVIOUS
<1>1. DOMAIN readings = {} /\ DOMAIN pending = {} /\ \A c \in Calls : phase[c] = "idle"
  BY DEF PlatformInit, Init, StoreInit, NoBucket
<1>2. IdleTypes
  BY IdleTyped DEF PlatformInit, Idle
<1>. QED
  BY <1>1, <1>2, FS_EmptySet
  DEF IdleTypes, DashInv, ReadingsPlain, RetryAlone, ListSound

\* What is quiet was quiet before, and no restart made it so.
LEMMA QuietBefore ==
  ASSUME CallTypeOK, restarts \in Nat, [Next]_vars, Quiet'
  PROVE  Quiet /\ ~Restart
<1>1. ~Restart
  BY DEF Restart, Quiet
<1>2. db = "open" /\ restarts = 0
  <2>1. CASE CloseStore \/ UNCHANGED vars
    BY <2>1 DEF CloseStore, Close, Quiet, vars, storeVars
  <2>2. ASSUME NEW c \in Calls, Refuse(c) \/ CallStep(c)
                 \/ \E b \in Batches, S \in SUBSET Sources : Start(c, b, S)
        PROVE  db' = db /\ restarts' = restarts
    <3>1. db' = db
      BY <2>2, CallsKeepOpen
    <3>2. restarts' = restarts
      BY <2>2
      DEF Refuse, Start, CallStep, WriteOut, FetchFails, Unlock, Fetch, Tally, StoreItem,
          StoreReading, JoinEmpty, Join, List, Save, RecordBatch
    <3>. QED
      BY <3>1, <3>2
  <2>. QED
    BY <1>1, <2>1, <2>2 DEF Next, Rest, Quiet
<1>3. \A c, d \in Made : batchOf[c] = batchOf[d] => c = d
  BY CallsGoOn DEF Quiet
<1>. QED
  BY <1>1, <1>2, <1>3 DEF Quiet

\* In quiet times the calls have collected no reading of an item's device but
\* the one that waits for review.
LEMMA OneReading ==
  ASSUME CollectInv, TidyInv, Quiet, NEW c \in Made, NEW r \in all[c], Waits(r.id)
  PROVE  r.status = "pending"
<1>1. PICK d \in Made : /\ batchOf[d] = r.id[1]
                        /\ \E q \in all[d] : q.id = r.id /\ q.status = "pending"
  BY DEF Waits
<1>2. batchOf[c] = r.id[1]
  BY DEF CollectInv, CallCollected, Made
<1>3. c = d
  BY <1>1, <1>2 DEF Quiet
<1>. QED
  BY <1>1, <1>3 DEF TidyInv, CallTidy, Made

\* A list is of the batch, and as good as the items when it is made.
LEMMA SavingFrom ==
  ASSUME CallTypeOK, [Next]_vars, NEW d \in Calls, phase'[d] = "saving"
  PROVE  /\ batchOf'[d] = batchOf[d]
         /\ \/ phase[d] = "saving" /\ listed'[d] = listed[d]
            \/ /\ listed'[d] = Select(ListPending("pending"), {batchOf[d]} \X Devices)
               /\ pending' = pending
<1>0. /\ phase \in [Calls -> Phases] /\ DOMAIN listed = Calls
      /\ batchOf \in [Calls -> Batches]
  BY DEF CallTypeOK
<1>1. CASE UNCHANGED <<phase, batchOf, listed>>
  BY <1>1
<1>2. ASSUME NEW c \in Calls,
             \/ Refuse(c) \/ JoinEmpty(c) \/ Join(c) \/ Save(c) \/ RecordBatch(c)
             \/ \E b \in Batches, S \in SUBSET Sources : Start(c, b, S)
      PROVE  /\ batchOf'[d] = batchOf[d]
             /\ phase[d] = "saving" /\ listed'[d] = listed[d]
  BY <1>0, <1>2 DEF Refuse, Start, JoinEmpty, Join, Save, RecordBatch
<1>3. ASSUME NEW c \in Calls, List(c)
      PROVE  /\ batchOf'[d] = batchOf[d]
             /\ \/ phase[d] = "saving" /\ listed'[d] = listed[d]
                \/ /\ listed'[d] =
                        Select(ListPending("pending"), {batchOf[d]} \X Devices)
                   /\ pending' = pending
  BY <1>0, <1>3 DEF List, storeVars
<1>4. ASSUME NEW c \in Calls,
             \/ \E s \in Sources : FetchFails(c, s) \/ Unlock(c, s)
             \/ \E s \in Sources : \E resp \in Feeds[s] : Fetch(c, s, resp)
             \/ \E r \in todo[c] : Tally(c, r)
             \/ StoreItem(c) \/ StoreReading(c)
      PROVE  UNCHANGED <<phase, batchOf, listed>>
  BY <1>4 DEF FetchFails, Unlock, Fetch, Tally, StoreItem, StoreReading
<1>5. CloseStore \/ Rest \/ UNCHANGED vars => UNCHANGED <<phase, batchOf, listed>>
  BY DEF CloseStore, Rest, vars, callVars
<1>6. CASE Restart
  BY <1>0, <1>6 DEF Restart, InFlight
<1>. QED
  BY <1>1, <1>2, <1>3, <1>4, <1>5, <1>6 DEF Next, CallStep, WriteOut

\* A reading that is about to be stored stays so, or is stored.
LEMMA AboutToStore ==
  ASSUME CallTypeOK, PhaseInv, TidyInv, IOErrors = FALSE, [Next]_vars, ~Restart,
         db = "open", NEW c \in Calls, InFlight(c), step[c] = "reading",
         hand[c] \in all[c]
  PROVE  \/ InFlight(c)' /\ step'[c] = "reading" /\ hand'[c] = hand[c]
         \/ readings' = Put(readings, hand[c].id, hand[c].status)
<1>0. /\ phase \in [Calls -> Phases] /\ CallPhase(c) /\ hand[c].storable
      /\ hand \in [Calls -> Reading \cup {NoReading}]
      /\ step \in [Calls -> {"next", "item", "reading"}]
  BY DEF CallTypeOK, PhaseInv, TidyInv, CallTidy
<1>1. ~MutexFree(c) /\ ~AllDone(c)
  BY <1>0 DEF CallPhase, AllDone, MutexFree
<1>2. phase[c] = "collecting"
  BY <1>0, <1>1 DEF CallPhase, InFlight, Phases
<1>3. CASE UNCHANGED <<step, hand>> /\ phase'[c] = phase[c]
  BY <1>3 DEF InFlight
<1>4. ASSUME NEW d \in Calls,
             \/ Refuse(d) \/ JoinEmpty(d) \/ Join(d) \/ List(d) \/ Save(d)
             \/ RecordBatch(d) \/ \E b \in Batches, S \in SUBSET Sources : Start(d, b, S)
      PROVE  UNCHANGED <<step, hand>> /\ phase'[c] = phase[c]
  BY <1>0, <1>1, <1>2, <1>4
  DEF Refuse, JoinEmpty, Join, List, Save, RecordBatch, Start
<1>5. ASSUME NEW d \in Calls,
             \/ \E s \in Sources : FetchFails(d, s) \/ Unlock(d, s)
             \/ \E s \in Sources : \E resp \in Feeds[s] : Fetch(d, s, resp)
      PROVE  UNCHANGED <<phase, step, hand>>
  BY <1>5 DEF FetchFails, Unlock, Fetch
<1>6. ASSUME NEW d \in Calls, (\E r \in todo[d] : Tally(d, r)) \/ StoreItem(d)
      PROVE  phase' = phase /\ step'[c] = "reading" /\ hand'[c] = hand[c]
  BY <1>0, <1>6 DEF Tally, StoreItem
<1>7. ASSUME NEW d \in Calls, StoreReading(d), d # c
      PROVE  phase' = phase /\ step'[c] = "reading" /\ hand'[c] = hand[c]
  BY <1>0, <1>7 DEF StoreReading
<1>8. StoreReading(c) => readings' = Put(readings, hand[c].id, hand[c].status)
  BY <1>0 DEF StoreReading, WriteFails, PutReading
<1>9. CloseStore \/ Rest \/ UNCHANGED vars => UNCHANGED <<phase, step, hand>>
  BY DEF CloseStore, Rest, vars, callVars
<1>. QED
  BY <1>3, <1>4, <1>5, <1>6, <1>7, <1>8, <1>9 DEF Next, CallStep, WriteOut, InFlight

\* ProcessBatch, Close and a restart keep what dashboards rest on.
LEMMA StepDash ==
  ASSUME IOErrors = FALSE, BaseInv, LocalInv, BackedInv, TidyInv, DashInv, [Next]_vars,
         call' = call \/ (Restart /\ IdleTypes')
  PROVE  DashInv'
<1>0. /\ CallTypeOK /\ R!CallTypeOK /\ PhaseInv /\ CollectInv /\ restarts \in Nat
      /\ phase \in [Calls -> Phases] /\ hand \in [Calls -> Reading \cup {NoReading}]
      /\ step \in [Calls -> {"next", "item", "reading"}]
      /\ all \in [Calls -> SUBSET Reading]
  BY DEF BaseInv, StateTypeOK, SharedTypeOK, MemoryTypeOK, CallTypeOK, LocalInv
<1>1. \A id : Waits(id) => Waits(id)'
  BY <1>0, GatheredStays
\* What is written: readings as they were collected, ...
<1>2. ASSUME NEW c \in Calls, BatchWritten(c)
      PROVE  /\ DOMAIN pending' = DOMAIN pending /\ InFlight(c) /\ c \in Made
             /\ \A id \in DOMAIN listed[c] :
                  /\ id[1] = batchOf[c]
                  /\ pending'[id] = listed[c][id]
                  /\ pending'[id].status = "pending"
                  /\ Quiet => pending'[id] = pending[id]
             /\ \A id \in DOMAIN pending : id \notin DOMAIN listed[c] =>
                  pending'[id] = pending[id]
             /\ DOMAIN readings' = DOMAIN readings \cup {r.id : r \in all[c]}
             /\ \A r \in all[c] : \E q \in all[c] :
                  q.id = r.id /\ readings'[r.id] = q.status
             /\ \A id \in DOMAIN readings : id \notin {r.id : r \in all[c]} =>
                  readings'[id] = readings[id]
  <2>1. phase[c] = "saving" /\ pending' = PutAll(pending, listed[c])
    BY <1>2 DEF BatchWritten, SaveBatch
  <2>2. PICK w \in Written(all[c]) : readings' = PutAll(readings, w)
    BY <1>2 DEF BatchWritten, SaveBatch
  <2>3. /\ DOMAIN w = {r.id : r \in all[c]}
        /\ \A id \in DOMAIN w : \E q \in all[c] : q.id = id /\ q.status = w[id]
    BY DEF Written
  <2>4. /\ DOMAIN readings' = DOMAIN readings \cup DOMAIN w
        /\ \A id \in DOMAIN w : readings'[id] = w[id]
        /\ \A id \in DOMAIN readings : id \notin DOMAIN w => readings'[id] = readings[id]
    BY <2>2 DEF PutAll
  <2>5. \A id \in DOMAIN listed[c] :
          /\ id \in DOMAIN pending /\ id[1] = batchOf[c]
          /\ listed[c][id].status = "pending"
          /\ Quiet => listed[c][id] = pending[id]
    BY <2>1 DEF DashInv, ListSound, BackedInv, CallUnsettled
  <2>6. /\ DOMAIN pending' = DOMAIN pending \cup DOMAIN listed[c]
        /\ \A id \in DOMAIN listed[c] : pending'[id] = listed[c][id]
        /\ \A id \in DOMAIN pending : id \notin DOMAIN listed[c] =>
             pending'[id] = pending[id]
    BY <2>1 DEF PutAll
  <2>7. /\ DOMAIN readings' = DOMAIN readings \cup {r.id : r \in all[c]}
        /\ \A r \in all[c] : \E q \in all[c] :
             q.id = r.id /\ readings'[r.id] = q.status
        /\ \A id \in DOMAIN readings : id \notin {r.id : r \in all[c]} =>
             readings'[id] = readings[id]
    <3>1. \A r \in all[c] : r.id \in DOMAIN w
      BY <2>3
    <3>. QED
      BY <2>3, <2>4, <3>1
  <2>8. InFlight(c) /\ c \in Made
    BY <2>1 DEF InFlight, Made
  <2>9. DOMAIN pending' = DOMAIN pending
    BY <2>5, <2>6
  <2>. QED
    BY <2>5, <2>6, <2>7, <2>8, <2>9
<1>3. ASSUME NEW c \in Calls, ReadingWritten(c)
      PROVE  /\ pending' = pending
             /\ hand[c] \in all[c] /\ hand[c].status \in {"accepted", "pending"}
             /\ c \in Made
             /\ DOMAIN readings' = DOMAIN readings \cup {hand[c].id}
             /\ readings'[hand[c].id] = hand[c].status
             /\ \A id \in DOMAIN readings : id # hand[c].id =>
                  readings'[id] = readings[id]
  <2>1. /\ readings' = Put(readings, hand[c].id, hand[c].status)
        /\ pending' = pending
        /\ hand[c] \in all[c] /\ c \in Made
    BY <1>0, <1>3 DEF ReadingWritten, PutReading, CollectInv, CallCollected, Made
  <2>2. hand[c].status \in {"accepted", "pending"}
    BY <1>0, <2>1 DEF Reading
  <2>3. /\ DOMAIN readings' = DOMAIN readings \cup {hand[c].id}
        /\ readings'[hand[c].id] = hand[c].status
        /\ \A id \in DOMAIN readings : id # hand[c].id => readings'[id] = readings[id]
    BY <2>1 DEF Put
  <2>. QED
    BY <2>1, <2>2, <2>3
<1>4. ASSUME NEW c \in Calls, ItemWritten(c)
      PROVE  /\ readings' = readings
             /\ hand[c] \in all[c] /\ hand[c].status = "pending"
             /\ hand[c].id[1] = batchOf[c] /\ InFlight(c) /\ c \in Made
             /\ phase'[c] = "collecting" /\ step'[c] = "reading" /\ hand'[c] = hand[c]
             /\ DOMAIN pending' = DOMAIN pending \cup {hand[c].id}
             /\ pending'[hand[c].id] = NewItem
             /\ \A id \in DOMAIN pending : id # hand[c].id => pending'[id] = pending[id]
  <2>1. /\ pending' = Put(pending, hand[c].id, NewItem) /\ readings' = readings
        /\ hand[c] \in all[c] /\ hand[c].status = "pending"
        /\ hand[c].id[1] = batchOf[c] /\ InFlight(c) /\ c \in Made
        /\ phase'[c] = "collecting" /\ step'[c] = "reading" /\ hand'[c] = hand[c]
    BY <1>0, <1>4
    DEF ItemWritten, PutPending, CollectInv, CallCollected, TidyInv, CallTidy,
        InFlight, Made
  <2>2. /\ DOMAIN pending' = DOMAIN pending \cup {hand[c].id}
        /\ pending'[hand[c].id] = NewItem
        /\ \A id \in DOMAIN pending : id # hand[c].id => pending'[id] = pending[id]
    BY <2>1 DEF Put
  <2>. QED
    BY <2>1, <2>2
<1>5. ReadingsPlain'
  <2>1. CASE readings' = readings
    BY <2>1 DEF DashInv, ReadingsPlain
  <2>2. ASSUME NEW c \in Calls, ReadingWritten(c) PROVE ReadingsPlain'
    <3>1. IsFiniteSet(DOMAIN readings')
      <4>1. DOMAIN readings' = DOMAIN readings \cup {hand[c].id}
        BY <1>3, <2>2
      <4>. QED
        BY <4>1, FS_AddElement DEF DashInv, ReadingsPlain
    <3>2. \A id \in DOMAIN readings' : readings'[id] \in {"accepted", "pending"}
      BY <1>3, <2>2 DEF DashInv, ReadingsPlain
    <3>. QED
      BY <3>1, <3>2 DEF ReadingsPlain
  <2>3. ASSUME NEW c \in Calls, BatchWritten(c) PROVE ReadingsPlain'
    <3>. DEFINE ids == {r.id : r \in all[c]}
                g == [r \in all[c] |-> r.id]
    <3>1. IsFiniteSet(all[c]) /\ g \in Surjection(all[c], ids)
      BY DEF BaseInv, FiniteInv, FiniteCall, Surjection
    <3>2. DOMAIN readings' = DOMAIN readings \cup ids
      BY <1>2, <2>3
    <3>3. \A id \in DOMAIN readings' : readings'[id] \in {"accepted", "pending"}
      <4>1. \A r \in all[c] : r.status \in {"accepted", "pending"}
        BY <1>0 DEF Reading
      <4>2. /\ \A r \in all[c] : \E q \in all[c] :
                 q.id = r.id /\ readings'[r.id] = q.status
            /\ \A id \in DOMAIN readings : id \notin ids =>
                 readings'[id] = readings[id]
        BY <1>2, <2>3
      <4>3. \A r \in all[c] : readings'[r.id] \in {"accepted", "pending"}
        BY <4>1, <4>2
      <4>. QED
        BY <3>2, <4>2, <4>3 DEF DashInv, ReadingsPlain
    <3>. HIDE DEF ids, g
    <3>4. IsFiniteSet(ids)
      BY <3>1, FS_Surjection
    <3>5. IsFiniteSet(DOMAIN readings')
      BY <3>2, <3>4, FS_Union DEF DashInv, ReadingsPlain
    <3>. QED
      BY <3>3, <3>5 DEF ReadingsPlain
  <2>. QED
    BY <1>4, <2>1, <2>2, <2>3, NextWrites DEF NothingWritten
\* ... items that are new, or as they were listed.
<1>6. \A id \in DOMAIN pending :
        /\ id \in DOMAIN pending'
        /\ pending'[id] = pending[id] \/ Received(id[1])
  <2>1. ASSUME NEW c \in Calls, ItemWritten(c), NEW id \in DOMAIN pending
        PROVE  id \in DOMAIN pending' /\ (pending'[id] = pending[id] \/ Received(id[1]))
    <3>1. /\ hand[c].id[1] = batchOf[c] /\ InFlight(c)
          /\ DOMAIN pending' = DOMAIN pending \cup {hand[c].id}
          /\ \A k \in DOMAIN pending : k # hand[c].id => pending'[k] = pending[k]
      BY <1>4, <2>1
    <3>. QED
      BY <2>1, <3>1 DEF Received
  <2>2. ASSUME NEW c \in Calls, BatchWritten(c), NEW id \in DOMAIN pending
        PROVE  id \in DOMAIN pending' /\ (pending'[id] = pending[id] \/ Received(id[1]))
    BY <1>2, <2>2 DEF Received
  <2>3. ASSUME NEW c \in Calls, ReadingWritten(c) PROVE pending' = pending
    BY <1>3, <2>3
  <2>4. CASE NothingWritten
    BY <2>4 DEF NothingWritten
  <2>. QED
    BY <2>1, <2>2, <2>3, <2>4, NextWrites
<1>7. ASSUME NEW id \in DOMAIN pending' PROVE ItemSound(id)'
  <2>1. CASE id \in DOMAIN pending /\ pending'[id] = pending[id]
    BY <1>1, <2>1 DEF DashInv, ItemSound
  <2>2. ASSUME NEW c \in Calls, ItemWritten(c), id = hand[c].id PROVE ItemSound(id)'
    <3>1. pending'[id] = NewItem /\ Waits(id)
      BY <1>4, <2>2 DEF Waits
    <3>. QED
      BY <1>1, <3>1 DEF NewItem, ItemSound
  <2>3. ASSUME NEW c \in Calls, BatchWritten(c), id \in DOMAIN listed[c]
        PROVE  ItemSound(id)'
    <3>1. id \in DOMAIN pending /\ pending'[id].status = "pending"
      BY <1>2, <2>3
    <3>. QED
      BY <1>1, <3>1 DEF DashInv, ItemSound
  <2>4. ASSUME NEW c \in Calls, ItemWritten(c) PROVE ItemSound(id)'
    <3>1. id \in DOMAIN pending \cup {hand[c].id}
          /\ \A k \in DOMAIN pending : k # hand[c].id => pending'[k] = pending[k]
      BY <1>4, <1>7, <2>4
    <3>. QED
      BY <2>1, <2>2, <2>4, <3>1
  <2>5. ASSUME NEW c \in Calls, BatchWritten(c) PROVE ItemSound(id)'
    <3>1. id \in DOMAIN pending
          /\ (id \notin DOMAIN listed[c] => pending'[id] = pending[id])
      BY <1>2, <1>7, <2>5
    <3>. QED
      BY <2>1, <2>3, <2>5, <3>1
  <2>6. ASSUME NothingWritten \/ \E c \in Calls : ReadingWritten(c)
        PROVE  ItemSound(id)'
    <3>1. pending' = pending
      BY <1>3, <2>6 DEF NothingWritten
    <3>. QED
      BY <1>7, <2>1, <3>1
  <2>. QED
    BY <2>4, <2>5, <2>6, NextWrites
<1>8. ASSUME NEW a \in Admins PROVE RetryAlone(a)'
  <2>1. CASE call' = call
    <3>1. call[a].at # "idle" /\ call[a].target \in DOMAIN pending =>
            /\ call[a].target \in DOMAIN pending'
            /\ pending'[call[a].target] = pending[call[a].target]
      BY <1>6 DEF BackedInv, RetryBacked
    <3>. QED
      BY <2>1, <3>1 DEF DashInv, RetryAlone
  <2>2. CASE IdleTypes'
    BY <2>2 DEF IdleTypes, RetryAlone
  <2>. QED
    BY <2>1, <2>2
<1>9. ASSUME NEW d \in Calls PROVE ListSound(d)'
  <2>. SUFFICES ASSUME phase'[d] = "saving", NEW id \in DOMAIN listed'[d]
                PROVE  /\ id \in DOMAIN pending' /\ id[1] = batchOf'[d]
                       /\ Quiet' => listed'[d][id] = pending'[id]
    BY DEF ListSound
  <2>1. batchOf'[d] = batchOf[d] /\ d \in Made
    <3>1. phase'[d] = "saving" => phase[d] # "idle"
      <4>. SUFFICES ASSUME phase[d] = "idle" PROVE phase'[d] # "saving"
        OBVIOUS
      <4>1. ASSUME NEW c \in Calls,
                   \/ Refuse(c) \/ JoinEmpty(c) \/ Join(c) \/ List(c) \/ Save(c)
                   \/ RecordBatch(c)
                   \/ \E b \in Batches, S \in SUBSET Sources : Start(c, b, S)
            PROVE  phase'[d] # "saving"
        BY <1>0, <4>1 DEF Refuse, JoinEmpty, Join, List, Save, RecordBatch, Start
      <4>2. ASSUME NEW c \in Calls,
                   \/ \E s \in Sources : FetchFails(c, s) \/ Unlock(c, s)
                   \/ \E s \in Sources : \E resp \in Feeds[s] : Fetch(c, s, resp)
                   \/ \E r \in todo[c] : Tally(c, r)
                   \/ StoreItem(c) \/ StoreReading(c)
            PROVE  phase'[d] # "saving"
        BY <4>2 DEF FetchFails, Unlock, Fetch, Tally, StoreItem, StoreReading
      <4>3. CASE CloseStore \/ Rest \/ UNCHANGED vars
        BY <4>3 DEF CloseStore, Rest, vars, callVars
      <4>4. CASE Restart
        BY <1>0, <4>4 DEF Restart, InFlight
      <4>. QED
        BY <4>1, <4>2, <4>3, <4>4 DEF Next, CallStep, WriteOut
    <3>. QED
      BY <1>0, <3>1, SavingFrom DEF Made
  <2>2. CASE listed'[d] = Select(ListPending("pending"), {batchOf[d]} \X Devices)
             /\ pending' = pending
    BY <2>1, <2>2 DEF Select, ListPending
  <2>3. CASE phase[d] = "saving" /\ listed'[d] = listed[d]
    <3>1. /\ id \in DOMAIN pending /\ id[1] = batchOf[d]
          /\ Quiet => listed[d][id] = pending[id]
      BY <2>3 DEF DashInv, ListSound
    <3>2. Quiet' => pending'[id] = pending[id]
      <4>. SUFFICES ASSUME Quiet PROVE pending'[id] = pending[id]
        BY <1>0, QuietBefore
      <4>1. ASSUME NEW c \in Made, batchOf[c] = id[1] PROVE c = d
        BY <2>1, <3>1, <4>1 DEF Quiet
      <4>2. ASSUME NEW c \in Calls, ItemWritten(c) PROVE pending'[id] = pending[id]
        <5>1. c # d
          BY <2>3, <4>2 DEF ItemWritten
        <5>. QED
          BY <1>4, <3>1, <4>1, <4>2, <5>1
      <4>3. ASSUME NEW c \in Calls, BatchWritten(c) PROVE pending'[id] = pending[id]
        BY <1>2, <3>1, <4>3
      <4>. QED
        BY <1>3, <4>2, <4>3, NextWrites DEF NothingWritten
    <3>. QED
      BY <1>6, <2>1, <2>3, <3>1, <3>2, <1>0, QuietBefore
  <2>. QED
    BY <1>0, <2>2, <2>3, SavingFrom
<1>10. ASSUME Quiet', NEW id \in DOMAIN pending' PROVE Matched(id)'
  <2>0. Quiet /\ ~Restart /\ db = "open" /\ call' = call
    BY <1>0, <1>10, QuietBefore DEF Quiet
  \* Of an item that is there, no other reading is stored.
  <2>1. ASSUME id \in DOMAIN pending, readings[id] = "pending", id \in DOMAIN readings
        PROVE  id \in DOMAIN readings' /\ readings'[id] = "pending"
    <3>0. Waits(id)
      BY <2>1 DEF DashInv, ItemSound
    <3>1. ASSUME NEW c \in Calls, ReadingWritten(c), id = hand[c].id
          PROVE  hand[c].status = "pending"
      BY <1>0, <1>3, <2>0, <3>0, <3>1, OneReading
    <3>2. ASSUME NEW c \in Calls, BatchWritten(c), NEW r \in all[c], r.id = id
          PROVE  readings'[id] = "pending"
      <4>1. PICK q \in all[c] : q.id = id /\ readings'[id] = q.status
        BY <1>2, <3>2
      <4>2. c \in Made
        BY <1>2, <3>2
      <4>3. Waits(q.id)
        BY <3>0, <4>1
      <4>4. q.status = "pending"
        BY <1>0, <2>0, <4>1, <4>2, <4>3, OneReading
      <4>. QED
        BY <4>1, <4>4
    <3>3. ASSUME NEW c \in Calls, BatchWritten(c)
          PROVE  id \in DOMAIN readings' /\ readings'[id] = "pending"
      <4>1. /\ DOMAIN readings' = DOMAIN readings \cup {r.id : r \in all[c]}
            /\ \A k \in DOMAIN readings : k \notin {r.id : r \in all[c]} =>
                 readings'[k] = readings[k]
        BY <1>2, <3>3
      <4>2. \A r \in all[c] : r.id = id => readings'[id] = "pending"
        BY <3>2, <3>3
      <4>. QED
        BY <2>1, <4>1, <4>2
    <3>. QED
      BY <1>3, <1>4, <2>1, <3>1, <3>3, NextWrites DEF NothingWritten
  <2>2. ASSUME id \in DOMAIN pending, AboutToWait(id)
        PROVE  \/ AboutToWait(id)'
               \/ id \in DOMAIN readings' /\ readings'[id] = "pending"
    <3>1. PICK c \in Calls : InFlight(c) /\ step[c] = "reading" /\ hand[c].id = id
      BY <2>2 DEF AboutToWait
    <3>2. hand[c] \in all[c] /\ c \in Made
      BY <1>0, <3>1 DEF CollectInv, CallCollected, Made, InFlight
    <3>3. hand[c].status = "pending"
      BY <1>0, <2>0, <2>2, <3>1, <3>2, OneReading DEF DashInv, ItemSound
    <3>4. \/ InFlight(c)' /\ step'[c] = "reading" /\ hand'[c] = hand[c]
          \/ readings' = Put(readings, hand[c].id, hand[c].status)
      BY <1>0, <2>0, <3>1, <3>2, AboutToStore
    <3>. QED
      <4>1. CASE InFlight(c)' /\ step'[c] = "reading" /\ hand'[c] = hand[c]
        BY <3>1, <4>1 DEF AboutToWait
      <4>2. CASE readings' = Put(readings, hand[c].id, hand[c].status)
        BY <3>1, <3>3, <4>2 DEF Put
      <4>. QED
        BY <3>4, <4>1, <4>2
  <2>3. AboutToSettle(id) => AboutToSettle(id)'
    BY <2>0 DEF AboutToSettle
  <2>4. CASE id \in DOMAIN pending /\ pending'[id] = pending[id]
    <3>1. Matched(id)
      BY <2>0, <2>4 DEF DashInv
    <3>. QED
      BY <2>1, <2>2, <2>3, <2>4, <3>1 DEF Matched
  <2>5. ASSUME NEW c \in Calls, ItemWritten(c), id = hand[c].id PROVE Matched(id)'
    <3>1. InFlight(c)' /\ step'[c] = "reading" /\ hand'[c].id = id
      BY <1>4, <2>5 DEF InFlight
    <3>. QED
      BY <3>1 DEF AboutToWait, Matched
  <2>6. ASSUME NEW c \in Calls, ItemWritten(c) PROVE Matched(id)'
    <3>1. id \in DOMAIN pending \cup {hand[c].id}
          /\ \A k \in DOMAIN pending : k # hand[c].id => pending'[k] = pending[k]
      BY <1>4, <1>10, <2>6
    <3>. QED
      BY <2>4, <2>5, <2>6, <3>1
  <2>7. ASSUME NEW c \in Calls, BatchWritten(c) PROVE Matched(id)'
    <3>1. /\ id \in DOMAIN pending
          /\ id \in DOMAIN listed[c] => pending'[id] = pending[id]
          /\ id \notin DOMAIN listed[c] => pending'[id] = pending[id]
      BY <1>2, <1>10, <2>0, <2>7
    <3>. QED
      BY <2>4, <3>1
  <2>8. ASSUME NothingWritten \/ \E c \in Calls : ReadingWritten(c)
        PROVE  Matched(id)'
    <3>1. pending' = pending
      BY <1>3, <2>8 DEF NothingWritten
    <3>. QED
      BY <1>10, <2>4, <3>1
  <2>. QED
    BY <2>6, <2>7, <2>8, NextWrites
<1>11. (\A a \in Admins : RetryAlone(a))' /\ (\A c \in Calls : ListSound(c))'
  BY <1>8, <1>9
<1>12. (\A id \in DOMAIN pending : ItemSound(id))'
  BY <1>7
<1>13. (Quiet => \A id \in DOMAIN pending : Matched(id))'
  BY <1>10
<1>. QED
  BY <1>5, <1>11, <1>12, <1>13 DEF DashInv


\* A call of Retry keeps what dashboards rest on, if no item is retried twice
\* at a time.
LEMMA AdminDash ==
  ASSUME Aligned, Overlap = {}, IOErrors = FALSE, BaseInv, LocalInv, BackedInv,
         DashInv, NEW a \in Admins, Administer(a)
  PROVE  DashInv'
<1>. DEFINE own == call[a]
            new == call'[a]
<1>0. /\ R!CallTypeOK /\ call \in [Admins -> R!Call] /\ own \in R!Call
      /\ \A id \in DOMAIN pending : pending[id] \in PendingItem
      /\ CollectInv /\ RetryAlone(a) /\ RetryBacked(a)
      /\ own.at # "idle" => own.target \in ReadingIds
      /\ db \in {"open", "closed"}
  BY DEF BaseInv, StateTypeOK, SharedTypeOK, DataTypeOK, R!CallTypeOK, LocalInv,
         DashInv, BackedInv
<1>1. /\ call' = [call EXCEPT ![a] = new]
      /\ UNCHANGED <<callVars, db, restarts>> /\ RetryMove(a)
  BY <1>0, RetryMoves
<1>2. /\ \A id : (Waits(id)' <=> Waits(id)) /\ (AboutToWait(id)' <=> AboutToWait(id))
      /\ Quiet' <=> Quiet
  BY <1>1 DEF Waits, AboutToWait, Made, InFlight, Quiet, callVars
<1>3. /\ R!NoCall.at = "idle"
      /\ \A id, item : /\ R!Loaded(id, item).at = "fetching"
                       /\ R!Loaded(id, item).target = id
                       /\ R!Loaded(id, item).copy = item
  BY DEF R!NoCall, R!Loaded
\* The moves, as far as dashboards can tell.
<1>. DEFINE Waiting(b) == call[b].at # "idle"
            Alone == \A b \in Admins \ {a} :
                       Waiting(b) /\ new.at # "idle" => new.target # call[b].target
            Copied == /\ own.at = "idle" /\ new.at = "fetching"
                      /\ new.target \in DOMAIN pending
                      /\ new.copy = pending[new.target]
                      /\ UNCHANGED <<readings, pending>>
            Dropped == /\ own.at \in {"fetching", "recording"} /\ new.at = "idle"
                       /\ UNCHANGED <<readings, pending>>
            Failed == /\ own.at = "updating" /\ new.at = "idle" /\ ~Quiet
                      /\ UNCHANGED <<readings, pending>>
            Asked == /\ own.at = "fetching" /\ new.target = own.target
                     /\ new.copy.status \in {"accepted", "pending"}
                     /\ new.copy.attempts = own.copy.attempts + 1
                     /\ \/ new.at = "storing" /\ new.copy.status = "accepted"
                        \/ new.at = "updating" /\ new.copy.status = "pending"
                     /\ UNCHANGED <<readings, pending>>
            Stored == /\ own.at = "storing" /\ new.at = "updating"
                      /\ new.target = own.target /\ new.copy = own.copy
                      /\ \/ UNCHANGED <<readings, pending>>
                         \/ /\ readings' = Put(readings, own.target, "accepted")
                            /\ pending' = pending
            Settled == /\ own.at = "updating" /\ new.at = "recording"
                       /\ new.target = own.target
                       /\ pending' = Put(pending, own.target, own.copy)
                       /\ readings' = readings
<1>4. Copied \/ Dropped \/ Failed \/ Asked \/ Stored \/ Settled
  <2>1. CASE Loads(a)
    <3>1. PICK id \in ReadingIds \cap DOMAIN pending :
            /\ own.at = "idle" /\ new = R!Loaded(id, pending[id])
            /\ UNCHANGED storeVars
      BY <2>1 DEF Loads
    <3>2. new.at = "fetching" /\ new.target = id /\ new.copy = pending[id]
      BY <1>3, <3>1
    <3>. QED
      BY <3>1, <3>2 DEF storeVars
  <2>2. CASE GivesUp(a) \/ Records(a)
    BY <1>3, <2>2 DEF GivesUp, Records, Record, RecordLost, PutAudit, storeVars
  <2>3. CASE Fetches(a)
    <3>1. PICK offer \in Offers[own.target] :
            new = [at     |-> R!AfterFetch(offer.status),
                   target |-> own.target,
                   copy   |-> R!Attempted(own.copy, offer.status),
                   got    |-> offer]
      BY <2>3 DEF Fetches
    <3>2. own.at = "fetching" /\ UNCHANGED <<readings, pending>>
      BY <2>3 DEF Fetches, storeVars
    <3>3. offer.status \in {"accepted", "pending"}
      BY <1>0, <3>2, AdministratorsAssumption DEF R!Offer
    <3>4. /\ new.target = own.target
          /\ new.at = R!AfterFetch(offer.status)
          /\ new.copy = R!Attempted(own.copy, offer.status)
      BY <3>1
    <3>5. new.copy.status = offer.status /\ new.copy.attempts = own.copy.attempts + 1
      BY <3>4 DEF R!Attempted
    <3>. QED
      BY <3>2, <3>3, <3>4, <3>5 DEF R!AfterFetch
  <2>4. CASE Stores(a)
    <3>1. /\ own.at = "storing" /\ new.at = "updating"
          /\ new.target = own.target /\ new.copy = own.copy
      BY <1>0, <2>4 DEF Stores, R!Call
    <3>2. own.got.id = own.target /\ own.got.status = "accepted"
      BY <1>0, <3>1 DEF RetryBacked
    <3>. QED
      BY <2>4, <3>1, <3>2 DEF Stores, PutReading, storeVars
  <2>5. CASE Updates(a)
    <3>1. CASE /\ PutPending(own.target, own.copy)
               /\ new = [own EXCEPT !.at = "recording"]
      <4>1. new.at = "recording" /\ new.target = own.target
        BY <1>0, <3>1 DEF R!Call
      <4>. QED
        BY <2>5, <3>1, <4>1 DEF Updates, PutPending
    <3>2. CASE WriteFails(TRUE) /\ UNCHANGED storeVars /\ new = R!NoCall
      BY <1>3, <2>5, <3>2 DEF Updates, WriteFails, storeVars, Quiet
    <3>. QED
      BY <2>5, <3>1, <3>2 DEF Updates
  <2>. QED
    BY <1>1, <2>1, <2>2, <2>3, <2>4, <2>5 DEF RetryMove
<1>5. Alone
  <2>1. CASE Loads(a)
    <3>1. PICK id : new = R!Loaded(id, pending[id]) /\ ~R!InRetry(id)
      BY <2>1 DEF Loads
    <3>2. new.target = id
      BY <1>3, <3>1
    <3>. QED
      BY <3>1, <3>2 DEF R!InRetry
  <2>2. CASE new.at # "idle" => own.at # "idle" /\ new.target = own.target
    BY <1>0, <2>2 DEF RetryAlone
  <2>3. CASE GivesUp(a) \/ Fetches(a) \/ Stores(a) \/ Updates(a) \/ Records(a)
    <3>1. ~Copied
      BY <2>3 DEF GivesUp, Fetches, Stores, Updates, Records
    <3>. QED
      BY <1>4, <2>2, <3>1
  <2>. QED
    BY <1>1, <2>1, <2>3 DEF RetryMove
<1>. HIDE DEF own, new
<1>6. ReadingsPlain'
  <2>1. CASE readings' = readings
    BY <2>1 DEF DashInv, ReadingsPlain
  <2>2. CASE readings' = Put(readings, own.target, "accepted")
    <3>1. DOMAIN readings' = DOMAIN readings \cup {own.target}
      BY <2>2 DEF Put
    <3>2. IsFiniteSet(DOMAIN readings')
      BY <3>1, FS_AddElement DEF DashInv, ReadingsPlain
    <3>3. \A id \in DOMAIN readings' : readings'[id] \in {"accepted", "pending"}
      BY <2>2 DEF DashInv, ReadingsPlain, Put
    <3>. QED
      BY <3>2, <3>3 DEF ReadingsPlain
  <2>. QED
    BY <1>4, <2>1, <2>2
\* An item changes only when the call that works on it writes it back.
<1>7. /\ own.at \in {"fetching", "storing", "updating"} => own.target \in DOMAIN pending
      /\ own.at = "updating" =>
           /\ own.copy.status \in {"accepted", "pending"}
           /\ own.copy.attempts = pending[own.target].attempts + 1
  BY <1>0 DEF RetryAlone, own
<1>8. /\ DOMAIN pending' = DOMAIN pending
      /\ \A id \in DOMAIN pending :
           \/ pending'[id] = pending[id]
           \/ Settled /\ id = own.target /\ pending'[id] = own.copy
  <2>1. CASE pending' = pending
    BY <2>1
  <2>2. CASE Settled
    BY <1>7, <2>2 DEF Put
  <2>. QED
    BY <1>4, <2>1, <2>2
<1>9. ASSUME NEW b \in Admins PROVE RetryAlone(b)'
  <2>1. call'[b] = IF b = a THEN new ELSE call[b]
    BY <1>0, <1>1
  <2>2. CASE b = a
    <3>1. /\ new.at \in {"fetching", "storing", "updating"} =>
               /\ new.target \in DOMAIN pending
               /\ new.copy.status \in {"accepted", "pending"}
               /\ pending' = pending
          /\ new.at = "fetching" => new.copy = pending[new.target]
          /\ new.at \in {"storing", "updating"} =>
               new.copy.attempts = pending[new.target].attempts + 1
          /\ new.at = "storing" => new.copy.status = "accepted"
      BY <1>0, <1>4 DEF RetryAlone, DashInv, ItemSound, own
    <3>2. \A c \in Admins :
            new.at # "idle" /\ call'[c].at # "idle" /\ new.target = call'[c].target
              => c = a
      BY <1>0, <1>1, <1>5
    <3>. QED
      BY <2>1, <2>2, <3>1, <3>2 DEF RetryAlone
  <2>3. CASE b # a
    <3>0. RetryAlone(b)
      BY DEF DashInv
    <3>1. ASSUME call[b].at # "idle"
          PROVE  ~(Settled /\ call[b].target = own.target)
      BY <1>0, <2>3, <3>1 DEF RetryAlone, own
    <3>2. \A c \in Admins :
            call[b].at # "idle" /\ call'[c].at # "idle"
            /\ call[b].target = call'[c].target => b = c
      BY <1>0, <1>1, <1>5, <2>3, <3>0 DEF RetryAlone
    <3>3. call[b].at # "idle" /\ call[b].target \in DOMAIN pending =>
            pending'[call[b].target] = pending[call[b].target]
      BY <1>8, <3>1
    <3>. QED
      BY <1>8, <2>1, <2>3, <3>0, <3>2, <3>3 DEF RetryAlone
  <2>. QED
    BY <2>2, <2>3
<1>10. ASSUME NEW id \in DOMAIN pending' PROVE ItemSound(id)'
  <2>1. id \in DOMAIN pending /\ ItemSound(id) /\ pending[id] \in PendingItem
    BY <1>0, <1>8, <1>10 DEF DashInv
  <2>2. CASE pending'[id] = pending[id]
    BY <1>2, <2>1, <2>2 DEF ItemSound
  <2>3. CASE Settled /\ id = own.target /\ pending'[id] = own.copy
    <3>1. /\ pending'[id].status \in {"accepted", "pending"}
          /\ pending'[id].attempts = pending[id].attempts + 1
      BY <1>7, <2>3
    <3>2. pending[id].attempts \in Nat
      BY <2>1 DEF PendingItem
    <3>3. pending'[id].attempts # 0
      BY <3>1, <3>2
    <3>. QED
      BY <1>2, <2>1, <3>1, <3>3 DEF ItemSound
  <2>. QED
    BY <1>8, <2>1, <2>2, <2>3
\* The batch of an item that is retried is not being received.
<1>11. own.at # "idle" => \A c \in Calls : InFlight(c) => batchOf[c] # own.target[1]
  BY <1>0 DEF RetryBacked, Received, own
<1>12. ASSUME NEW c \in Calls PROVE ListSound(c)'
  <2>. SUFFICES ASSUME phase[c] = "saving", NEW id \in DOMAIN listed[c]
                PROVE  /\ id \in DOMAIN pending' /\ id[1] = batchOf[c]
                       /\ Quiet => listed[c][id] = pending'[id]
    BY <1>1, <1>2 DEF ListSound, callVars
  <2>1. /\ id \in DOMAIN pending /\ id[1] = batchOf[c]
        /\ Quiet => listed[c][id] = pending[id]
    BY DEF DashInv, ListSound
  <2>2. ~(Settled /\ id = own.target)
    BY <1>11, <2>1 DEF InFlight
  <2>. QED
    BY <1>8, <2>1, <2>2
<1>13. ASSUME Quiet, NEW id \in DOMAIN pending PROVE Matched(id)'
  <2>0. /\ Matched(id) /\ ItemSound(id) /\ pending[id] \in PendingItem
        /\ \A b \in Admins : RetryAlone(b)
    BY <1>0, <1>13 DEF DashInv
  <2>1. ASSUME ~(own.at = "updating" /\ own.target = id /\ own.copy.status = "accepted"),
               AboutToSettle(id)
        PROVE  AboutToSettle(id)'
    BY <1>0, <1>1, <2>1 DEF AboutToSettle, own
  <2>2. CASE Copied \/ Dropped \/ Asked
    BY <1>2, <2>0, <2>1, <2>2 DEF Matched
  <2>3. CASE Failed
    BY <1>13, <2>3
  <2>4. CASE Stored
    <3>1. CASE id = own.target
      <4>1. own.copy.status = "accepted"
        BY <1>0, <2>4 DEF RetryAlone, own
      <4>2. call'[a] = new
        BY DEF new
      <4>3. AboutToSettle(id)'
        BY <2>4, <3>1, <4>1, <4>2 DEF AboutToSettle
      <4>. QED
        BY <4>3 DEF Matched
    <3>2. CASE id # own.target
      <4>1. id \in DOMAIN readings /\ readings[id] = "pending" =>
              id \in DOMAIN readings' /\ readings'[id] = "pending"
        BY <2>4, <3>2 DEF Put
      <4>2. pending' = pending
        BY <2>4
      <4>. QED
        BY <1>2, <2>0, <2>1, <3>2, <4>1, <4>2 DEF Matched
    <3>. QED
      BY <3>1, <3>2
  <2>5. CASE Settled /\ id # own.target
    <3>1. pending'[id] = pending[id] /\ readings' = readings
      BY <1>8, <2>5
    <3>. QED
      BY <1>2, <2>0, <2>1, <2>5, <3>1 DEF Matched
  <2>6. CASE Settled /\ id = own.target
    <3>1. pending'[id] = own.copy /\ own.at = "updating" /\ readings' = readings
      BY <2>6 DEF Put
    <3>. SUFFICES ASSUME own.copy.status = "pending", own.copy.attempts <= 1
                  PROVE  id \in DOMAIN readings /\ readings[id] = "pending"
      BY <3>1 DEF Matched
    <3>2. pending[id].attempts = 0
      <4>1. own.copy.attempts = pending[id].attempts + 1
        BY <1>7, <2>6
      <4>2. pending[id].attempts \in Nat
        BY <2>0 DEF PendingItem
      <4>. QED
        BY <4>1, <4>2
    <3>3. pending[id].status = "pending"
      BY <2>0, <3>2 DEF ItemSound
    <3>4. ~AboutToWait(id)
      BY <1>0, <1>11, <2>6 DEF AboutToWait, CollectInv, CallCollected, InFlight
    <3>5. ~AboutToSettle(id)
      BY <2>0, <2>6, <3>1 DEF AboutToSettle, RetryAlone, own
    <3>6. pending[id].attempts <= 1
      BY <3>2
    <3>. QED
      BY <2>0, <3>3, <3>4, <3>5, <3>6 DEF Matched
  <2>. QED
    BY <1>4, <2>2, <2>3, <2>4, <2>5, <2>6
<1>14. (\A b \in Admins : RetryAlone(b))' /\ (\A c \in Calls : ListSound(c))'
  BY <1>9, <1>12
<1>15. (\A id \in DOMAIN pending : ItemSound(id))'
  BY <1>10
<1>16. (Quiet => \A id \in DOMAIN pending : Matched(id))'
  BY <1>2, <1>8, <1>13
<1>. QED
  BY <1>6, <1>14, <1>15, <1>16 DEF DashInv

LEMMA NextTidy ==
  ASSUME AllStorable, DistinctDevices
  PROVE  BaseInv /\ LocalInv /\ TidyInv /\ [PlatformNext]_platformVars => TidyInv'
<1>. SUFFICES ASSUME BaseInv, LocalInv, TidyInv, [PlatformNext]_platformVars
              PROVE  TidyInv'
  OBVIOUS
<1>0. CallTypeOK /\ PhaseInv /\ R!CallTypeOK /\ DeskForm
  BY DEF BaseInv, StateTypeOK, SharedTypeOK, LocalInv
<1>1. CASE [Next]_vars
  BY <1>0, <1>1, StepTidy
<1>2. CASE UNCHANGED callVars
  BY <1>2 DEF TidyInv, CallTidy, callVars
<1>. QED
  BY <1>0, <1>1, <1>2, IngestMoves, RetryMoves, DeskMoves DEF PlatformNext

LEMMA NextDash ==
  ASSUME Aligned, Overlap = {}, Maintained = FALSE, IOErrors = FALSE
  PROVE  BaseInv /\ LocalInv /\ BackedInv /\ TidyInv /\ DashInv
         /\ [PlatformNext]_platformVars => DashInv'
<1>. SUFFICES ASSUME BaseInv, LocalInv, BackedInv, TidyInv, DashInv,
                     [PlatformNext]_platformVars
              PROVE  DashInv'
  OBVIOUS
<1>0. R!CallTypeOK /\ DeskForm
  BY DEF BaseInv, StateTypeOK
<1>1. CASE [Next]_vars /\ (call' = call \/ (Restart /\ IdleTypes'))
  BY <1>1, StepDash
<1>2. ASSUME NEW a \in Admins, Administer(a) PROVE DashInv'
  BY <1>2, AdminDash
<1>3. ASSUME NEW o \in Operators, Operate(o) PROVE DashInv'
  <2>1. UNCHANGED <<callVars, call, db, restarts, readings, pending>>
    BY <1>0, <1>3, OperatorsKeep
  <2>2. Quiet' = Quiet
    BY <2>1 DEF Quiet, Made, callVars
  <2>3. ReadingsPlain' /\ \A a \in Admins : RetryAlone(a)'
    BY <2>1 DEF DashInv, ReadingsPlain, RetryAlone
  <2>4. ASSUME NEW id \in DOMAIN pending
        PROVE  ItemSound(id)' /\ (Quiet => Matched(id)')
    BY <2>1
    DEF DashInv, ItemSound, Waits, Made, Matched, AboutToWait, AboutToSettle,
        InFlight, callVars
  <2>5. ASSUME NEW c \in Calls PROVE ListSound(c)'
    BY <2>1, <2>2 DEF DashInv, ListSound, callVars
  <2>. QED
    BY <2>1, <2>2, <2>3, <2>4, <2>5 DEF DashInv
<1>. QED
  BY <1>1, <1>2, <1>3, IngestMoves DEF PlatformNext

\* In calm, the items that wait are those of the readings that do, and every
\* other reading is accepted.
LEMMA CalmCounts ==
  ASSUME NoUntrackedPending, AcceptedStaysBacked, DashInv, Calm, db = "open"
  PROVE  /\ DOMAIN ListPending("pending") = Having("pending", readings)
         /\ Cardinality(Having("pending", readings)) \in Nat
         /\ Cardinality(DOMAIN readings) - Cardinality(Having("pending", readings))
              = Cardinality(Having("accepted", readings))
<1>1. Quiet
  BY DEF Calm, Quiet, Made
<1>2. ASSUME NEW id \in DOMAIN pending, pending[id].status = "pending"
      PROVE  id \in Having("pending", readings)
  BY <1>1, <1>2
  DEF DashInv, Matched, AboutToWait, AboutToSettle, Calm, Having
<1>3. ASSUME NEW id \in Having("pending", readings)
      PROVE  id \in DOMAIN pending /\ pending[id].status = "pending"
  BY <1>3 DEF Having, NoUntrackedPending, AcceptedStaysBacked, R!AcceptedBacked,
              DashInv, ItemSound
<1>4. DOMAIN ListPending("pending") = Having("pending", readings)
  BY <1>2, <1>3 DEF ListPending, Select
<1>5. /\ Having("accepted", readings) = DOMAIN readings \ Having("pending", readings)
      /\ Having("pending", readings) \subseteq DOMAIN readings
      /\ IsFiniteSet(DOMAIN readings)
  BY DEF DashInv, ReadingsPlain, Having
<1>. DEFINE rows == DOMAIN readings
            waiting == Having("pending", readings)
<1>6. /\ IsFiniteSet(waiting) /\ Cardinality(waiting) \in Nat
      /\ Cardinality(rows) \in Nat
  BY <1>5, FS_Subset, FS_CardinalityType
<1>7. Cardinality(rows \ waiting) = Cardinality(rows) - Cardinality(waiting)
  <2>1. rows \cap waiting = waiting
    BY <1>5
  <2>. QED
    BY <1>5, <2>1, FS_Difference
<1>. QED
  BY <1>4, <1>5, <1>6, <1>7

\* A dashboard asked for while the service is calm is exact, if batches are not
\* retried while they are received, items neither retried twice at a time nor
\* maintained by hand, adapters deliver a device once and with readings that can
\* be stored, vendors answer with the device asked for, and writes do not fail.
THEOREM DashboardsExact ==
  ASSUME Aligned, AllStorable, DistinctDevices, Overlap = {},
         Mixed = FALSE, Maintained = FALSE, IOErrors = FALSE
  PROVE  PlatformSpec => DashboardExact
<1>. DEFINE Inv == BaseInv /\ LocalInv /\ TrackedInv /\ BackedInv /\ TidyInv /\ DashInv
            Exact == \A o \in Operators :
                       Calm /\ desk[o].at = "viewing" /\ desk'[o].at = "idle"
                       /\ db = "open" /\ desk[o].rows = readings
                         => /\ desk'[o].answer.accepted
                                 = Cardinality(Having("accepted", readings))
                            /\ desk'[o].answer.pending
                                 = Cardinality(Having("pending", readings))
<1>1. PlatformInit => Inv
  <2>1. PlatformInit => TrackedInv /\ TidyInv
    BY InitTracked, InitTidy DEF PlatformInit
  <2>. QED
    BY <2>1, InitBase, InitLocal, InitBacked, InitDash
<1>2. Inv /\ [PlatformNext]_platformVars => Inv'
  BY NextBase, NextLocal, PlatformTracked, NextBacked, NextTidy, NextDash
<1>3. Inv /\ [PlatformNext]_platformVars => [Exact]_platformVars
  <2>. SUFFICES ASSUME Inv, PlatformNext, NEW o \in Operators, Calm,
                       desk[o].at = "viewing", desk'[o].at = "idle", db = "open",
                       desk[o].rows = readings
                PROVE  /\ desk'[o].answer.accepted
                            = Cardinality(Having("accepted", readings))
                       /\ desk'[o].answer.pending
                            = Cardinality(Having("pending", readings))
    OBVIOUS
  <2>0. R!CallTypeOK /\ DeskForm /\ restarts \in Nat
    BY DEF BaseInv, StateTypeOK, SharedTypeOK, MemoryTypeOK
  <2>1. desk' # desk
    OBVIOUS
  <2>2. PICK p \in Operators : Operate(p)
    <3>1. ~PlatformRestart
      BY <2>0 DEF PlatformRestart, Restart, Calm
    <3>. QED
      BY <2>0, <2>1, <3>1, IngestMoves, RetryMoves DEF PlatformNext
  <2>3. p = o /\ DeskMove(o)
    BY <2>0, <2>2, DeskMoves
  <2>4. Viewed(o)
    BY <2>3
    DEF DeskMove, Opened, Snapped, Rewritten, Updated, Deleted, Purged
  <2>5. desk'[o] = AtRest(DashboardOf(readings, ListPending("pending")))
    BY <2>4 DEF Viewed
  <2>6. desk'[o].answer = DashboardOf(readings, ListPending("pending"))
    BY <2>5, Resting
  <2>7. /\ desk'[o].answer.accepted =
             Cardinality(DOMAIN readings) - Cardinality(DOMAIN ListPending("pending"))
        /\ desk'[o].answer.pending = Cardinality(DOMAIN ListPending("pending"))
    BY <2>6 DEF DashboardOf
  <2>. QED
    BY <2>7, CalmCounts DEF TrackedInv, BackedInv
<1>. QED
  BY <1>1, <1>2, <1>3, PTL DEF PlatformSpec, DashboardExact

-----------------------------------------------------------------------------
(* ProcessBatch in company *)

\* Operators write batches they have read, with their counts redone, and no
\* readings.
LEMMA OperatorsWrite ==
  ASSUME DeskForm, NEW o \in Operators, Operate(o)
  PROVE  /\ UNCHANGED <<byBatch, sequence, callVars, restarts, audits, readings>>
         /\ \/ batches' = batches
            \/ /\ desk[o].at = "reconciling"
               /\ batches' = Put(batches, desk[o].subject, Reconciled(desk[o].copy))
         /\ \A p \in Operators : desk'[p].at = "reconciling" =>
              \/ desk[p].at = "reconciling" /\ desk'[p].copy = desk[p].copy
              \/ \E b \in DOMAIN batches : desk'[p].copy = batches[b]
<1>1. /\ UNCHANGED <<byBatch, sequence, callVars, restarts, audits>>
      /\ \A p \in Operators : p # o => desk'[p] = desk[p]
      /\ DeskMove(o) /\ WellFormed(desk[o])
  BY DeskMoves DEF DeskForm
<1>2. \A answer : AtRest(answer).at = "idle"
  BY Resting
<1>3. CASE Opened(o)
  <2>1. UNCHANGED <<readings, batches>>
    BY <1>3 DEF Opened, storeVars
  <2>2. desk'[o].at = "reconciling" => \E b \in DOMAIN batches : desk'[o].copy = batches[b]
    BY <1>3, OpenedFields
  <2>. QED
    BY <1>1, <2>1, <2>2
<1>4. CASE Viewed(o) \/ Snapped(o) \/ Rewritten(o) \/ Updated(o)
  BY <1>1, <1>2, <1>4
  DEF Viewed, Snapped, Rewritten, Updated, PutBatch, PutPending, storeVars
<1>5. CASE Deleted(o) \/ Purged(o)
  <2>1. UNCHANGED <<readings, batches>>
    BY <1>5 DEF Deleted, Purged, DeletePending, storeVars
  <2>2. desk'[o].at = "reconciling" => desk'[o] = desk[o]
    <3>1. \A d : [desk[o] EXCEPT !.doomed = d].at = desk[o].at
      BY <1>1 DEF WellFormed
    <3>. QED
      BY <1>2, <1>5, <3>1 DEF Deleted, Purged
  <2>. QED
    BY <1>1, <2>1, <2>2
<1>. QED
  BY <1>1, <1>3, <1>4, <1>5 DEF DeskMove

\* A retry replaces readings at most, and leaves batches alone.
LEMMA RetriesWrite ==
  ASSUME R!CallTypeOK, NEW a \in Admins, Administer(a)
  PROVE  /\ UNCHANGED <<byBatch, callVars, desk, restarts, batches>>
         /\ DOMAIN readings \subseteq DOMAIN readings'
<1>1. UNCHANGED <<byBatch, callVars, desk, restarts, batches>> /\ RetryMove(a)
  BY RetryMoves
<1>2. CASE Stores(a)
  BY <1>1, <1>2 DEF Stores, PutReading, Put, storeVars
<1>3. CASE Loads(a) \/ GivesUp(a) \/ Fetches(a) \/ Updates(a) \/ Records(a)
  BY <1>1, <1>3 DEF Loads, GivesUp, Fetches, Updates, Records, PutPending, Record,
                    RecordLost, PutAudit, storeVars
<1>. QED
  BY <1>1, <1>2, <1>3 DEF RetryMove

\* What is in the copy of a batch that is about to be written back is stored.
CopyStored(o) ==
  desk[o].at = "reconciling" => \A r \in desk[o].copy.readings : r.id \in DOMAIN readings

LEMMA NextStored ==
  BaseInv /\ LocalInv /\ SavedBatchStored /\ (\A o \in Operators : CopyStored(o))
  /\ [PlatformNext]_platformVars
    => SavedBatchStored' /\ \A o \in Operators : CopyStored(o)'
<1>. SUFFICES ASSUME BaseInv, LocalInv, SavedBatchStored,
                     \A o \in Operators : CopyStored(o), [PlatformNext]_platformVars
              PROVE  SavedBatchStored' /\ \A o \in Operators : CopyStored(o)'
  OBVIOUS
<1>0. /\ CallTypeOK /\ R!CallTypeOK /\ DeskForm /\ CollectInv
      /\ \A o \in Operators : desk[o].at = "reconciling" => desk[o].copy \in SavedBatch
  BY DEF BaseInv, StateTypeOK, SharedTypeOK, DeskTypeOK, LocalInv
<1>1. CASE [Next]_vars /\ (UNCHANGED desk \/ IdleTypes')
  <2>1. DOMAIN readings \subseteq DOMAIN readings'
    BY <1>1, NextWrites
    DEF NothingWritten, ItemWritten, ReadingWritten, BatchWritten, PutPending,
        PutReading, SaveBatch, Put, PutAll
  <2>2. SavedBatchStored'
    BY <1>0, <1>1, StepStored
  <2>. QED
    BY <1>1, <2>1, <2>2 DEF CopyStored, IdleTypes
<1>2. ASSUME NEW a \in Admins, Administer(a)
      PROVE  SavedBatchStored' /\ \A o \in Operators : CopyStored(o)'
  BY <1>0, <1>2, RetriesWrite DEF SavedBatchStored, CopyStored
<1>3. ASSUME NEW o \in Operators, Operate(o)
      PROVE  SavedBatchStored' /\ \A p \in Operators : CopyStored(p)'
  <2>1. /\ readings' = readings
        /\ \A p \in Operators : desk'[p].at = "reconciling" =>
             \/ desk[p].at = "reconciling" /\ desk'[p].copy = desk[p].copy
             \/ \E b \in DOMAIN batches : desk'[p].copy = batches[b]
    BY <1>0, <1>3, OperatorsWrite
  <2>2. \A p \in Operators : CopyStored(p)'
    BY <2>1 DEF CopyStored, SavedBatchStored
  <2>3. CASE batches' = batches
    BY <2>1, <2>2, <2>3 DEF SavedBatchStored
  <2>4. CASE /\ desk[o].at = "reconciling"
             /\ batches' = Put(batches, desk[o].subject, Reconciled(desk[o].copy))
    <3>1. Reconciled(desk[o].copy).readings = desk[o].copy.readings
      BY <1>0, <2>4 DEF Reconciled, SavedBatch
    <3>2. \A b \in DOMAIN batches' :
            \/ batches'[b] = Reconciled(desk[o].copy)
            \/ b \in DOMAIN batches /\ batches'[b] = batches[b]
      BY <2>4 DEF Put
    <3>. QED
      BY <2>1, <2>2, <2>4, <3>1, <3>2 DEF SavedBatchStored, CopyStored
  <2>. QED
    BY <1>0, <1>3, <2>3, <2>4, OperatorsWrite
<1>. QED
  BY <1>1, <1>2, <1>3, IngestMoves DEF PlatformNext

\* Every reading of a saved batch is in the bucket of readings, also of a batch
\* that was reconciled from a copy read before.
THEOREM BatchesStayStored == PlatformSpec => []SavedBatchStored
<1>. DEFINE Copies == \A o \in Operators : CopyStored(o)
<1>1. PlatformInit => SavedBatchStored /\ Copies
  <2>. SUFFICES ASSUME PlatformInit PROVE SavedBatchStored /\ Copies
    OBVIOUS
  <2>1. IdleTypes /\ DOMAIN batches = {}
    BY IdleTyped DEF PlatformInit, Idle, Init, StoreInit, NoBucket
  <2>. QED
    BY <2>1 DEF IdleTypes, SavedBatchStored, CopyStored
<1>2. BaseInv /\ LocalInv /\ SavedBatchStored /\ Copies /\ [PlatformNext]_platformVars
        => SavedBatchStored' /\ Copies'
  BY NextStored
<1>. QED
  BY <1>1, <1>2, InitBase, NextBase, InitLocal, NextLocal, PTL DEF PlatformSpec

\* No stored reading waits for review without a pending item, whatever retries
\* make of items meanwhile, if nobody deletes items by hand and writes succeed.
THEOREM PendingStaysTracked ==
  ASSUME Maintained = FALSE, IOErrors = FALSE
  PROVE  PlatformSpec => []NoUntrackedPending
<1>1. PlatformInit => TrackedInv
  BY InitTracked DEF PlatformInit
<1>2. TrackedInv => NoUntrackedPending
  BY DEF TrackedInv
<1>. QED
  BY <1>1, <1>2, InitBase, NextBase, InitLocal, NextLocal, PlatformTracked, PTL
  DEF PlatformSpec

LEMMA NextCounts ==
  BaseInv /\ LocalInv /\ Exclusive /\ CountInv /\ [PlatformNext]_platformVars
    => Exclusive' /\ CountInv'
<1>. SUFFICES ASSUME BaseInv, LocalInv, Exclusive, CountInv,
                     [PlatformNext]_platformVars
              PROVE  Exclusive' /\ CountInv'
  OBVIOUS
<1>0. /\ CallTypeOK /\ R!CallTypeOK /\ DeskForm /\ PhaseInv
      /\ \A o \in Operators : desk[o].at = "reconciling" => desk[o].copy \in SavedBatch
  BY DEF BaseInv, StateTypeOK, SharedTypeOK, DeskTypeOK, LocalInv
<1>1. CASE [Next]_vars
  BY <1>0, <1>1, StepExclusive, StepCount
<1>2. ASSUME UNCHANGED <<byBatch, callVars>>, NoMaskedFailure'
      PROVE  Exclusive' /\ CountInv'
  <2>1. Exclusive'
    BY <1>2 DEF Exclusive, InFlight, callVars
  <2>2. ASSUME NEW c \in Calls PROVE CallCount(c)'
    BY <1>2 DEF CountInv, CallCount, Snapshot, callVars
  <2>. QED
    BY <1>2, <2>1, <2>2 DEF CountInv
<1>3. ASSUME NEW a \in Admins, Administer(a) PROVE Exclusive' /\ CountInv'
  BY <1>0, <1>2, <1>3, RetriesWrite DEF CountInv, NoMaskedFailure
<1>4. ASSUME NEW o \in Operators, Operate(o) PROVE Exclusive' /\ CountInv'
  <2>1. CASE batches' = batches
    BY <1>0, <1>2, <1>4, <2>1, OperatorsWrite DEF CountInv, NoMaskedFailure
  <2>2. CASE /\ desk[o].at = "reconciling"
             /\ batches' = Put(batches, desk[o].subject, Reconciled(desk[o].copy))
    <3>1. /\ Reconciled(desk[o].copy).summary = Recalculate(desk[o].copy.readings)
          /\ Reconciled(desk[o].copy).readings = desk[o].copy.readings
      BY <1>0, <2>2 DEF Reconciled, SavedBatch
    <3>2. \A b \in DOMAIN batches' :
            \/ batches'[b] = Reconciled(desk[o].copy)
            \/ b \in DOMAIN batches /\ batches'[b] = batches[b]
      BY <2>2 DEF Put
    <3>3. NoMaskedFailure'
      BY <3>1, <3>2 DEF CountInv, NoMaskedFailure
    <3>. QED
      BY <1>0, <1>2, <1>4, <3>3, OperatorsWrite
  <2>. QED
    BY <1>0, <1>4, <2>1, <2>2, OperatorsWrite
<1>. QED
  BY <1>1, <1>3, <1>4, IngestMoves DEF PlatformNext

\* Saved batches keep the exact counts of their readings, also when they are
\* reconciled, if callers use their ids for one call at a time.
THEOREM CountsStayExact == PlatformSpec => []NoMaskedFailure
<1>1. PlatformInit => Exclusive /\ CountInv
  BY InitCount DEF PlatformInit
<1>2. CountInv => NoMaskedFailure
  BY DEF CountInv
<1>. QED
  BY <1>1, <1>2, InitBase, NextBase, InitLocal, NextLocal, NextCounts, PTL
  DEF PlatformSpec

-----------------------------------------------------------------------------
(* Waiting readings in saved batches *)

\* A call that collected something for the batch of id has yet to save it, will
\* never do so, or did not collect id.
Behind(c, id) ==
  /\ all[c] # {} /\ batchOf[c] = id[1]
  /\ ~(phase[c] \in {"recording", "ok"} /\ \E r \in all[c] : r.id = id)

\* The saved batch of id has it wait for review.
Reported(id) ==
  /\ id[1] \in DOMAIN batches
  /\ \E r \in batches[id[1]].readings : r.id = id /\ InReview(r.status)

\* What makes WaitingReported inductive.
WaitingInv ==
  \A id \in DOMAIN readings :
    readings[id] = "pending" => Reported(id) \/ \E c \in Calls : Behind(c, id)

\* A call gets past saving by writing its batch.
LEMMA PastSaving ==
  ASSUME CallTypeOK, [Next]_vars, NEW c \in Calls,
         phase[c] \notin {"recording", "ok"}, phase'[c] \in {"recording", "ok"}
  PROVE  BatchWritten(c)
<1>0. phase \in [Calls -> Phases]
  BY DEF CallTypeOK
<1>1. ASSUME NEW d \in Calls, Refuse(d) \/ JoinEmpty(d) \/ Join(d) \/ List(d)
                              \/ RecordBatch(d)
      PROVE  BatchWritten(c)
  BY <1>0, <1>1 DEF Refuse, JoinEmpty, Join, List, RecordBatch
<1>2. ASSUME NEW d \in Calls, NEW b \in Batches, NEW S \in SUBSET Sources,
             Start(d, b, S)
      PROVE  BatchWritten(c)
  BY <1>0, <1>2 DEF Start
<1>3. ASSUME NEW d \in Calls, Save(d) PROVE BatchWritten(c)
  <2>1. c = d /\ phase' # [phase EXCEPT ![d] = "failed"]
    BY <1>0, <1>3 DEF Save
  <2>. QED
    BY <1>3, <2>1 DEF Save, WriteCommits, BatchWritten
<1>4. ASSUME NEW d \in Calls,
             \/ \E s \in Sources : FetchFails(d, s) \/ Unlock(d, s)
             \/ \E s \in Sources : \E resp \in Feeds[s] : Fetch(d, s, resp)
             \/ \E r \in todo[d] : Tally(d, r)
             \/ StoreItem(d) \/ StoreReading(d)
      PROVE  BatchWritten(c)
  BY <1>4 DEF FetchFails, Unlock, Fetch, Tally, StoreItem, StoreReading
<1>5. CASE CloseStore \/ UNCHANGED vars
  BY <1>5 DEF CloseStore, vars, callVars
<1>6. CASE Restart
  BY <1>0, <1>6 DEF Restart
<1>. QED
  BY <1>1, <1>2, <1>3, <1>4, <1>5, <1>6 DEF Next, CallStep, WriteOut, Rest

\* A call stays behind until it writes a batch with the reading.
LEMMA BehindStays ==
  ASSUME CallTypeOK, PhaseInv, [Next]_vars, NEW id, NEW c \in Calls, Behind(c, id),
         ~(BatchWritten(c) /\ \E r \in all[c] : r.id = id)
  PROVE  Behind(c, id)'
<1>1. c \in Made
  BY DEF PhaseInv, CallPhase, Behind, Made
<1>2. /\ batchOf'[c] = batchOf[c] /\ all[c] \subseteq all'[c]
      /\ phase[c] # "collecting" => all'[c] = all[c]
  BY <1>1, CallsGoOn
<1>3. CASE phase'[c] \notin {"recording", "ok"}
  BY <1>2, <1>3 DEF Behind
<1>4. CASE phase'[c] \in {"recording", "ok"}
  <2>1. phase[c] # "collecting" /\ ~\E r \in all[c] : r.id = id
    BY <1>4, PastSaving DEF Behind, BatchWritten
  <2>. QED
    BY <1>2, <2>1 DEF Behind
<1>. QED
  BY <1>3, <1>4

\* Whatever calls of ProcessBatch write, a reading that waits is reported or a
\* call is behind.
LEMMA StepWaiting ==
  CallTypeOK /\ PhaseInv /\ CollectInv /\ WaitingInv /\ [Next]_vars => WaitingInv'
<1>. SUFFICES ASSUME CallTypeOK, PhaseInv, CollectInv, WaitingInv, [Next]_vars,
                     NEW id \in DOMAIN readings', readings'[id] = "pending"
              PROVE  Reported(id)' \/ \E c \in Calls : Behind(c, id)'
  BY DEF WaitingInv
<1>0. id \in DOMAIN readings /\ readings[id] = "pending" =>
        Reported(id) \/ \E c \in Calls : Behind(c, id)
  BY DEF WaitingInv
<1>1. ASSUME NEW d \in Calls, BatchWritten(d)
      PROVE  Reported(id)' \/ \E c \in Calls : Behind(c, id)'
  <2>1. PICK w \in Written(all[d]) :
          batches' = Put(batches, batchOf[d], draft[d]) /\ readings' = PutAll(readings, w)
    BY <1>1 DEF BatchWritten, SaveBatch
  <2>2. /\ draft[d].readings = all[d] /\ all[d] # {} /\ phase \in [Calls -> Phases]
        /\ \A r \in all[d] : r.id[1] = batchOf[d]
    BY <1>1 DEF BatchWritten, CollectInv, CallCollected, PhaseInv, CallPhase, CallTypeOK
  <2>3. phase[d] = "saving" /\ phase'[d] = "recording" /\ UNCHANGED <<batchOf, all>>
    BY <1>1, <2>2 DEF BatchWritten
  <2>4. DOMAIN w = {r.id : r \in all[d]}
        /\ \A i \in DOMAIN w : \E r \in all[d] : r.id = i /\ r.status = w[i]
    BY DEF Written
  <2>5. CASE id \in DOMAIN w
    <3>1. PICK r \in all[d] : r.id = id /\ r.status = "pending"
      BY <2>1, <2>4, <2>5 DEF PutAll
    <3>2. id[1] = batchOf[d]
      BY <2>2, <3>1
    <3>3. id[1] \in DOMAIN batches' /\ batches'[id[1]].readings = all[d]
      BY <2>1, <2>2, <3>2 DEF Put
    <3>. QED
      BY <3>1, <3>3 DEF Reported, InReview
  <2>6. CASE id \notin DOMAIN w
    <3>1. id \in DOMAIN readings /\ readings[id] = "pending"
      BY <2>1, <2>6 DEF PutAll
    <3>2. ~\E r \in all[d] : r.id = id
      BY <2>4, <2>6
    <3>3. CASE id[1] = batchOf[d]
      BY <2>2, <2>3, <3>2, <3>3 DEF Behind
    <3>4. CASE id[1] # batchOf[d]
      <4>1. CASE Reported(id)
        BY <2>1, <3>4, <4>1 DEF Reported, Put
      <4>2. ASSUME NEW c \in Calls, Behind(c, id) PROVE Behind(c, id)'
        <5>1. c # d
          BY <3>4, <4>2 DEF Behind
        <5>2. ~BatchWritten(c)
          BY <1>1, <2>2, <5>1 DEF BatchWritten
        <5>. QED
          BY <4>2, <5>2, BehindStays
      <4>. QED
        BY <1>0, <3>1, <4>1, <4>2
    <3>. QED
      BY <3>3, <3>4
  <2>. QED
    BY <2>5, <2>6
<1>2. ASSUME \A d \in Calls : ~BatchWritten(d)
      PROVE  Reported(id)' \/ \E c \in Calls : Behind(c, id)'
  <2>1. ASSUME NEW c \in Calls, Behind(c, id) PROVE Behind(c, id)'
    BY <1>2, <2>1, BehindStays
  <2>2. CASE UNCHANGED <<readings, batches>>
    BY <1>0, <2>1, <2>2 DEF Reported
  <2>3. ASSUME NEW c \in Calls, ReadingWritten(c)
        PROVE  Reported(id)' \/ \E d \in Calls : Behind(d, id)'
    <3>1. /\ batches' = batches /\ readings' = Put(readings, hand[c].id, hand[c].status)
          /\ phase[c] = "collecting" /\ UNCHANGED <<phase, batchOf, all>>
          /\ hand[c] \in all[c] /\ hand[c].id[1] = batchOf[c]
      BY <2>3 DEF ReadingWritten, PutReading, CollectInv, CallCollected
    <3>2. CASE id = hand[c].id
      BY <3>1, <3>2 DEF Behind
    <3>3. CASE id # hand[c].id
      <4>1. id \in DOMAIN readings /\ readings[id] = "pending"
        BY <3>1, <3>3 DEF Put
      <4>. QED
        BY <1>0, <2>1, <3>1, <4>1 DEF Reported
    <3>. QED
      BY <3>2, <3>3
  <2>. QED
    BY <1>2, <2>2, <2>3, NextWrites DEF NothingWritten, ItemWritten, PutPending
<1>. QED
  BY <1>1, <1>2

\* Retries make no reading wait, and reconciliations keep the readings of
\* batches.
LEMMA NextWaiting ==
  BaseInv /\ LocalInv /\ ReconcileInv /\ WaitingInv /\ [PlatformNext]_platformVars
    => WaitingInv'
<1>. SUFFICES ASSUME BaseInv, LocalInv, ReconcileInv, WaitingInv,
                     [PlatformNext]_platformVars
              PROVE  WaitingInv'
  OBVIOUS
<1>0. /\ CallTypeOK /\ R!CallTypeOK /\ DeskForm /\ PhaseInv /\ CollectInv
      /\ StoringAccepted
      /\ \A o \in Operators : desk[o].at = "reconciling" => desk[o].copy \in SavedBatch
  BY DEF BaseInv, StateTypeOK, SharedTypeOK, DeskTypeOK, LocalInv
<1>1. CASE [Next]_vars
  BY <1>0, <1>1, StepWaiting
\* It is enough that no reading is made to wait and that batches keep theirs.
<1>2. ASSUME UNCHANGED <<phase, batchOf, all>>,
             \A id \in DOMAIN readings' : readings'[id] = "pending" =>
               id \in DOMAIN readings /\ readings[id] = "pending",
             BatchesKept
      PROVE  WaitingInv'
  <2>1. ASSUME NEW id PROVE Reported(id) => Reported(id)'
    BY <1>2 DEF Reported, BatchesKept
  <2>2. ASSUME NEW id, NEW c \in Calls PROVE Behind(c, id) => Behind(c, id)'
    BY <1>2 DEF Behind
  <2>. QED
    BY <1>2, <2>1, <2>2 DEF WaitingInv
<1>3. ASSUME NEW a \in Admins, Administer(a) PROVE WaitingInv'
  <2>1. UNCHANGED <<phase, batchOf, all, batches>>
    BY <1>0, <1>3, RetriesWrite DEF callVars
  <2>2. BatchesKept
    BY <2>1 DEF BatchesKept
  <2>. QED
    BY <1>0, <1>2, <1>3, <2>1, <2>2, RetriesAccept
<1>4. ASSUME NEW o \in Operators, Operate(o) PROVE WaitingInv'
  <2>1. UNCHANGED <<phase, batchOf, all, readings>>
    BY <1>0, <1>4, OperatorsWrite DEF callVars
  <2>2. CASE batches' = batches
    BY <1>2, <2>1, <2>2 DEF BatchesKept
  <2>3. CASE /\ desk[o].at = "reconciling"
             /\ batches' = Put(batches, desk[o].subject, Reconciled(desk[o].copy))
    <3>1. Reconciled(desk[o].copy).readings = batches[desk[o].subject].readings
      BY <1>0, <2>3 DEF Reconciled, SavedBatch, ReconcileInv, CopyFaithful
    <3>2. BatchesKept
      BY <2>3, <3>1 DEF BatchesKept, Put
    <3>. QED
      BY <1>2, <2>1, <3>2
  <2>. QED
    BY <1>0, <1>4, <2>2, <2>3, OperatorsWrite
<1>. QED
  BY <1>1, <1>3, <1>4, IngestMoves DEF PlatformNext

\* If callers do not reconcile a batch while it is received, a reading that
\* waits in the store waits in its saved batch too, once all calls that served
\* the batch have succeeded and collected it: whatever overlaps, retries,
\* maintenance, failing writes and restarts there are.
THEOREM WaitingStaysReported ==
  ASSUME Mixed = FALSE
  PROVE  PlatformSpec => []WaitingReported
<1>1. PlatformInit => WaitingInv
  BY DEF PlatformInit, Init, StoreInit, NoBucket, WaitingInv
<1>2. WaitingInv => WaitingReported
  BY DEF WaitingInv, WaitingReported, Reported, Behind
<1>. QED
  BY <1>1, <1>2, InitBase, NextBase, InitLocal, NextLocal, InitReconcile,
     NextReconcile, NextWaiting, PTL
  DEF PlatformSpec

-----------------------------------------------------------------------------
(* The audit log of the service *)

\* The log of one process has an entry of its own for each call of ProcessBatch
\* that succeeded.
BatchesAudited ==
  restarts = 0 =>
    \A b \in Batches : Cardinality(Entries(b)) = Cardinality(Succeeded(b))

LEMMA NextPlatformLog ==
  BaseInv /\ LogInv /\ [PlatformNext]_platformVars => LogInv'
<1>. SUFFICES ASSUME BaseInv, LogInv, [PlatformNext]_platformVars PROVE LogInv'
  OBVIOUS
<1>0. /\ MemoryTypeOK /\ CallTypeOK /\ R!CallTypeOK /\ DeskForm
      /\ DOMAIN audits \subseteq Nat /\ sequence \in Nat
  BY DEF BaseInv, StateTypeOK, SharedTypeOK, MemoryTypeOK, AuditsTypeOK
<1>1. CASE [Next]_vars
  BY <1>0, <1>1, StepLog
\* Retry draws its numbers from the same recorder.
<1>2. ASSUME UNCHANGED <<callVars, restarts, audits>>,
             sequence' \in Nat, sequence <= sequence'
      PROVE  LogInv'
  <2>1. \A b : Entries(b)' = Entries(b) /\ Succeeded(b)' = Succeeded(b)
    BY <1>2 DEF Entries, Succeeded, callVars
  <2>2. (\A k \in DOMAIN audits : k <= sequence) =>
          \A k \in DOMAIN audits' : k <= sequence'
    BY <1>0, <1>2
  <2>. QED
    BY <1>2, <2>1, <2>2 DEF LogInv
<1>3. ASSUME NEW a \in Admins, Administer(a) PROVE LogInv'
  <2>1. UNCHANGED <<callVars, restarts>> /\ RetryMove(a)
    BY <1>0, <1>3, RetryMoves
  <2>2. CASE UNCHANGED <<audits, sequence>>
    BY <1>0, <1>2, <2>1, <2>2
  <2>3. CASE sequence' = sequence + 1 /\ audits' = audits
    BY <1>0, <1>2, <2>1, <2>3
  <2>. DEFINE entry == [action |-> "pending_retry", subject |-> call[a].target,
                        detail |-> call[a].copy.status]
              new == sequence + 1
  <2>4. CASE /\ sequence' = new
             /\ audits' = Put(audits, new, entry)
    <3>. SUFFICES ASSUME restarts = 0 PROVE LogInv'
      BY <2>1 DEF LogInv
    <3>1. entry.action = "pending_retry"
      OBVIOUS
    <3>2. new \notin DOMAIN audits
      BY <1>0 DEF LogInv
    <3>3. /\ DOMAIN audits' = DOMAIN audits \cup {new}
          /\ audits'[new] = entry
          /\ \A k \in DOMAIN audits : audits'[k] = audits[k]
      BY <2>4, <3>2 DEF Put
    <3>4. \A b : Entries(b)' = Entries(b)
      BY <3>1, <3>2, <3>3 DEF Entries
    <3>5. \A b : Succeeded(b)' = Succeeded(b)
      BY <2>1 DEF Succeeded, callVars
    <3>6. IsFiniteSet(DOMAIN audits')
      BY <3>3, FS_AddElement DEF LogInv
    <3>7. \A k \in DOMAIN audits' : k <= sequence'
      BY <1>0, <2>4, <3>3 DEF LogInv
    <3>. QED
      BY <3>4, <3>5, <3>6, <3>7 DEF LogInv
  <2>5. CASE Loads(a) \/ GivesUp(a) \/ Fetches(a) \/ Stores(a) \/ Updates(a)
    BY <2>2, <2>5 DEF Loads, GivesUp, Fetches, Stores, Updates, PutReading,
                      PutPending, storeVars
  <2>6. CASE Records(a)
    BY <2>3, <2>4, <2>6 DEF Records, Record, RecordLost, PutAudit, storeVars
  <2>. QED
    BY <2>1, <2>5, <2>6 DEF RetryMove
<1>4. ASSUME NEW o \in Operators, Operate(o) PROVE LogInv'
  BY <1>0, <1>2, <1>4, OperatorsWrite
<1>. QED
  BY <1>1, <1>3, <1>4, IngestMoves DEF PlatformNext

\* Retries that draw numbers from the same recorder cost no batch its entry in
\* the log of a process, and give it none twice.
THEOREM BatchesStayAudited == PlatformSpec => []BatchesAudited
<1>1. PlatformInit => LogInv
  <2>. SUFFICES ASSUME PlatformInit PROVE LogInv
    OBVIOUS
  <2>1. DOMAIN audits = {}
    BY DEF PlatformInit, Init, StoreInit, NoBucket
  <2>2. \A b : Entries(b) = {} /\ Succeeded(b) = {}
    BY <2>1 DEF PlatformInit, Init, Entries, Succeeded
  <2>. QED
    BY <2>1, <2>2, FS_EmptySet DEF LogInv
<1>2. LogInv => BatchesAudited
  BY DEF LogInv, BatchesAudited
<1>. QED
  BY <1>1, <1>2, InitBase, NextBase, NextPlatformLog, PTL DEF PlatformSpec
=============================================================================
