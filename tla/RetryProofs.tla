---------------------------- MODULE RetryProofs ----------------------------
(* Proofs about module Retry, for any number of administrators, items and     *)
(* restarts, and any limit.                                                   *)
EXTENDS Retry, StoreProofs, FiniteSetTheorems

-----------------------------------------------------------------------------
(* Type correctness *)

LEMMA InitTypes == Init => TypeOK
<1>. SUFFICES ASSUME Init PROVE TypeOK
  OBVIOUS
<1>1. StoreTypeOK
  BY IdsAssumption DEF Init, StoreTypeOK, NewItem, PendingItem, Status
<1>2. CallTypeOK
  BY DEF Init, CallTypeOK, Call, Moves, NoCall, NewItem, PendingItem, Status
<1>. QED
  BY <1>1, <1>2, LimitAssumption DEF Init, TypeOK

\* The actions other than Load, Fetched and the writes only end calls.
LEMMA ReturnTypes ==
  ASSUME CallTypeOK, NEW a \in Admins, Return(a)
  PROVE  CallTypeOK'
BY DEF CallTypeOK, Return, Call, Moves, NoCall, NewItem, PendingItem, Status

LEMMA GotoTypes ==
  ASSUME CallTypeOK, NEW a \in Admins, call[a].at # "idle",
         NEW move \in {"updating", "recording"}, Goto(a, move)
  PROVE  CallTypeOK'
BY DEF CallTypeOK, Goto, Call, Moves

\* What is left of a call that moves on or returns.
LEMMA MoveLemma ==
  ASSUME CallTypeOK, NEW a \in Admins, NEW move
  PROVE  /\ Goto(a, move) =>
              /\ call' = [call EXCEPT ![a] = call'[a]]
              /\ call'[a].at = move
              /\ call'[a].target = call[a].target
              /\ call'[a].copy = call[a].copy
              /\ call'[a].got = call[a].got
         /\ Return(a) =>
              /\ call' = [call EXCEPT ![a] = call'[a]]
              /\ call'[a].at = "idle"
BY DEF CallTypeOK, Call, Goto, Return, NoCall

\* Every action keeps the types.
LEMMA NextTypes == TypeOK /\ [Next]_vars => TypeOK'
<1>. SUFFICES ASSUME TypeOK, [Next]_vars PROVE TypeOK'
  OBVIOUS
<1>0. /\ StoreTypeOK /\ CallTypeOK
      /\ sequence \in Nat /\ restarts \in 0..MaxRestarts
  BY DEF TypeOK
<1>1. UNCHANGED storeVars => StoreTypeOK'
  BY <1>0 DEF StoreTypeOK, storeVars
<1>2. ASSUME NEW a \in Admins, NEW id \in Waiting, Load(a, id) PROVE TypeOK'
  <2>1. CallTypeOK'
    <3>1. Loaded(id, pending[id]) \in Call
      BY <1>0 DEF StoreTypeOK, Loaded, Call, Moves
    <3>. QED
      BY <1>0, <1>2, <3>1 DEF Load, CallTypeOK, Loaded
  <2>. QED
    BY <1>0, <1>1, <1>2, <2>1 DEF Load, TypeOK
<1>3. ASSUME NEW a \in Admins, NothingFetched(a) PROVE TypeOK'
  BY <1>0, <1>1, <1>3, ReturnTypes DEF NothingFetched, TypeOK
<1>4. ASSUME NEW a \in Admins, NEW id \in Waiting, NEW offer \in Offers[id],
             id = call[a].target, Fetched(a, offer)
      PROVE  TypeOK'
  <2>1. offer \in Offer
    BY OffersAssumption
  <2>2. CallTypeOK'
    <3>1. AfterFetch(offer.status) \in {"storing", "updating"}
      BY DEF AfterFetch
    <3>2. /\ call[a] \in Call /\ call[a].copy.attempts + 1 \in Nat
          /\ offer.status \in Status
      BY <1>0, <2>1 DEF CallTypeOK, Call, PendingItem, Offer, Status
    <3>. DEFINE new == [at     |-> AfterFetch(offer.status),
                       target |-> call[a].target,
                       copy   |-> [status   |-> offer.status,
                                   attempts |-> call[a].copy.attempts + 1],
                       got    |-> offer]
    <3>3. /\ new \in Call /\ new.target = call[a].target /\ new.got = offer
          /\ new.at # "idle"
      BY <2>1, <3>1, <3>2 DEF Call, Moves, PendingItem
    <3>4. call' = [call EXCEPT ![a] = new]
      BY <1>4 DEF Fetched, Attempted
    <3>. HIDE DEF new
    <3>. QED
      BY <1>0, <1>4, <2>1, <3>3, <3>4 DEF CallTypeOK
  <2>. QED
    BY <1>0, <1>1, <1>4, <2>2 DEF Fetched, TypeOK
<1>5. ASSUME NEW a \in Admins, StoreAccepted(a) PROVE TypeOK'
  <2>1. CallTypeOK'
    BY <1>0, <1>5, GotoTypes DEF StoreAccepted
  <2>2. call[a].got.id \in ReadingIds /\ call[a].got.status \in Status
    BY <1>0, <1>5 DEF StoreAccepted, CallTypeOK, Offer, Status
  <2>3. CASE PutReading(call[a].got.id, call[a].got.status)
    <3>1. StoreTypeOK'
      BY <1>0, <2>2, <2>3 DEF StoreTypeOK, PutReading, Put
    <3>. QED
      BY <1>0, <1>5, <2>1, <3>1 DEF StoreAccepted, TypeOK
  <2>4. CASE UNCHANGED storeVars
    BY <1>0, <1>1, <1>5, <2>1, <2>4 DEF StoreAccepted, TypeOK
  <2>. QED
    BY <1>5, <2>3, <2>4 DEF StoreAccepted
<1>6. ASSUME NEW a \in Admins, Update(a) PROVE TypeOK'
  <2>1. CallTypeOK'
    BY <1>0, <1>6, GotoTypes, ReturnTypes DEF Update
  <2>2. call[a].target \in Waiting /\ call[a].copy \in PendingItem
    BY <1>0, <1>6 DEF Update, CallTypeOK, Call
  <2>3. CASE PutPending(call[a].target, call[a].copy)
    <3>1. StoreTypeOK'
      BY <1>0, <2>2, <2>3 DEF StoreTypeOK, PutPending, Put
    <3>. QED
      BY <1>0, <1>6, <2>1, <3>1 DEF Update, TypeOK
  <2>4. CASE UNCHANGED storeVars
    BY <1>0, <1>1, <1>6, <2>1, <2>4 DEF Update, TypeOK
  <2>. QED
    BY <1>6, <2>3, <2>4 DEF Update
<1>7. ASSUME NEW a \in Admins, RecordRetry(a) PROVE TypeOK'
  <2>1. CallTypeOK'
    BY <1>0, <1>7, ReturnTypes DEF RecordRetry
  <2>. DEFINE entry == [action |-> "pending_retry", subject |-> call[a].target,
                        detail |-> call[a].copy.status]
  <2>2. entry \in AuditEntry /\ sequence + 1 \in Nat
    BY <1>0, <1>7 DEF RecordRetry, CallTypeOK, Call, PendingItem, AuditEntry
  <2>. HIDE DEF entry
  <2>3. CASE PutAudit(sequence + 1, entry) /\ sequence' = sequence + 1
    <3>1. StoreTypeOK'
      BY <1>0, <2>2, <2>3, PutTyped DEF StoreTypeOK, PutAudit
    <3>. QED
      BY <1>0, <1>7, <2>1, <2>2, <2>3, <3>1 DEF RecordRetry, TypeOK
  <2>4. CASE RecordLost
    BY <1>0, <1>1, <1>7, <2>1, <2>2, <2>4 DEF RecordRetry, RecordLost, TypeOK
  <2>. QED
    BY <1>7, <2>3, <2>4 DEF RecordRetry, Record, entry
<1>8. ASSUME CloseStore PROVE TypeOK'
  BY <1>0, <1>8 DEF CloseStore, Close, buckets, TypeOK, StoreTypeOK, CallTypeOK
<1>9. ASSUME Restart PROVE TypeOK'
  <2>1. CallTypeOK'
    BY <1>9 DEF Restart, CallTypeOK, Call, Moves, NoCall, NewItem, PendingItem,
                Status
  <2>. QED
    BY <1>0, <1>9, <2>1, LimitAssumption
    DEF Restart, Open, buckets, TypeOK, StoreTypeOK
<1>10. ASSUME UNCHANGED vars PROVE TypeOK'
  BY <1>0, <1>1, <1>10 DEF vars, TypeOK, CallTypeOK
<1>. QED
  BY <1>2, <1>3, <1>4, <1>5, <1>6, <1>7, <1>8, <1>9, <1>10
  DEF Next, RetryStep, Rest

\* The state is well typed in every behaviour of Retry calls.
THEOREM TypeCorrect == Spec => []TypeOK
<1>. QED
  BY InitTypes, NextTypes, PTL DEF Spec

-----------------------------------------------------------------------------
(* The limit *)

\* What makes AttemptsBounded inductive: the limit was checked on the copy
\* that is written back.
CopyBounded(a) ==
  /\ call[a].at = "fetching" => call[a].copy.attempts < RetryLimit
  /\ call[a].at \in {"storing", "updating"} => call[a].copy.attempts <= RetryLimit

BoundInv == AttemptsBounded /\ \A a \in Admins : CopyBounded(a)

\* Every action keeps stored items and copies within the limit.
LEMMA NextBound == TypeOK /\ BoundInv /\ [Next]_vars => BoundInv'
<1>. SUFFICES ASSUME TypeOK, BoundInv, [Next]_vars PROVE BoundInv'
  OBVIOUS
<1>0. /\ AttemptsBounded /\ \A a \in Admins : CopyBounded(a)
      /\ call \in [Admins -> Call]
      /\ \A a \in Admins : call[a].copy.attempts \in Nat
      /\ DOMAIN pending = Waiting
      /\ \A id \in Waiting : pending[id].attempts \in Nat
      /\ RetryLimit \in Nat
  BY LimitAssumption
  DEF TypeOK, StoreTypeOK, CallTypeOK, BoundInv, Call, PendingItem
<1>1. ASSUME pending' = pending,
             NEW a \in Admins, call' = [call EXCEPT ![a] = call'[a]], CopyBounded(a)'
      PROVE  BoundInv'
  <2>1. ASSUME NEW b \in Admins, b # a PROVE CopyBounded(b)'
    BY <1>0, <1>1, <2>1 DEF CopyBounded
  <2>. QED
    BY <1>0, <1>1, <2>1 DEF BoundInv, AttemptsBounded
<1>2. ASSUME NEW a \in Admins, NEW id \in Waiting, Load(a, id) PROVE BoundInv'
  BY <1>0, <1>1, <1>2 DEF Load, Loaded, BelowLimit, CopyBounded, storeVars
<1>3. ASSUME NEW a \in Admins, NothingFetched(a) PROVE BoundInv'
  BY <1>0, <1>1, <1>3 DEF NothingFetched, Return, NoCall, CopyBounded, storeVars
<1>4. ASSUME NEW a \in Admins, NEW id \in Waiting, NEW offer \in Offers[id],
             Fetched(a, offer)
      PROVE  BoundInv'
  <2>1. /\ call' = [call EXCEPT ![a] = call'[a]]
        /\ call'[a].at \in {"storing", "updating"}
        /\ call'[a].copy.attempts = call[a].copy.attempts + 1
        /\ call[a].at = "fetching"
    BY <1>0, <1>4 DEF Fetched, AfterFetch, Attempted
  <2>2. CopyBounded(a)'
    BY <1>0, <2>1 DEF CopyBounded
  <2>. QED
    BY <1>1, <1>4, <2>1, <2>2 DEF Fetched, storeVars
<1>5. ASSUME NEW a \in Admins, StoreAccepted(a) PROVE BoundInv'
  <2>1. call'[a].at = "updating" /\ call'[a].copy = call[a].copy
        /\ call' = [call EXCEPT ![a] = call'[a]] /\ call[a].at = "storing"
    BY <1>5, MoveLemma DEF StoreAccepted, TypeOK
  <2>2. pending' = pending
    BY <1>5 DEF StoreAccepted, PutReading, storeVars
  <2>. QED
    BY <1>0, <1>1, <2>1, <2>2 DEF CopyBounded
<1>6. ASSUME NEW a \in Admins, Update(a) PROVE BoundInv'
  <2>1. call'[a].at \in {"recording", "idle"}
        /\ call' = [call EXCEPT ![a] = call'[a]] /\ call[a].at = "updating"
    BY <1>6, MoveLemma DEF Update, TypeOK
  <2>2. CASE pending' = pending
    BY <1>0, <1>1, <2>1, <2>2 DEF CopyBounded
  <2>3. CASE pending' = Put(pending, call[a].target, call[a].copy)
    <3>1. \A b \in Admins : CopyBounded(b)'
      BY <1>0, <2>1 DEF CopyBounded
    <3>2. AttemptsBounded'
      BY <1>0, <2>1, <2>3 DEF AttemptsBounded, Put, CopyBounded
    <3>. QED
      BY <3>1, <3>2 DEF BoundInv
  <2>. QED
    BY <1>6, <2>2, <2>3 DEF Update, PutPending, storeVars
<1>7. ASSUME NEW a \in Admins, RecordRetry(a) PROVE BoundInv'
  BY <1>0, <1>1, <1>7
  DEF RecordRetry, Record, RecordLost, PutAudit, Return, NoCall, CopyBounded,
      storeVars
<1>8. ASSUME CloseStore \/ UNCHANGED vars PROVE BoundInv'
  BY <1>0, <1>8
  DEF CloseStore, Close, buckets, vars, storeVars, BoundInv, AttemptsBounded,
      CopyBounded
<1>9. ASSUME Restart PROVE BoundInv'
  BY <1>0, <1>9
  DEF Restart, Open, buckets, NoCall, BoundInv, AttemptsBounded, CopyBounded
<1>. QED
  BY <1>2, <1>3, <1>4, <1>5, <1>6, <1>7, <1>8, <1>9
  DEF Next, RetryStep, Rest

\* No interleaving of retries, failed writes and restarts takes the attempts
\* an item counts past the limit.
THEOREM LimitKept == Spec => []AttemptsBounded
<1>1. Init => BoundInv
  BY LimitAssumption
  DEF Init, BoundInv, AttemptsBounded, CopyBounded, NewItem, NoCall
<1>2. BoundInv => AttemptsBounded
  BY DEF BoundInv
<1>. QED
  BY <1>1, <1>2, InitTypes, NextTypes, NextBound, PTL DEF Spec

-----------------------------------------------------------------------------
(* Accepted items *)

\* The vendor answers with the device of the item, and with a reading that
\* can be stored.
Aligned == \A id \in Waiting : \A offer \in Offers[id] : offer.id = id /\ offer.storable

\* What makes AcceptedBacked inductive: a call that is going to write an
\* accepted item has stored, or is about to store, its reading.
CallBacked(a) ==
  /\ call[a].at = "storing" =>
       /\ call[a].got.id = call[a].target
       /\ call[a].got.storable
       /\ call[a].got.status = "accepted"
  /\ call[a].at = "updating" /\ call[a].copy.status = "accepted" /\ db = "open" =>
       /\ call[a].target \in DOMAIN readings
       /\ readings[call[a].target] = "accepted"
  /\ call[a].at \in {"storing", "updating"} =>
       call[a].copy.status \in {"accepted", "pending"}

BackedInv == AcceptedBacked /\ \A a \in Admins : CallBacked(a)

\* Every action keeps an accepted reading behind every accepted item.
LEMMA NextBacked ==
  ASSUME Aligned, IOErrors = FALSE
  PROVE  TypeOK /\ BackedInv /\ [Next]_vars => BackedInv'
<1>. SUFFICES ASSUME TypeOK, BackedInv, [Next]_vars PROVE BackedInv'
  OBVIOUS
<1>0. /\ AcceptedBacked /\ \A a \in Admins : CallBacked(a)
      /\ call \in [Admins -> Call]
      /\ db \in {"open", "closed"}
  BY DEF TypeOK, StoreTypeOK, CallTypeOK, BackedInv
<1>1. ASSUME UNCHANGED <<db, readings, pending>>,
             NEW a \in Admins, call' = [call EXCEPT ![a] = call'[a]], CallBacked(a)'
      PROVE  BackedInv'
  <2>1. ASSUME NEW b \in Admins, b # a PROVE CallBacked(b)'
    BY <1>0, <1>1, <2>1 DEF CallBacked
  <2>. QED
    BY <1>0, <1>1, <2>1 DEF BackedInv, AcceptedBacked
<1>2. ASSUME NEW a \in Admins, NEW id \in Waiting, Load(a, id) PROVE BackedInv'
  BY <1>0, <1>1, <1>2 DEF Load, Loaded, CallBacked, storeVars
<1>3. ASSUME NEW a \in Admins, NothingFetched(a) PROVE BackedInv'
  BY <1>0, <1>1, <1>3 DEF NothingFetched, Return, NoCall, CallBacked, storeVars
<1>4. ASSUME NEW a \in Admins, NEW id \in Waiting, NEW offer \in Offers[id],
             id = call[a].target, Fetched(a, offer)
      PROVE  BackedInv'
  <2>1. offer.status \in {"accepted", "pending"}
    BY OffersAssumption DEF Offer
  <2>. QED
    BY <1>0, <1>1, <1>4, <2>1
    DEF Aligned, Fetched, AfterFetch, Attempted, CallBacked, storeVars
<1>5. ASSUME NEW a \in Admins, StoreAccepted(a) PROVE BackedInv'
  <2>1. /\ call'[a].at = "updating" /\ call'[a].target = call[a].target
        /\ call'[a].copy = call[a].copy /\ call[a].at = "storing"
        /\ call' = [call EXCEPT ![a] = call'[a]]
    BY <1>5, MoveLemma DEF StoreAccepted, TypeOK
  <2>2. call[a].got.id = call[a].target /\ call[a].got.storable
        /\ call[a].got.status = "accepted"
    BY <1>0, <1>5 DEF StoreAccepted, CallBacked
  <2>3. CASE PutReading(call[a].target, "accepted")
    <3>1. /\ readings'[call[a].target] = "accepted"
          /\ call[a].target \in DOMAIN readings'
          /\ \A id \in DOMAIN readings :
               id \in DOMAIN readings' /\ readings'[id] \in {readings[id], "accepted"}
          /\ UNCHANGED <<db, pending>>
      BY <2>3 DEF PutReading, Put
    <3>2. AcceptedBacked'
      BY <1>0, <3>1 DEF AcceptedBacked
    <3>3. ASSUME NEW b \in Admins PROVE CallBacked(b)'
      <4>1. CASE b = a
        BY <1>0, <2>1, <3>1, <4>1 DEF CallBacked
      <4>2. CASE b # a
        BY <1>0, <2>1, <3>1, <4>2 DEF CallBacked
      <4>. QED
        BY <4>1, <4>2
    <3>. QED
      BY <3>2, <3>3 DEF BackedInv
  <2>4. CASE db = "closed" /\ UNCHANGED storeVars
    <3>1. CallBacked(a)'
      BY <1>0, <2>1, <2>4 DEF CallBacked, storeVars
    <3>. QED
      BY <1>1, <2>1, <2>4, <3>1 DEF storeVars
  <2>. QED
    BY <1>5, <2>2, <2>3, <2>4 DEF StoreAccepted, WriteFails
<1>6. ASSUME NEW a \in Admins, Update(a) PROVE BackedInv'
  <2>1. call'[a].at \in {"recording", "idle"}
        /\ call' = [call EXCEPT ![a] = call'[a]] /\ call[a].at = "updating"
    BY <1>6, MoveLemma DEF Update, TypeOK
  <2>2. CASE UNCHANGED storeVars
    BY <1>1, <2>1, <2>2 DEF CallBacked, storeVars
  <2>3. CASE WriteCommits(TRUE) /\ PutPending(call[a].target, call[a].copy)
    <3>1. \A b \in Admins : CallBacked(b)'
      BY <1>0, <2>1, <2>3 DEF CallBacked, PutPending
    <3>2. AcceptedBacked'
      BY <1>0, <2>1, <2>3
      DEF AcceptedBacked, PutPending, Put, CallBacked, WriteCommits
    <3>. QED
      BY <3>1, <3>2 DEF BackedInv
  <2>. QED
    BY <1>6, <2>2, <2>3 DEF Update
<1>7. ASSUME NEW a \in Admins, RecordRetry(a) PROVE BackedInv'
  BY <1>0, <1>1, <1>7
  DEF RecordRetry, Record, RecordLost, PutAudit, Return, NoCall, CallBacked,
      storeVars
<1>8. ASSUME CloseStore \/ UNCHANGED vars PROVE BackedInv'
  BY <1>0, <1>8
  DEF CloseStore, Close, buckets, vars, storeVars, BackedInv, AcceptedBacked,
      CallBacked
<1>9. ASSUME Restart PROVE BackedInv'
  BY <1>0, <1>9
  DEF Restart, Open, buckets, NoCall, BackedInv, AcceptedBacked, CallBacked
<1>. QED
  BY <1>2, <1>3, <1>4, <1>5, <1>6, <1>7, <1>8, <1>9
  DEF Next, RetryStep, Rest

\* On a store whose writes do not fail, and with vendors that answer with the
\* device asked for, an accepted item always has an accepted reading.
THEOREM AcceptedItemsBacked ==
  ASSUME Aligned, IOErrors = FALSE
  PROVE  Spec => []AcceptedBacked
<1>1. Init => BackedInv
  BY DEF Init, BackedInv, AcceptedBacked, CallBacked, NewItem, NoCall
<1>2. BackedInv => AcceptedBacked
  BY DEF BackedInv
<1>. QED
  BY <1>1, <1>2, InitTypes, NextTypes, NextBacked, PTL DEF Spec

-----------------------------------------------------------------------------
(* Items retried by one call at a time *)

\* Such an item is retried by one call at a time, indeed.
Alone ==
  \A a, b \in Admins :
    call[a].at # "idle" /\ call[b].at # "idle"
    /\ call[a].target \in Single /\ call[a].target = call[b].target
      => a = b

\* How the copy of a call relates to the stored item.
CopyCurrent(a) ==
  call[a].target \in Single =>
    /\ call[a].at \in {"fetching", "recording"} =>
         call[a].copy = pending[call[a].target]
    /\ call[a].at \in {"storing", "updating"} =>
         call[a].copy.attempts = pending[call[a].target].attempts + 1

SingleInv == Alone /\ \A a \in Admins : CopyCurrent(a)

LEMMA InitSingle == Init => SingleInv
<1>1. Init => \A a \in Admins : call[a].at = "idle"
  BY DEF Init, NoCall
<1>. QED
  BY <1>1 DEF SingleInv, Alone, CopyCurrent

\* Retries of other items, failed writes and restarts do not part a copy from
\* its item.
LEMMA NextSingle == TypeOK /\ SingleInv /\ [Next]_vars => SingleInv'
<1>. SUFFICES ASSUME TypeOK, SingleInv, [Next]_vars PROVE SingleInv'
  OBVIOUS
<1>0. /\ Alone /\ \A a \in Admins : CopyCurrent(a)
      /\ call \in [Admins -> Call]
      /\ \A a \in Admins : call[a].at # "idle" => call[a].target \in Waiting
      /\ DOMAIN pending = Waiting
  BY DEF TypeOK, StoreTypeOK, CallTypeOK, SingleInv
<1>. DEFINE Moved(a) == call' = [call EXCEPT ![a] = call'[a]]
\* Moves of one call that leave items alone.
<1>1. ASSUME pending' = pending, NEW a \in Admins, Moved(a), CopyCurrent(a)',
             \/ call'[a].at = "idle"
             \/ call'[a].target = call[a].target /\ call[a].at # "idle"
      PROVE  SingleInv'
  <2>1. ASSUME NEW b \in Admins, NEW c \in Admins,
               call'[b].at # "idle", call'[c].at # "idle",
               call'[b].target \in Single, call'[b].target = call'[c].target
        PROVE  b = c
    <3>1. \A d \in {b, c} :
            call[d].at # "idle" /\ call'[d].target = call[d].target
      BY <1>0, <1>1, <2>1
    <3>. QED
      BY <1>0, <2>1, <3>1 DEF Alone
  <2>2. ASSUME NEW b \in Admins, b # a PROVE CopyCurrent(b)'
    BY <1>0, <1>1, <2>2 DEF CopyCurrent
  <2>. QED
    BY <1>1, <2>1, <2>2 DEF SingleInv, Alone, Single
<1>2. ASSUME NEW a \in Admins, NEW id \in Waiting, Load(a, id) PROVE SingleInv'
  <2>1. /\ Moved(a) /\ call[a].at = "idle" /\ call'[a].at = "fetching"
        /\ call'[a].target = id /\ call'[a].copy = pending[id]
        /\ pending' = pending
    BY <1>0, <1>2 DEF Load, Loaded, storeVars
  <2>2. id \in Single => \A b \in Admins : call[b].target # id
    BY <1>2 DEF Load, ItemFree, InRetry, Single
  <2>3. Alone'
    BY <1>0, <2>1, <2>2 DEF Alone
  <2>4. ASSUME NEW b \in Admins PROVE CopyCurrent(b)'
    BY <1>0, <2>1 DEF CopyCurrent
  <2>. QED
    BY <2>3, <2>4 DEF SingleInv
<1>3. ASSUME NEW a \in Admins, NothingFetched(a) PROVE SingleInv'
  <2>1. Moved(a) /\ call'[a].at = "idle"
    BY <1>3, MoveLemma DEF NothingFetched, TypeOK
  <2>. QED
    BY <1>1, <1>3, <2>1 DEF NothingFetched, CopyCurrent, storeVars
<1>4. ASSUME NEW a \in Admins, NEW id \in Waiting, NEW offer \in Offers[id],
             Fetched(a, offer)
      PROVE  SingleInv'
  <2>1. /\ Moved(a) /\ call[a].at = "fetching"
        /\ call'[a].at \in {"storing", "updating"}
        /\ call'[a].target = call[a].target
        /\ call'[a].copy.attempts = call[a].copy.attempts + 1
        /\ pending' = pending
    BY <1>0, <1>4 DEF Fetched, AfterFetch, Attempted, storeVars
  <2>2. CopyCurrent(a)'
    BY <1>0, <2>1 DEF CopyCurrent
  <2>. QED
    BY <1>1, <2>1, <2>2
<1>5. ASSUME NEW a \in Admins, StoreAccepted(a) PROVE SingleInv'
  <2>1. /\ Moved(a) /\ call[a].at = "storing" /\ call'[a].at = "updating"
        /\ call'[a].target = call[a].target /\ call'[a].copy = call[a].copy
    BY <1>5, MoveLemma DEF StoreAccepted, TypeOK
  <2>2. pending' = pending
    BY <1>5 DEF StoreAccepted, PutReading, storeVars
  <2>3. CopyCurrent(a)'
    BY <1>0, <2>1, <2>2 DEF CopyCurrent
  <2>. QED
    BY <1>1, <2>1, <2>2, <2>3
<1>6. ASSUME NEW a \in Admins, Update(a) PROVE SingleInv'
  <2>0. call[a].at = "updating"
    BY <1>6 DEF Update
  <2>1. CASE Return(a) /\ UNCHANGED storeVars
    <3>1. Moved(a) /\ call'[a].at = "idle"
      BY <2>1, MoveLemma DEF TypeOK
    <3>. QED
      BY <1>1, <2>1, <3>1 DEF CopyCurrent, storeVars
  <2>2. CASE PutPending(call[a].target, call[a].copy) /\ Goto(a, "recording")
    <3>0. PICK id \in Waiting : id = call[a].target
      BY <1>0, <2>0
    <3>1. /\ Moved(a) /\ call'[a].at = "recording"
          /\ call'[a].target = id /\ call'[a].copy = call[a].copy
      BY <2>2, <3>0, MoveLemma DEF TypeOK
    <3>2. /\ pending'[id] = call[a].copy
          /\ \A i \in Waiting : i # id => pending'[i] = pending[i]
      BY <1>0, <2>2, <3>0 DEF PutPending, Put
    <3>3. ASSUME NEW b \in Admins PROVE CopyCurrent(b)'
      <4>1. CASE b = a
        BY <3>1, <3>2, <4>1 DEF CopyCurrent
      <4>2. CASE b # a
        <5>1. call[b].target \in Single /\ call[b].at # "idle" =>
                call[b].target # id /\ call[b].target \in Waiting
          BY <1>0, <2>0, <3>0, <4>2 DEF Alone
        <5>. QED
          BY <1>0, <3>1, <3>2, <4>2, <5>1 DEF CopyCurrent
      <4>. QED
        BY <4>1, <4>2
    <3>4. Alone'
      BY <1>0, <2>0, <3>0, <3>1 DEF Alone
    <3>. QED
      BY <3>3, <3>4 DEF SingleInv
  <2>. QED
    BY <1>6, <2>1, <2>2 DEF Update
<1>7. ASSUME NEW a \in Admins, RecordRetry(a) PROVE SingleInv'
  <2>1. Moved(a) /\ call'[a].at = "idle"
    <3>1. Return(a)
      BY <1>7 DEF RecordRetry
    <3>. QED
      BY <3>1, MoveLemma DEF TypeOK
  <2>2. pending' = pending
    BY <1>7 DEF RecordRetry, Record, RecordLost, PutAudit, storeVars
  <2>. QED
    BY <1>1, <2>1, <2>2 DEF CopyCurrent
<1>8. ASSUME CloseStore \/ UNCHANGED vars PROVE SingleInv'
  BY <1>0, <1>8
  DEF CloseStore, Close, buckets, vars, storeVars, SingleInv, Alone, CopyCurrent
<1>9. ASSUME Restart PROVE SingleInv'
  <2>1. \A a \in Admins : call'[a].at = "idle"
    BY <1>9 DEF Restart, NoCall
  <2>. QED
    BY <2>1 DEF SingleInv, Alone, CopyCurrent
<1>. QED
  BY <1>2, <1>3, <1>4, <1>5, <1>6, <1>7, <1>8, <1>9
  DEF Next, RetryStep, Rest

-----------------------------------------------------------------------------
(* The audit log *)

Recording(id) == \E a \in Admins : call[a].at = "recording" /\ call[a].target = id

\* The key of the next entry is fresh.
KeyInv == IsFiniteSet(DOMAIN audits) /\ \A k \in DOMAIN audits : k <= sequence

\* The attempts of an item are told by the audit log, but for one that is
\* being recorded, and its last entry gives its status.
Told(id) ==
  db = "open" =>
    /\ ~Recording(id) => Cardinality(Retries(id)) = pending[id].attempts
    /\ Recording(id) => Cardinality(Retries(id)) + 1 = pending[id].attempts
    /\ ~Recording(id) => \A k \in Retries(id) :
         (\A j \in Retries(id) : j <= k) => audits[k].detail = pending[id].status

HistoryInv == restarts = 0 => KeyInv /\ \A id \in Single : Told(id)

LEMMA InitHistory == Init => HistoryInv
<1>. SUFFICES ASSUME Init PROVE HistoryInv
  OBVIOUS
<1>1. KeyInv
  BY FS_EmptySet DEF Init, KeyInv
<1>2. ASSUME NEW id \in Single PROVE Told(id)
  <2>1. ~Recording(id)
    BY DEF Init, Recording, NoCall
  <2>2. Retries(id) = {} /\ pending[id].attempts = 0
    BY DEF Init, Retries, NewItem, Single
  <2>3. Cardinality(Retries(id)) = 0
    BY <2>2, FS_EmptySet
  <2>. QED
    BY <2>1, <2>2, <2>3 DEF Told
<1>. QED
  BY <1>1, <1>2 DEF HistoryInv

\* On a store whose writes do not fail, every action of one process keeps the
\* log in step with the items that are retried by one call at a time.
LEMMA NextHistory ==
  ASSUME IOErrors = FALSE
  PROVE  TypeOK /\ SingleInv /\ HistoryInv /\ [Next]_vars => HistoryInv'
<1>. SUFFICES ASSUME TypeOK, SingleInv, HistoryInv, [Next]_vars, restarts' = 0
              PROVE  KeyInv' /\ \A id \in Single : Told(id)'
  BY DEF HistoryInv
<1>. DEFINE InStep == KeyInv /\ \A id \in Single : Told(id)
            Log == UNCHANGED <<db, pending, audits>>
            Moved(a) == call' = [call EXCEPT ![a] = call'[a]]
<1>. SUFFICES InStep'
  OBVIOUS
<1>11. ~Restart
  BY DEF Restart, TypeOK
<1>12. restarts = 0
  BY <1>11
  DEF Next, RetryStep, Rest, Load, NothingFetched, Fetched, StoreAccepted,
      Update, RecordRetry, CloseStore, vars
<1>0. /\ Alone /\ KeyInv
      /\ \A a \in Admins : CopyCurrent(a)
      /\ \A id \in Single : Told(id)
      /\ call \in [Admins -> Call]
      /\ \A a \in Admins : call[a].at # "idle" => call[a].target \in Waiting
      /\ DOMAIN pending = Waiting
      /\ \A id \in Single : id \in Waiting
      /\ sequence \in Nat /\ DOMAIN audits \subseteq Nat
      /\ db \in {"open", "closed"}
  BY <1>12
  DEF TypeOK, StoreTypeOK, CallTypeOK, SingleInv, HistoryInv, Single
\* Moves of one call that leave items and audits alone.
<1>1. ASSUME Log, sequence' = sequence, NEW a \in Admins, Moved(a),
             call[a].at # "recording", call'[a].at # "recording"
      PROVE  InStep'
  <2>1. \A id \in Single : Recording(id)' <=> Recording(id)
    BY <1>0, <1>1 DEF Recording
  <2>2. \A id \in Single : Told(id)'
    BY <1>0, <1>1, <2>1 DEF Told, Retries
  <2>. QED
    BY <1>0, <1>1, <2>2 DEF KeyInv
<1>3. ASSUME NEW a \in Admins, NEW id \in Waiting, Load(a, id) PROVE InStep'
  <2>1. /\ Moved(a) /\ call[a].at = "idle" /\ call'[a].at = "fetching"
        /\ Log /\ sequence' = sequence
    BY <1>0, <1>3 DEF Load, Loaded, storeVars
  <2>. QED
    BY <1>1, <2>1
<1>4. ASSUME NEW a \in Admins, NothingFetched(a) PROVE InStep'
  <2>1. Moved(a) /\ call[a].at = "fetching" /\ call'[a].at = "idle"
    BY <1>4, MoveLemma DEF NothingFetched, TypeOK
  <2>. QED
    BY <1>1, <1>4, <2>1 DEF NothingFetched, storeVars
<1>5. ASSUME NEW a \in Admins, NEW id \in Waiting, NEW offer \in Offers[id],
             Fetched(a, offer)
      PROVE  InStep'
  <2>1. /\ Moved(a) /\ call[a].at = "fetching"
        /\ call'[a].at \in {"storing", "updating"}
        /\ Log /\ sequence' = sequence
    BY <1>0, <1>5 DEF Fetched, AfterFetch, storeVars
  <2>. QED
    BY <1>1, <2>1
<1>6. ASSUME NEW a \in Admins, StoreAccepted(a) PROVE InStep'
  <2>1. Moved(a) /\ call[a].at = "storing" /\ call'[a].at = "updating"
    BY <1>6, MoveLemma DEF StoreAccepted, TypeOK
  <2>2. Log /\ sequence' = sequence
    BY <1>6 DEF StoreAccepted, PutReading, storeVars
  <2>. QED
    BY <1>1, <2>1, <2>2
<1>7. ASSUME NEW a \in Admins, Update(a) PROVE InStep'
  <2>0. call[a].at = "updating" /\ sequence' = sequence
    BY <1>7 DEF Update
  <2>1. CASE db = "closed" /\ Return(a) /\ UNCHANGED storeVars
    <3>1. Moved(a) /\ call'[a].at = "idle"
      BY <2>1, MoveLemma DEF TypeOK
    <3>. QED
      BY <1>1, <2>0, <2>1, <3>1 DEF storeVars
  <2>2. CASE PutPending(call[a].target, call[a].copy) /\ Goto(a, "recording")
    <3>0. PICK id \in Waiting : id = call[a].target
      BY <1>0, <2>0
    <3>1. /\ Moved(a) /\ call'[a].at = "recording"
          /\ call'[a].target = id /\ call'[a].copy = call[a].copy
      BY <2>2, <3>0, MoveLemma DEF TypeOK
    <3>2. /\ pending'[id] = call[a].copy
          /\ \A i \in Waiting : i # id => pending'[i] = pending[i]
          /\ UNCHANGED <<db, audits>>
      BY <1>0, <2>2, <3>0 DEF PutPending, Put
    <3>3. /\ id \in Single => ~Recording(id) /\ Recording(id)'
          /\ \A i \in Waiting : i # id => (Recording(i)' <=> Recording(i))
      BY <1>0, <2>0, <3>0, <3>1 DEF Recording, Alone
    <3>4. id \in Single => call[a].copy.attempts = pending[id].attempts + 1
      BY <1>0, <2>0, <3>0 DEF CopyCurrent
    <3>5. ASSUME NEW i \in Single PROVE Told(i)'
      <4>0. Told(i) /\ Retries(i)' = Retries(i) /\ i \in Waiting
        BY <1>0, <3>2 DEF Retries
      <4>1. CASE i = id
        BY <3>2, <3>3, <3>4, <4>0, <4>1 DEF Told
      <4>2. CASE i # id
        BY <3>2, <3>3, <4>0, <4>2 DEF Told
      <4>. QED
        BY <4>1, <4>2
    <3>6. KeyInv'
      BY <1>0, <2>0, <3>2 DEF KeyInv
    <3>. QED
      BY <3>5, <3>6
  <2>. QED
    BY <1>7, <2>1, <2>2 DEF Update, WriteFails
<1>8. ASSUME NEW a \in Admins, RecordRetry(a) PROVE InStep'
  <2>0. call[a].at = "recording"
    BY <1>8 DEF RecordRetry
  <2>1. Moved(a) /\ call'[a].at = "idle"
    <3>1. Return(a)
      BY <1>8 DEF RecordRetry
    <3>. QED
      BY <3>1, MoveLemma DEF TypeOK
  <2>3. pending' = pending /\ db' = db /\ sequence' = sequence + 1
    BY <1>8 DEF RecordRetry, Record, RecordLost, PutAudit, storeVars
  <2>5. CASE db = "closed" /\ UNCHANGED audits
    BY <1>0, <2>3, <2>5 DEF KeyInv, Told
  <2>7. PICK id \in Waiting : id = call[a].target
    BY <1>0, <2>0
  <2>. DEFINE new == sequence + 1
              entry == [action |-> "pending_retry", subject |-> id,
                        detail |-> call[a].copy.status]
  <2>6. CASE audits' = Put(audits, new, entry)
    <3>1. /\ DOMAIN audits' = DOMAIN audits \cup {new}
          /\ new \notin DOMAIN audits
          /\ audits'[new] = entry
          /\ \A k \in DOMAIN audits : audits'[k] = audits[k]
      BY <1>0, <2>6 DEF Put, KeyInv
    <3>2. KeyInv'
      <4>1. IsFiniteSet(DOMAIN audits')
        BY <1>0, <3>1, FS_AddElement DEF KeyInv
      <4>. QED
        BY <1>0, <2>3, <3>1, <4>1 DEF KeyInv
    <3>3. /\ id \in Single => Recording(id) /\ ~Recording(id)'
          /\ \A i \in Waiting : i # id => (Recording(i)' <=> Recording(i))
      BY <1>0, <2>0, <2>1, <2>7 DEF Recording, Alone
    <3>4. CASE db = "open"
      <4>1. ASSUME id \in Single PROVE Told(id)'
        <5>1. Retries(id)' = Retries(id) \cup {new} /\ new \notin Retries(id)
          <6>1. audits'[new].subject = id
            BY <3>1
          <6>. QED
            BY <3>1, <6>1 DEF Retries
        <5>2. IsFiniteSet(Retries(id))
          BY <1>0, FS_Subset DEF KeyInv, Retries
        <5>3. Cardinality(Retries(id)') = Cardinality(Retries(id)) + 1
          BY <5>1, <5>2, FS_AddElement
        <5>4. Cardinality(Retries(id)) + 1 = pending[id].attempts
          BY <1>0, <3>3, <3>4, <4>1 DEF Told
        <5>5. \A k \in Retries(id) : ~(new <= k)
          BY <1>0 DEF KeyInv, Retries
        <5>6. call[a].copy.status = pending[id].status
          BY <1>0, <2>0, <2>7, <4>1 DEF CopyCurrent
        <5>7. ASSUME NEW k \in Retries(id)', \A j \in Retries(id)' : j <= k
              PROVE  audits'[k].detail = pending[id].status
          <6>1. k = new
            BY <5>1, <5>5, <5>7
          <6>. QED
            BY <3>1, <5>6, <6>1
        <5>. QED
          BY <2>3, <3>3, <4>1, <5>3, <5>4, <5>7 DEF Told
      <4>2. ASSUME NEW i \in Single, i # id PROVE Told(i)'
        <5>1. Retries(i)' = Retries(i) /\ i \in Waiting
          BY <1>0, <3>1, <4>2 DEF Retries
        <5>2. \A k \in Retries(i) : audits'[k] = audits[k]
          BY <3>1 DEF Retries
        <5>. QED
          BY <1>0, <2>3, <3>3, <3>4, <4>2, <5>1, <5>2 DEF Told
      <4>. QED
        BY <3>2, <4>1, <4>2
    <3>5. CASE db # "open"
      BY <2>3, <3>2, <3>5 DEF Told
    <3>. QED
      BY <3>4, <3>5
  <2>. QED
    BY <1>8, <2>5, <2>6, <2>7
    DEF RecordRetry, Record, RecordLost, PutAudit, WriteFails, storeVars
<1>9. ASSUME CloseStore PROVE InStep'
  BY <1>0, <1>9 DEF CloseStore, Close, buckets, KeyInv, Told
<1>10. ASSUME UNCHANGED vars PROVE InStep'
  BY <1>0, <1>10 DEF vars, storeVars, KeyInv, Told, Recording, Retries
<1>. QED
  BY <1>3, <1>4, <1>5, <1>6, <1>7, <1>8, <1>9, <1>10, <1>11
  DEF Next, RetryStep, Rest

\* While the first process runs, the audit log accounts for every attempt and
\* for the status of every item that is retried by one call at a time.
THEOREM HistoryTold ==
  ASSUME IOErrors = FALSE
  PROVE  Spec => []AuditHistory
<1>1. TypeOK /\ HistoryInv => AuditHistory
  BY DEF TypeOK, StoreTypeOK, HistoryInv, Told, AuditHistory, Recording, InRetry,
         Single
<1>. QED
  BY <1>1, InitTypes, InitSingle, InitHistory, NextTypes, NextSingle, NextHistory,
     PTL DEF Spec

-----------------------------------------------------------------------------
(* The board of reviews *)

\* Every action is a review on the board, the replacement of a stored reading,
\* or nothing that the board tells.
LEMMA NextBoard ==
  ASSUME IOErrors = FALSE
  PROVE  TypeOK /\ SingleInv /\ BoundInv /\ BackedInv /\ [Next]_vars =>
           [Board!Next]_(Board!boardVars)
<1>. SUFFICES ASSUME TypeOK, SingleInv, BoundInv, BackedInv, [Next]_vars
              PROVE  [Board!Next]_(Board!boardVars)
  OBVIOUS
<1>0. /\ \A a \in Admins :
           CopyCurrent(a) /\ CopyBounded(a) /\ CallBacked(a)
      /\ \A a \in Admins : call[a].at # "idle" => call[a].target \in Waiting
      /\ \A a \in Admins : call[a].copy \in PendingItem
      /\ DOMAIN pending = Waiting /\ Waiting \subseteq DOMAIN readings
      /\ \A id \in Waiting : pending[id] \in PendingItem
      /\ \A id \in Single : id \in Waiting
      /\ RetryLimit \in Nat
      /\ db \in {"open", "closed"}
  BY LimitAssumption
  DEF TypeOK, StoreTypeOK, CallTypeOK, Call, SingleInv, BoundInv, BackedInv,
      Single
<1>1. ASSUME pending' = pending, readings' = readings
      PROVE  UNCHANGED Board!boardVars
  BY <1>1 DEF Board!boardVars
<1>2. ASSUME NEW a \in Admins, StoreAccepted(a)
      PROVE  [Board!Next]_(Board!boardVars)
  <2>0. /\ call[a].at = "storing" /\ call[a].target \in Waiting
        /\ call[a].got.id = call[a].target /\ call[a].got.storable
        /\ call[a].got.status = "accepted"
    BY <1>0, <1>2 DEF StoreAccepted, CallBacked
  <2>1. CASE UNCHANGED storeVars
    BY <1>1, <2>1 DEF storeVars
  <2>2. CASE PutReading(call[a].target, "accepted")
    <3>0. PICK t \in Waiting : t = call[a].target
      BY <2>0
    <3>1. /\ pending' = pending
          /\ \A id \in Waiting :
               readings'[id] = IF id = t THEN "accepted" ELSE readings[id]
      BY <1>0, <2>2, <3>0 DEF PutReading, Put
    <3>2. CASE t \in Single
      <4>1. Board!Replace(t)
        BY <1>0, <3>1, <3>2 DEF Board!Replace
      <4>. QED
        BY <3>2, <4>1 DEF Board!Next
    <3>3. CASE t \notin Single
      BY <1>0, <3>1, <3>3 DEF Board!boardVars
    <3>. QED
      BY <3>2, <3>3
  <2>. QED
    BY <1>2, <2>0, <2>1, <2>2 DEF StoreAccepted
<1>3. ASSUME NEW a \in Admins, Update(a)
      PROVE  [Board!Next]_(Board!boardVars)
  <2>0. call[a].at = "updating" /\ call[a].target \in Waiting
    BY <1>0, <1>3 DEF Update
  <2>1. CASE UNCHANGED storeVars
    BY <1>1, <2>1 DEF storeVars
  <2>2. CASE db = "open" /\ PutPending(call[a].target, call[a].copy)
    <3>. DEFINE new == call[a].copy
    <3>0. PICK t \in Waiting : t = call[a].target
      BY <2>0
    <3>1. /\ readings' = readings
          /\ \A id \in Waiting : pending'[id] = IF id = t THEN new ELSE pending[id]
      BY <1>0, <2>2, <3>0 DEF PutPending, Put
    <3>2. CASE t \in Single
      <4>1. /\ new.attempts = pending[t].attempts + 1
            /\ new.attempts <= RetryLimit
            /\ new.status \in {"accepted", "pending"}
            /\ new.status = "accepted" => readings[t] = "accepted"
        BY <1>0, <2>0, <2>2, <3>0, <3>2 DEF CopyCurrent, CopyBounded, CallBacked
      <4>2. /\ new = [status |-> new.status, attempts |-> pending[t].attempts + 1]
            /\ pending[t].attempts < RetryLimit
        BY <1>0, <3>2, <4>1 DEF PendingItem
      <4>. HIDE DEF new
      <4>3. PICK st \in {"accepted", "pending"} : st = new.status
        BY <4>1
      <4>4. Board!Review(t, st)
        <5>1. [id \in Single |-> pending[id]]' =
                [[id \in Single |-> pending[id]] EXCEPT
                   ![t] = [status |-> st, attempts |-> @.attempts + 1]]
          BY <1>0, <3>1, <3>2, <4>2, <4>3
        <5>. QED
          BY <3>1, <3>2, <4>1, <4>2, <4>3, <5>1 DEF Board!Review
      <4>. QED
        BY <3>2, <4>4 DEF Board!Next
    <3>3. CASE t \notin Single
      BY <1>0, <3>1, <3>3 DEF Board!boardVars
    <3>. QED
      BY <3>2, <3>3
  <2>. QED
    BY <1>3, <2>1, <2>2 DEF Update, WriteCommits
<1>4. ASSUME NEW a \in Admins, RecordRetry(a)
      PROVE  [Board!Next]_(Board!boardVars)
  BY <1>1, <1>4 DEF RecordRetry, Record, RecordLost, PutAudit, storeVars
<1>5. ASSUME \/ \E a \in Admins, id \in Waiting : Load(a, id)
             \/ \E a \in Admins : NothingFetched(a)
             \/ \E a \in Admins : \E id \in Waiting : \E offer \in Offers[id] :
                  Fetched(a, offer)
             \/ CloseStore \/ Restart \/ UNCHANGED vars
      PROVE  [Board!Next]_(Board!boardVars)
  BY <1>1, <1>5
  DEF Load, NothingFetched, Fetched, CloseStore, Close, Restart, Open, buckets,
      storeVars, vars
<1>. QED
  BY <1>2, <1>3, <1>4, <1>5 DEF Next, RetryStep, Rest

\* Retrying implements the board of reviews for the items that are retried by
\* one call at a time, if vendors answer with the device of the item and
\* writes do not fail.
THEOREM ImplementsBoard ==
  ASSUME Aligned, IOErrors = FALSE
  PROVE  Spec => BoardSpec
<1>. DEFINE IInv == TypeOK /\ SingleInv /\ BoundInv /\ BackedInv
<1>1. Init => IInv /\ Board!Init
  <2>1. Init => Board!Init
    BY DEF Init, NewItem, Single, Board!Init
  <2>2. Init => BoundInv
    BY LimitAssumption
    DEF Init, BoundInv, AttemptsBounded, CopyBounded, NewItem, NoCall
  <2>3. Init => BackedInv
    BY DEF Init, BackedInv, AcceptedBacked, CallBacked, NewItem, NoCall
  <2>. QED
    BY <2>1, <2>2, <2>3, InitTypes, InitSingle
<1>2. IInv /\ [Next]_vars => IInv' /\ [Board!Next]_(Board!boardVars)
  BY NextTypes, NextSingle, NextBound, NextBacked, NextBoard
<1>. QED
  BY <1>1, <1>2, PTL DEF Spec, BoardSpec, Board!Spec
=============================================================================
