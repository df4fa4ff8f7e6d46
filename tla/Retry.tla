------------------------------- MODULE Retry -------------------------------
(***************************************************************************)
(* Service.Retry (internal/sensors/service.go): an administrator fetches   *)
(* the vendor's data again for a pending item.  The call copies the item,  *)
(* fetches, and writes the reading, the item and an audit entry in three   *)
(* transactions; nothing is held in between, so several calls interleave,  *)
(* on the same item too.                                                   *)
(*                                                                         *)
(* A call that returns before its first write leaves no trace: the item is *)
(* not found, the limit is reached, the listing fails.                     *)
(***************************************************************************)
EXTENDS Audit

CONSTANTS
  Admins,      \* callers, one call at a time each
  Waiting,     \* ids of the readings stored as pending, each with an item
  Settled,     \* ids of the readings stored as accepted
  Offers,      \* Offers[id]: what raw[0] may convert to in a retry of id
  RetryLimit,  \* settings.RetryLimit
  Overlap,     \* items that callers retry at the same time; others they do not
  MaxRestarts  \* bound on the number of restarts

Offer == [id : ReadingIds, status : {"accepted", "pending"}, storable : BOOLEAN]

ASSUME IdsAssumption ==
  /\ Waiting \cup Settled \subseteq ReadingIds
  /\ Waiting \cap Settled = {}
ASSUME OffersAssumption == \A id \in Waiting : Offers[id] \subseteq Offer
ASSUME LimitAssumption ==
  RetryLimit \in Nat /\ MaxRestarts \in Nat /\ Overlap \subseteq Waiting

VARIABLES
  call,    \* admin -> the state of its call
  restarts

vars == <<storeVars, sequence, call, restarts>>

Moves == {"idle", "fetching", "storing", "updating", "recording"}

\* Mutant: the status is left blank.
NewItemBlank == [status |-> "", attempts |-> 0]

\* pendingFor.
NewItem == [status |-> "pending", attempts |-> 0]

\* The locals of a call: where it stands, the id of its item, its copy of the
\* item and the reading the vendor gave.
Loaded(id, item) == [at |-> "fetching", target |-> id, copy |-> item, got |-> <<>>]
NoCall == [at |-> "idle", target |-> <<>>, copy |-> NewItem, got |-> <<>>]

\* What a process finds that opens the file of one killed in ProcessBatch
\* after its goroutines were done and before SaveBatch.
Init ==
  /\ db = "open"
  /\ readings = [id \in Waiting \cup Settled |->
                   IF id \in Waiting THEN "pending" ELSE "accepted"]
  /\ pending = [id \in Waiting |-> NewItem]
  /\ batches = [b \in {} |-> 0]
  /\ audits = [k \in {} |-> 0]
  /\ sequence = 0
  /\ call = [a \in Admins |-> NoCall]
  /\ restarts = 0

-----------------------------------------------------------------------------

\* Mutant: one retry too many.
BelowLimitOrAtIt(item) == item.attempts <= RetryLimit

\* The only condition on the item; its status is not asked.
BelowLimit(item) == item.attempts < RetryLimit

InRetry(id) == \E a \in Admins : call[a].target = id

\* An administrator waits for other retries of the item, or does not.
ItemFree(id) == id \in Overlap \/ ~InRetry(id)

Load(a, id) ==
  /\ call[a].at = "idle"
  /\ db = "open"
  /\ id \in DOMAIN pending
  /\ BelowLimit(pending[id])
  /\ ItemFree(id)
  /\ call' = [call EXCEPT ![a] = Loaded(id, pending[id])]
  /\ UNCHANGED <<storeVars, sequence, restarts>>

Goto(a, move) == call' = [call EXCEPT ![a].at = move]
Return(a) == call' = [call EXCEPT ![a] = NoCall]

\* The fetch fails or is empty, or raw[0] does not convert.
NothingFetched(a) ==
  /\ call[a].at = "fetching"
  /\ Return(a)
  /\ UNCHANGED <<storeVars, sequence, restarts>>

\* Mutant: an accepted reading is not stored.
AfterFetchNoStore(status) == "updating"

AfterFetch(status) == IF status = "accepted" THEN "storing" ELSE "updating"

\* Mutant: only an attempt that fails is counted.
AttemptedInVain(item, status) ==
  [status   |-> status,
   attempts |-> item.attempts + (IF status = "pending" THEN 1 ELSE 0)]

Attempted(item, status) == [status |-> status, attempts |-> item.attempts + 1]

\* raw[0] is taken whichever device it is of.
Fetched(a, offer) ==
  /\ call[a].at = "fetching"
  /\ call' = [call EXCEPT
       ![a] = [at     |-> AfterFetch(offer.status),
               target |-> @.target,
               copy   |-> Attempted(@.copy, offer.status),
               got    |-> offer]]
  /\ UNCHANGED <<storeVars, sequence, restarts>>

\* PutReading: its error is discarded.
StoreAccepted(a) ==
  /\ call[a].at = "storing"
  /\ LET offer == call[a].got
     IN \/ WriteCommits(offer.storable) /\ PutReading(offer.id, offer.status)
        \/ WriteFails(offer.storable) /\ UNCHANGED storeVars
  /\ Goto(a, "updating")
  /\ UNCHANGED <<sequence, restarts>>

\* Mutant: the item is written until that succeeds.
UpdateInsisting(a) ==
  /\ call[a].at = "updating"
  /\ WriteCommits(TRUE)
  /\ PutPending(call[a].target, call[a].copy)
  /\ Goto(a, "recording")
  /\ UNCHANGED <<sequence, restarts>>

Update(a) ==
  /\ call[a].at = "updating"
  /\ \/ /\ WriteCommits(TRUE)
        /\ PutPending(call[a].target, call[a].copy)
        /\ Goto(a, "recording")
     \/ /\ WriteFails(TRUE)
        /\ Return(a)
        /\ UNCHANGED storeVars
  /\ UNCHANGED <<sequence, restarts>>

RecordRetry(a) ==
  /\ call[a].at = "recording"
  /\ \/ /\ WriteCommits(TRUE)
        /\ Record([action |-> "pending_retry", subject |-> call[a].target,
                   detail |-> call[a].copy.status])
     \/ /\ WriteFails(TRUE)
        /\ RecordLost
  /\ Return(a)
  /\ UNCHANGED restarts

RetryStep(a) ==
  \/ NothingFetched(a)
  \/ \E id \in Waiting : \E offer \in Offers[id] :
       id = call[a].target /\ Fetched(a, offer)
  \/ StoreAccepted(a) \/ Update(a) \/ RecordRetry(a)

-----------------------------------------------------------------------------
(* The process *)

CloseStore ==
  /\ Close
  /\ UNCHANGED <<sequence, call, restarts>>

\* The process ends, at any point, and a new one opens the file.
Restart ==
  /\ restarts < MaxRestarts
  /\ restarts' = restarts + 1
  /\ Open
  /\ sequence' = 0
  /\ call' = [a \in Admins |-> NoCall]

\* Nobody retries anything.
Rest ==
  /\ \A a \in Admins : call[a].at = "idle"
  /\ UNCHANGED vars

Next ==
  \/ \E a \in Admins : RetryStep(a) \/ \E id \in Waiting : Load(a, id)
  \/ CloseStore
  \/ Restart
  \/ Rest

Spec == Init /\ [][Next]_vars

\* The goroutine that serves a call runs on, and its Fetch returns.
FairSpec == Spec /\ \A a \in Admins : WF_vars(RetryStep(a))

-----------------------------------------------------------------------------
(* Properties *)

AuditEntry == [action : {"pending_retry"}, subject : Waiting, detail : Status]

Call == [at : Moves, target : Waiting \cup {<<>>}, copy : PendingItem,
         got : Offer \cup {<<>>}]

StoreTypeOK ==
  /\ db \in {"open", "closed"}
  /\ Waiting \subseteq DOMAIN readings /\ DOMAIN readings \subseteq ReadingIds
  /\ \A id \in DOMAIN readings : readings[id] \in Status
  /\ DOMAIN pending = Waiting
  /\ \A id \in Waiting : pending[id] \in PendingItem
  /\ DOMAIN audits \subseteq Nat
  /\ \A k \in DOMAIN audits : audits[k] \in AuditEntry

CallTypeOK ==
  /\ call \in [Admins -> Call]
  /\ \A a \in Admins : call[a].at # "idle" => call[a].target \in Waiting
  /\ \A a \in Admins : call[a].at = "storing" => call[a].got \in Offer

\* Types of the whole state: items are only ever replaced, and a call that
\* writes knows what.
TypeOK ==
  /\ StoreTypeOK /\ CallTypeOK
  /\ sequence \in Nat
  /\ restarts \in 0..MaxRestarts

\* No item ever counts more attempts than the limit allows, though the limit
\* is checked on a copy that other calls overtake before it is written back.
AttemptsBounded ==
  \A id \in DOMAIN pending : pending[id].attempts <= RetryLimit

\* An item that tells the administrator it was accepted has an accepted
\* reading behind it, wherever calls interleave or the process dies: Retry
\* stores the reading first.
AcceptedBacked ==
  \A id \in DOMAIN pending :
    pending[id].status = "accepted"
      => id \in DOMAIN readings /\ readings[id] = "accepted"

Retries(id) == {k \in DOMAIN audits : audits[k].subject = id}

\* Items that are retried by one call at a time.
Single == Waiting \ Overlap

\* Between retries, the audit log tells the story of an item that is retried by
\* one call at a time: an entry for each attempt it counts, and the last one
\* names its status.
AuditHistory ==
  \A id \in Single :
    db = "open" /\ restarts = 0 /\ ~InRetry(id) =>
      /\ Cardinality(Retries(id)) = pending[id].attempts
      /\ \A k \in Retries(id) :
           (\A j \in Retries(id) : j <= k) => audits[k].detail = pending[id].status

\* What an administrator may rely on, for the items retried one at a time.
Board ==
  INSTANCE ReviewBoard WITH
    Items <- Single,
    Limit <- RetryLimit,
    board <- [id \in Single |-> pending[id]],
    stored <- [id \in Single |-> readings[id]]

\* Through its copies and separate writes, restarts and the retries of other
\* items included, Retry implements the board of reviews: each review counts
\* one attempt, up to the limit, and none accepts what is not stored.
BoardSpec == Board!Spec

\* No item is retried more often than the limit says, going by the audit log.
RetriesWithinLimit ==
  \A id \in DOMAIN pending : Cardinality(Retries(id)) <= RetryLimit

\* Every call of Retry returns, whatever becomes of the store.
RetryReturns ==
  \A a \in Admins : call[a].at = "fetching" ~> call[a].at = "idle"
=============================================================================
