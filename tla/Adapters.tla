------------------------------ MODULE Adapters ------------------------------
(***************************************************************************)
(* The vendor adapters (internal/adapter): fixtures that answer from       *)
(* memory, barriers that hold a fetch of their source until a coordinator  *)
(* releases it, and the catalogue.  A client fetches from one adapter, as  *)
(* the goroutines of ProcessBatch do, or from all that are registered, one *)
(* after the other (Catalog.FetchAll).  Each method of the catalogue runs  *)
(* under its lock and is one step; a fetch runs under none.                *)
(*                                                                         *)
(* The coordinator, who owns the two channels of the barriers, is modelled *)
(* from TestSensorBatchKeepsFailures: it receives one token from each      *)
(* fetch it expects and closes the channel "release".                      *)
(*                                                                         *)
(* Rows stand for the ids of readings; their order is left out.            *)
(***************************************************************************)
EXTENDS Naturals, FiniteSets

CONSTANTS
  Clients,    \* one call at a time each, all with one context
  Sources,    \* adapters
  VendorOf,   \* source -> vendor, a number for the order of vendors
  Rows,       \* source -> ids of the readings of its fixture
  Failing,    \* sources whose fixture has a FetchError
  Barriers,   \* sources behind a BarrierAdapter
  Requests,   \* sets of ids a fetch may ask for; the empty one is for all
  Capacity,   \* of the channel "ready"
  Expected    \* number of fetches the coordinator waits for

Vendors == {VendorOf[s] : s \in Sources}

ASSUME VendorsAssumption == VendorOf \in [Sources -> Nat]
ASSUME SubsetsAssumption == Failing \subseteq Sources /\ Barriers \subseteq Sources
ASSUME ChannelAssumption == Capacity \in Nat \ {0} /\ Expected \in Nat

VARIABLES
  catalog,   \* Catalog.adapters: vendor -> source
  call,      \* client -> its call
  done,      \* client -> whether its context is done
  ready,     \* tokens in the channel "ready"
  received,  \* tokens the coordinator has received
  released   \* whether the channel "release" is closed

channels == <<ready, received, released>>
vars == <<catalog, call, done, channels>>

\* The locals of a call: the vendors FetchAll has yet to ask, those it found in
\* the catalogue, the ids asked for, the rows it got, and the vendors that
\* failed.  A fetch from one adapter differs in that it finds no vendors.
NoCall ==
  [at |-> "idle", source |-> {}, todo |-> {}, found |-> {}, ids |-> {},
   groups |-> [v \in {} |-> {}], failed |-> {}]

Init ==
  /\ catalog = [v \in {} |-> 0]
  /\ call = [c \in Clients |-> NoCall]
  /\ done = [c \in Clients |-> FALSE]
  /\ ready = 0
  /\ received = 0
  /\ released = FALSE

-----------------------------------------------------------------------------
(* The catalogue *)

\* Register, unless it returns the error that the vendor is registered.
Register(s) ==
  /\ VendorOf[s] \notin DOMAIN catalog
  /\ catalog' = [v \in DOMAIN catalog \cup {VendorOf[s]} |->
                   IF v = VendorOf[s] THEN s ELSE catalog[v]]
  /\ UNCHANGED <<call, done, channels>>

Become(c, new) == call' = [call EXCEPT ![c] = new]

Entry(s) == IF s \in Barriers THEN "arriving" ELSE "fetching"

\* A goroutine of ProcessBatch, or Retry, fetches from the adapter it was given.
FetchOne(c, s, ids) ==
  /\ call[c].at = "idle"
  /\ Become(c, [NoCall EXCEPT !.at = Entry(s), !.source = s, !.ids = ids])
  /\ UNCHANGED <<catalog, done, channels>>

\* Mutant: every vendor there is, registered or not.
BeginAllKnown(c, ids) ==
  /\ call[c].at = "idle"
  /\ Become(c, [NoCall EXCEPT !.at = "choosing", !.ids = ids,
                              !.todo = Vendors, !.found = Vendors])
  /\ UNCHANGED <<catalog, done, channels>>

\* FetchAll: Vendors.
BeginAll(c, ids) ==
  /\ call[c].at = "idle"
  /\ Become(c, [NoCall EXCEPT !.at = "choosing", !.ids = ids,
                              !.todo = DOMAIN catalog, !.found = DOMAIN catalog])
  /\ UNCHANGED <<catalog, done, channels>>

\* FetchAll: Get of the next vendor, and the call of Fetch.
Choose(c) ==
  /\ call[c].at = "choosing"
  /\ \E v \in call[c].todo :
       /\ \A w \in call[c].todo : v <= w
       /\ Become(c, [call[c] EXCEPT !.at = Entry(catalog[v]),
                                    !.source = catalog[v],
                                    !.todo = @ \ {v}])
  /\ UNCHANGED <<catalog, done, channels>>

Return(c) ==
  /\ call[c].at = "choosing"
  /\ call[c].todo = {}
  /\ Become(c, NoCall)
  /\ UNCHANGED <<catalog, done, channels>>

-----------------------------------------------------------------------------
(* Fetch *)

\* Mutant: an error ends FetchAll.
AfterErrorNone(c) == {}

\* An error is noted and the loop goes on.
AfterError(c) == call[c].todo

\* Fetch returns an error, or rows.
Fail(c) ==
  /\ Become(c, [call[c] EXCEPT !.at = "choosing",
                               !.todo = AfterError(c),
                               !.failed = @ \cup {VendorOf[call[c].source]}])
  /\ UNCHANGED <<catalog, done, channels>>

Give(c, rows) ==
  /\ Become(c, [call[c] EXCEPT !.at = "choosing",
                               !.groups = [v \in DOMAIN @ \cup {VendorOf[call[c].source]} |->
                                             IF v = VendorOf[call[c].source]
                                             THEN rows ELSE @[v]]])
  /\ UNCHANGED <<catalog, done, channels>>

\* Mutant: the barrier tells of its arrival and goes on.
AfterArrivalOn == "fetching"

AfterArrival == "waiting"

\* BarrierAdapter.Fetch, the first select: either case if both are ready.
Arrive(c) ==
  /\ call[c].at = "arriving"
  /\ \/ /\ ready < Capacity
        /\ ready' = ready + 1
        /\ Become(c, [call[c] EXCEPT !.at = AfterArrival])
        /\ UNCHANGED <<catalog, done, received, released>>
     \/ done[c] /\ Fail(c)

\* Mutant: the end of the context is not watched for.
AwaitReleaseOnly(c) ==
  /\ call[c].at = "waiting"
  /\ released
  /\ Become(c, [call[c] EXCEPT !.at = "fetching"])
  /\ UNCHANGED <<catalog, done, channels>>

\* BarrierAdapter.Fetch, the second select.
Await(c) ==
  /\ call[c].at = "waiting"
  /\ \/ /\ released
        /\ Become(c, [call[c] EXCEPT !.at = "fetching"])
        /\ UNCHANGED <<catalog, done, channels>>
     \/ done[c] /\ Fail(c)

Wanted(s, ids) == IF ids = {} THEN Rows[s] ELSE Rows[s] \cap ids

\* FixtureAdapter.Fetch.
FixtureFetch(c) ==
  /\ call[c].at = "fetching"
  /\ IF done[c] \/ call[c].source \in Failing
     THEN Fail(c)
     ELSE Give(c, Wanted(call[c].source, call[c].ids))

ClientStep(c) ==
  Choose(c) \/ Return(c) \/ Arrive(c) \/ Await(c) \/ FixtureFetch(c)

\* The owner of the context cancels it, or its deadline passes.
Cancel(c) ==
  /\ ~done[c]
  /\ done' = [done EXCEPT ![c] = TRUE]
  /\ UNCHANGED <<catalog, call, channels>>

-----------------------------------------------------------------------------
(* The coordinator *)

\* Mutant: one token is left in the channel.
ReceiveButOne ==
  /\ received + 1 < Expected
  /\ ready > 0
  /\ ready' = ready - 1
  /\ received' = received + 1
  /\ UNCHANGED <<catalog, call, done, released>>

Receive ==
  /\ received < Expected
  /\ ready > 0
  /\ ready' = ready - 1
  /\ received' = received + 1
  /\ UNCHANGED <<catalog, call, done, released>>

Release ==
  /\ received = Expected
  /\ ~released
  /\ released' = TRUE
  /\ UNCHANGED <<catalog, call, done, ready, received>>

Coordinate == Receive \/ Release

Next ==
  \/ \E s \in Sources : Register(s)
  \/ \E c \in Clients :
       \/ \E ids \in Requests :
            BeginAll(c, ids) \/ \E s \in Sources : FetchOne(c, s, ids)
       \/ ClientStep(c)
       \/ Cancel(c)
  \/ Coordinate

Spec == Init /\ [][Next]_vars

\* Goroutines run on, the coordinator's too; nobody has to cancel anything.
FairSpec ==
  /\ Spec
  /\ \A c \in Clients : WF_vars(ClientStep(c))
  /\ WF_vars(Coordinate)

-----------------------------------------------------------------------------
(* Properties *)

Ids == UNION ({Rows[s] : s \in Sources} \cup Requests)

Busy == {"arriving", "waiting", "fetching"}

Groups == UNION {[V -> SUBSET Ids] : V \in SUBSET Vendors}

Call ==
  [at : {"idle", "choosing"} \cup Busy, source : Sources \cup {{}},
   todo : SUBSET Vendors, found : SUBSET Vendors, ids : SUBSET Ids,
   groups : Groups, failed : SUBSET Vendors]

CallTypeOK(k) ==
  /\ k \in Call
  /\ k.at \in Busy => k.source \in Sources
  /\ k.todo \subseteq k.found /\ k.found \subseteq DOMAIN catalog

\* Types of the whole state.  The vendors a FetchAll has found stay in the
\* catalogue, so that the adapter it gets for one is never nil.
TypeOK ==
  /\ DOMAIN catalog \subseteq Vendors
  /\ \A v \in DOMAIN catalog : catalog[v] \in Sources /\ VendorOf[catalog[v]] = v
  /\ DOMAIN call = Clients /\ \A c \in Clients : CallTypeOK(call[c])
  /\ done \in [Clients -> BOOLEAN]
  /\ ready \in 0..Capacity
  /\ received \in 0..Expected
  /\ released \in BOOLEAN

\* MergeRawReadings.
Merge(groups) == UNION {{v} \X groups[v] : v \in DOMAIN groups}

\* FetchAll accounts for each vendor it found, whatever fails, is registered or
\* is released while it fetches: the vendor is among the errors, or the rows
\* asked for of the adapter that is registered are among the merged rows; and
\* only an error of a vendor, or the end of the context, makes the former.
FetchAllAccounts ==
  \A c \in Clients :
    LET k == call[c]
    IN  k.at = "choosing" /\ k.todo = {} /\ k.found # {} =>
          /\ Merge(k.groups) =
               UNION {{v} \X Wanted(catalog[v], k.ids) : v \in k.found \ k.failed}
          /\ k.failed \subseteq k.found
          /\ {v \in k.found : catalog[v] \in Failing} \subseteq k.failed
          /\ ~done[c] => \A v \in k.failed : catalog[v] \in Failing

Waiting == {c \in Clients : call[c].at = "waiting"}

\* What a barrier is for: when it lifts, as many fetches as are expected are
\* under way at the same time, unless some context has ended.
FetchesMeet ==
  [][~released /\ released' /\ (\A c \in Clients : ~done[c])
       => Cardinality(Waiting) >= Expected]_vars

\* A call returns once its context is done, wherever it waits.
CancelledReturns == \A c \in Clients : done[c] ~> call[c].at = "idle"

\* Fetches that wait at a barrier go on once enough have arrived, even if
\* nobody ever cancels anything.
BarrierLifts ==
  \A c \in Clients :
    call[c].at = "waiting" /\ ready + received >= Expected
      ~> call[c].at # "waiting"
=============================================================================
