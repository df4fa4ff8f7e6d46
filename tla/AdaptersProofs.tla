--------------------------- MODULE AdaptersProofs ---------------------------
(* Proofs about module Adapters, for any number of clients, adapters and   *)
(* vendors, any capacity of the channel and any number of expected fetches. *)
EXTENDS Adapters, FiniteSetTheorems, TLAPS

-----------------------------------------------------------------------------
(* Type correctness *)

LEMMA InitTypes == Init => TypeOK
<1>1. NoCall \in Call
  <2>1. [v \in {} |-> {}] \in Groups
    BY DEF Groups
  <2>. QED
    BY <2>1 DEF NoCall, Call
<1>2. CallTypeOK(NoCall)
  BY <1>1 DEF CallTypeOK, NoCall, Busy
<1>. SUFFICES ASSUME Init PROVE TypeOK
  OBVIOUS
<1>3. DOMAIN call = Clients /\ \A c \in Clients : CallTypeOK(call[c])
  BY <1>2 DEF Init
<1>4. ready \in 0..Capacity /\ received \in 0..Expected
  BY ChannelAssumption DEF Init
<1>. QED
  BY <1>3, <1>4 DEF Init, TypeOK

\* What a call that goes on may become.
LEMMA BecomeTypes ==
  ASSUME TypeOK, NEW c \in Clients, NEW new, CallTypeOK(new), Become(c, new),
         UNCHANGED catalog
  PROVE  DOMAIN call' = Clients /\ \A d \in Clients : CallTypeOK(call[d])'
BY DEF TypeOK, Become, CallTypeOK

\* The vendor a fetch is asking.
Asked(c) == VendorOf[call[c].source]

\* The two ends of a fetch, and their types.
LEMMA FailLemma ==
  ASSUME TypeOK, NEW c \in Clients, call[c].at \in Busy, Fail(c)
  PROVE  /\ call' = [call EXCEPT ![c] = call'[c]]
         /\ call'[c].at = "choosing" /\ call'[c].source = call[c].source
         /\ call'[c].todo = call[c].todo /\ call'[c].found = call[c].found
         /\ call'[c].ids = call[c].ids /\ call'[c].groups = call[c].groups
         /\ call'[c].failed = call[c].failed \cup {Asked(c)}
         /\ UNCHANGED <<catalog, done, channels>>
         /\ \A d \in Clients : CallTypeOK(call[d])'
<1>. DEFINE new == [call[c] EXCEPT !.at = "choosing", !.todo = AfterError(c),
                                   !.failed = @ \cup {VendorOf[call[c].source]}]
<1>1. call[c] \in Call /\ call[c].source \in Sources
  BY DEF TypeOK, CallTypeOK
<1>2. /\ new.at = "choosing" /\ new.source = call[c].source
      /\ new.todo = call[c].todo /\ new.found = call[c].found
      /\ new.ids = call[c].ids /\ new.groups = call[c].groups
      /\ new.failed = call[c].failed \cup {Asked(c)}
  BY <1>1 DEF Call, AfterError, Asked
<1>3. CallTypeOK(new)
  <2>1. Asked(c) \in Vendors
    BY <1>1 DEF Vendors, Asked
  <2>2. new \in Call
    BY <1>1, <2>1 DEF Call, AfterError, Asked
  <2>. HIDE DEF new
  <2>. QED
    BY <1>1, <1>2, <2>2 DEF TypeOK, CallTypeOK, Busy
<1>4. Become(c, new) /\ UNCHANGED <<catalog, done, channels>>
  BY DEF Fail
<1>. HIDE DEF new
<1>5. \A d \in Clients : CallTypeOK(call[d])'
  BY <1>3, <1>4, BecomeTypes
<1>6. call' = [call EXCEPT ![c] = new] /\ call'[c] = new
  BY <1>4 DEF Become, TypeOK
<1>. QED
  BY <1>2, <1>4, <1>5, <1>6

LEMMA GiveLemma ==
  ASSUME TypeOK, NEW c \in Clients, call[c].at \in Busy,
         NEW rows \in SUBSET Ids, Give(c, rows)
  PROVE  /\ call' = [call EXCEPT ![c] = call'[c]]
         /\ call'[c].at = "choosing" /\ call'[c].source = call[c].source
         /\ call'[c].todo = call[c].todo /\ call'[c].found = call[c].found
         /\ call'[c].ids = call[c].ids /\ call'[c].failed = call[c].failed
         /\ call'[c].groups =
              [v \in DOMAIN call[c].groups \cup {Asked(c)} |->
                 IF v = Asked(c) THEN rows ELSE call[c].groups[v]]
         /\ UNCHANGED <<catalog, done, channels>>
         /\ \A d \in Clients : CallTypeOK(call[d])'
<1>. DEFINE more == [v \in DOMAIN call[c].groups \cup {Asked(c)} |->
                       IF v = Asked(c) THEN rows ELSE call[c].groups[v]]
            new == [call[c] EXCEPT !.at = "choosing", !.groups = more]
<1>1. call[c] \in Call /\ call[c].source \in Sources
  BY DEF TypeOK, CallTypeOK
<1>2. /\ new.at = "choosing" /\ new.source = call[c].source
      /\ new.todo = call[c].todo /\ new.found = call[c].found
      /\ new.ids = call[c].ids /\ new.failed = call[c].failed
      /\ new.groups = more
  <2>. HIDE DEF more
  <2>. QED
    BY <1>1 DEF Call
<1>3. CallTypeOK(new)
  <2>1. Asked(c) \in Vendors
    BY <1>1 DEF Vendors, Asked
  <2>2. PICK V \in SUBSET Vendors : call[c].groups \in [V -> SUBSET Ids]
    BY <1>1 DEF Call, Groups
  <2>3. V \cup {Asked(c)} \in SUBSET Vendors
        /\ more \in [V \cup {Asked(c)} -> SUBSET Ids]
    BY <2>1, <2>2
  <2>4. more \in Groups
    BY <2>3 DEF Groups
  <2>. HIDE DEF more
  <2>5. new \in Call
    BY <1>1, <2>4 DEF Call
  <2>. HIDE DEF new
  <2>. QED
    BY <1>1, <1>2, <2>5 DEF TypeOK, CallTypeOK, Busy
<1>4. Become(c, new) /\ UNCHANGED <<catalog, done, channels>>
  <2>1. new = [call[c] EXCEPT !.at = "choosing",
                 !.groups = [v \in DOMAIN @ \cup {VendorOf[call[c].source]} |->
                               IF v = VendorOf[call[c].source]
                               THEN rows ELSE @[v]]]
    BY DEF Asked
  <2>. HIDE DEF new
  <2>. QED
    BY <2>1 DEF Give
<1>. HIDE DEF new
<1>5. \A d \in Clients : CallTypeOK(call[d])'
  BY <1>3, <1>4, BecomeTypes
<1>6. call' = [call EXCEPT ![c] = new] /\ call'[c] = new
  BY <1>4 DEF Become, TypeOK
<1>. QED
  BY <1>2, <1>4, <1>5, <1>6

LEMMA WantedTypes ==
  ASSUME NEW s \in Sources, NEW ids
  PROVE  Wanted(s, ids) \in SUBSET Ids
BY DEF Wanted, Ids

\* A fetch that moves from one select to the next.
LEMMA MoveLemma ==
  ASSUME TypeOK, NEW c \in Clients, call[c].at \in Busy, NEW move \in Busy,
         Become(c, [call[c] EXCEPT !.at = move]), UNCHANGED catalog
  PROVE  /\ call' = [call EXCEPT ![c] = call'[c]]
         /\ call'[c].at = move /\ call'[c].source = call[c].source
         /\ call'[c].todo = call[c].todo /\ call'[c].found = call[c].found
         /\ call'[c].ids = call[c].ids /\ call'[c].groups = call[c].groups
         /\ call'[c].failed = call[c].failed
         /\ \A d \in Clients : CallTypeOK(call[d])'
<1>. DEFINE new == [call[c] EXCEPT !.at = move]
<1>1. call[c] \in Call /\ call[c].source \in Sources
  BY DEF TypeOK, CallTypeOK
<1>2. /\ new.at = move /\ new.source = call[c].source
      /\ new.todo = call[c].todo /\ new.found = call[c].found
      /\ new.ids = call[c].ids /\ new.groups = call[c].groups
      /\ new.failed = call[c].failed
      /\ new \in Call
  BY <1>1 DEF Call
<1>. HIDE DEF new
<1>3. CallTypeOK(new)
  BY <1>1, <1>2 DEF TypeOK, CallTypeOK
<1>4. Become(c, new)
  BY DEF new
<1>5. \A d \in Clients : CallTypeOK(call[d])'
  BY <1>3, <1>4, BecomeTypes
<1>6. call' = [call EXCEPT ![c] = new] /\ call'[c] = new
  BY <1>4 DEF Become, TypeOK
<1>. QED
  BY <1>2, <1>5, <1>6

\* FetchAll asks the next vendor.
LEMMA ChooseLemma ==
  ASSUME TypeOK, NEW c \in Clients, Choose(c)
  PROVE  \E v \in call[c].todo :
           /\ call' = [call EXCEPT ![c] = call'[c]]
           /\ call'[c].at \in {"arriving", "fetching"}
           /\ call'[c].source = catalog[v] /\ VendorOf[catalog[v]] = v
           /\ call'[c].todo = call[c].todo \ {v}
           /\ call'[c].found = call[c].found
           /\ call'[c].ids = call[c].ids /\ call'[c].groups = call[c].groups
           /\ call'[c].failed = call[c].failed
           /\ \A d \in Clients : CallTypeOK(call[d])'
<1>1. PICK v \in call[c].todo :
        Become(c, [call[c] EXCEPT !.at = Entry(catalog[v]), !.source = catalog[v],
                                  !.todo = @ \ {v}])
  BY DEF Choose
<1>. DEFINE new == [call[c] EXCEPT !.at = Entry(catalog[v]), !.source = catalog[v],
                                   !.todo = @ \ {v}]
<1>2. call[c] \in Call /\ Entry(catalog[v]) \in {"arriving", "fetching"}
      /\ catalog[v] \in Sources /\ VendorOf[catalog[v]] = v
      /\ UNCHANGED catalog
  BY DEF TypeOK, CallTypeOK, Entry, Choose
<1>3. /\ new.at \in {"arriving", "fetching"} /\ new.source = catalog[v]
      /\ new.todo = call[c].todo \ {v} /\ new.found = call[c].found
      /\ new.ids = call[c].ids /\ new.groups = call[c].groups
      /\ new.failed = call[c].failed
      /\ new \in Call
  BY <1>2 DEF Call, Busy
<1>. HIDE DEF new
<1>4. CallTypeOK(new)
  BY <1>2, <1>3 DEF TypeOK, CallTypeOK
<1>5. Become(c, new)
  BY <1>1 DEF new
<1>6. \A d \in Clients : CallTypeOK(call[d])'
  BY <1>2, <1>4, <1>5, BecomeTypes
<1>7. call' = [call EXCEPT ![c] = new] /\ call'[c] = new
  BY <1>5 DEF Become, TypeOK
<1>. QED
  BY <1>2, <1>3, <1>6, <1>7

\* The two ways a call begins.
LEMMA BeginLemma ==
  ASSUME TypeOK, NEW c \in Clients, NEW ids \in Requests,
         BeginAll(c, ids) \/ \E s \in Sources : FetchOne(c, s, ids)
  PROVE  /\ call' = [call EXCEPT ![c] = call'[c]] /\ call[c].at = "idle"
         /\ call'[c].at \in {"choosing", "arriving", "fetching"}
         /\ call'[c].groups = [v \in {} |-> {}] /\ call'[c].failed = {}
         /\ (call'[c].found = {} \/ call'[c].at = "choosing")
         /\ call'[c].todo = call'[c].found
         /\ UNCHANGED <<catalog, done, channels>>
         /\ \A d \in Clients : CallTypeOK(call[d])'
<1>0. NoCall \in Call /\ DOMAIN catalog \subseteq Vendors /\ ids \subseteq Ids
      /\ NoCall.groups = [v \in {} |-> {}] /\ NoCall.failed = {}
      /\ NoCall.found = {} /\ NoCall.todo = {}
  <2>1. [v \in {} |-> {}] \in Groups
    BY DEF Groups
  <2>. QED
    BY <2>1 DEF NoCall, Call, TypeOK, Ids
<1>1. ASSUME NEW new \in Call, Become(c, new), CallTypeOK(new), UNCHANGED catalog
      PROVE  /\ call' = [call EXCEPT ![c] = call'[c]] /\ call'[c] = new
             /\ \A d \in Clients : CallTypeOK(call[d])'
  BY <1>1, BecomeTypes DEF Become, TypeOK
<1>2. CASE BeginAll(c, ids)
  <2>. DEFINE new == [NoCall EXCEPT !.at = "choosing", !.ids = ids,
                                   !.todo = DOMAIN catalog, !.found = DOMAIN catalog]
  <2>1. /\ new \in Call /\ new.at = "choosing" /\ new.failed = {}
        /\ new.groups = [v \in {} |-> {}]
        /\ new.todo = DOMAIN catalog /\ new.found = DOMAIN catalog
    <3>1. /\ new \in Call /\ new.at = "choosing" /\ new.failed = NoCall.failed
          /\ new.groups = NoCall.groups
          /\ new.todo = DOMAIN catalog /\ new.found = DOMAIN catalog
      BY <1>0 DEF Call
    <3>. QED
      BY <1>0, <3>1
  <2>2. Become(c, new) /\ UNCHANGED <<catalog, done, channels>>
        /\ call[c].at = "idle"
    BY <1>2 DEF BeginAll
  <2>. HIDE DEF new
  <2>3. CallTypeOK(new)
    BY <2>1 DEF CallTypeOK, Busy
  <2>. QED
    BY <1>1, <2>1, <2>2, <2>3
<1>3. ASSUME NEW s \in Sources, FetchOne(c, s, ids)
      PROVE  /\ call' = [call EXCEPT ![c] = call'[c]] /\ call[c].at = "idle"
             /\ call'[c].at \in {"choosing", "arriving", "fetching"}
             /\ call'[c].groups = [v \in {} |-> {}] /\ call'[c].failed = {}
             /\ call'[c].found = {} /\ call'[c].todo = call'[c].found
             /\ UNCHANGED <<catalog, done, channels>>
             /\ \A d \in Clients : CallTypeOK(call[d])'
  <2>. DEFINE new == [NoCall EXCEPT !.at = Entry(s), !.source = s, !.ids = ids]
  <2>1. /\ new \in Call /\ new.at \in {"arriving", "fetching"} /\ new.failed = {}
        /\ new.groups = [v \in {} |-> {}] /\ new.source = s
        /\ new.todo = {} /\ new.found = {}
    <3>1. Entry(s) \in {"arriving", "fetching"}
      BY DEF Entry
    <3>2. /\ new \in Call /\ new.at = Entry(s) /\ new.failed = NoCall.failed
          /\ new.groups = NoCall.groups /\ new.source = s
          /\ new.todo = NoCall.todo /\ new.found = NoCall.found
      BY <1>0, <3>1 DEF Call, Busy
    <3>. QED
      BY <1>0, <3>1, <3>2
  <2>2. Become(c, new) /\ UNCHANGED <<catalog, done, channels>>
        /\ call[c].at = "idle"
    BY <1>3 DEF FetchOne
  <2>. HIDE DEF new
  <2>3. CallTypeOK(new)
    BY <2>1 DEF CallTypeOK
  <2>. QED
    BY <1>1, <2>1, <2>2, <2>3
<1>. QED
  BY <1>2, <1>3

\* What a step of a client does to its call, in terms of the lemmas above.
LEMMA StepCases ==
  ASSUME TypeOK, NEW c \in Clients, ClientStep(c)
  PROVE  \/ Choose(c)
         \/ call[c].at = "choosing" /\ Become(c, NoCall)
            /\ UNCHANGED <<catalog, done, channels>>
         \/ /\ call[c].at = "arriving" /\ ready < Capacity /\ ready' = ready + 1
            /\ Become(c, [call[c] EXCEPT !.at = "waiting"])
            /\ UNCHANGED <<catalog, done, received, released>>
         \/ /\ call[c].at = "waiting" /\ released
            /\ Become(c, [call[c] EXCEPT !.at = "fetching"])
            /\ UNCHANGED <<catalog, done, channels>>
         \/ /\ call[c].at \in Busy /\ Fail(c)
            /\ done[c] \/ (call[c].at = "fetching" /\ call[c].source \in Failing)
         \/ /\ call[c].at = "fetching" /\ call[c].source \notin Failing
            /\ Give(c, Wanted(call[c].source, call[c].ids))
<1>1. CASE Choose(c)
  BY <1>1
<1>2. CASE Return(c)
  BY <1>2 DEF Return
<1>3. CASE Arrive(c)
  <2>1. call[c].at = "arriving" /\ "arriving" \in Busy
    BY <1>3 DEF Arrive, Busy
  <2>. QED
    <3>1. CASE done[c] /\ Fail(c)
      BY <2>1, <3>1
    <3>2. CASE ~(done[c] /\ Fail(c))
      BY <1>3, <2>1, <3>2 DEF Arrive, AfterArrival
    <3>. QED
      BY <3>1, <3>2
<1>4. CASE Await(c)
  <2>1. call[c].at = "waiting" /\ "waiting" \in Busy
    BY <1>4 DEF Await, Busy
  <2>. QED
    <3>1. CASE done[c] /\ Fail(c)
      BY <2>1, <3>1
    <3>2. CASE ~(done[c] /\ Fail(c))
      BY <1>4, <2>1, <3>2 DEF Await
    <3>. QED
      BY <3>1, <3>2
<1>5. CASE FixtureFetch(c)
  <2>1. call[c].at = "fetching" /\ "fetching" \in Busy
    BY <1>5 DEF FixtureFetch, Busy
  <2>. QED
    <3>1. CASE done[c] \/ call[c].source \in Failing
      BY <1>5, <2>1, <3>1 DEF FixtureFetch
    <3>2. CASE ~(done[c] \/ call[c].source \in Failing)
      BY <1>5, <2>1, <3>2 DEF FixtureFetch
    <3>. QED
      BY <3>1, <3>2
<1>. QED
  BY <1>1, <1>2, <1>3, <1>4, <1>5 DEF ClientStep

LEMMA ReturnLemma ==
  ASSUME TypeOK, NEW c \in Clients, Become(c, NoCall), UNCHANGED catalog
  PROVE  /\ call' = [call EXCEPT ![c] = call'[c]]
         /\ call'[c].at = "idle" /\ call'[c].found = {}
         /\ \A d \in Clients : CallTypeOK(call[d])'
<1>1. NoCall \in Call
  <2>1. [v \in {} |-> {}] \in Groups
    BY DEF Groups
  <2>. QED
    BY <2>1 DEF NoCall, Call
<1>2. CallTypeOK(NoCall)
  BY <1>1 DEF CallTypeOK, NoCall, Busy
<1>3. \A d \in Clients : CallTypeOK(call[d])'
  BY <1>2, BecomeTypes
<1>. QED
  BY <1>3 DEF Become, TypeOK, NoCall

\* Every action keeps the types.
LEMMA NextTypes == TypeOK /\ [Next]_vars => TypeOK'
<1>. SUFFICES ASSUME TypeOK, [Next]_vars PROVE TypeOK'
  OBVIOUS
<1>0. /\ DOMAIN catalog \subseteq Vendors
      /\ \A v \in DOMAIN catalog : catalog[v] \in Sources /\ VendorOf[catalog[v]] = v
      /\ DOMAIN call = Clients /\ done \in [Clients -> BOOLEAN]
      /\ ready \in 0..Capacity /\ received \in 0..Expected /\ released \in BOOLEAN
      /\ Capacity \in Nat /\ Expected \in Nat
  BY ChannelAssumption DEF TypeOK
<1>1. ASSUME DOMAIN call' = Clients, \A d \in Clients : CallTypeOK(call[d])',
             UNCHANGED <<catalog, done>>, ready' \in 0..Capacity,
             received' = received, released' = released
      PROVE  TypeOK'
  BY <1>0, <1>1 DEF TypeOK
<1>2. ASSUME NEW s \in Sources, Register(s) PROVE TypeOK'
  <2>1. DOMAIN catalog' \subseteq Vendors /\ DOMAIN catalog \subseteq DOMAIN catalog'
        /\ \A v \in DOMAIN catalog' :
             catalog'[v] \in Sources /\ VendorOf[catalog'[v]] = v
    BY <1>0, <1>2 DEF Register, Vendors
  <2>2. \A d \in Clients : CallTypeOK(call[d])'
    BY <1>2, <2>1 DEF TypeOK, CallTypeOK, Register
  <2>. QED
    BY <1>0, <1>2, <2>1, <2>2 DEF TypeOK, Register, channels
<1>3. ASSUME NEW c \in Clients, NEW ids \in Requests,
             BeginAll(c, ids) \/ \E s \in Sources : FetchOne(c, s, ids)
      PROVE  TypeOK'
  <2>1. DOMAIN call' = Clients
    BY <1>0, <1>3, BeginLemma
  <2>. QED
    BY <1>0, <1>1, <1>3, <2>1, BeginLemma DEF channels
<1>4. ASSUME NEW c \in Clients, ClientStep(c) PROVE TypeOK'
  <2>1. CASE Choose(c)
    <3>1. DOMAIN call' = Clients /\ \A d \in Clients : CallTypeOK(call[d])'
      BY <1>0, <2>1, ChooseLemma
    <3>. QED
      BY <1>0, <1>1, <2>1, <3>1 DEF Choose, channels
  <2>2. CASE Become(c, NoCall) /\ UNCHANGED <<catalog, done, channels>>
    <3>1. DOMAIN call' = Clients /\ \A d \in Clients : CallTypeOK(call[d])'
      BY <1>0, <2>2, ReturnLemma
    <3>. QED
      BY <1>0, <1>1, <2>2, <3>1 DEF channels
  <2>3. CASE /\ call[c].at = "arriving" /\ ready < Capacity /\ ready' = ready + 1
             /\ Become(c, [call[c] EXCEPT !.at = "waiting"])
             /\ UNCHANGED <<catalog, done, received, released>>
    <3>1. DOMAIN call' = Clients /\ \A d \in Clients : CallTypeOK(call[d])'
      BY <1>0, <2>3, MoveLemma DEF Busy
    <3>2. ready' \in 0..Capacity
      BY <1>0, <2>3
    <3>. QED
      BY <1>1, <2>3, <3>1, <3>2
  <2>4. CASE /\ call[c].at = "waiting" /\ released
             /\ Become(c, [call[c] EXCEPT !.at = "fetching"])
             /\ UNCHANGED <<catalog, done, channels>>
    <3>1. DOMAIN call' = Clients /\ \A d \in Clients : CallTypeOK(call[d])'
      BY <1>0, <2>4, MoveLemma DEF Busy
    <3>. QED
      BY <1>0, <1>1, <2>4, <3>1 DEF channels
  <2>5. CASE call[c].at \in Busy /\ Fail(c)
    <3>1. DOMAIN call' = Clients /\ \A d \in Clients : CallTypeOK(call[d])'
      BY <1>0, <2>5, FailLemma
    <3>. QED
      BY <1>0, <1>1, <2>5, <3>1 DEF Fail, channels
  <2>6. CASE call[c].at = "fetching" /\ Give(c, Wanted(call[c].source, call[c].ids))
    <3>0. call[c].at \in Busy /\ call[c].source \in Sources
      BY <2>6 DEF Busy, TypeOK, CallTypeOK
    <3>1. PICK rows \in SUBSET Ids : rows = Wanted(call[c].source, call[c].ids)
      BY <3>0, WantedTypes
    <3>2. DOMAIN call' = Clients /\ \A d \in Clients : CallTypeOK(call[d])'
      BY <1>0, <2>6, <3>0, <3>1, GiveLemma
    <3>. QED
      BY <1>0, <1>1, <2>6, <3>2 DEF Give, channels
  <2>. QED
    BY <1>4, <2>1, <2>2, <2>3, <2>4, <2>5, <2>6, StepCases
<1>5. ASSUME NEW c \in Clients, Cancel(c) PROVE TypeOK'
  BY <1>0, <1>5 DEF Cancel, TypeOK, CallTypeOK, channels
<1>6. CASE Receive
  BY <1>0, <1>6 DEF Receive, TypeOK, CallTypeOK
<1>7. CASE Release
  BY <1>0, <1>7 DEF Release, TypeOK, CallTypeOK
<1>8. CASE UNCHANGED vars
  BY <1>0, <1>8 DEF vars, channels, TypeOK, CallTypeOK
<1>. QED
  BY <1>2, <1>3, <1>4, <1>5, <1>6, <1>7, <1>8 DEF Next, Coordinate

\* The state is well typed, and FetchAll never finds a vendor gone.
THEOREM TypeCorrect == Spec => []TypeOK
<1>. QED
  BY InitTypes, NextTypes, PTL DEF Spec

-----------------------------------------------------------------------------
(* FetchAll *)

Current(c) == IF call[c].at \in Busy THEN {Asked(c)} ELSE {}

\* What makes FetchAllAccounts inductive: each vendor that was found is at one
\* of four places, and the rows of the second are what was asked for.
Account(c) ==
  call[c].found # {} =>
    /\ call[c].found = call[c].todo \cup Current(c) \cup DOMAIN call[c].groups
                         \cup call[c].failed
    /\ call[c].failed \cap DOMAIN call[c].groups = {}
    /\ call[c].todo \cap (DOMAIN call[c].groups \cup call[c].failed) = {}
    /\ Current(c) \cap (call[c].todo \cup DOMAIN call[c].groups \cup call[c].failed) = {}
    /\ call[c].at \in Busy => call[c].source = catalog[Asked(c)]
    /\ \A v \in DOMAIN call[c].groups :
         /\ call[c].groups[v] = Wanted(catalog[v], call[c].ids)
         /\ catalog[v] \notin Failing
    /\ ~done[c] => \A v \in call[c].failed : catalog[v] \in Failing

AccountInv == \A c \in Clients : Account(c)

\* The account of a call hangs on nothing but the call and the catalogue.
LEMMA SameAccount ==
  ASSUME TypeOK, NEW c \in Clients, Account(c), call'[c] = call[c],
         done'[c] = done[c] \/ done'[c] = TRUE,
         \A v \in DOMAIN catalog : v \in DOMAIN catalog' /\ catalog'[v] = catalog[v]
  PROVE  Account(c)'
<1>1. /\ call[c].found \subseteq DOMAIN catalog
      /\ call[c].at \in Busy => call[c].source \in Sources
  BY DEF TypeOK, CallTypeOK
<1>. SUFFICES ASSUME call[c].found # {} PROVE Account(c)'
  BY DEF Account
<1>2. /\ Current(c)' = Current(c) /\ Asked(c)' = Asked(c)
      /\ Current(c) \subseteq call[c].found
      /\ DOMAIN call[c].groups \subseteq call[c].found
      /\ call[c].failed \subseteq call[c].found
  BY DEF Current, Asked, Account
<1>3. \A v \in call[c].found : catalog'[v] = catalog[v]
  BY <1>1
<1>4. call[c].at \in Busy => Asked(c) \in call[c].found
  BY <1>2 DEF Current
<1>. QED
  BY <1>2, <1>3, <1>4 DEF Account

\* Every action keeps the accounts.
LEMMA NextAccount == TypeOK /\ AccountInv /\ [Next]_vars => AccountInv'
<1>. SUFFICES ASSUME TypeOK, AccountInv, [Next]_vars PROVE AccountInv'
  OBVIOUS
<1>0. /\ \A c \in Clients : Account(c)
      /\ done \in [Clients -> BOOLEAN]
      /\ DOMAIN call = Clients
  BY DEF AccountInv, TypeOK
<1>1. ASSUME NEW c \in Clients, call' = [call EXCEPT ![c] = call'[c]],
             UNCHANGED <<catalog, done>>, Account(c)'
      PROVE  AccountInv'
  <2>1. ASSUME NEW d \in Clients, d # c PROVE Account(d)'
    BY <1>0, <1>1, <2>1, SameAccount
  <2>. QED
    BY <1>1, <2>1 DEF AccountInv
<1>2. ASSUME call' = call, \A c \in Clients : done'[c] = done[c] \/ done'[c] = TRUE,
             \A v \in DOMAIN catalog : v \in DOMAIN catalog' /\ catalog'[v] = catalog[v]
      PROVE  AccountInv'
  BY <1>0, <1>2, SameAccount DEF AccountInv
<1>3. ASSUME NEW s \in Sources, Register(s) PROVE AccountInv'
  BY <1>2, <1>3 DEF Register
<1>4. ASSUME NEW c \in Clients, NEW ids \in Requests,
             BeginAll(c, ids) \/ \E s \in Sources : FetchOne(c, s, ids)
      PROVE  AccountInv'
  <2>1. /\ call' = [call EXCEPT ![c] = call'[c]]
        /\ DOMAIN call'[c].groups = {} /\ call'[c].failed = {}
        /\ call'[c].found = {} \/ call'[c].at = "choosing"
        /\ call'[c].todo = call'[c].found
        /\ UNCHANGED <<catalog, done>>
    BY <1>4, BeginLemma
  <2>2. Account(c)'
    BY <2>1 DEF Account, Current, Busy
  <2>. QED
    BY <1>1, <2>1, <2>2
<1>5. ASSUME NEW c \in Clients, ClientStep(c) PROVE AccountInv'
  <2>1. CASE Choose(c)
    <3>1. PICK v \in call[c].todo :
            /\ call' = [call EXCEPT ![c] = call'[c]]
            /\ call'[c].at \in {"arriving", "fetching"}
            /\ call'[c].source = catalog[v] /\ VendorOf[catalog[v]] = v
            /\ call'[c].todo = call[c].todo \ {v}
            /\ call'[c].found = call[c].found
            /\ call'[c].ids = call[c].ids /\ call'[c].groups = call[c].groups
            /\ call'[c].failed = call[c].failed
      BY <2>1, ChooseLemma
    <3>2. UNCHANGED <<catalog, done>> /\ call[c].at = "choosing"
      BY <2>1 DEF Choose
    <3>3. Current(c) = {} /\ Current(c)' = {v} /\ Asked(c)' = v
      BY <3>1, <3>2 DEF Current, Asked, Busy
    <3>4. Account(c)'
      BY <1>0, <3>1, <3>2, <3>3 DEF Account
    <3>. QED
      BY <1>1, <3>1, <3>2, <3>4
  <2>2. CASE Become(c, NoCall) /\ UNCHANGED <<catalog, done, channels>>
    <3>1. call' = [call EXCEPT ![c] = call'[c]] /\ call'[c].found = {}
      BY <2>2, ReturnLemma
    <3>. QED
      BY <1>1, <2>2, <3>1 DEF Account
  <2>3. ASSUME call[c].at \in Busy, NEW move \in Busy,
               Become(c, [call[c] EXCEPT !.at = move]), UNCHANGED <<catalog, done>>
        PROVE  AccountInv'
    <3>1. /\ call' = [call EXCEPT ![c] = call'[c]]
          /\ call'[c].at \in Busy /\ call'[c].source = call[c].source
          /\ call'[c].todo = call[c].todo /\ call'[c].found = call[c].found
          /\ call'[c].ids = call[c].ids /\ call'[c].groups = call[c].groups
          /\ call'[c].failed = call[c].failed
      BY <2>3, MoveLemma
    <3>2. Current(c)' = Current(c) /\ Asked(c)' = Asked(c)
      BY <2>3, <3>1 DEF Current, Asked
    <3>3. Account(c)'
      BY <1>0, <2>3, <3>1, <3>2 DEF Account
    <3>. QED
      BY <1>1, <2>3, <3>1, <3>3
  <2>4. CASE /\ call[c].at \in Busy /\ Fail(c)
             /\ done[c] \/ (call[c].at = "fetching" /\ call[c].source \in Failing)
    <3>1. /\ call' = [call EXCEPT ![c] = call'[c]]
          /\ call'[c].at = "choosing"
          /\ call'[c].todo = call[c].todo /\ call'[c].found = call[c].found
          /\ call'[c].ids = call[c].ids /\ call'[c].groups = call[c].groups
          /\ call'[c].failed = call[c].failed \cup {Asked(c)}
          /\ UNCHANGED <<catalog, done>>
      BY <2>4, FailLemma
    <3>2. Current(c) = {Asked(c)} /\ Current(c)' = {}
      BY <2>4, <3>1 DEF Current, Busy
    <3>3. call[c].found # {} /\ ~done[c] => catalog[Asked(c)] \in Failing
      BY <1>0, <2>4 DEF Account
    <3>4. Account(c)'
      <4>. SUFFICES ASSUME call[c].found # {} PROVE Account(c)'
        BY <3>1 DEF Account
      <4>1. /\ call[c].found = call[c].todo \cup {Asked(c)} \cup DOMAIN call[c].groups
                                 \cup call[c].failed
            /\ call[c].failed \cap DOMAIN call[c].groups = {}
            /\ call[c].todo \cap (DOMAIN call[c].groups \cup call[c].failed) = {}
            /\ Asked(c) \notin call[c].todo \cup DOMAIN call[c].groups \cup call[c].failed
            /\ call[c].source = catalog[Asked(c)]
            /\ \A v \in DOMAIN call[c].groups :
                 /\ call[c].groups[v] = Wanted(catalog[v], call[c].ids)
                 /\ catalog[v] \notin Failing
            /\ ~done[c] => \A v \in call[c].failed : catalog[v] \in Failing
        BY <1>0, <2>4, <3>2 DEF Account
      <4>2. call'[c].at \notin Busy
        BY <3>1 DEF Busy
      <4>. QED
        BY <3>1, <3>2, <3>3, <4>1, <4>2 DEF Account
    <3>. QED
      BY <1>1, <3>1, <3>4
  <2>5. CASE /\ call[c].at = "fetching" /\ call[c].source \notin Failing
             /\ Give(c, Wanted(call[c].source, call[c].ids))
    <3>0. call[c].at \in Busy /\ call[c].source \in Sources
      BY <2>5 DEF Busy, TypeOK, CallTypeOK
    <3>1. PICK rows \in SUBSET Ids : rows = Wanted(call[c].source, call[c].ids)
      BY <3>0, WantedTypes
    <3>2. /\ call' = [call EXCEPT ![c] = call'[c]]
          /\ call'[c].at = "choosing"
          /\ call'[c].todo = call[c].todo /\ call'[c].found = call[c].found
          /\ call'[c].ids = call[c].ids /\ call'[c].failed = call[c].failed
          /\ call'[c].groups =
               [v \in DOMAIN call[c].groups \cup {Asked(c)} |->
                  IF v = Asked(c) THEN rows ELSE call[c].groups[v]]
          /\ UNCHANGED <<catalog, done>>
      BY <2>5, <3>0, <3>1, GiveLemma
    <3>3. Current(c) = {Asked(c)} /\ Current(c)' = {}
      BY <3>0, <3>2 DEF Current, Busy
    <3>4. DOMAIN call'[c].groups = DOMAIN call[c].groups \cup {Asked(c)}
          /\ \A v \in DOMAIN call'[c].groups :
               call'[c].groups[v] = IF v = Asked(c) THEN rows ELSE call[c].groups[v]
      BY <3>2
    <3>5. Account(c)'
      <4>. SUFFICES ASSUME call[c].found # {} PROVE Account(c)'
        BY <3>2 DEF Account
      <4>1. /\ call[c].found = call[c].todo \cup {Asked(c)} \cup DOMAIN call[c].groups
                                 \cup call[c].failed
            /\ call[c].failed \cap DOMAIN call[c].groups = {}
            /\ call[c].todo \cap (DOMAIN call[c].groups \cup call[c].failed) = {}
            /\ Asked(c) \notin call[c].todo \cup DOMAIN call[c].groups \cup call[c].failed
            /\ call[c].source = catalog[Asked(c)]
            /\ \A v \in DOMAIN call[c].groups :
                 /\ call[c].groups[v] = Wanted(catalog[v], call[c].ids)
                 /\ catalog[v] \notin Failing
            /\ ~done[c] => \A v \in call[c].failed : catalog[v] \in Failing
        BY <1>0, <3>0, <3>3 DEF Account
      <4>2. call'[c].at \notin Busy
        BY <3>2 DEF Busy
      <4>3. \A v \in DOMAIN call'[c].groups :
              /\ call'[c].groups[v] = Wanted(catalog[v], call[c].ids)
              /\ catalog[v] \notin Failing
        BY <2>5, <3>1, <3>4, <4>1
      <4>4. /\ call'[c].todo = call[c].todo /\ call'[c].found = call[c].found
            /\ call'[c].ids = call[c].ids /\ call'[c].failed = call[c].failed
            /\ catalog' = catalog /\ done' = done
        BY <3>2
      <4>. QED
        BY <3>3, <3>4, <4>1, <4>2, <4>3, <4>4 DEF Account
    <3>. QED
      BY <1>1, <3>2, <3>5
  <2>. QED
    BY <1>5, <2>1, <2>2, <2>3, <2>4, <2>5, StepCases DEF Busy, channels
<1>6. ASSUME NEW c \in Clients, Cancel(c) PROVE AccountInv'
  BY <1>0, <1>2, <1>6 DEF Cancel
<1>7. CASE Coordinate \/ UNCHANGED vars
  BY <1>2, <1>7 DEF Coordinate, Receive, Release, vars
<1>. QED
  BY <1>3, <1>4, <1>5, <1>6, <1>7 DEF Next

\* FetchAll accounts for every vendor it found, through errors, registrations
\* and ends of contexts, and merges what was asked for of the others.
THEOREM AllAccounted == Spec => []FetchAllAccounts
<1>1. Init => AccountInv
  BY DEF Init, AccountInv, Account, NoCall
<1>2. ASSUME TypeOK, AccountInv PROVE FetchAllAccounts
  <2>. SUFFICES ASSUME NEW c \in Clients, call[c].at = "choosing",
                       call[c].todo = {}, call[c].found # {}
                PROVE  /\ Merge(call[c].groups) =
                            UNION {{v} \X Wanted(catalog[v], call[c].ids) :
                                     v \in call[c].found \ call[c].failed}
                       /\ call[c].failed \subseteq call[c].found
                       /\ {v \in call[c].found : catalog[v] \in Failing}
                            \subseteq call[c].failed
                       /\ ~done[c] => \A v \in call[c].failed : catalog[v] \in Failing
    BY DEF FetchAllAccounts
  <2>1. Current(c) = {}
    BY DEF Current, Busy
  <2>2. /\ call[c].found \ call[c].failed = DOMAIN call[c].groups
        /\ call[c].failed \subseteq call[c].found
        /\ \A v \in DOMAIN call[c].groups :
             /\ call[c].groups[v] = Wanted(catalog[v], call[c].ids)
             /\ catalog[v] \notin Failing
        /\ ~done[c] => \A v \in call[c].failed : catalog[v] \in Failing
    BY <1>2, <2>1 DEF AccountInv, Account
  <2>3. Merge(call[c].groups) =
          UNION {{v} \X Wanted(catalog[v], call[c].ids) : v \in DOMAIN call[c].groups}
    BY <2>2 DEF Merge
  <2>. QED
    BY <2>2, <2>3
<1>. QED
  BY <1>1, <1>2, InitTypes, NextTypes, NextAccount, PTL DEF Spec

-----------------------------------------------------------------------------
(* The barriers *)

\* What makes FetchesMeet hold: while no fetch is released and no context is
\* done, each token that was sent stands for a fetch that waits.
MeetInv ==
  ~released /\ (\A c \in Clients : ~done[c]) =>
    Cardinality(Waiting) = ready + received

LEMMA NextMeet ==
  ASSUME IsFiniteSet(Clients)
  PROVE  TypeOK /\ MeetInv /\ [Next]_vars => MeetInv'
<1>. SUFFICES ASSUME TypeOK, MeetInv, [Next]_vars, ~released',
                     \A c \in Clients : ~done'[c]
              PROVE  Cardinality(Waiting)' = ready' + received'
  BY DEF MeetInv
<1>0. /\ DOMAIN call = Clients /\ done \in [Clients -> BOOLEAN]
      /\ ready \in Nat /\ received \in Nat
      /\ IsFiniteSet(Waiting)
  BY FS_Subset DEF TypeOK, Waiting
<1>1. ASSUME Waiting' = Waiting, UNCHANGED channels,
             \A c \in Clients : done[c] => done'[c]
      PROVE  Cardinality(Waiting)' = ready' + received'
  BY <1>1 DEF MeetInv, channels
<1>2. ASSUME NEW c \in Clients, call' = [call EXCEPT ![c] = call'[c]],
             call[c].at # "waiting", call'[c].at # "waiting",
             UNCHANGED <<done, channels>>
      PROVE  Cardinality(Waiting)' = ready' + received'
  <2>1. Waiting' = Waiting
    BY <1>0, <1>2 DEF Waiting
  <2>. QED
    BY <1>1, <1>2, <2>1
<1>3. ASSUME NEW s \in Sources, Register(s)
      PROVE  Cardinality(Waiting)' = ready' + received'
  BY <1>1, <1>3 DEF Register, Waiting
<1>4. ASSUME NEW c \in Clients, NEW ids \in Requests,
             BeginAll(c, ids) \/ \E s \in Sources : FetchOne(c, s, ids)
      PROVE  Cardinality(Waiting)' = ready' + received'
  <2>1. /\ call' = [call EXCEPT ![c] = call'[c]] /\ call[c].at = "idle"
        /\ call'[c].at \in {"choosing", "arriving", "fetching"}
        /\ UNCHANGED <<done, channels>>
    BY <1>4, BeginLemma
  <2>. QED
    BY <1>2, <2>1
<1>5. ASSUME NEW c \in Clients, ClientStep(c)
      PROVE  Cardinality(Waiting)' = ready' + received'
  <2>0. done' = done
    BY <1>5
    DEF ClientStep, Choose, Return, Arrive, Await, FixtureFetch, Fail, Give
  <2>1. CASE Choose(c)
    <3>1. /\ call' = [call EXCEPT ![c] = call'[c]]
          /\ call'[c].at \in {"arriving", "fetching"}
      BY <2>1, ChooseLemma
    <3>2. UNCHANGED <<done, channels>> /\ call[c].at = "choosing"
      BY <2>1 DEF Choose
    <3>. QED
      BY <1>2, <3>1, <3>2
  <2>2. CASE call[c].at = "choosing" /\ Become(c, NoCall)
             /\ UNCHANGED <<catalog, done, channels>>
    <3>1. call' = [call EXCEPT ![c] = call'[c]] /\ call'[c].at = "idle"
      BY <2>2, ReturnLemma
    <3>. QED
      BY <1>2, <2>2, <3>1
  <2>3. CASE /\ call[c].at = "arriving" /\ ready < Capacity /\ ready' = ready + 1
             /\ Become(c, [call[c] EXCEPT !.at = "waiting"])
             /\ UNCHANGED <<catalog, done, received, released>>
    <3>1. call' = [call EXCEPT ![c] = call'[c]] /\ call'[c].at = "waiting"
      BY <2>3, MoveLemma DEF Busy
    <3>2. Waiting' = Waiting \cup {c} /\ c \notin Waiting
      BY <1>0, <2>3, <3>1 DEF Waiting
    <3>3. Cardinality(Waiting)' = Cardinality(Waiting) + 1
      BY <1>0, <3>2, FS_AddElement
    <3>4. Cardinality(Waiting) = ready + received
      BY <2>3 DEF MeetInv
    <3>. QED
      BY <1>0, <2>3, <3>3, <3>4
  <2>4. CASE released
    BY <2>0, <2>4, <1>5
    DEF ClientStep, Choose, Return, Arrive, Await, FixtureFetch, Fail, Give, channels
  <2>5. CASE call[c].at = "fetching" /\ Fail(c)
    <3>1. /\ call' = [call EXCEPT ![c] = call'[c]] /\ call'[c].at = "choosing"
          /\ UNCHANGED <<done, channels>>
      BY <2>5, FailLemma DEF Busy
    <3>. QED
      BY <1>2, <2>5, <3>1
  <2>6. CASE call[c].at = "fetching" /\ Give(c, Wanted(call[c].source, call[c].ids))
    <3>0. call[c].at \in Busy /\ call[c].source \in Sources
      BY <2>6 DEF Busy, TypeOK, CallTypeOK
    <3>1. PICK rows \in SUBSET Ids : rows = Wanted(call[c].source, call[c].ids)
      BY <3>0, WantedTypes
    <3>2. /\ call' = [call EXCEPT ![c] = call'[c]] /\ call'[c].at = "choosing"
          /\ UNCHANGED <<done, channels>>
      BY <2>6, <3>0, <3>1, GiveLemma
    <3>. QED
      BY <1>2, <2>6, <3>2
  <2>7. ~done[c]
    BY <2>0
  <2>. QED
    BY <1>5, <2>1, <2>2, <2>3, <2>4, <2>5, <2>6, <2>7, StepCases
<1>6. ASSUME NEW c \in Clients, Cancel(c)
      PROVE  Cardinality(Waiting)' = ready' + received'
  <2>1. done'[c]
    BY <1>0, <1>6 DEF Cancel
  <2>. QED
    BY <2>1
<1>7. CASE Receive
  <2>1. Cardinality(Waiting) = ready + received
    BY <1>7 DEF Receive, MeetInv
  <2>2. Waiting' = Waiting
    BY <1>7 DEF Receive, Waiting
  <2>. QED
    BY <1>0, <1>7, <2>1, <2>2 DEF Receive
<1>8. CASE Release
  BY <1>8 DEF Release
<1>9. CASE UNCHANGED vars
  BY <1>1, <1>9 DEF vars, Waiting
<1>. QED
  BY <1>3, <1>4, <1>5, <1>6, <1>7, <1>8, <1>9 DEF Next, Coordinate

\* Whatever the number of fetches, when the barrier lifts the expected number
\* of them wait at it together.
THEOREM TheyMeet ==
  ASSUME IsFiniteSet(Clients)
  PROVE  Spec => FetchesMeet
<1>1. Init => MeetInv
  <2>1. Init => Waiting = {} /\ ready = 0 /\ received = 0
    BY DEF Init, Waiting, NoCall
  <2>. QED
    BY <2>1, FS_EmptySet DEF MeetInv
<1>2. ASSUME TypeOK, MeetInv, [Next]_vars
      PROVE  [~released /\ released' /\ (\A c \in Clients : ~done[c])
                => Cardinality(Waiting) >= Expected]_vars
  <2>. SUFFICES ASSUME ~released, released', \A c \in Clients : ~done[c]
                PROVE  Cardinality(Waiting) >= Expected
    OBVIOUS
  <2>1. Release
    BY <1>2
    DEF Next, Register, BeginAll, FetchOne, ClientStep, Choose, Return, Arrive,
        Await, FixtureFetch, Fail, Give, Cancel, Coordinate, Receive, vars, channels
  <2>2. Cardinality(Waiting) = ready + received
    BY <1>2 DEF MeetInv
  <2>3. ready \in Nat /\ received = Expected /\ Expected \in Nat
    BY <1>2, <2>1, ChannelAssumption DEF Release, TypeOK
  <2>. QED
    BY <2>2, <2>3
<1>. QED
  BY <1>1, <1>2, InitTypes, NextTypes, NextMeet, PTL DEF Spec, FetchesMeet
=============================================================================
