----------------------------- MODULE MCPlatform -----------------------------
(* Instances of Platform: two adapters, each with a device of its own. *)
EXTENDS Platform, TLC

CONSTANTS c1, c2, s1, s2, d1, d2, b1, b2, a1, a2, o1

Row(d, st) == [pos |-> 1, device |-> d, status |-> st, storable |-> TRUE]
Response(rows, n) == [readings |-> rows, errors |-> n]

\* s1 delivers a reading out of range, or a good one; s2 a good one, or none.
PlainFeeds ==
  s1 :> {Response({Row(d1, "pending")}, 0), Response({Row(d1, "accepted")}, 0)}
  @@ s2 :> {Response({Row(d2, "accepted")}, 0), Response({}, 1)}

OffersOf(ids) == {[id |-> id, status |-> st, storable |-> TRUE]
                   : id \in ids, st \in {"accepted", "pending"}}

\* The first raw reading is of any device the vendor knows, as the code has it.
AnyOffers == [id \in ReadingIds |-> OffersOf({id[1]} \X Devices)]

\* The vendor answers a retry with the device of the item.
AlignedOffers == [id \in ReadingIds |-> OffersOf({id})]
=============================================================================
