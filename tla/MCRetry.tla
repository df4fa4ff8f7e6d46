------------------------------ MODULE MCRetry ------------------------------
(* Instances of Retry: two items and an accepted reading in one batch. *)
EXTENDS Retry, TLC

CONSTANTS a1, a2, d1, d2, d3, b1

FirstItem == {<<b1, d1>>}
TwoItems == {<<b1, d1>>, <<b1, d2>>}
OneReading == {<<b1, d3>>}

Offered(id, st) == [id |-> id, status |-> st, storable |-> TRUE]

\* The vendor answers with the device of the item.
AlignedOffers ==
  [id \in TwoItems |-> {Offered(id, "accepted"), Offered(id, "pending")}]

\* The same, but the first item only ever gets an accepted reading.
FavourableOffers ==
  [AlignedOffers EXCEPT ![<<b1, d1>>] = {Offered(<<b1, d1>>, "accepted")}]

\* Retry is the same for every administrator.
AdminSymmetry == Permutations(Admins)
=============================================================================
