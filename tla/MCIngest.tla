------------------------------ MODULE MCIngest ------------------------------
(* Instances of Ingest: two adapters of one vendor with two devices. *)
EXTENDS Ingest, TLC

CONSTANTS c1, c2, s1, s2, d1, d2, b1, b2

Of(p, d, st, ok) == [pos |-> p, device |-> d, status |-> st, storable |-> ok]
Good(p, d) == Of(p, d, "accepted", TRUE)
Bad(p, d) == Of(p, d, "pending", TRUE)
Response(rows, n) == [readings |-> rows, errors |-> n]

\* Both adapters deliver d1, one of them out of range; one has a second
\* device, also out of range, and the other refuses a raw reading.
MixedFeeds ==
  s1 :> {Response({Good(1, d1), Bad(2, d2)}, 0)}
  @@ s2 :> {Response({Bad(1, d1)}, 1)}

\* A reading each; one may be of a NaN, or refused.
NotFiniteFeeds ==
  s1 :> {Response({Good(1, d1)}, 0)}
  @@ s2 :> {Response({Of(1, d2, "pending", FALSE)}, 0), Response({}, 1)}

\* ProcessBatch is the same for every call.
CallSymmetry == Permutations(Calls)
=============================================================================
