----------------------------- MODULE MCAdapters -----------------------------
(* Instances of Adapters: two adapters of one vendor, one of them behind a *)
(* barrier, and one of another vendor, behind the same barrier.            *)
EXTENDS Adapters, TLC

CONSTANTS c1, c2, c3, s1, s2, s3, r1, r2, r3

TwoVendors == s1 :> 1 @@ s2 :> 1 @@ s3 :> 2
SomeRows == s1 :> {r1} @@ s2 :> {r1, r2} @@ s3 :> {r2, r3}
AllOrSome == {{}, {r1}}
=============================================================================
