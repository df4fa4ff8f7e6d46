----------------------------- MODULE MCReports ------------------------------
(* Instances of Reports: the raw readings of MCConversion, of which a good  *)
(* one, a moist one, one of a weak battery and one out of range are stored. *)
EXTENDS Reports, MCConversion

CONSTANTS d1, d2, d3, v1, v2

With(measure, value) == Delivered([SoundValues EXCEPT ![Plain(measure)] = value])

KeptRaws ==
  {With("moisture", 20), With("moisture", 81), With("moisture", 101), With("battery", 9)}

Vendors == d1 :> v1 @@ d2 :> v1 @@ d3 :> v2

DeviceSymmetry == Permutations({d1, d2})
=============================================================================
