------------------------------ MODULE MCUpload ------------------------------
(* Instances of Upload for TLC: two serial numbers, two to four uploads.   *)
EXTENDS UploadRefinement, TLC

CONSTANTS r1, r2, r3, r4, u1, u2, u3

TwoRequests   == {r1, r2}
ThreeRequests == {r1, r2, r3}
FourRequests  == {r1, r2, r3, r4}
TwoUrns       == {u1, u2}
ThreeUrns     == {u1, u2, u3}

(* The bucket is empty, or holds an object u2-<text> of somebody else's.   *)
Nothing       == {}
StoredForeign == {<<u2, Foreign>>}

Symmetric == Permutations(Requests)
=============================================================================
