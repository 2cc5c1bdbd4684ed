---------------------------- MODULE MCRepository ----------------------------
(* Two uploads beside two reads, on one serial number that clients use and *)
(* that can be drawn too, or on one of each kind.                          *)
EXTENDS Repository, TLC

CONSTANTS r1, r2, g1, g2, u1, u2

TwoRequests == {r1, r2}
Nothing     == {}

Symmetric == Permutations(Requests) \cup Permutations(Readers)
=============================================================================
