------------------------------ MODULE MCFetch ------------------------------
(* Fetch beside an environment that writes and deletes versions, an        *)
(* "original" and an object with a key of somebody else's.                 *)
EXTENDS Fetch

CONSTANTS u1

Externals == {u1} \X {1, 2, Original, Foreign}
=============================================================================
