------------------------- MODULE MCGcraRateLimiter -------------------------
(***************************************************************************)
(* Small instances of GcraRateLimiter for TLC.                             *)
(***************************************************************************)
EXTENDS GcraRateLimiter, TLC

CONSTANTS r1, r2, r3, r4, r5, i1, i2

\* Five requests of one client, or one client and another.
OneClient  == [r \in Requests |-> i1]
TwoClients == [r \in Requests |-> IF r = r3 THEN i2 ELSE i1]

Symmetric == Permutations(Requests)
=============================================================================
