---------------------- MODULE MCFixedWindowRateLimiter ----------------------
(***************************************************************************)
(* A small instance of FixedWindowRateLimiter for TLC.                     *)
(***************************************************************************)
EXTENDS FixedWindowRateLimiter, TLC

CONSTANTS r1, r2, r3, r4, i1

OneClient == [r \in Requests |-> i1]

Symmetric == Permutations(Requests)
=============================================================================
