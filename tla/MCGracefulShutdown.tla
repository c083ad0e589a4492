------------------------- MODULE MCGracefulShutdown -------------------------
(***************************************************************************)
(* A small instance of GracefulShutdown for TLC: two signals, one request, *)
(* two probes that share a query, and the three resources that             *)
(* createProductionContainer registers, the pool last.                     *)
(***************************************************************************)
EXTENDS GracefulShutdown

CONSTANTS s1, s2, h1, p1, p2
=============================================================================
