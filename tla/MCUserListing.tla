--------------------------- MODULE MCUserListing ---------------------------
(***************************************************************************)
(* A small instance of UserListing for TLC: four users of the tenant and   *)
(* one of another, pages of two rows, two ticks to a millisecond.          *)
(***************************************************************************)
EXTENDS UserListing
=============================================================================
