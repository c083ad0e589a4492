------------------------- MODULE MCOutboundRequest -------------------------
(***************************************************************************)
(* A small instance of OutboundRequest for TLC: two retries, and attempts  *)
(* that fit into the deadline two and a half times.                        *)
(***************************************************************************)
EXTENDS OutboundRequest
=============================================================================
