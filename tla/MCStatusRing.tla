--------------------------- MODULE MCStatusRing ---------------------------
(* StatusRing with room for four of three snapshots. *)
EXTENDS StatusRing
=============================================================================
