---------------------------- MODULE MCSnapshots ----------------------------
(* Snapshots with four requests and a retention of two. *)
EXTENDS Snapshots
=============================================================================
