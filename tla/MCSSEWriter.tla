---------------------------- MODULE MCSSEWriter ----------------------------
(* SSEWriter on short streams with a heartbeat that ticks before, during and  *)
(* after them.                                                                *)
EXTENDS SSEWriter
=============================================================================
