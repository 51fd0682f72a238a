----------------------------- MODULE StatusLog -----------------------------
(***************************************************************************)
(* What /admin/status promises: the last `Cap' decisions, newest first.     *)
(***************************************************************************)
EXTENDS Naturals, Sequences

CONSTANTS Snapshots, Cap

VARIABLE recent

Init == recent = <<>>

Push(s) ==
  recent' = [i \in 1 .. (IF Len(recent) < Cap THEN Len(recent) + 1 ELSE Cap) |->
               IF i = 1 THEN s ELSE recent[i - 1]]

Next == \E s \in Snapshots : Push(s)

Spec == Init /\ [][Next]_recent
=============================================================================
