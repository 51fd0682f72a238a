---------------------------- MODULE StatusRing ----------------------------
(***************************************************************************)
(* The ring buffer behind /admin/status (obs.StatusRing, metrics.go).  Its  *)
(* two methods hold the mutex from end to end, so that each is one step.    *)
(*                                                                         *)
(* A definition named X_Something is X with one plausible mistake.          *)
(***************************************************************************)
EXTENDS Integers, Sequences

CONSTANTS
  Snapshots,   \* what may be pushed
  Empty,       \* a slot nothing was pushed to
  Cap          \* NewStatusRing makes it at least one

ASSUME CapAssumption == Cap \in Nat \ {0} /\ Empty \notin Snapshots

VARIABLES items, nextIdx, count

vars == <<items, nextIdx, count>>

TypeOK ==
  /\ items \in [0 .. Cap - 1 -> Snapshots \cup {Empty}]
  /\ nextIdx \in 0 .. Cap - 1
  /\ count \in 0 .. Cap

Init ==
  /\ items = [i \in 0 .. Cap - 1 |-> Empty]
  /\ nextIdx = 0 /\ count = 0

Push_Sticks(s) ==
  /\ items' = [items EXCEPT ![nextIdx] = s]
  /\ nextIdx' = IF count < Cap THEN (nextIdx + 1) % Cap ELSE nextIdx
  /\ count' = IF count < Cap THEN count + 1 ELSE count
Push_Stops(s) ==
  /\ items' = IF count < Cap THEN [items EXCEPT ![nextIdx] = s] ELSE items
  /\ nextIdx' = (nextIdx + 1) % Cap
  /\ count' = IF count < Cap THEN count + 1 ELSE count
Push(s) ==
  /\ items' = [items EXCEPT ![nextIdx] = s]
  /\ nextIdx' = (nextIdx + 1) % Cap
  /\ count' = IF count < Cap THEN count + 1 ELSE count

\* Go's remainder takes the sign of the dividend: without "+ r.cap" the index
\* would be negative.
Rem(a, b) == IF a >= 0 THEN a % b ELSE -((-a) % b)

Slot_NoCap(i) == Rem(nextIdx - 1 - i, Cap)
Slot(i) == Rem(nextIdx - 1 - i + Cap, Cap)

Returned(n) == IF n <= 0 \/ n > count THEN count ELSE n
Recent(n) == [i \in 1 .. Returned(n) |-> items[Slot(i - 1)]]

Next == \E s \in Snapshots : Push(s)

Spec == Init /\ [][Next]_vars

-----------------------------------------------------------------------------
(* Properties.                                                              *)

\* Recent reads filled slots of the ring only, however often the ring has gone
\* round, and asking for n returns the n newest of what asking for all returns.
RecentFilled ==
  /\ \A i \in 0 .. count - 1 : Slot(i) \in DOMAIN items /\ items[Slot(i)] # Empty
  /\ \A n \in 1 .. count : Recent(n) = SubSeq(Recent(0), 1, n)

\* The ring is the log of the last Cap decisions, newest first.
Log == INSTANCE StatusLog WITH recent <- Recent(0)
ImplementsLog == Log!Spec

\* No decision is lost or swapped for another: pushing s, also on a full ring,
\* puts s itself in front of the log.
EachPushLogged == [][\A s \in Snapshots : Push(s) => Log!Push(s)]_vars

\* The slots before nextIdx are filled, all of them once the ring is full.
Filled ==
  /\ \A i \in 0 .. Cap - 1 : items[i] # Empty <=> i < count
  /\ count < Cap => nextIdx = count
IInv == TypeOK /\ Filled
=============================================================================
