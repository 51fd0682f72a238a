----------------------------- MODULE Snapshots -----------------------------
(***************************************************************************)
(* The snapshot directory (internal/obs/snapshot.go).  Every request that   *)
(* ends writes one file, named after the time it started, and then prunes   *)
(* the directory; nothing locks it, so requests that end together list it   *)
(* and remove files from it at the same time.  The process may be killed    *)
(* between any two steps, and goes on with the directory it finds.          *)
(*                                                                         *)
(* A file's name is the request's number: numbers follow the start times,   *)
(* and requests end, and write, in any order.  What a file holds is left    *)
(* out.  A definition named X_Something is X with one plausible mistake.    *)
(***************************************************************************)
EXTENDS Integers, FiniteSets

CONSTANTS
  MaxRequests,         \* bound: requests that write a snapshot
  SnapshotRetention,   \* snapshot_retention in the configuration file
  DefaultRetention     \* what applyDefaults puts in the place of zero

\* A negative retention, which the configuration may hold, switches Write off.
ASSUME RetentionAssumption ==
  SnapshotRetention \in Nat /\ DefaultRetention \in Nat \ {0} /\ MaxRequests \in Nat

Requests == 1 .. MaxRequests

Retention == IF SnapshotRetention = 0 THEN DefaultRetention ELSE SnapshotRetention

VARIABLES
  files,      \* the names in the directory
  pc,         \* [Requests -> where the request's Write is]
  must,       \* [Requests -> SUBSET Requests]: the files that were there when its
              \* ReadDir began and still are, which is what ReadDir has to list
  may,        \* [Requests -> SUBSET Requests]: what it may list, as the directory
              \* changes while it is read
  victims,    \* [Requests -> SUBSET Requests]: the names it has yet to remove
  stuck       \* removals that failed

vars == <<files, pc, must, may, victims, stuck>>

Places == {"idle", "open", "reading", "removing", "done", "refused", "lost"}
Busy == {"open", "reading", "removing"}

\* The requests whose file was created.
Created == {r \in Requests : pc[r] \notin {"idle", "refused"}}

TypeOK ==
  /\ files \subseteq Created
  /\ pc \in [Requests -> Places]
  /\ must \in [Requests -> SUBSET Requests]
  /\ may \in [Requests -> SUBSET Requests]
  /\ victims \in [Requests -> SUBSET Requests]
  /\ stuck \in Nat

Init ==
  /\ files = {}
  /\ pc = [r \in Requests |-> "idle"]
  /\ must = [r \in Requests |-> {}]
  /\ may = [r \in Requests |-> {}]
  /\ victims = [r \in Requests |-> {}]
  /\ stuck = 0

Goto(r, place) == pc' = [pc EXCEPT ![r] = place]

-----------------------------------------------------------------------------
\* OpenFile: the name appears, also to a ReadDir under way.
Create(r) ==
  /\ pc[r] = "idle"
  /\ Goto(r, "open")
  /\ files' = files \cup {r}
  /\ may' = [q \in Requests |-> IF pc[q] = "reading" THEN may[q] \cup {r} ELSE may[q]]
  /\ UNCHANGED <<must, victims, stuck>>

CreateFails(r) ==
  /\ pc[r] = "idle"
  /\ Goto(r, "refused")
  /\ UNCHANGED <<files, must, may, victims, stuck>>

\* Encode and Close succeed, and ReadDir begins.
StartRead(r) ==
  /\ pc[r] = "open"
  /\ Goto(r, "reading")
  /\ must' = [must EXCEPT ![r] = files]
  /\ may' = [may EXCEPT ![r] = files]
  /\ UNCHANGED <<files, victims, stuck>>

\* Encode, Close or ReadDir fails: Write returns before it has pruned, and the
\* file stays.
Fails(r) ==
  /\ pc[r] \in {"open", "reading"}
  /\ Goto(r, "lost")
  /\ must' = [must EXCEPT ![r] = {}]
  /\ may' = [may EXCEPT ![r] = {}]
  /\ UNCHANGED <<files, victims, stuck>>

\* The first len(names) - retention of the sorted names: those with at least
\* retention newer ones in the listing.
Newer(n, names) == {m \in names : m > n}
Excess_OffByOne(names) == {n \in names : Cardinality(Newer(n, names)) >= Retention - 1}
Excess_KeepsOneMore(names) == {n \in names : Cardinality(Newer(n, names)) > Retention}
Excess(names) == {n \in names : Cardinality(Newer(n, names)) >= Retention}

EndRead(r) ==
  /\ pc[r] = "reading"
  /\ \E names \in SUBSET may[r] :
       /\ must[r] \subseteq names
       /\ victims' = [victims EXCEPT ![r] = Excess(names)]
       /\ Goto(r, IF Excess(names) = {} THEN "done" ELSE "removing")
  /\ may' = [may EXCEPT ![r] = {}]
  /\ UNCHANGED <<files, must, stuck>>

\* The next name of the list; it may be gone already, or refuse to go.
IsFirst(n, S) == n \in S /\ \A m \in S : n <= m

TakeVictim(r, n) ==
  /\ pc[r] = "removing" /\ IsFirst(n, victims[r])
  /\ victims' = [victims EXCEPT ![r] = @ \ {n}]
  /\ Goto(r, IF victims[r] = {n} THEN "done" ELSE "removing")

Remove(r) ==
  /\ \E n \in victims[r] :
       /\ TakeVictim(r, n)
       /\ files' = files \ {n}
       /\ must' = [q \in Requests |-> must[q] \ {n}]
  /\ UNCHANGED <<may, stuck>>

RemoveFails(r) ==
  /\ \E n \in victims[r] : n \in files /\ TakeVictim(r, n)
  /\ stuck' = stuck + 1
  /\ UNCHANGED <<files, must, may>>

\* The process is killed and started again: writes under way are lost.
Crash ==
  /\ \E r \in Requests : pc[r] \in Busy
  /\ pc' = [r \in Requests |-> IF pc[r] \in Busy THEN "lost" ELSE pc[r]]
  /\ must' = [r \in Requests |-> IF pc[r] \in Busy THEN {} ELSE must[r]]
  /\ may' = [r \in Requests |-> {}]
  /\ victims' = [r \in Requests |-> {}]
  /\ UNCHANGED <<files, stuck>>

Quiet == \A r \in Requests : pc[r] \notin Busy \cup {"idle"}

Settled == Quiet /\ UNCHANGED vars

-----------------------------------------------------------------------------
Next ==
  \/ \E r \in Requests :
       \/ Create(r) \/ CreateFails(r) \/ StartRead(r) \/ Fails(r)
       \/ EndRead(r) \/ Remove(r) \/ RemoveFails(r)
  \/ Crash
  \/ Settled

Spec == Init /\ [][Next]_vars

-----------------------------------------------------------------------------
(* Properties.                                                              *)

\* No interleaving of prunes that work on stale listings removes one of the
\* newest `retention' snapshots.
NewestKept ==
  \A n \in Created \ files : Cardinality(Newer(n, Created)) >= Retention

\* The directory outgrows snapshot_retention only by the writes under way, the
\* writes that were cut short, and the files that could not be removed: when
\* nothing went wrong and nobody is writing, it does not.
OverflowBounded ==
  Cardinality(files) <=
    Retention + stuck + Cardinality({r \in Requests : pc[r] \in Busy \cup {"lost"}})

\* Every name that is to be removed is old enough to go, however many files the
\* directory has gained or lost since it was listed.
ReadInv == \A r \in Requests : pc[r] = "reading" => may[r] \subseteq Created
VictimInv ==
  \A r \in Requests : \A n \in victims[r] :
    n \in Created /\ Cardinality(Newer(n, Created)) >= Retention

PruneInv == TypeOK /\ ReadInv /\ VictimInv /\ NewestKept

\* Of the listings two requests began with, what is left of one contains what is
\* left of the other; a request that began one finds its own file in it; and a
\* prune leaves no more of its listing than the retention, the victims it has yet
\* to remove and the removals that failed.
ChainInv ==
  \A q, r \in Requests : must[q] \subseteq must[r] \/ must[r] \subseteq must[q]
OwnInv ==
  \A r \in Requests :
    /\ must[r] \subseteq files
    /\ pc[r] \in {"reading", "removing", "done"} /\ r \in files => r \in must[r]
LeftInv ==
  \A r \in Requests :
    /\ pc[r] # "removing" => victims[r] = {}
    /\ pc[r] \in {"removing", "done"} =>
         Cardinality(must[r] \ victims[r]) <= Retention + stuck

IInv == PruneInv /\ ChainInv /\ OwnInv /\ LeftInv
=============================================================================
