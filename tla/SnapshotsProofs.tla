-------------------------- MODULE SnapshotsProofs --------------------------
(***************************************************************************)
(* Pruning from stale listings keeps the newest snapshots, for any number   *)
(* of requests and any retention.                                           *)
(***************************************************************************)
EXTENDS Snapshots, FiniteSetTheorems, WellFoundedInduction, TLAPS

\* Old enough to go: `Retention' newer names were created.
Old(n) == Cardinality(Newer(n, Created)) >= Retention

\* The requests are finitely many, and so is every set of them.
LEMMA RequestsFinite == \A S \in SUBSET Requests : IsFiniteSet(S)
<1>1. IsFiniteSet(Requests)
  BY FS_Interval, RetentionAssumption DEF Requests
<1> QED
  BY <1>1, FS_Subset

\* A name with enough newer ones in a listing has enough newer ones in whatever
\* the listing is a part of.
LEMMA NewerGrows ==
  ASSUME NEW A \in SUBSET Requests, NEW B \in SUBSET Requests, A \subseteq B,
         NEW n, Cardinality(Newer(n, A)) >= Retention
  PROVE  Cardinality(Newer(n, B)) >= Retention
<1>1. Newer(n, A) \subseteq Newer(n, B) /\ Newer(n, B) \in SUBSET Requests
  BY DEF Newer
<1>2. IsFiniteSet(Newer(n, B)) /\ IsFiniteSet(Newer(n, A))
  BY <1>1, RequestsFinite
<1>3. /\ Cardinality(Newer(n, A)) <= Cardinality(Newer(n, B))
      /\ Cardinality(Newer(n, A)) \in Nat /\ Cardinality(Newer(n, B)) \in Nat
  BY <1>1, <1>2, FS_Subset, FS_CardinalityType
<1> QED
  BY <1>3, RetentionAssumption DEF Retention

\* What is old stays old: created names are never uncreated.
LEMMA OldStays ==
  ASSUME Created \subseteq Created', NEW n, Old(n)
  PROVE  Old(n)'
<1>1. Created \in SUBSET Requests /\ Created' \in SUBSET Requests
  BY DEF Created
<1>2. Cardinality(Newer(n, Created')) >= Retention
  BY <1>1, NewerGrows DEF Old
<1> QED
  BY <1>2 DEF Old, Newer

\* Steps that remove nothing and choose no victims keep what is old, kept.
LEMMA Harmless ==
  ASSUME PruneInv, Created \subseteq Created',
         Created' \ files' \subseteq Created \ files,
         \A r \in Requests : victims'[r] \subseteq victims[r]
  PROVE  VictimInv' /\ NewestKept'
<1>1. ASSUME NEW n \in Created' \ files' PROVE Old(n)'
  BY <1>1, OldStays DEF PruneInv, NewestKept, Old
<1>2. ASSUME NEW r \in Requests, NEW n \in victims'[r] PROVE n \in Created' /\ Old(n)'
  BY <1>2, OldStays DEF PruneInv, VictimInv, Old
<1> QED
  BY <1>1, <1>2 DEF VictimInv, NewestKept, Old

\* Every step of a write, and a crash, keeps the invariant.
LEMMA Step ==
  ASSUME PruneInv, [Next]_vars
  PROVE  PruneInv'
<1> USE DEF Goto
<1>1. CASE UNCHANGED vars
  BY <1>1 DEF vars, PruneInv, TypeOK, ReadInv, VictimInv, Created, NewestKept, Newer
<1>2. ASSUME NEW r \in Requests, Create(r) PROVE PruneInv'
  <2>1. Created' = Created \cup {r}
    BY <1>2 DEF Create, Created, PruneInv, TypeOK
  <2>2. TypeOK'
    BY <1>2, <2>1 DEF Create, PruneInv, TypeOK, Places
  <2>3. ReadInv'
    BY <1>2, <2>1 DEF Create, PruneInv, TypeOK, ReadInv
  <2>4. VictimInv' /\ NewestKept'
    BY <1>2, <2>1, Harmless DEF Create
  <2> QED
    BY <2>2, <2>3, <2>4 DEF PruneInv
<1>3. ASSUME NEW r \in Requests, CreateFails(r) \/ StartRead(r) \/ Fails(r) PROVE PruneInv'
  <2>1. Created' = Created
    BY <1>3 DEF CreateFails, StartRead, Fails, Created, PruneInv, TypeOK
  <2>2. TypeOK'
    BY <1>3, <2>1 DEF CreateFails, StartRead, Fails, PruneInv, TypeOK, Places, Created
  <2>3. ReadInv'
    BY <1>3, <2>1 DEF CreateFails, StartRead, Fails, PruneInv, TypeOK, ReadInv
  <2>4. VictimInv' /\ NewestKept'
    BY <1>3, <2>1, Harmless DEF CreateFails, StartRead, Fails
  <2> QED
    BY <2>2, <2>3, <2>4 DEF PruneInv
<1>4. ASSUME NEW r \in Requests, EndRead(r) PROVE PruneInv'
  <2>1. Created' = Created
    BY <1>4 DEF EndRead, Created, PruneInv, TypeOK
  <2>2. PICK names \in SUBSET may[r] : victims' = [victims EXCEPT ![r] = Excess(names)]
    BY <1>4 DEF EndRead
  <2>3. names \subseteq Created /\ Created \in SUBSET Requests
    BY <1>4, <2>2 DEF EndRead, PruneInv, ReadInv, Created
  <2>4. TypeOK'
    BY <1>4, <2>1, <2>2, <2>3 DEF EndRead, Excess, PruneInv, TypeOK, Places
  <2>5. ReadInv'
    BY <1>4, <2>1 DEF EndRead, PruneInv, TypeOK, ReadInv
  <2>6. ASSUME NEW n \in Excess(names) PROVE n \in Created /\ Old(n)
    BY <2>3, <2>6, NewerGrows DEF Excess, Old
  <2>7. VictimInv
    BY DEF PruneInv
  <2>8. VictimInv'
    <3> SUFFICES ASSUME NEW q \in Requests, NEW n \in victims'[q]
                 PROVE  n \in Created /\ Old(n)
      BY <2>1 DEF VictimInv, Old, Newer
    <3>1. CASE q = r
      BY <2>2, <2>6, <3>1 DEF PruneInv, TypeOK
    <3>2. CASE q # r
      BY <2>2, <2>7, <3>2 DEF PruneInv, TypeOK, VictimInv, Old
    <3> QED
      BY <3>1, <3>2
  <2>9. NewestKept'
    BY <1>4, <2>1 DEF EndRead, PruneInv, NewestKept, Newer
  <2> QED
    BY <2>4, <2>5, <2>8, <2>9 DEF PruneInv
<1>5. ASSUME NEW r \in Requests, Remove(r) PROVE PruneInv'
  <2>1. PICK n \in victims[r] : /\ TakeVictim(r, n)
                                /\ files' = files \ {n}
                                /\ must' = [q \in Requests |-> must[q] \ {n}]
    BY <1>5 DEF Remove
  <2>2. Created' = Created /\ UNCHANGED <<may, stuck>>
    BY <1>5, <2>1 DEF Remove, TakeVictim, Created, PruneInv, TypeOK
  <2>3. TypeOK'
    BY <2>1, <2>2 DEF TakeVictim, PruneInv, TypeOK, Places
  <2>4. ReadInv'
    BY <2>1, <2>2 DEF TakeVictim, PruneInv, TypeOK, ReadInv
  <2>5. \A q \in Requests : victims'[q] \subseteq victims[q]
    BY <2>1 DEF TakeVictim, PruneInv, TypeOK
  <2>6. VictimInv'
    BY <2>2, <2>5 DEF PruneInv, VictimInv, Newer
  <2>7. NewestKept'
    BY <2>1, <2>2 DEF PruneInv, VictimInv, NewestKept, Newer
  <2> QED
    BY <2>3, <2>4, <2>6, <2>7 DEF PruneInv
<1>6. ASSUME NEW r \in Requests, RemoveFails(r) PROVE PruneInv'
  <2>1. PICK n \in victims[r] : TakeVictim(r, n)
    BY <1>6 DEF RemoveFails
  <2>2. Created' = Created /\ UNCHANGED <<files, must, may>> /\ stuck' = stuck + 1
    BY <1>6, <2>1 DEF RemoveFails, TakeVictim, Created, PruneInv, TypeOK
  <2>3. TypeOK'
    BY <2>1, <2>2 DEF TakeVictim, PruneInv, TypeOK, Places
  <2>4. ReadInv'
    BY <2>1, <2>2 DEF TakeVictim, PruneInv, TypeOK, ReadInv
  <2>5. \A q \in Requests : victims'[q] \subseteq victims[q]
    BY <2>1 DEF TakeVictim, PruneInv, TypeOK
  <2>6. VictimInv' /\ NewestKept'
    BY <2>2, <2>5, Harmless
  <2> QED
    BY <2>3, <2>4, <2>6 DEF PruneInv
<1>7. CASE Crash
  <2>1. Created' = Created /\ UNCHANGED <<files, stuck>>
    BY <1>7 DEF Crash, Busy, Created, PruneInv, TypeOK
  <2>2. TypeOK'
    BY <1>7, <2>1 DEF Crash, Busy, Places, PruneInv, TypeOK
  <2>3. ReadInv'
    BY <1>7 DEF Crash, Busy, ReadInv, PruneInv, TypeOK
  <2>4. VictimInv' /\ NewestKept'
    BY <1>7, <2>1, Harmless DEF Crash
  <2> QED
    BY <2>2, <2>3, <2>4 DEF PruneInv
<1> QED
  BY <1>1, <1>2, <1>3, <1>4, <1>5, <1>6, <1>7 DEF Next, Settled

-----------------------------------------------------------------------------
(* How many files there are.                                                *)

\* The sets of requests are well-founded: of several, one contains no other.
LEMMA SmallestSet ==
  ASSUME NEW C \in SUBSET SUBSET Requests, C # {}
  PROVE  \E x \in C : \A y \in C : y \subseteq x => y = x
<1> DEFINE R == StrictSubsetOrdering(Requests)
           S == FiniteSubsetsOf(Requests)
<1>1. IsWellFoundedOn(R, S)
  BY FS_StrictSubsetOrderingWellFounded
<1>2. C \subseteq S
  BY RequestsFinite DEF FiniteSubsetsOf
<1>3. PICK x \in C : \A y \in C : ~(<<y, x>> \in R)
  <2> HIDE DEF R, S
  <2> QED
    BY <1>1, <1>2, WFMin
<1>4. \A y \in C : y \subseteq x => y = x
  BY <1>3 DEF StrictSubsetOrdering
<1> QED
  BY <1>4

\* What a prune leaves of a listing is no more than the retention: the oldest
\* name it leaves has fewer than that many newer ones.
LEMMA ExcessLeavesFew ==
  ASSUME NEW names \in SUBSET Requests
  PROVE  Cardinality(names \ Excess(names)) <= Retention
<1> DEFINE K == names \ Excess(names)
<1>1. \A n \in K : n \in Requests /\ n \in names /\ ~(Cardinality(Newer(n, names)) >= Retention)
  BY DEF Excess
<1>2. K \in SUBSET Requests
  BY <1>1
<1>3. Retention \in Nat \ {0}
  BY RetentionAssumption DEF Retention
<1> HIDE DEF K
<1>4. CASE K = {}
  BY <1>3, <1>4, FS_EmptySet DEF K
<1>5. CASE K # {}
  <2> DEFINE C == {1 .. n : n \in K}
  <2>1. C \in SUBSET SUBSET Requests /\ C # {}
    <3>1. \A n \in Requests : 1 .. n \subseteq Requests
      BY RetentionAssumption DEF Requests
    <3> QED
      BY <1>2, <1>5, <3>1
  <2>2. PICK x \in K : \A y \in K : 1 .. y \subseteq 1 .. x => 1 .. y = 1 .. x
    <3>1. PICK X \in C : \A Y \in C : Y \subseteq X => Y = X
      <4> HIDE DEF C
      <4> QED
        BY <2>1, SmallestSet
    <3>2. PICK x \in K : X = 1 .. x
      OBVIOUS
    <3>3. \A y \in K : 1 .. y \in C
      OBVIOUS
    <3> HIDE DEF C
    <3> QED
      BY <3>1, <3>2, <3>3
  <2>3. \A y \in K : x <= y
    <3> SUFFICES ASSUME NEW y \in K, ~(x <= y) PROVE FALSE
      OBVIOUS
    <3>1. x \in Nat /\ y \in Nat /\ y < x /\ 1 <= x
      BY <1>2, RetentionAssumption DEF Requests
    <3>2. 1 .. y \subseteq 1 .. x /\ x \in 1 .. x /\ x \notin 1 .. y
      BY <3>1
    <3> QED
      BY <2>2, <3>2
  <2>4. K \subseteq Newer(x, names) \cup {x} /\ x \notin Newer(x, names)
    <3>1. x \in Int /\ \A y \in K : y \in names /\ y \in Int
      BY <1>1, <1>2, RetentionAssumption DEF Requests
    <3>2. \A y \in K : y > x \/ y = x
      BY <2>3, <3>1
    <3> QED
      BY <3>1, <3>2 DEF Newer
  <2>5. IsFiniteSet(Newer(x, names))
    BY RequestsFinite DEF Newer
  <2>6. /\ IsFiniteSet(Newer(x, names) \cup {x})
        /\ Cardinality(Newer(x, names) \cup {x}) = Cardinality(Newer(x, names)) + 1
        /\ Cardinality(Newer(x, names)) \in Nat
    BY <2>4, <2>5, FS_AddElement, FS_CardinalityType
  <2>7. IsFiniteSet(K) /\ Cardinality(K) <= Cardinality(Newer(x, names) \cup {x})
    BY <2>4, <2>6, FS_Subset
  <2>8. Cardinality(K) \in Nat
    BY <2>7, FS_CardinalityType
  <2> QED
    BY <1>1, <1>3, <2>6, <2>7, <2>8 DEF K
<1> QED
  BY <1>4, <1>5

\* The sizes of sets of requests: a part is no larger, one more counts one more.
LEMMA PartIsSmaller ==
  ASSUME NEW A \in SUBSET Requests, NEW B \in SUBSET Requests, A \subseteq B
  PROVE  Cardinality(A) \in Nat /\ Cardinality(B) \in Nat /\ Cardinality(A) <= Cardinality(B)
BY RequestsFinite, FS_Subset, FS_CardinalityType
LEMMA OneMore ==
  ASSUME NEW A \in SUBSET Requests, NEW B \in SUBSET Requests, NEW n, B \subseteq A \cup {n}
  PROVE  Cardinality(B) <= Cardinality(A) + 1
<1>1. IsFiniteSet(A) /\ Cardinality(A) \in Nat
  BY RequestsFinite, FS_CardinalityType
<1>2. /\ IsFiniteSet(A \cup {n}) /\ Cardinality(A \cup {n}) \in Nat
      /\ Cardinality(A \cup {n}) <= Cardinality(A) + 1
  BY <1>1, FS_AddElement, FS_CardinalityType
<1>3. Cardinality(B) \in Nat /\ Cardinality(B) <= Cardinality(A \cup {n})
  BY <1>2, FS_Subset, FS_CardinalityType, RequestsFinite
<1> QED
  BY <1>1, <1>2, <1>3

\* Every step keeps the listings in order and what a prune leaves few.
ListInv == ChainInv /\ OwnInv /\ LeftInv
LEMMA ListStep ==
  ASSUME PruneInv, ListInv, [Next]_vars
  PROVE  ListInv'
<1> USE DEF Goto
<1>1. TypeOK /\ ChainInv /\ OwnInv /\ LeftInv
  BY DEF PruneInv, ListInv
<1>2. /\ \A q \in Requests : must[q] \in SUBSET Requests /\ victims[q] \in SUBSET Requests
      /\ stuck \in Nat /\ Retention \in Nat
  BY <1>1, RetentionAssumption DEF TypeOK, Retention
<1>3. CASE UNCHANGED vars
  BY <1>1, <1>3 DEF vars, ListInv, ChainInv, OwnInv, LeftInv
<1>4. ASSUME NEW r \in Requests, Create(r) \/ CreateFails(r) PROVE ListInv'
  <2>1. /\ UNCHANGED <<must, victims, stuck>> /\ files \subseteq files' /\ files' \subseteq files \cup {r}
        /\ pc' \in [Requests -> Places] /\ pc[r] = "idle" /\ pc'[r] \in {"open", "refused"}
        /\ \A q \in Requests \ {r} : pc'[q] = pc[q]
    BY <1>1, <1>4 DEF Create, CreateFails, TypeOK, Places
  <2>2. ChainInv'
    BY <1>1, <2>1 DEF ChainInv
  <2>3. OwnInv'
    BY <1>1, <2>1 DEF OwnInv
  <2>4. LeftInv'
    BY <1>1, <2>1 DEF LeftInv
  <2> QED
    BY <2>2, <2>3, <2>4 DEF ListInv
<1>5. ASSUME NEW r \in Requests, StartRead(r) \/ Fails(r) PROVE ListInv'
  <2>1. /\ UNCHANGED <<files, victims, stuck>>
        /\ pc[r] # "removing" /\ pc'[r] \in {"reading", "lost"}
        /\ must'[r] \in {files, {}}
        /\ pc'[r] = "reading" => must'[r] = files
        /\ \A q \in Requests \ {r} : pc'[q] = pc[q] /\ must'[q] = must[q]
    BY <1>1, <1>5 DEF StartRead, Fails, TypeOK
  <2>2. ChainInv'
    BY <1>1, <2>1 DEF ChainInv, OwnInv
  <2>3. OwnInv'
    BY <1>1, <2>1 DEF OwnInv
  <2>4. LeftInv'
    BY <1>1, <2>1 DEF LeftInv
  <2> QED
    BY <2>2, <2>3, <2>4 DEF ListInv
<1>6. ASSUME NEW r \in Requests, EndRead(r) PROVE ListInv'
  <2>1. PICK names \in SUBSET may[r] :
          /\ must[r] \subseteq names
          /\ victims' = [victims EXCEPT ![r] = Excess(names)]
          /\ pc' = [pc EXCEPT ![r] = IF Excess(names) = {} THEN "done" ELSE "removing"]
    BY <1>6 DEF EndRead
  <2>2. UNCHANGED <<files, must, stuck>> /\ pc[r] = "reading"
    BY <1>6 DEF EndRead
  <2>3. /\ victims'[r] = Excess(names) /\ pc'[r] \in {"removing", "done"}
        /\ pc'[r] # "removing" => Excess(names) = {}
        /\ \A q \in Requests \ {r} : victims'[q] = victims[q] /\ pc'[q] = pc[q]
    BY <1>1, <2>1 DEF TypeOK
  <2>4. Cardinality(must[r] \ Excess(names)) <= Retention + stuck
    <3>1. names \in SUBSET Requests
      BY <1>1 DEF TypeOK
    <3>2. must[r] \ Excess(names) \subseteq names \ Excess(names)
      BY <2>1
    <3>3. Cardinality(names \ Excess(names)) <= Retention
      BY <3>1, ExcessLeavesFew
    <3>4. /\ Cardinality(must[r] \ Excess(names)) <= Cardinality(names \ Excess(names))
          /\ Cardinality(must[r] \ Excess(names)) \in Nat
          /\ Cardinality(names \ Excess(names)) \in Nat
      BY <3>1, <3>2, PartIsSmaller
    <3> QED
      BY <1>2, <3>3, <3>4
  <2>5. ChainInv'
    BY <1>1, <2>2 DEF ChainInv
  <2>6. OwnInv'
    BY <1>1, <2>2, <2>3 DEF OwnInv
  <2>7. LeftInv'
    BY <1>1, <2>2, <2>3, <2>4 DEF LeftInv
  <2> QED
    BY <2>5, <2>6, <2>7 DEF ListInv
<1>7. ASSUME NEW r \in Requests, NEW n \in victims[r], TakeVictim(r, n)
      PROVE  /\ pc[r] = "removing" /\ victims'[r] = victims[r] \ {n}
             /\ pc'[r] \in {"removing", "done"}
             /\ pc'[r] # "removing" => victims'[r] = {}
             /\ \A q \in Requests \ {r} : victims'[q] = victims[q] /\ pc'[q] = pc[q]
  BY <1>1, <1>7 DEF TakeVictim, TypeOK
<1>8. ASSUME NEW r \in Requests, Remove(r) PROVE ListInv'
  <2>1. PICK n \in victims[r] : /\ TakeVictim(r, n)
                                /\ files' = files \ {n}
                                /\ must' = [q \in Requests |-> must[q] \ {n}]
    BY <1>8 DEF Remove
  <2>2. \A q \in Requests : must'[q] = must[q] \ {n}
    BY <2>1
  <2>3. stuck' = stuck
    BY <1>8 DEF Remove
  <2>4. ChainInv'
    BY <1>1, <2>2 DEF ChainInv
  <2>5. OwnInv'
    BY <1>1, <1>7, <2>1, <2>2 DEF OwnInv
  <2>6. ASSUME NEW q \in Requests, pc'[q] \in {"removing", "done"}
        PROVE  Cardinality(must'[q] \ victims'[q]) <= Retention + stuck
    <3>1. pc[q] \in {"removing", "done"} /\ must'[q] \ victims'[q] \subseteq must[q] \ victims[q]
      BY <1>7, <2>1, <2>2, <2>6
    <3>2. Cardinality(must[q] \ victims[q]) <= Retention + stuck
      BY <1>1, <3>1 DEF LeftInv
    <3>3. /\ Cardinality(must'[q] \ victims'[q]) <= Cardinality(must[q] \ victims[q])
          /\ Cardinality(must'[q] \ victims'[q]) \in Nat
          /\ Cardinality(must[q] \ victims[q]) \in Nat
      BY <1>2, <3>1, PartIsSmaller
    <3> QED
      BY <1>2, <3>2, <3>3
  <2>7. \A q \in Requests : pc'[q] # "removing" => victims'[q] = {}
    BY <1>1, <1>7, <2>1 DEF LeftInv
  <2>8. LeftInv'
    BY <2>3, <2>6, <2>7 DEF LeftInv
  <2> QED
    BY <2>4, <2>5, <2>8 DEF ListInv
<1>9. ASSUME NEW r \in Requests, RemoveFails(r) PROVE ListInv'
  <2>1. PICK n \in victims[r] : TakeVictim(r, n)
    BY <1>9 DEF RemoveFails
  <2>2. UNCHANGED <<files, must>> /\ stuck' = stuck + 1
    BY <1>9 DEF RemoveFails
  <2>3. ChainInv'
    BY <1>1, <2>2 DEF ChainInv
  <2>4. OwnInv'
    BY <1>1, <1>7, <2>1, <2>2 DEF OwnInv
  <2>5. ASSUME NEW q \in Requests, pc'[q] \in {"removing", "done"}
        PROVE  Cardinality(must[q] \ victims'[q]) <= Retention + stuck'
    <3>1. /\ pc[q] \in {"removing", "done"}
          /\ must[q] \ victims'[q] \subseteq (must[q] \ victims[q]) \cup {n}
      BY <1>7, <2>1, <2>5
    <3>2. Cardinality(must[q] \ victims[q]) <= Retention + stuck
      BY <1>1, <3>1 DEF LeftInv
    <3>3. /\ must[q] \ victims'[q] \in SUBSET Requests
          /\ must[q] \ victims[q] \in SUBSET Requests
      BY <1>2
    <3>4. /\ Cardinality(must[q] \ victims'[q]) <= Cardinality(must[q] \ victims[q]) + 1
          /\ Cardinality(must[q] \ victims'[q]) \in Nat
          /\ Cardinality(must[q] \ victims[q]) \in Nat
      BY <3>1, <3>3, OneMore, PartIsSmaller
    <3> QED
      BY <1>2, <2>2, <3>2, <3>4
  <2>6. \A q \in Requests : pc'[q] # "removing" => victims'[q] = {}
    BY <1>1, <1>7, <2>1 DEF LeftInv
  <2>7. LeftInv'
    BY <2>2, <2>5, <2>6 DEF LeftInv
  <2> QED
    BY <2>3, <2>4, <2>7 DEF ListInv
<1>10. CASE Crash
  <2>1. /\ UNCHANGED <<files, stuck>>
        /\ \A q \in Requests :
             /\ victims'[q] = {}
             /\ IF pc[q] \in Busy THEN pc'[q] = "lost" /\ must'[q] = {}
                                  ELSE pc'[q] = pc[q] /\ must'[q] = must[q]
    BY <1>10 DEF Crash
  <2>2. ChainInv'
    BY <1>1, <2>1 DEF ChainInv
  <2>3. OwnInv'
    BY <1>1, <2>1 DEF OwnInv
  <2>4. LeftInv'
    BY <1>1, <2>1 DEF LeftInv, Busy
  <2> QED
    BY <2>2, <2>3, <2>4 DEF ListInv
<1> QED
  BY <1>3, <1>4, <1>5, <1>6, <1>8, <1>9, <1>10 DEF Next, Settled

\* Of the requests whose prune is over, one listed every file another owns.
LEMMA WidestListing ==
  ASSUME PruneInv, ListInv, NEW D \in SUBSET Requests, D # {},
         \A q \in D : pc[q] = "done"
  PROVE  \E r \in D : D \cap files \subseteq must[r]
<1>1. \A q \in Requests : must[q] \in SUBSET Requests
  BY DEF PruneInv, TypeOK
<1> DEFINE C == {Requests \ must[q] : q \in D}
<1>2. C \in SUBSET SUBSET Requests /\ C # {}
  OBVIOUS
<1>3. PICK X \in C : \A Y \in C : Y \subseteq X => Y = X
  <2> HIDE DEF C
  <2> QED
    BY <1>2, SmallestSet
<1>4. PICK r \in D : X = Requests \ must[r]
  OBVIOUS
<1>5. ASSUME NEW q \in D PROVE must[q] \subseteq must[r]
  <2>1. CASE must[r] \subseteq must[q]
    BY <1>1, <1>3, <1>4, <2>1
  <2> QED
    BY <2>1 DEF ListInv, ChainInv
<1>6. \A q \in D \cap files : q \in must[q]
  BY DEF ListInv, OwnInv
<1> QED
  BY <1>5, <1>6

\* Listings and victims stay within what may go, in every state.
THEOREM Invariance == Spec => []IInv
<1>1. Init => PruneInv
  BY DEF Init, PruneInv, TypeOK, Places, Created, ReadInv, VictimInv, NewestKept
<1>2. Init => ListInv
  BY DEF Init, ListInv, ChainInv, OwnInv, LeftInv
<1>3. IInv <=> PruneInv /\ ListInv
  BY DEF IInv, ListInv
<1>4. (PruneInv /\ ListInv) /\ [Next]_vars => (PruneInv /\ ListInv)'
  BY Step, ListStep
<1> QED
  BY <1>1, <1>2, <1>3, <1>4, PTL DEF Spec

\* The newest `retention' snapshots are in the directory at any time, whoever
\* prunes it from whatever listing (snapshot.go:111-130).
THEOREM NewestAlwaysKept == Spec => []NewestKept
<1>1. IInv => NewestKept
  BY DEF IInv, PruneInv
<1> QED
  BY <1>1, Invariance, PTL

\* Prunes that overlap leave no more than the retention behind, but for writes
\* under way or cut short and removals that failed (snapshot.go:59-130): of the
\* prunes that are over, the one with the widest listing has seen the files of all
\* the others.
THEOREM AlwaysBounded == Spec => []OverflowBounded
<1>1. ASSUME IInv PROVE OverflowBounded
  <2> DEFINE D == {r \in Requests : r \in files /\ pc[r] = "done"}
             O == {r \in Requests : pc[r] \in Busy \cup {"lost"}}
  <2>1. /\ PruneInv /\ ListInv /\ files \in SUBSET Requests /\ stuck \in Nat
        /\ Retention \in Nat
    BY <1>1, RetentionAssumption DEF IInv, ListInv, PruneInv, TypeOK, Created, Retention
  <2>2. files \subseteq D \cup O
    BY <1>1 DEF IInv, PruneInv, TypeOK, Created, Busy, Places
  <2>3. D \in SUBSET Requests /\ O \in SUBSET Requests
    OBVIOUS
  <2>4. Cardinality(D) <= Retention + stuck
    <3>1. CASE D = {}
      BY <2>1, <3>1, FS_EmptySet
    <3>2. CASE D # {}
      <4>1. PICK r \in D : D \cap files \subseteq must[r]
        BY <2>1, <2>3, <3>2, WidestListing
      <4>2. D \subseteq must[r] /\ must[r] \in SUBSET Requests
        BY <2>1, <4>1 DEF PruneInv, TypeOK
      <4>3. Cardinality(must[r] \ victims[r]) <= Retention + stuck /\ victims[r] = {}
        BY <1>1, <4>1 DEF IInv, LeftInv
      <4>4. /\ Cardinality(D) <= Cardinality(must[r]) /\ Cardinality(D) \in Nat
            /\ Cardinality(must[r]) \in Nat
        BY <2>3, <4>2, PartIsSmaller
      <4>5. must[r] \ victims[r] = must[r]
        BY <4>3
      <4> QED
        BY <2>1, <4>3, <4>4, <4>5
    <3> QED
      BY <3>1, <3>2
  <2> HIDE DEF D, O
  <2>5. IsFiniteSet(D) /\ IsFiniteSet(O)
    BY <2>3, RequestsFinite
  <2>6. IsFiniteSet(D \cup O) /\ Cardinality(D \cup O) <= Cardinality(D) + Cardinality(O)
    <3>1. /\ IsFiniteSet(D \cap O) /\ Cardinality(D \cap O) \in Nat
          /\ Cardinality(D) \in Nat /\ Cardinality(O) \in Nat
      BY <2>3, <2>5, RequestsFinite, FS_CardinalityType
    <3>2. /\ IsFiniteSet(D \cup O)
          /\ Cardinality(D \cup O) = Cardinality(D) + Cardinality(O) - Cardinality(D \cap O)
      BY <2>5, FS_Union
    <3> QED
      BY <3>1, <3>2
  <2>7. /\ Cardinality(files) <= Cardinality(D \cup O) /\ Cardinality(files) \in Nat
        /\ Cardinality(D \cup O) \in Nat /\ Cardinality(D) \in Nat /\ Cardinality(O) \in Nat
    BY <2>1, <2>2, <2>3, PartIsSmaller
  <2>8. Cardinality(files) <= Retention + stuck + Cardinality(O)
    BY <2>1, <2>4, <2>6, <2>7
  <2> QED
    BY <2>8 DEF OverflowBounded, O
<1> QED
  BY <1>1, Invariance, PTL
=============================================================================
