------------------------- MODULE StatusRingProofs -------------------------
(***************************************************************************)
(* The ring implements the log, for every capacity.                         *)
(***************************************************************************)
EXTENDS StatusRing, SequenceTheorems, TLAPS

\* The remainder of what is below twice the divisor.
LEMMA SmallRemainder ==
  ASSUME NEW b \in Nat \ {0}, NEW a \in 0 .. 2 * b - 1
  PROVE  Rem(a, b) = IF a < b THEN a ELSE a - b
<1>1. a \in Int /\ a >= 0 /\ b \in Int /\ b > 0
  OBVIOUS
<1>2. PICK q \in Int, r \in 0 .. b - 1 : a = q * b + r /\ r = a % b
  BY <1>1, SMTT(30)
<1> QED
  BY <1>1, <1>2, SMTT(30) DEF Rem

\* The slot behind nextIdx, round the end of the array.
Behind(next, i) == IF i < next THEN next - 1 - i ELSE next - 1 - i + Cap

\* Where Recent reads.
LEMMA SlotBehind ==
  ASSUME TypeOK, NEW i \in 0 .. Cap - 1
  PROVE  Slot(i) = Behind(nextIdx, i) /\ Slot(i) \in 0 .. Cap - 1
<1>1. nextIdx - 1 - i + Cap \in 0 .. 2 * Cap - 1 /\ Cap \in Nat \ {0}
  BY CapAssumption DEF TypeOK
<1> QED
  BY <1>1, SmallRemainder, CapAssumption DEF Slot, Behind, TypeOK

\* Where Push goes next.
LEMMA NextSlot ==
  ASSUME TypeOK
  PROVE  (nextIdx + 1) % Cap = IF nextIdx + 1 = Cap THEN 0 ELSE nextIdx + 1
<1>1. nextIdx + 1 \in 0 .. 2 * Cap - 1 /\ nextIdx + 1 \in 0 .. Cap /\ Cap \in Nat \ {0}
  BY CapAssumption DEF TypeOK
<1>2. Rem(nextIdx + 1, Cap) = (nextIdx + 1) % Cap
  BY <1>1 DEF Rem
<1> QED
  BY <1>1, <1>2, SmallRemainder

\* What a push does to the three variables.
LEMMA Pushed ==
  ASSUME IInv, NEW s \in Snapshots, Push(s)
  PROVE  /\ items' = [items EXCEPT ![nextIdx] = s]
         /\ nextIdx' = IF nextIdx + 1 = Cap THEN 0 ELSE nextIdx + 1
         /\ count' = IF count < Cap THEN count + 1 ELSE count
BY NextSlot DEF IInv, Push

\* A push keeps the types and the filled slots.
LEMMA PushInv ==
  ASSUME IInv, NEW s \in Snapshots, Push(s)
  PROVE  IInv'
<1>1. TypeOK'
  BY Pushed, CapAssumption DEF IInv, TypeOK
<1>2. Filled'
  BY Pushed, CapAssumption DEF IInv, TypeOK, Filled
<1> QED
  BY <1>1, <1>2 DEF IInv

\* Recent(0) is a sequence of count snapshots.
LEMMA RecentSeq ==
  IInv => /\ Recent(0) = [i \in 1 .. count |-> items[Behind(nextIdx, i - 1)]]
          /\ Len(Recent(0)) = count
<1> SUFFICES ASSUME IInv
             PROVE  /\ Recent(0) = [i \in 1 .. count |-> items[Behind(nextIdx, i - 1)]]
                    /\ Len(Recent(0)) = count
  OBVIOUS
<1>1. Returned(0) = count /\ count \in Nat /\ count <= Cap
  BY CapAssumption DEF Returned, IInv, TypeOK
<1>2. \A i \in 1 .. count : i - 1 \in 0 .. Cap - 1
  BY <1>1, CapAssumption
<1>3. \A i \in 1 .. count : Slot(i - 1) = Behind(nextIdx, i - 1) /\ Slot(i - 1) \in 0 .. Cap - 1
  BY <1>2, SlotBehind DEF IInv
<1>4. Recent(0) = [i \in 1 .. count |-> items[Behind(nextIdx, i - 1)]]
  BY <1>1, <1>3 DEF Recent
<1>5. Recent(0) \in Seq(Snapshots \cup {Empty})
  <2>1. \A i \in 1 .. count : items[Slot(i - 1)] \in Snapshots \cup {Empty}
    BY <1>3 DEF IInv, TypeOK
  <2> QED
    BY <1>1, <2>1, IsASeq DEF Recent
<1>6. DOMAIN Recent(0) = 1 .. count /\ Len(Recent(0)) \in Nat
      /\ DOMAIN Recent(0) = 1 .. Len(Recent(0))
  BY <1>4, <1>5, LenProperties
<1> QED
  BY <1>1, <1>4, <1>6

\* A push of the ring is a push of the log.
LEMMA PushStep ==
  ASSUME IInv, NEW s \in Snapshots, Push(s)
  PROVE  Log!Push(s)
<1> DEFINE n == IF count < Cap THEN count + 1 ELSE Cap
<1>1. IInv'
  BY PushInv
<1>2. (Recent(0) = [i \in 1 .. count |-> items[Behind(nextIdx, i - 1)]])'
  BY <1>1, RecentSeq, PTL
<1>3. count' = n
  BY Pushed, CapAssumption DEF IInv, TypeOK
<1>4. items'[Behind(nextIdx', 0)] = s
  BY Pushed, CapAssumption DEF IInv, TypeOK, Behind
<1>5. ASSUME NEW i \in 2 .. n
      PROVE  items'[Behind(nextIdx', i - 1)] = Recent(0)[i - 1]
  <2>1. i - 1 \in 1 .. count /\ i - 1 \in 1 .. Cap - 1 /\ count \in 0 .. Cap
    BY CapAssumption DEF IInv, TypeOK
  <2>2. Recent(0)[i - 1] = items[Behind(nextIdx, i - 2)]
    BY <2>1, RecentSeq
  <2>3. /\ Behind(nextIdx', i - 1) = Behind(nextIdx, i - 2)
        /\ Behind(nextIdx, i - 2) # nextIdx
        /\ Behind(nextIdx, i - 2) \in 0 .. Cap - 1
    BY <2>1, Pushed, CapAssumption DEF IInv, TypeOK, Behind
  <2>4. items'[Behind(nextIdx, i - 2)] = items[Behind(nextIdx, i - 2)]
    BY <2>3, Pushed DEF IInv, TypeOK
  <2> QED
    BY <2>2, <2>3, <2>4
<1>6. Recent(0)' = [i \in 1 .. n |-> IF i = 1 THEN s ELSE Recent(0)[i - 1]]
  <2>1. \A i \in 1 .. n : items'[Behind(nextIdx', i - 1)]
                            = IF i = 1 THEN s ELSE Recent(0)[i - 1]
    BY <1>4, <1>5, CapAssumption DEF IInv, TypeOK
  <2> QED
    BY <1>2, <1>3, <2>1
<1> QED
  BY <1>6, RecentSeq DEF Log!Push

\* Indices, slots and the number of entries stay in step for ever.
THEOREM Invariance == Spec => []IInv
<1>1. Init => IInv
  BY CapAssumption DEF Init, IInv, TypeOK, Filled
<1>2. IInv /\ [Next]_vars => IInv'
  BY PushInv DEF Next, vars, IInv, TypeOK, Filled
<1> QED
  BY <1>1, <1>2, PTL DEF Spec

\* /admin/status shows the last Cap decisions, newest first, for every capacity
\* (metrics.go:173-197).
THEOREM LogImplemented == Spec => ImplementsLog
<1>1. Init => Log!Init
  <2> SUFFICES ASSUME Init PROVE Recent(0) = <<>>
    BY DEF Log!Init
  <2> QED
    BY DEF Init, Recent, Returned
<1>2. IInv /\ [Next]_vars => [Log!Next]_(Recent(0))
  <2>1. ASSUME IInv, NEW s \in Snapshots, Push(s) PROVE Log!Next
    BY <2>1, PushStep DEF Log!Next
  <2>2. ASSUME UNCHANGED vars PROVE UNCHANGED Recent(0)
    BY <2>2 DEF vars, Recent, Returned, Slot
  <2> QED
    BY <2>1, <2>2 DEF Next
<1> QED
  BY <1>1, <1>2, Invariance, PTL DEF Spec, ImplementsLog, Log!Spec

\* Every push, for every capacity, puts its own decision in front of the log.
THEOREM PushesLogged == Spec => EachPushLogged
<1>1. IInv => \A s \in Snapshots : Push(s) => Log!Push(s)
  BY PushStep
<1> QED
  BY <1>1, Invariance, PTL DEF EachPushLogged

\* Recent never shows a slot nothing was pushed to, and asking for fewer entries
\* returns the newest of them.
THEOREM RecentAlwaysFilled == Spec => []RecentFilled
<1>1. IInv => RecentFilled
  <2> SUFFICES ASSUME IInv PROVE RecentFilled
    OBVIOUS
  <2>1. ASSUME NEW i \in 0 .. count - 1
        PROVE  Slot(i) \in DOMAIN items /\ items[Slot(i)] # Empty
    <3>1. i \in 0 .. Cap - 1 /\ count \in 0 .. Cap /\ i < count
      BY CapAssumption DEF IInv, TypeOK
    <3>2. Slot(i) = Behind(nextIdx, i) /\ Slot(i) \in 0 .. Cap - 1
      BY <3>1, SlotBehind DEF IInv
    <3>3. Slot(i) < count
      BY <3>1, <3>2, CapAssumption DEF Behind, IInv, TypeOK, Filled
    <3> QED
      BY <3>2, <3>3 DEF IInv, TypeOK, Filled
  <2>2. ASSUME NEW n \in 1 .. count PROVE Recent(n) = SubSeq(Recent(0), 1, n)
    <3>1. Returned(n) = n /\ Returned(0) = count /\ count \in Nat
      BY DEF Returned, IInv, TypeOK
    <3>2. \A i \in 1 .. n : Recent(0)[i] = items[Slot(i - 1)]
      BY <3>1 DEF Recent
    <3>3. SubSeq(Recent(0), 1, n) = [i \in 1 .. n |-> Recent(0)[i]]
      BY <3>1 DEF SubSeq
    <3> QED
      BY <3>1, <3>2, <3>3 DEF Recent
  <2> QED
    BY <2>1, <2>2 DEF RecentFilled
<1> QED
  BY <1>1, Invariance, PTL
=============================================================================
