-------------------------- MODULE AnswerHeadProofs --------------------------
(***************************************************************************)
(* The measured answer and its head, for every cap, every length of the     *)
(* head and every way to cut an answer into deltas.                         *)
(***************************************************************************)
EXTENDS AnswerHead, FiniteSetTheorems, WellFoundedInduction, SequenceTheorems, TLAPS

Bytes == {"1", "2", "3", "4", "c"}
Leads == {"1", "2", "3", "4"}

\* A character has at least one byte.
LEMMA WidthType == \A b \in Leads : Width(b) \in Nat \ {0}
BY DEF Leads, Width

\* The beginning of a text: as long as it says, byte by byte.
LEMMA Beginning ==
  ASSUME NEW s \in Seq(Bytes), NEW n \in 0 .. Len(s)
  PROVE  /\ SubSeq(s, 1, n) \in Seq(Bytes) /\ Len(SubSeq(s, 1, n)) = n
         /\ \A i \in 1 .. n : SubSeq(s, 1, n)[i] = s[i]
<1>1. Len(s) \in Nat /\ \A i \in 1 .. n : s[i] \in Bytes
  OBVIOUS
<1> QED
  BY <1>1, SubSeqProperties, 1 \in Int, n \in Int

-----------------------------------------------------------------------------
(* Texts of whole characters.                                               *)

\* Two texts of whole characters make one.
LEMMA ValidConcat ==
  ASSUME NEW s \in Seq(Bytes), NEW t \in Seq(Bytes), ValidText(s), ValidText(t)
  PROVE  ValidText(s \o t)
<1> DEFINE u == s \o t
<1>1. /\ u \in Seq(Bytes) /\ Len(u) = Len(s) + Len(t) /\ Len(s) \in Nat /\ Len(t) \in Nat
      /\ \A i \in 1 .. Len(s) : u[i] = s[i]
      /\ \A i \in 1 .. Len(t) : u[Len(s) + i] = t[i]
  BY ConcatProperties, LenProperties
<1>2. \A i \in 1 .. Len(u) : u[i] \in Bytes
  BY <1>1
<1> HIDE DEF u
<1>3. ASSUME NEW i \in 1 .. Len(s), s[i] = "c"
      PROVE  \E j \in 1 .. i - 1 : /\ u[j] # "c" /\ i < j + Width(u[j])
                                   /\ \A k \in j + 1 .. i : u[k] = "c"
  <2>1. PICK j \in 1 .. i - 1 : /\ s[j] # "c" /\ i < j + Width(s[j])
                                /\ \A k \in j + 1 .. i : s[k] = "c"
    BY <1>3 DEF ValidText
  <2>2. u[j] = s[j] /\ \A k \in j + 1 .. i : u[k] = s[k]
    BY <1>1, <2>1
  <2> QED
    BY <2>1, <2>2
<1>4. ASSUME NEW i \in 1 .. Len(s), s[i] # "c"
      PROVE  /\ i + Width(u[i]) - 1 <= Len(u)
             /\ \A k \in i + 1 .. i + Width(u[i]) - 1 : u[k] = "c"
  <2>1. /\ i + Width(s[i]) - 1 <= Len(s)
        /\ \A k \in i + 1 .. i + Width(s[i]) - 1 : s[k] = "c"
    BY <1>4 DEF ValidText
  <2>2. u[i] = s[i] /\ Width(s[i]) \in Nat
    <3>1. u[i] = s[i] /\ s[i] \in Bytes
      BY <1>1, ElementOfSeq
    <3>2. s[i] \in Leads
      BY <1>4, <3>1 DEF Bytes, Leads
    <3> QED
      BY <3>1, <3>2, WidthType
  <2> QED
    BY <1>1, <2>1, <2>2
<1>5. ASSUME NEW i \in 1 .. Len(t), t[i] = "c"
      PROVE  \E j \in 1 .. Len(s) + i - 1 :
               /\ u[j] # "c" /\ Len(s) + i < j + Width(u[j])
               /\ \A k \in j + 1 .. Len(s) + i : u[k] = "c"
  <2>1. PICK j \in 1 .. i - 1 : /\ t[j] # "c" /\ i < j + Width(t[j])
                                /\ \A k \in j + 1 .. i : t[k] = "c"
    BY <1>5 DEF ValidText
  <2>2. u[Len(s) + j] = t[j] /\ Len(s) + j \in 1 .. Len(s) + i - 1 /\ j \in 1 .. Len(t)
    BY <1>1, <2>1
  <2>3. Width(t[j]) \in Nat
    <3>1. t[j] \in Bytes
      BY <2>2, ElementOfSeq
    <3> QED
      BY <2>1, <3>1, WidthType DEF Bytes, Leads
  <2>4. ASSUME NEW k \in Len(s) + j + 1 .. Len(s) + i PROVE u[k] = "c"
    <3>1. k - Len(s) \in j + 1 .. i /\ k - Len(s) \in 1 .. Len(t) /\ Len(s) + (k - Len(s)) = k
      BY <1>1, <2>2
    <3> QED
      BY <1>1, <2>1, <3>1
  <2>5. Len(s) + i < Len(s) + j + Width(u[Len(s) + j])
    BY <1>1, <2>1, <2>2, <2>3
  <2> QED
    BY <2>1, <2>2, <2>4, <2>5
<1>6. ASSUME NEW i \in 1 .. Len(t), t[i] # "c"
      PROVE  /\ Len(s) + i + Width(u[Len(s) + i]) - 1 <= Len(u)
             /\ \A k \in Len(s) + i + 1 .. Len(s) + i + Width(u[Len(s) + i]) - 1 : u[k] = "c"
  <2>1. /\ i + Width(t[i]) - 1 <= Len(t)
        /\ \A k \in i + 1 .. i + Width(t[i]) - 1 : t[k] = "c"
    BY <1>6 DEF ValidText
  <2>2. u[Len(s) + i] = t[i] /\ Width(t[i]) \in Nat
    <3>1. u[Len(s) + i] = t[i] /\ t[i] \in Bytes
      BY <1>1, ElementOfSeq
    <3>2. t[i] \in Leads
      BY <1>6, <3>1 DEF Bytes, Leads
    <3> QED
      BY <3>1, <3>2, WidthType
  <2>3. ASSUME NEW k \in Len(s) + i + 1 .. Len(s) + i + Width(t[i]) - 1 PROVE u[k] = "c"
    <3>1. /\ k - Len(s) \in i + 1 .. i + Width(t[i]) - 1 /\ k - Len(s) \in 1 .. Len(t)
          /\ Len(s) + (k - Len(s)) = k
      BY <1>1, <2>1, <2>2
    <3> QED
      BY <1>1, <2>1, <3>1
  <2> QED
    BY <1>1, <2>1, <2>2, <2>3
<1>7. ASSUME NEW i \in 1 .. Len(u)
      PROVE  IF u[i] = "c"
             THEN \E j \in 1 .. i - 1 : /\ u[j] # "c" /\ i < j + Width(u[j])
                                        /\ \A k \in j + 1 .. i : u[k] = "c"
             ELSE /\ i + Width(u[i]) - 1 <= Len(u)
                  /\ \A k \in i + 1 .. i + Width(u[i]) - 1 : u[k] = "c"
  <2>1. CASE i <= Len(s)
    <3>1. i \in 1 .. Len(s) /\ u[i] = s[i]
      BY <1>1, <2>1
    <3> QED
      BY <1>3, <1>4, <3>1
  <2>2. CASE Len(s) < i
    <3>1. PICK h \in 1 .. Len(t) : i = Len(s) + h
      <4>1. i - Len(s) \in 1 .. Len(t) /\ i = Len(s) + (i - Len(s))
        BY <1>1, <2>2
      <4> QED
        BY <4>1
    <3>2. u[i] = t[h]
      BY <1>1, <3>1
    <3> QED
      BY <1>5, <1>6, <3>1, <3>2
  <2> QED
    BY <1>1, <2>1, <2>2
<1> QED
  BY <1>7 DEF ValidText, u

\* What a delta carries is whole characters, one or two.
LEMMA ContentsValid ==
  \A d \in Contents : d \in Seq(Bytes) /\ ValidText(d)
<1>1. ASSUME NEW d \in Characters PROVE d \in Seq(Bytes) /\ ValidText(d)
  <2>1. CASE d = <<"1">>
    BY <2>1 DEF Bytes, ValidText, Width
  <2>2. CASE d = <<"2", "c">>
    BY <2>2 DEF Bytes, ValidText, Width
  <2>3. CASE d = <<"3", "c", "c">>
    BY <2>3 DEF Bytes, ValidText, Width
  <2>4. CASE d = <<"4", "c", "c", "c">>
    BY <2>4 DEF Bytes, ValidText, Width
  <2> QED
    BY <1>1, <2>1, <2>2, <2>3, <2>4 DEF Characters
<1>2. ASSUME NEW a \in Characters, NEW b \in Characters
      PROVE  a \o b \in Seq(Bytes) /\ ValidText(a \o b)
  BY <1>1, ValidConcat, ConcatProperties
<1>3. ASSUME NEW d \in Contents PROVE d \in Characters \/ \E a, b \in Characters : d = a \o b
  BY DEF Contents
<1> QED
  BY <1>1, <1>2, <1>3

-----------------------------------------------------------------------------
(* The buffer.                                                              *)

\* The smaller of two naturals.
LEMMA SmallerFacts ==
  \A a, b \in Nat : /\ Smaller(a, b) \in Nat
                    /\ Smaller(a, b) <= a /\ Smaller(a, b) <= b
                    /\ Smaller(a, b) = a \/ Smaller(a, b) = b
BY DEF Smaller

\* A delta keeps the buffer the beginning of the answer, whatever room it has.
LEMMA DeltaStep ==
  ASSUME IInv, NEW d \in Contents, Delta(d)
  PROVE  IInv'
<1>1. /\ d \in Seq(Bytes) /\ ValidText(d) /\ answer \in Seq(Bytes)
      /\ buf \in Seq(Bytes) /\ ValidText(answer) /\ HeadCap \in Nat
      /\ bytes = Len(answer) /\ buf = SubSeq(answer, 1, Smaller(HeadCap, Len(answer)))
  BY ContentsValid, CapAssumption DEF IInv, TypeOK, BufferIsPrefix, Bytes
<1>2. /\ answer' = answer \o d /\ answer' \in Seq(Bytes) /\ Len(answer') = Len(answer) + Len(d)
      /\ Len(answer) \in Nat /\ Len(d) \in Nat
      /\ \A i \in 1 .. Len(answer) : answer'[i] = answer[i]
      /\ \A i \in 1 .. Len(d) : answer'[Len(answer) + i] = d[i]
  BY <1>1, ConcatProperties, LenProperties DEF Delta
<1>3. ValidText(answer')
  BY <1>1, <1>2, ValidConcat
<1>4. bytes' = Len(answer')
  BY <1>1, <1>2 DEF Delta
<1> DEFINE m == Smaller(HeadCap, Len(answer))
           n == Smaller(HeadCap, Len(answer'))
<1>5. m \in 0 .. Len(answer) /\ n \in 0 .. Len(answer')
  BY <1>1, <1>2 DEF Smaller
<1>6. /\ Len(buf) = m /\ \A i \in 1 .. m : buf[i] = answer[i]
  BY <1>1, <1>5, Beginning
<1>7. /\ SubSeq(answer', 1, n) \in Seq(Bytes) /\ Len(SubSeq(answer', 1, n)) = n
      /\ \A i \in 1 .. n : SubSeq(answer', 1, n)[i] = answer'[i]
  BY <1>2, <1>5, Beginning
<1>8. buf' \in Seq(Bytes) /\ Len(buf') = n /\ \A i \in 1 .. n : buf'[i] = answer'[i]
  <2>1. CASE Len(buf) < HeadCap
    <3> DEFINE r == Smaller(HeadCap - Len(buf), Len(d))
               e == SubSeq(d, 1, r)
    <3>1. m = Len(answer) /\ r \in 0 .. Len(d) /\ n = m + r
      <4>1. m = Len(answer) /\ Len(answer) < HeadCap
        BY <1>1, <1>2, <1>6, <2>1 DEF Smaller
      <4>2. r = IF HeadCap - Len(answer) < Len(d) THEN HeadCap - Len(answer) ELSE Len(d)
        BY <1>6, <4>1 DEF Smaller
      <4>3. n = IF HeadCap < Len(answer) + Len(d) THEN HeadCap ELSE Len(answer) + Len(d)
        BY <1>2 DEF Smaller
      <4> HIDE DEF m, n, r
      <4> QED
        BY <1>1, <1>2, <4>1, <4>2, <4>3
    <3>2. e \in Seq(Bytes) /\ Len(e) = r /\ \A i \in 1 .. r : e[i] = d[i]
      BY <1>1, <3>1, Beginning
    <3>3. buf' = buf \o e
      BY <2>1 DEF Delta
    <3> HIDE DEF e, r, m, n
    <3>4. /\ buf' \in Seq(Bytes) /\ Len(buf') = m + r
          /\ \A i \in 1 .. m + r : buf'[i] = IF i <= m THEN buf[i] ELSE e[i - m]
      BY <1>1, <1>6, <3>2, <3>3, ConcatProperties
    <3>5. ASSUME NEW i \in 1 .. n PROVE buf'[i] = answer'[i]
      <4>1. CASE i <= m
        BY <1>2, <1>6, <3>1, <3>4, <4>1
      <4>2. CASE m < i
        <5>1. i - m \in 1 .. r /\ m + (i - m) = i /\ ~(i <= m)
          BY <1>2, <3>1, <4>2
        <5>2. i - m \in 1 .. Len(d)
          BY <1>2, <3>1, <5>1
        <5> QED
          BY <1>2, <3>1, <3>2, <3>4, <5>1, <5>2
      <4> QED
        BY <1>2, <3>1, <4>1, <4>2
    <3> QED
      BY <3>1, <3>4, <3>5
  <2>2. CASE ~(Len(buf) < HeadCap)
    <3>1. buf' = buf /\ n = m
      BY <1>1, <1>2, <1>6, <2>2 DEF Delta, Smaller
    <3> QED
      BY <1>1, <1>2, <1>5, <1>6, <3>1
  <2> QED
    BY <2>1, <2>2
<1>9. buf' = SubSeq(answer', 1, n)
  <2> HIDE DEF n
  <2> QED
    BY <1>7, <1>8, SeqEqual
<1> QED
  BY <1>2, <1>3, <1>4, <1>8, <1>9, LenProperties DEF IInv, TypeOK, BufferIsPrefix, Bytes

\* The buffer and the measured length are right, and no character of the answer
\* is cut.
THEOREM Invariance == Spec => []IInv
<1>1. Init => IInv
  <2> SUFFICES ASSUME Init PROVE IInv
    OBVIOUS
  <2>1. <<>> \in Seq(Bytes) /\ Len(<<>>) = 0
    BY EmptySeq
  <2>2. Smaller(HeadCap, 0) = 0
    BY CapAssumption DEF Smaller
  <2>3. SubSeq(<<>>, 1, 0) = <<>>
    BY SubSeqEmpty
  <2> QED
    BY <2>1, <2>2, <2>3 DEF Init, IInv, TypeOK, BufferIsPrefix, ValidText, Bytes
<1>2. IInv /\ [Next]_vars => IInv'
  <2> SUFFICES ASSUME IInv, [Next]_vars PROVE IInv'
    OBVIOUS
  <2>1. CASE UNCHANGED vars
    BY <2>1 DEF vars, IInv, TypeOK, BufferIsPrefix, ValidText
  <2> QED
    BY <2>1, DeltaStep DEF Next, Ended
<1> QED
  BY <1>1, <1>2, PTL DEF Spec

\* However an answer is cut into deltas, countingSink measures it and keeps its
\* beginning (pipeline.go:349-383).
THEOREM BufferAlwaysPrefix == Spec => []BufferIsPrefix
BY Invariance, PTL DEF IInv

-----------------------------------------------------------------------------
(* The head.                                                                *)

\* Of some positions one is the last: the finite sets are well-founded.
LEMMA LastPosition ==
  ASSUME NEW n \in Nat, NEW T \in SUBSET (0 .. n), T # {}
  PROVE  \E x \in T : \A y \in T : y <= x
<1> DEFINE R == StrictSubsetOrdering(Nat)
           S == FiniteSubsetsOf(Nat)
           C == {x .. n : x \in T}
<1>1. IsWellFoundedOn(R, S)
  BY FS_StrictSubsetOrderingWellFounded
<1>2. C \subseteq S /\ C # {}
  <2>1. \A x \in T : x .. n \in SUBSET Nat /\ IsFiniteSet(x .. n)
    BY FS_Interval
  <2>2. \A x \in T : x .. n \in S
    BY <2>1 DEF FiniteSubsetsOf
  <2> HIDE DEF S
  <2> QED
    BY <2>2
<1>3. \E X \in C : \A Y \in C : ~(<<Y, X>> \in R)
  <2> HIDE DEF R, S, C
  <2> QED
    BY <1>1, <1>2, WFMin
<1>4. PICK x \in T : \A y \in T : ~(<<y .. n, x .. n>> \in R)
  BY <1>3
<1>5. ASSUME NEW y \in T, ~(y <= x) PROVE FALSE
  <2>1. y .. n \subseteq x .. n /\ x \in x .. n /\ x \notin y .. n
    BY <1>5
  <2>2. <<y .. n, x .. n>> \in R
    BY <2>1 DEF StrictSubsetOrdering
  <2> QED
    BY <1>4, <2>2
<1> QED
  BY <1>5

\* The walk back ends, at a byte that begins a character or before the first.
LEMMA HeadEndFacts ==
  ASSUME IInv
  PROVE  /\ HeadEnd \in 0 .. Smaller(Len(buf), MaxHead)
         /\ HeadEnd > 0 => buf[HeadEnd] # "c"
<1> DEFINE n == Smaller(Len(buf), MaxHead)
           T == {i \in 1 .. n : buf[i] # "c"}
<1>1. Len(buf) \in Nat /\ n \in Nat
  BY CapAssumption, LenProperties DEF IInv, TypeOK, Smaller
<1> HIDE DEF n
<1>2. PICK end \in T \cup {0} : \A y \in T \cup {0} : y <= end
  <2> DEFINE U == T \cup {0}
  <2>1. U \in SUBSET (0 .. n) /\ U # {}
    BY <1>1
  <2> HIDE DEF U
  <2>2. \E end \in U : \A y \in U : y <= end
    BY <1>1, <2>1, LastPosition
  <2> QED
    BY <2>2 DEF U
<1>3. /\ end \in 0 .. n
      /\ end > 0 => buf[end] # "c"
      /\ \A i \in end + 1 .. n : buf[i] = "c"
  BY <1>1, <1>2
<1>4. \E e \in 0 .. n : /\ e > 0 => buf[e] # "c"
                        /\ \A i \in e + 1 .. n : buf[i] = "c"
  BY <1>3
<1> QED
  BY <1>4 DEF HeadEnd, n

\* The head is the beginning of the answer up to HeadEnd, and without the byte it
\* ends with it is whole characters: that byte continues none (pipeline.go:385-402).
THEOREM HeadAlwaysNearlyValid == Spec => []HeadNearlyValid
<1>1. ASSUME IInv PROVE HeadNearlyValid
  <2> DEFINE e == HeadEnd
             h == SubSeq(buf, 1, e)
  <2>1. /\ answer \in Seq(Bytes) /\ buf \in Seq(Bytes) /\ ValidText(answer)
        /\ Len(answer) \in Nat /\ Len(buf) \in Nat /\ Len(buf) <= Len(answer)
        /\ \A i \in 1 .. Len(buf) : buf[i] = answer[i]
    <3>1. /\ answer \in Seq(Bytes) /\ buf \in Seq(Bytes) /\ ValidText(answer)
          /\ buf = SubSeq(answer, 1, Smaller(HeadCap, Len(answer)))
      BY <1>1 DEF IInv, TypeOK, BufferIsPrefix, Bytes
    <3>2. Len(answer) \in Nat /\ Smaller(HeadCap, Len(answer)) \in 0 .. Len(answer)
      BY <3>1, LenProperties, CapAssumption DEF Smaller
    <3> QED
      BY <3>1, <3>2, Beginning
  <2>2. e \in 0 .. Len(buf) /\ (e > 0 => buf[e] # "c")
    BY <1>1, <2>1, HeadEndFacts, CapAssumption DEF Smaller
  <2>3. /\ h \in Seq(Bytes) /\ Len(h) = e
        /\ \A i \in 1 .. e : h[i] = answer[i]
    BY <2>1, <2>2, Beginning
  <2> HIDE DEF e, h
  <2>4. CASE e = 0
    BY <2>3, <2>4 DEF HeadNearlyValid, HeadText, ValidText, e, h
  <2>5. CASE e > 0
    <3> DEFINE g == SubSeq(h, 1, e - 1)
    <3>1. Len(g) = e - 1 /\ \A i \in 1 .. e - 1 : g[i] = answer[i]
      BY <2>2, <2>3, <2>5, Beginning
    <3>2. answer[e] # "c"
      BY <2>1, <2>2, <2>5
    <3> HIDE DEF g
    <3>3. ASSUME NEW i \in 1 .. e - 1, g[i] = "c"
          PROVE  \E j \in 1 .. i - 1 : /\ g[j] # "c" /\ i < j + Width(g[j])
                                       /\ \A k \in j + 1 .. i : g[k] = "c"
      <4>1. PICK j \in 1 .. i - 1 : /\ answer[j] # "c" /\ i < j + Width(answer[j])
                                    /\ \A k \in j + 1 .. i : answer[k] = "c"
        BY <2>1, <2>2, <3>1, <3>3 DEF ValidText
      <4> QED
        BY <2>1, <2>2, <3>1, <4>1
    <3>4. ASSUME NEW i \in 1 .. e - 1, g[i] # "c"
          PROVE  /\ i + Width(g[i]) - 1 <= Len(g)
                 /\ \A k \in i + 1 .. i + Width(g[i]) - 1 : g[k] = "c"
      <4>1. /\ g[i] = answer[i] /\ i \in 1 .. Len(answer) /\ answer[i] \in Leads
        BY <2>1, <2>2, <3>1, <3>4 DEF Bytes, Leads
      <4>2. \A k \in i + 1 .. i + Width(g[i]) - 1 : answer[k] = "c"
        BY <2>1, <3>4, <4>1 DEF ValidText
      <4>3. Width(g[i]) \in Nat
        BY <4>1, WidthType
      <4>4. i + Width(g[i]) - 1 < e
        BY <2>1, <2>2, <3>2, <4>2, <4>3
      <4>5. \A k \in i + 1 .. i + Width(g[i]) - 1 : k \in 1 .. e - 1
        BY <2>2, <4>3, <4>4
      <4>6. \A k \in i + 1 .. i + Width(g[i]) - 1 : g[k] = "c"
        BY <3>1, <4>2, <4>5
      <4>7. Len(g) = e - 1 /\ e \in Nat /\ i \in Nat
        BY <2>1, <2>2, <3>1
      <4>8. i + Width(g[i]) - 1 <= Len(g)
        BY <4>3, <4>4, <4>7
      <4> QED
        BY <4>6, <4>8
    <3>5. ValidText(g)
      BY <3>1, <3>3, <3>4 DEF ValidText
    <3> QED
      BY <2>3, <2>5, <3>5 DEF HeadNearlyValid, HeadText, g, h, e
  <2> QED
    BY <2>1, <2>2, <2>4, <2>5
<1> QED
  BY <1>1, Invariance, PTL
=============================================================================
