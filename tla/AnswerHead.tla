---------------------------- MODULE AnswerHead ----------------------------
(***************************************************************************)
(* The sink that measures an answer on its way to the client and keeps its  *)
(* beginning for the snapshot (countingSink, pipeline.go).  A text is the   *)
(* sequence of its UTF-8 bytes: "1" is a character of one byte, "2", "3"    *)
(* and "4" begin one of so many bytes, "c" continues one.                   *)
(*                                                                         *)
(* A definition named X_Something is X with one plausible mistake.          *)
(***************************************************************************)
EXTENDS Naturals, Sequences

CONSTANTS
  HeadCap,    \* countingSinkHeadCap: bytes that are kept (512)
  MaxHead,    \* bytes of the head at most (200)
  MaxBytes    \* bound: bytes of an answer

ASSUME CapAssumption ==
  HeadCap \in Nat /\ MaxHead \in Nat \ {0} /\ MaxHead <= HeadCap /\ MaxBytes \in Nat

VARIABLES
  bytes,    \* countingSink.bytes
  buf,      \* countingSink.buf
  answer    \* what the inner sink was given

vars == <<bytes, buf, answer>>

Characters ==
  {<<"1">>, <<"2", "c">>, <<"3", "c", "c">>, <<"4", "c", "c", "c">>}

\* The content of a delta: one or two characters, never a part of one.
Contents == Characters \cup {a \o b : a, b \in Characters}

Smaller(a, b) == IF a < b THEN a ELSE b

Init == bytes = 0 /\ buf = <<>> /\ answer = <<>>

Delta_IgnoresFill(d) ==
  /\ bytes' = bytes + Len(d)
  /\ buf' = IF Len(buf) < HeadCap THEN buf \o SubSeq(d, 1, Smaller(HeadCap, Len(d)))
                                  ELSE buf
  /\ answer' = answer \o d
Delta(d) ==
  /\ bytes' = bytes + Len(d)
  /\ buf' = IF Len(buf) < HeadCap
            THEN buf \o SubSeq(d, 1, Smaller(HeadCap - Len(buf), Len(d)))
            ELSE buf
  /\ answer' = answer \o d

\* head: cut at MaxHead, then walk back while the last byte continues a
\* character.
HeadEnd_NoWalk == Smaller(Len(buf), MaxHead)
HeadEnd ==
  CHOOSE end \in 0 .. Smaller(Len(buf), MaxHead) :
    /\ end > 0 => buf[end] # "c"
    /\ \A i \in end + 1 .. Smaller(Len(buf), MaxHead) : buf[i] = "c"
HeadText == SubSeq(buf, 1, HeadEnd)

Ended == UNCHANGED vars

Next ==
  \/ \E d \in Contents : Len(answer) + Len(d) <= MaxBytes /\ Delta(d)
  \/ Ended

Spec == Init /\ [][Next]_vars

-----------------------------------------------------------------------------
(* Properties.                                                              *)

Width(b) == CASE b = "1" -> 1 [] b = "2" -> 2 [] b = "3" -> 3 [] b = "4" -> 4

\* Every byte but the continuing ones begins a character that is all there, and
\* nothing else continues one.
ValidText(s) ==
  \A i \in 1 .. Len(s) :
    IF s[i] = "c"
    THEN \E j \in 1 .. i - 1 : /\ s[j] # "c" /\ i < j + Width(s[j])
                               /\ \A k \in j + 1 .. i : s[k] = "c"
    ELSE /\ i + Width(s[i]) - 1 <= Len(s)
         /\ \A k \in i + 1 .. i + Width(s[i]) - 1 : s[k] = "c"

\* However an answer is cut into deltas, its length is right and the buffer
\* holds its first HeadCap bytes.
BufferIsPrefix ==
  /\ bytes = Len(answer)
  /\ buf = SubSeq(answer, 1, Smaller(HeadCap, Len(answer)))

\* The head is the beginning of the answer, up to its last whole character but
\* for one byte at most.
HeadNearlyValid ==
  \/ ValidText(HeadText)
  \/ Len(HeadText) > 0 /\ ValidText(SubSeq(HeadText, 1, Len(HeadText) - 1))

\* The inductive invariant: the answer itself is never cut inside a character.
TypeOK == bytes \in Nat /\ {buf, answer} \subseteq Seq({"1", "2", "3", "4", "c"})
IInv == TypeOK /\ BufferIsPrefix /\ ValidText(answer)
=============================================================================
