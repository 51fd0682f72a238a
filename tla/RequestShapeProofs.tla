------------------------- MODULE RequestShapeProofs -------------------------
(***************************************************************************)
(* A turn whose speculative request could be translated is not lost to a    *)
(* request that the sidecar makes up itself; every model reads the whole    *)
(* conversation; and the calls that cache share their prefix.  All for any  *)
(* conversation, any configuration and any number of panel members.         *)
(*                                                                         *)
(* The recursion over a conversation is reasoned about with UpTo: induction *)
(* to a bound, on a set of numbers instead of a predicate, which comes from *)
(* the finite sets being well-founded.                                     *)
(***************************************************************************)
EXTENDS RequestShape, FiniteSetTheorems, WellFoundedInduction, SequenceTheorems, TLAPS

\* A request with the same messages and without tools is accepted as well.
LEMMA WithoutToolsAccepted ==
  ASSUME NEW q \in Request, NEW r \in Request, NEW ep,
         Accepts(ep, q), r.messages = q.messages,
         r.tools = "absent", r.choice = "absent"
  PROVE  Accepts(ep, r)
BY DEF Accepts, AnthropicAccepts, ToolsSent

\* What withEndpoint returns is a request about the same messages.
LEMMA EndpointRequest ==
  ASSUME NEW q \in Request, NEW ep \in Endpoint
  PROVE  /\ WithEndpoint(q, ep) \in Request
         /\ WithEndpoint(q, ep).messages = q.messages
         /\ WithoutTools(WithEndpoint(q, ep)) \in Request
         /\ WithoutTools(WithEndpoint(q, ep)).messages = q.messages
         /\ WithoutTools(WithEndpoint(q, ep)).tools = "absent"
         /\ WithoutTools(WithEndpoint(q, ep)).choice = "absent"
BY DEF WithEndpoint, WithoutTools, Request, Endpoint, OptionalMax, ToolLists, ToolChoices

\* The judge's request is its own; every client takes it.
LEMMA JudgeAccepted ==
  ASSUME NEW ep, NEW instruction
  PROVE  Accepts(ep, JudgeRequest(ep, instruction))
<1> DEFINE q == JudgeRequest(ep, instruction)
<1>1. q.choice = "absent" /\ ToolsSent(q) = "absent"
  BY DEF JudgeRequest, ToolsSent
<1>2. \A i \in DOMAIN q.messages : Translatable(q.messages[i])
  BY DEF JudgeRequest, Says, Translatable
<1> QED
  BY <1>1, <1>2 DEF Accepts, AnthropicAccepts

\* A retry differs from the first attempt in its budget only.
LEMMA RetryAccepted ==
  ASSUME base \in Request, NEW ep \in Endpoint, Accepts(ep, MemberRequest(ep))
  PROVE  Accepts(ep, RetryRequest(ep))
<1>1. MemberRequest(ep) \in Request
  BY EndpointRequest DEF MemberRequest
<1>2. /\ RetryRequest(ep).messages = MemberRequest(ep).messages
      /\ RetryRequest(ep).tools = MemberRequest(ep).tools
      /\ RetryRequest(ep).choice = MemberRequest(ep).choice
  BY <1>1 DEF RetryRequest, Request
<1> QED
  BY <1>2 DEF Accepts, AnthropicAccepts, ToolsSent

\* The handoff adds turns that every client takes.
LEMMA HandoffRoles ==
  ASSUME NEW original \in Seq(Message),
         \A i \in DOMAIN original : Translatable(original[i])
  PROVE  \A i \in DOMAIN HandoffMessages(original) :
           Translatable(HandoffMessages(original)[i])
<1>1. CASE original = <<>>
  BY <1>1 DEF HandoffMessages, Handoff, Says, Translatable
<1>2. CASE original # <<>>
  <2> DEFINE n == Len(original)
             marked == [original[n] EXCEPT !.breakpoint = TRUE]
             kept == [original EXCEPT ![n] = marked]
             all == kept \o Handoff
  <2>1. n \in 1 .. Len(original) /\ original[n] \in Message
    BY <1>2, EmptySeq, ElementOfSeq
  <2>2. marked \in Message /\ marked.role = original[n].role
               /\ marked.calls = original[n].calls
    BY <2>1 DEF Message
  <2>3. kept \in Seq(Message) /\ Len(kept) = n
    BY <2>1, <2>2, ExceptSeq
  <2>4. \A i \in 1 .. n : Translatable(kept[i])
    BY <2>1, <2>2 DEF Translatable
  <2>5. Handoff \in Seq(Message) /\ Len(Handoff) = 2
    BY WordsAssumption DEF Handoff, Says, Message, Roles
  <2>6. \A i \in 1 .. 2 : Translatable(Handoff[i])
    BY DEF Handoff, Says, Translatable
  <2>7. HandoffMessages(original) = all
    BY <1>2 DEF HandoffMessages
  <2> HIDE DEF marked, kept
  <2>8. /\ DOMAIN all = 1 .. n + 2
        /\ \A i \in 1 .. n + 2 :
             all[i] = IF i <= n THEN kept[i] ELSE Handoff[i - n]
    <3>1. all \in Seq(Message) /\ Len(all) = Len(kept) + Len(Handoff)
      BY <2>3, <2>5, ConcatProperties, Zenon
    <3>2. \A i \in 1 .. Len(kept) + Len(Handoff) :
            all[i] = IF i <= Len(kept) THEN kept[i] ELSE Handoff[i - Len(kept)]
      BY <2>3, <2>5, ConcatProperties
    <3> QED
      BY <2>1, <2>3, <2>5, <3>1, <3>2
  <2>9. \A i \in 1 .. n + 2 : i <= n \/ i - n \in 1 .. 2
    BY <2>1
  <2> QED
    BY <2>1, <2>4, <2>6, <2>7, <2>8, <2>9
<1> QED
  BY <1>1, <1>2

\* The final request goes where the speculative one went.
LEMMA FinalAccepted ==
  ASSUME base \in Request, setup.primary \in Endpoint,
         Accepts(setup.primary, WithEndpoint(base, setup.primary))
  PROVE  Accepts(setup.primary, FinalRequest)
<1> DEFINE q == WithoutTools(WithEndpoint(base, setup.primary))
<1>1. q \in Request /\ q.tools = "absent" /\ q.choice = "absent"
  BY EndpointRequest
<1>2. /\ FinalRequest.tools = "absent" /\ FinalRequest.choice = "absent"
      /\ FinalRequest.messages = HandoffMessages(base.messages)
  BY <1>1 DEF FinalRequest, Request
<1>3. CASE setup.primary.api = "openai"
  BY <1>3 DEF Accepts
<1>4. CASE setup.primary.api # "openai"
  <2>1. \A i \in DOMAIN base.messages : Translatable(base.messages[i])
    BY <1>4, EndpointRequest DEF Accepts, AnthropicAccepts
  <2>2. base.messages \in Seq(Message)
    BY DEF Request
  <2> QED
    BY <1>2, <2>1, <2>2, HandoffRoles DEF Accepts, AnthropicAccepts, ToolsSent
<1> QED
  BY <1>3, <1>4

\* What the constants allow.
LEMMA Given ==
  ASSUME TurnInv
  PROVE  /\ base \in Request
         /\ setup.primary \in Endpoint
         /\ DOMAIN member = DOMAIN setup.panel
         /\ \A m \in DOMAIN setup.panel : setup.panel[m] \in Endpoint
BY RequestsAssumption, SetupsAssumption DEF TurnInv

\* A call that is accepted, or may be refused, keeps NoLateRefusal.
LEMMA CallKeeps ==
  ASSUME NoLateRefusal, NEW who, NEW ep, NEW q, Call(who, ep, q),
         Accepts(ep, q) \/ who \in {"speculative", "panel"}
  PROVE  NoLateRefusal'
<1>1. \A c \in sent' :
        c \in sent \/ (c.who = who /\ c.refused = ~Accepts(ep, q))
  BY DEF Call
<1> QED
  BY <1>1 DEF NoLateRefusal

\* A step that leaves request, configuration and members alone.
LEMMA PhaseStep ==
  ASSUME TurnInv, UNCHANGED <<base, setup, member>>, NoLateRefusal',
         phase' = "ended" \/ phase' = phase
         \/ (phase \in {"panel", "judging"} /\ phase' \in {"judging", "judged"})
  PROVE  TurnInv'
<1>1. phase' \in {"start", "panel", "judging", "judged", "ended"}
  BY DEF TurnInv
<1>2. phase' \in {"panel", "judging", "judged"} =>
        Accepts(setup.primary, WithEndpoint(base, setup.primary))'
  BY DEF TurnInv
<1>3. \A m \in DOMAIN member' :
        member'[m] = "called" =>
          Accepts(setup.panel[m], MemberRequest(setup.panel[m]))'
  BY DEF TurnInv, MemberRequest
<1> QED
  BY <1>1, <1>2, <1>3 DEF TurnInv

\* Every step keeps the invariant.
LEMMA Step ==
  ASSUME TurnInv, [Next]_vars
  PROVE  TurnInv'
<1>1. CASE Speculate
  <2>1. NoLateRefusal'
    BY <1>1, CallKeeps DEF TurnInv, Speculate
  <2>2. /\ phase' \in {"panel", "ended"} /\ UNCHANGED <<base, setup, member>>
        /\ phase' = "panel" =>
             Accepts(setup.primary, WithEndpoint(base, setup.primary))
    BY <1>1 DEF Speculate
  <2>3. phase' \in {"panel", "judging", "judged"} =>
          Accepts(setup.primary, WithEndpoint(base, setup.primary))'
    BY <2>2
  <2>4. \A m \in DOMAIN member : member[m] = "called" =>
          Accepts(setup.panel[m], MemberRequest(setup.panel[m]))'
    BY <2>2 DEF TurnInv, MemberRequest
  <2> QED
    BY <2>1, <2>2, <2>3, <2>4 DEF TurnInv
<1>2. ASSUME NEW m \in DOMAIN member, CallMember(m) PROVE TurnInv'
  <2> DEFINE ep == setup.panel[m]
  <2>1. Call("panel", ep, MemberRequest(ep)) /\ UNCHANGED <<base, setup, phase>>
    BY <1>2 DEF CallMember
  <2>2. NoLateRefusal'
    BY <2>1, CallKeeps DEF TurnInv
  <2>3. /\ member' \in [DOMAIN setup.panel -> {"waiting", "called", "over"}]
        /\ \A k \in DOMAIN member' : member'[k] = "called" =>
             Accepts(setup.panel[k], MemberRequest(setup.panel[k]))
    BY <1>2 DEF TurnInv, CallMember
  <2> QED
    BY <2>1, <2>2, <2>3 DEF TurnInv, MemberRequest
<1>3. ASSUME NEW m \in DOMAIN member, MemberEnds(m) \/ RetryMember(m) PROVE TurnInv'
  <2> DEFINE ep == setup.panel[m]
  <2>1. UNCHANGED <<base, setup, phase>> /\ member[m] = "called"
    BY <1>3 DEF MemberEnds, RetryMember
  <2>2. NoLateRefusal'
    <3>1. CASE MemberEnds(m)
      BY <3>1 DEF TurnInv, MemberEnds, NoLateRefusal
    <3>2. CASE RetryMember(m)
      <4>1. Accepts(ep, RetryRequest(ep))
        <5>1. base \in Request /\ ep \in Endpoint
          BY Given
        <5>2. Accepts(ep, MemberRequest(ep))
          BY <2>1 DEF TurnInv
        <5> QED
          BY <5>1, <5>2, RetryAccepted
      <4>2. Call("retry", ep, RetryRequest(ep))
        BY <3>2 DEF RetryMember
      <4> QED
        BY <4>1, <4>2, CallKeeps DEF TurnInv
    <3> QED
      BY <1>3, <3>1, <3>2
  <2>3. /\ member' \in [DOMAIN setup.panel -> {"waiting", "called", "over"}]
        /\ \A k \in DOMAIN member' : member'[k] = "called" =>
             Accepts(setup.panel[k], MemberRequest(setup.panel[k]))
    BY <1>3 DEF TurnInv, MemberEnds, RetryMember
  <2> QED
    BY <2>1, <2>2, <2>3 DEF TurnInv, MemberRequest
<1>4. CASE Degrade \/ Judge \/ RetryJudge
  <2>1. /\ UNCHANGED <<base, setup, member>>
        /\ phase \in {"panel", "judging"} /\ phase' \in {"judging", "judged", "ended"}
    BY <1>4 DEF Degrade, Judge, RetryJudge, PanelOver
  <2>2. NoLateRefusal'
    <3>1. CASE Degrade
      BY <3>1 DEF TurnInv, Degrade, NoLateRefusal
    <3>2. CASE Judge
      BY <3>2, JudgeAccepted, CallKeeps DEF TurnInv, Judge
    <3>3. CASE RetryJudge
      BY <3>3, JudgeAccepted, CallKeeps DEF TurnInv, RetryJudge
    <3> QED
      BY <1>4, <3>1, <3>2, <3>3
  <2> QED
    BY <2>1, <2>2, PhaseStep
<1>5. CASE Final
  <2>1. UNCHANGED <<base, setup, member>> /\ phase = "judged" /\ phase' = "ended"
    BY <1>5 DEF Final
  <2>2. Accepts(setup.primary, FinalRequest)
    BY <2>1, Given, FinalAccepted DEF TurnInv
  <2>3. NoLateRefusal'
    BY <1>5, <2>2, CallKeeps DEF TurnInv, Final
  <2> QED
    BY <2>1, <2>3, PhaseStep
<1>6. CASE UNCHANGED vars
  <2>1. UNCHANGED <<base, setup, member>> /\ phase' = phase /\ NoLateRefusal'
    BY <1>6 DEF TurnInv, vars, NoLateRefusal
  <2> QED
    BY <2>1, PhaseStep
<1> QED
  BY <1>1, <1>2, <1>3, <1>4, <1>5, <1>6 DEF Next, Ended

-----------------------------------------------------------------------------
(* What splitSystem makes of a conversation.                                *)

\* A set of naturals has a least element: the finite sets are well-founded.
LEMMA LeastNumber ==
  ASSUME NEW T \in SUBSET Nat, T # {}
  PROVE  \E x \in T : \A y \in T : x <= y
<1> DEFINE R == StrictSubsetOrdering(Nat)
           S == FiniteSubsetsOf(Nat)
           C == {0 .. n : n \in T}
<1>1. IsWellFoundedOn(R, S)
  BY FS_StrictSubsetOrderingWellFounded
<1>2. C \subseteq S /\ C # {}
  <2>1. \A n \in T : 0 .. n \in SUBSET Nat /\ IsFiniteSet(0 .. n)
    BY FS_Interval
  <2>2. \A n \in T : 0 .. n \in S
    BY <2>1 DEF FiniteSubsetsOf
  <2> HIDE DEF S
  <2> QED
    BY <2>2
<1>3. \E X \in C : \A Y \in C : ~(<<Y, X>> \in R)
  <2> HIDE DEF R, S, C
  <2> QED
    BY <1>1, <1>2, WFMin
<1>4. PICK x \in T : \A y \in T : ~(<<0 .. y, 0 .. x>> \in R)
  BY <1>3
<1>5. ASSUME NEW y \in T, ~(x <= y) PROVE FALSE
  <2>1. 0 .. y \subseteq 0 .. x /\ x \in 0 .. x /\ x \notin 0 .. y
    BY <1>5
  <2>2. <<0 .. y, 0 .. x>> \in R
    BY <2>1 DEF StrictSubsetOrdering
  <2> QED
    BY <1>4, <2>2
<1> QED
  BY <1>5

\* What holds at 0, and at n + 1 when it holds at n, holds up to any bound: the
\* places where it holds are given as a set.
LEMMA UpTo ==
  ASSUME NEW N \in Nat, NEW H, 0 \in H, \A n \in 0 .. N - 1 : n \in H => n + 1 \in H
  PROVE  \A n \in 0 .. N : n \in H
<1> SUFFICES ASSUME NEW b \in 0 .. N, b \notin H PROVE FALSE
  OBVIOUS
<1> DEFINE T == {n \in 0 .. N : n \notin H}
<1>1. T \in SUBSET Nat /\ T # {}
  OBVIOUS
<1>2. PICK x \in T : \A y \in T : x <= y
  <2> HIDE DEF T
  <2> QED
    BY <1>1, LeastNumber
<1>3. x \in 0 .. N /\ x \notin H /\ x # 0
  OBVIOUS
<1>4. x - 1 \in 0 .. N - 1 /\ x - 1 \notin T /\ (x - 1) + 1 = x
  BY <1>2, <1>3
<1> QED
  BY <1>3, <1>4

\* The loop of splitSystem, message by message.
LEMMA SplitSteps ==
  ASSUME NEW messages \in Seq(Message)
  PROVE  /\ Split(messages)[0] = [system |-> <<>>, rest |-> <<>>]
         /\ \A n \in 1 .. Len(messages) :
              Split(messages)[n] = SplitNext(Split(messages)[n - 1], messages[n])
<1> DEFINE Start == [system |-> <<>>, rest |-> <<>>]
           N == Len(messages)
           Is(f, k) == f = [n \in 0 .. k |-> IF n = 0 THEN Start
                                             ELSE SplitNext(f[n - 1], messages[n])]
           H == {k \in 0 .. N : \E f : Is(f, k)}
<1>1. N \in Nat
  BY LenProperties
<1>2. 0 \in H
  <2>1. [n \in 0 .. 0 |-> Start] =
          [n \in 0 .. 0 |-> IF n = 0 THEN Start
                            ELSE SplitNext([m \in 0 .. 0 |-> Start][n - 1], messages[n])]
    <3>1. \A n \in 0 .. 0 : n = 0
      OBVIOUS
    <3> HIDE DEF Start
    <3> QED
      BY <3>1
  <2>2. Is([n \in 0 .. 0 |-> Start], 0)
    BY <2>1
  <2> HIDE DEF Is, N
  <2> QED
    BY <1>1, <2>2
<1>3. ASSUME NEW k \in 0 .. N - 1, k \in H PROVE k + 1 \in H
  <2>1. PICK f : Is(f, k)
    BY <1>3
  <2> DEFINE g == [n \in 0 .. k + 1 |-> IF n <= k THEN f[n]
                                        ELSE SplitNext(f[k], messages[k + 1])]
             t == [n \in 0 .. k + 1 |-> IF n = 0 THEN Start
                                        ELSE SplitNext(g[n - 1], messages[n])]
  <2>2. ASSUME NEW n \in 0 .. k + 1 PROVE g[n] = t[n]
    <3>1. CASE n = 0
      <4>1. g[0] = f[0] /\ f[0] = Start
        BY <1>1, <2>1
      <4> QED
        BY <3>1, <4>1
    <3>2. CASE n \in 1 .. k
      <4>1. n - 1 \in 0 .. k /\ n - 1 <= k /\ n \in 0 .. k /\ n <= k /\ n # 0
        BY <1>1, <3>2
      <4>2. g[n] = f[n] /\ g[n - 1] = f[n - 1]
        BY <4>1
      <4>3. f[n] = SplitNext(f[n - 1], messages[n])
        <5> HIDE DEF Start
        <5> QED
          BY <2>1, <4>1
      <4> HIDE DEF g
      <4> QED
        BY <4>1, <4>2, <4>3
    <3>3. CASE n = k + 1
      <4>1. g[k] = f[k] /\ g[k + 1] = SplitNext(f[k], messages[k + 1]) /\ k + 1 # 0
            /\ (k + 1) - 1 = k
        BY <1>1
      <4> HIDE DEF g
      <4> QED
        BY <3>3, <4>1
    <3> QED
      BY <1>1, <3>1, <3>2, <3>3
  <2>3. g = t
    <3>1. DOMAIN g = 0 .. k + 1 /\ DOMAIN t = 0 .. k + 1
      OBVIOUS
    <3>2. g = [n \in 0 .. k + 1 |-> g[n]] /\ t = [n \in 0 .. k + 1 |-> t[n]]
      OBVIOUS
    <3> HIDE DEF g, t
    <3> QED
      BY <2>2, <3>2
  <2>4. Is(g, k + 1)
    <3> HIDE DEF g
    <3> QED
      BY <2>3
  <2>5. k + 1 \in 0 .. N
    BY <1>1
  <2> HIDE DEF Is, g, N
  <2> QED
    BY <2>4, <2>5
<1>4. \E f : Is(f, N)
  <2> HIDE DEF H, Is, N
  <2>1. \A n \in 0 .. N - 1 : n \in H => n + 1 \in H
    BY <1>3
  <2>2. \A n \in 0 .. N : n \in H
    BY <1>1, <1>2, <2>1, UpTo
  <2>3. N \in H
    BY <1>1, <2>2
  <2> QED
    BY <2>3 DEF H
<1>5. Split(messages) = CHOOSE f : Is(f, N)
  BY DEF Split
<1>6. Is(Split(messages), N)
  <2> HIDE DEF Is, N
  <2> QED
    BY <1>4, <1>5
<1>7. \A n \in 1 .. N : n \in 0 .. N /\ n # 0
  BY <1>1
<1>8. 0 \in 0 .. N
  BY <1>1
<1> DEFINE s == Split(messages)
<1> HIDE DEF s
<1>9. Is(s, N)
  BY <1>6 DEF s
<1> HIDE DEF Start, N
<1> QED
  BY <1>7, <1>8, <1>9 DEF s, Start, N

\* A part of the loop: its two lists, after some of the messages.
Parts == [system : Seq(Words), rest : Seq(Message)]

\* One message adds itself to the one list or its text to the other.
LEMMA OneMessage ==
  ASSUME NEW parts \in Parts, NEW m \in Message
  PROVE  /\ SplitNext(parts, m) \in Parts
         /\ IsSystem(m) => SplitNext(parts, m).rest = parts.rest
         /\ ~IsSystem(m) => /\ SplitNext(parts, m).rest = Append(parts.rest, m)
                            /\ SplitNext(parts, m).system = parts.system
<1>1. CASE ~IsSystem(m)
  <2>1. Append(parts.rest, m) \in Seq(Message)
    BY AppendProperties DEF Parts
  <2>2. SplitNext(parts, m) = [parts EXCEPT !.rest = Append(parts.rest, m)]
    BY <1>1 DEF SplitNext
  <2> QED
    BY <1>1, <2>1, <2>2 DEF Parts
<1>2. CASE IsSystem(m)
  <2>1. m.text \in Words
    BY DEF Message
  <2>2. Append(parts.system, m.text) \in Seq(Words)
    BY <2>1, AppendProperties DEF Parts
  <2>3. SplitNext(parts, m) \in {parts, [parts EXCEPT !.system = Append(parts.system, m.text)]}
    BY <1>2 DEF SplitNext
  <2> QED
    BY <1>2, <2>2, <2>3 DEF Parts
<1> QED
  BY <1>1, <1>2

\* The list of turns holds messages that are not the system's, one for each of
\* them seen so far.
LEMMA SplitRest ==
  ASSUME NEW messages \in Seq(Message), NEW n \in 0 .. Len(messages)
  PROVE  /\ Split(messages)[n] \in Parts
         /\ \A i \in DOMAIN Split(messages)[n].rest :
              /\ ~IsSystem(Split(messages)[n].rest[i])
              /\ \E j \in 1 .. n : Split(messages)[n].rest[i] = messages[j]
         /\ Len(Split(messages)[n].rest) =
              Cardinality({j \in 1 .. n : ~IsSystem(messages[j])})
<1> DEFINE N == Len(messages)
           s == Split(messages)
           Others(k) == {j \in 1 .. k : ~IsSystem(messages[j])}
           Good(k) ==
             /\ s[k] \in Parts
             /\ \A i \in DOMAIN s[k].rest :
                  /\ ~IsSystem(s[k].rest[i])
                  /\ \E j \in 1 .. k : s[k].rest[i] = messages[j]
             /\ IsFiniteSet(Others(k)) /\ Len(s[k].rest) = Cardinality(Others(k))
           H == {k \in 0 .. N : Good(k)}
<1>1. N \in Nat
  BY LenProperties
<1>2. 0 \in H
  <2>1. s[0] = [system |-> <<>>, rest |-> <<>>]
    BY SplitSteps
  <2>2. Others(0) = {}
    OBVIOUS
  <2>3. IsFiniteSet(Others(0)) /\ Cardinality(Others(0)) = 0
    BY <2>2, FS_EmptySet
  <2>4. s[0] \in Parts /\ s[0].rest = <<>>
    BY <2>1 DEF Parts
  <2>5. Len(s[0].rest) = 0 /\ DOMAIN s[0].rest = {}
    BY <2>4
  <2> HIDE DEF s, Others
  <2>6. Good(0)
    BY <2>3, <2>4, <2>5
  <2> HIDE DEF Good, N
  <2> QED
    BY <1>1, <2>6
<1>3. ASSUME NEW k \in 0 .. N - 1, k \in H PROVE k + 1 \in H
  <2> DEFINE m == messages[k + 1]
  <2>1. k + 1 \in 1 .. N /\ k \in 0 .. N /\ (k + 1) - 1 = k
    BY <1>1
  <2>2. m \in Message
    BY <2>1, ElementOfSeq
  <2>3. s[k + 1] = SplitNext(s[k], m)
    BY <2>1, SplitSteps
  <2>4. Good(k)
    BY <1>3
  <2>5. /\ s[k + 1] \in Parts
        /\ IsSystem(m) => s[k + 1].rest = s[k].rest
        /\ ~IsSystem(m) => s[k + 1].rest = Append(s[k].rest, m)
    <3>1. s[k] \in Parts
      BY <2>4
    <3> HIDE DEF m, s
    <3>2. PICK parts \in Parts : parts = s[k]
      BY <3>1
    <3>3. PICK one \in Message : one = m
      BY <2>2
    <3>4. /\ SplitNext(parts, one) \in Parts
          /\ IsSystem(one) => SplitNext(parts, one).rest = parts.rest
          /\ ~IsSystem(one) => SplitNext(parts, one).rest = Append(parts.rest, one)
      BY OneMessage
    <3> QED
      BY <2>3, <3>2, <3>3, <3>4
  <2>6. s[k].rest \in Seq(Message)
    BY <2>4 DEF Parts
  <2>7. CASE IsSystem(m)
    <3>1. Others(k + 1) = Others(k)
      <4>1. \A j \in 1 .. k + 1 : j \in 1 .. k \/ j = k + 1
        BY <1>1
      <4>2. \A j \in 1 .. k : j \in 1 .. k + 1
        BY <1>1
      <4> QED
        BY <2>7, <4>1, <4>2
    <3>2. \A j \in 1 .. k : j \in 1 .. k + 1
      BY <1>1
    <3> HIDE DEF Others, s
    <3>3. Good(k + 1)
      BY <2>4, <2>5, <2>7, <3>1, <3>2
    <3> HIDE DEF Good, N
    <3> QED
      BY <1>1, <2>1, <3>3
  <2>8. CASE ~IsSystem(m)
    <3>1. Others(k + 1) = Others(k) \cup {k + 1} /\ k + 1 \notin Others(k)
      <4>1. \A j \in 1 .. k + 1 : j \in 1 .. k \/ j = k + 1
        BY <1>1
      <4>2. (\A j \in 1 .. k : j \in 1 .. k + 1) /\ k + 1 \in 1 .. k + 1 /\ k + 1 \notin 1 .. k
        BY <1>1
      <4> QED
        BY <2>8, <4>1, <4>2
    <3>2. IsFiniteSet(Others(k)) /\ Len(s[k].rest) = Cardinality(Others(k))
      BY <2>4
    <3> HIDE DEF Others
    <3>3. /\ IsFiniteSet(Others(k + 1))
          /\ Cardinality(Others(k + 1)) = Cardinality(Others(k)) + 1
      <4>1. /\ IsFiniteSet(Others(k) \cup {k + 1})
            /\ \/ k + 1 \in Others(k)
               \/ Cardinality(Others(k) \cup {k + 1}) = Cardinality(Others(k)) + 1
        <5>1. IsFiniteSet(Others(k))
          BY <3>2
        <5> QED
          BY ONLY <5>1, FS_AddElement, Zenon
      <4> QED
        BY ONLY <3>1, <4>1, Zenon
    <3>4. /\ Len(s[k + 1].rest) = Len(s[k].rest) + 1
          /\ \A i \in 1 .. Len(s[k].rest) : s[k + 1].rest[i] = s[k].rest[i]
          /\ s[k + 1].rest[Len(s[k].rest) + 1] = m
          /\ DOMAIN s[k + 1].rest = 1 .. Len(s[k].rest) + 1
      <4> HIDE DEF s, m
      <4>1. PICK r \in Seq(Message) : r = s[k].rest
        BY <2>6
      <4>2. /\ Append(r, m) \in Seq(Message) /\ Len(Append(r, m)) = Len(r) + 1
            /\ \A i \in 1 .. Len(r) : Append(r, m)[i] = r[i]
            /\ Append(r, m)[Len(r) + 1] = m
        BY <2>2, AppendProperties
      <4>3. DOMAIN Append(r, m) = 1 .. Len(r) + 1
        BY <4>2, LenProperties
      <4>4. s[k + 1].rest = Append(r, m)
        BY <2>5, <2>8, <4>1
      <4> QED
        BY <4>1, <4>2, <4>3, <4>4
    <3>5. \A i \in DOMAIN s[k + 1].rest : i \in 1 .. Len(s[k].rest) \/ i = Len(s[k].rest) + 1
      BY <2>6, <3>4, LenProperties
    <3>6. DOMAIN s[k].rest = 1 .. Len(s[k].rest)
      BY <2>6, LenProperties
    <3>7. \A j \in 1 .. k : j \in 1 .. k + 1
      BY <1>1
    <3>8. k + 1 \in 1 .. k + 1
      BY <1>1
    <3>9. \A i \in DOMAIN s[k + 1].rest :
              /\ ~IsSystem(s[k + 1].rest[i])
              /\ \E j \in 1 .. k + 1 : s[k + 1].rest[i] = messages[j]
      <4> SUFFICES ASSUME NEW i \in DOMAIN s[k + 1].rest
                   PROVE  /\ ~IsSystem(s[k + 1].rest[i])
                          /\ \E j \in 1 .. k + 1 : s[k + 1].rest[i] = messages[j]
        OBVIOUS
      <4>1. CASE i \in 1 .. Len(s[k].rest)
        <5>1. /\ ~IsSystem(s[k].rest[i])
              /\ \E j \in 1 .. k : s[k].rest[i] = messages[j]
          BY <2>4, <3>6, <4>1
        <5> HIDE DEF s
        <5> QED
          BY <3>4, <3>7, <4>1, <5>1
      <4>2. CASE i = Len(s[k].rest) + 1
        <5> HIDE DEF s
        <5> QED
          BY <2>8, <3>4, <3>8, <4>2
      <4> QED
        BY <3>5, <4>1, <4>2
    <3> HIDE DEF s
    <3>10. Good(k + 1)
      BY <2>5, <3>2, <3>3, <3>4, <3>9
    <3> HIDE DEF Good, N
    <3> QED
      BY <1>1, <2>1, <3>10
  <2> QED
    BY <2>7, <2>8
<1>4. \A k \in 0 .. N - 1 : k \in H => k + 1 \in H
  BY <1>3
<1>5. \A k \in 0 .. N : k \in H
  <2> HIDE DEF H, N
  <2> QED
    BY <1>1, <1>2, <1>4, UpTo
<1>6. Good(n)
  BY <1>5
<1> QED
  BY <1>6

\* What comes after the first messages does not change what they are split into.
LEMMA SplitAgrees ==
  ASSUME NEW messages \in Seq(Message), NEW others \in Seq(Message), NEW L \in Nat,
         L <= Len(messages), L <= Len(others),
         \A i \in 1 .. L : messages[i] = others[i]
  PROVE  Split(messages)[L] = Split(others)[L]
<1> DEFINE H == {k \in 0 .. L : Split(messages)[k] = Split(others)[k]}
<1>1. 0 \in H
  BY SplitSteps
<1>2. \A k \in 0 .. L - 1 : k \in H => k + 1 \in H
  <2> SUFFICES ASSUME NEW k \in 0 .. L - 1, k \in H PROVE k + 1 \in H
    OBVIOUS
  <2>1. /\ k + 1 \in 1 .. L /\ (k + 1) - 1 = k /\ k + 1 \in 0 .. L
        /\ k + 1 \in 1 .. Len(messages) /\ k + 1 \in 1 .. Len(others)
    BY LenProperties
  <2>2. /\ Split(messages)[k + 1] = SplitNext(Split(messages)[k], messages[k + 1])
        /\ Split(others)[k + 1] = SplitNext(Split(others)[k], others[k + 1])
    BY <2>1, SplitSteps
  <2> QED
    BY <2>1, <2>2
<1>3. \A k \in 0 .. L : k \in H
  <2> HIDE DEF H
  <2> QED
    BY <1>1, <1>2, UpTo
<1> QED
  BY <1>3

-----------------------------------------------------------------------------
(* What Anthropic's client makes of a conversation.                         *)

PlainBlock ==
  [type : {"text", "tool_use", "tool_result"}, what : Words, marked : {FALSE}]
PlainTurn == [role : {"user", "assistant"}, blocks : Seq(PlainBlock)]

LEMMA NonEmptyBlocks ==
  ASSUME NEW type \in {"text", "tool_use"}, NEW what \in Words
  PROVE  /\ NonEmpty(type, what) \in Seq(PlainBlock)
         /\ what # "none" => Len(NonEmpty(type, what)) = 1
<1>1. Block(type, what) \in PlainBlock
  BY DEF Block, PlainBlock
<1>2. <<Block(type, what)>> \in Seq(PlainBlock) /\ Len(<<Block(type, what)>>) = 1
  BY <1>1
<1>3. <<>> \in Seq(PlainBlock)
  BY EmptySeq
<1> QED
  BY <1>2, <1>3 DEF NonEmpty

\* A message that is not the system's is one turn, which has a block unless an
\* assistant says and calls nothing.
LEMMA TurnBlocks ==
  ASSUME NEW m \in Message, Translatable(m), ~IsSystem(m)
  PROVE  /\ AnthropicTurn(m) \in PlainTurn
         /\ (m.role = "assistant" => m.text # "none" \/ m.calls # "none") =>
              AnthropicTurn(m).blocks # <<>>
<1>1. m.role \in {"user", "assistant", "tool"} /\ m.text \in Words /\ m.calls \in Words
  BY DEF Translatable, IsSystem, Message, Roles
<1>2. CASE m.role = "assistant"
  <2> DEFINE said == NonEmpty("text", m.text)
             called == NonEmpty("tool_use", m.calls)
  <2>1. said \in Seq(PlainBlock) /\ called \in Seq(PlainBlock)
    BY <1>1, NonEmptyBlocks
  <2>2. /\ m.text # "none" => Len(said) = 1
        /\ m.calls # "none" => Len(called) = 1
    BY <1>1, NonEmptyBlocks
  <2>3. AnthropicTurn(m) = [role |-> "assistant", blocks |-> said \o called]
    BY <1>2 DEF AnthropicTurn
  <2> HIDE DEF said, called
  <2>4. said \o called \in Seq(PlainBlock)
        /\ Len(said \o called) = Len(said) + Len(called)
        /\ Len(said) \in Nat /\ Len(called) \in Nat
    BY <2>1, ConcatProperties, LenProperties
  <2>5. m.text # "none" \/ m.calls # "none" => said \o called # <<>>
    <3>1. m.text # "none" \/ m.calls # "none" => Len(said \o called) >= 1
      BY <2>2, <2>4
    <3>2. Len(<<>>) = 0
      OBVIOUS
    <3> QED
      BY <3>1, <3>2
  <2> QED
    BY <1>2, <2>3, <2>4, <2>5 DEF PlainTurn
<1>3. CASE m.role = "user"
  <2>1. AnthropicTurn(m) = [role |-> "user", blocks |-> <<Block("text", m.text)>>]
    BY <1>3 DEF AnthropicTurn
  <2>2. Block("text", m.text) \in PlainBlock
    BY <1>1 DEF Block, PlainBlock
  <2> QED
    BY <2>1, <2>2 DEF PlainTurn
<1>4. CASE m.role = "tool"
  <2>1. AnthropicTurn(m) = [role |-> "user", blocks |-> <<Block("tool_result", m.text)>>]
    BY <1>4 DEF AnthropicTurn
  <2>2. Block("tool_result", m.text) \in PlainBlock
    BY <1>1 DEF Block, PlainBlock
  <2> QED
    BY <2>1, <2>2 DEF PlainTurn
<1> QED
  BY <1>1, <1>2, <1>3, <1>4

\* The marker that markCachePrefix puts on a turn.
Marked(turn) == [turn EXCEPT !.blocks[Len(turn.blocks)].marked = TRUE]

\* Of the turns, only the one at the breakpoint changes, and it alone is marked.
LEMMA OneMarked ==
  ASSUME NEW n \in Nat, NEW turns \in [1 .. n -> PlainTurn], NEW at \in 1 .. n,
         turns[at].blocks # <<>>,
         NEW body, body.turns = MarkCachePrefix(turns, at)
  PROVE  /\ DOMAIN body.turns = 1 .. n
         /\ MarkedAt(body) = {at}
         /\ \A i \in 1 .. n :
              body.turns[i] = IF i = at THEN Marked(turns[at]) ELSE turns[i]
<1> DEFINE blocks == turns[at].blocks
           last == Len(blocks)
           marked == [blocks[last] EXCEPT !.marked = TRUE]
           turn == [turns[at] EXCEPT !.blocks = [blocks EXCEPT ![last] = marked]]
<1>1. turns[at] \in PlainTurn /\ at # 0
  OBVIOUS
<1>2. blocks \in Seq(PlainBlock) /\ last \in Nat /\ last \in 1 .. last
  <2>1. blocks \in Seq(PlainBlock)
    BY <1>1 DEF PlainTurn
  <2>2. last \in Nat \ {0}
    BY <2>1, EmptySeq
  <2> QED
    BY <2>1, <2>2
<1>3. DOMAIN blocks = 1 .. last /\ blocks[last] \in PlainBlock
  BY <1>2, LenProperties, ElementOfSeq
<1>4. Marked(turns[at]) = turn
  BY DEF Marked
<1>5. body.turns = [turns EXCEPT ![at] = turn]
  BY <1>1 DEF MarkCachePrefix
<1>6. turn.blocks = [blocks EXCEPT ![last] = marked] /\ marked.marked = TRUE
  BY <1>1, <1>3 DEF PlainTurn, PlainBlock
<1>7. last \in DOMAIN turn.blocks /\ turn.blocks[last].marked = TRUE
  <2> HIDE DEF turn, marked, blocks, last
  <2> QED
    BY <1>2, <1>3, <1>6
<1>8. ASSUME NEW i \in 1 .. n, NEW j \in DOMAIN turns[i].blocks
      PROVE  turns[i].blocks[j].marked = FALSE
  <2>1. turns[i].blocks \in Seq(PlainBlock)
    BY DEF PlainTurn
  <2>2. turns[i].blocks[j] \in PlainBlock
    BY <2>1, LenProperties, ElementOfSeq
  <2> QED
    BY <2>2 DEF PlainBlock
<1> HIDE DEF turn
<1>9. /\ DOMAIN body.turns = 1 .. n
      /\ \A i \in 1 .. n : body.turns[i] = IF i = at THEN turn ELSE turns[i]
  BY <1>5
<1>10. MarkedAt(body) = {at}
  <2>1. at \in MarkedAt(body)
    BY <1>7, <1>9 DEF MarkedAt
  <2>2. ASSUME NEW i \in MarkedAt(body), i # at PROVE FALSE
    BY <1>8, <1>9, <2>2 DEF MarkedAt
  <2> QED
    BY <2>1, <2>2
<1> QED
  BY <1>4, <1>9, <1>10

\* Where the breakpoint is: at the last turn, unless a message carries it.
LEMMA Breakpoint ==
  ASSUME NEW rest \in Seq(Message), NEW at \in 1 .. Len(rest),
         \A i \in 1 .. Len(rest) : rest[i].breakpoint => i = at,
         rest[at].breakpoint \/ at = Len(rest)
  PROVE  CacheBreakpointIndex(rest) = at
<1>1. DOMAIN rest = 1 .. Len(rest) /\ Len(rest) \in Nat
  BY LenProperties
<1>2. \A x : Max({x}) = (CHOOSE y \in {x} : \A z \in {x} : y >= z)
  BY DEF Max
<1>3. Max({at}) = at
  <2>1. at >= at
    OBVIOUS
  <2> QED
    BY <1>2, <2>1
<1>4. {i \in DOMAIN rest : rest[i].breakpoint} \cup
        (IF \E i \in DOMAIN rest : rest[i].breakpoint THEN {} ELSE {Len(rest)}) = {at}
  <2>1. CASE rest[at].breakpoint
    <3>1. {i \in DOMAIN rest : rest[i].breakpoint} = {at}
      BY <1>1, <2>1
    <3> QED
      BY <1>1, <2>1, <3>1
  <2>2. CASE ~rest[at].breakpoint
    <3>1. at = Len(rest) /\ \A i \in DOMAIN rest : ~rest[i].breakpoint
      BY <1>1, <2>2
    <3>2. {i \in DOMAIN rest : rest[i].breakpoint} = {}
      BY <3>1
    <3> QED
      BY <3>1, <3>2
  <2> QED
    BY <2>1, <2>2
<1> QED
  BY <1>3, <1>4 DEF CacheBreakpointIndex

\* A conversation whose last message is a turn, and the split of the messages
\* before it.
CleanMessages(messages) ==
  /\ messages \in Seq(Message)
  /\ \A i \in DOMAIN messages : ~messages[i].breakpoint /\ Translatable(messages[i])
Before(messages) == Split(messages)[Len(messages) - 1]

\* The turn of the last message comes after those of the others.
LEMMA LastTurn ==
  ASSUME NEW messages, CleanMessages(messages), Markable(messages)
  PROVE  LET N == Len(messages)
             before == Before(messages)
             k == Len(before.rest) + 1
         IN  /\ N \in Nat \ {0} /\ messages[N] \in Message
             /\ ~IsSystem(messages[N]) /\ Translatable(messages[N])
             /\ before \in Parts /\ k \in Nat \ {0}
             /\ \A i \in 1 .. k - 1 :
                  /\ before.rest[i] \in Message /\ ~IsSystem(before.rest[i])
                  /\ Translatable(before.rest[i]) /\ ~before.rest[i].breakpoint
             /\ SplitSystem(messages).system = before.system
             /\ SplitSystem(messages).rest = Append(before.rest, messages[N])
             /\ AnthropicTurn(messages[N]) \in PlainTurn
             /\ AnthropicTurn(messages[N]).blocks # <<>>
<1> DEFINE N == Len(messages)
           before == Before(messages)
<1>1. messages \in Seq(Message) /\ messages # <<>>
  BY DEF CleanMessages, Markable
<1>2. N \in Nat \ {0} /\ DOMAIN messages = 1 .. N
  BY <1>1, EmptySeq, LenProperties
<1>3. N \in 1 .. N /\ N - 1 \in 0 .. N
  BY <1>2
<1>4. messages[N] \in Message /\ Translatable(messages[N])
  BY <1>1, <1>2, <1>3, ElementOfSeq DEF CleanMessages
<1>5. /\ ~IsSystem(messages[N])
      /\ messages[N].role = "assistant" =>
           messages[N].text # "none" \/ messages[N].calls # "none"
  BY DEF Markable, Last, IsSystem
<1>6. /\ AnthropicTurn(messages[N]) \in PlainTurn
      /\ AnthropicTurn(messages[N]).blocks # <<>>
  BY <1>4, <1>5, TurnBlocks
<1>7. /\ before \in Parts
      /\ \A i \in DOMAIN before.rest :
           /\ ~IsSystem(before.rest[i])
           /\ \E j \in 1 .. N - 1 : before.rest[i] = messages[j]
  BY <1>1, <1>3, SplitRest DEF Before
<1>8. before.rest \in Seq(Message)
  BY <1>7 DEF Parts
<1>9. Len(before.rest) \in Nat /\ DOMAIN before.rest = 1 .. Len(before.rest)
  BY <1>8, LenProperties
<1>10. \A j \in 1 .. N - 1 : /\ messages[j] \in Message
                             /\ Translatable(messages[j]) /\ ~messages[j].breakpoint
  <2> SUFFICES ASSUME NEW j \in 1 .. N - 1
               PROVE  /\ messages[j] \in Message
                      /\ Translatable(messages[j]) /\ ~messages[j].breakpoint
    OBVIOUS
  <2>1. j \in 1 .. N
    BY <1>2
  <2> QED
    BY <1>1, <1>2, <2>1, ElementOfSeq DEF CleanMessages
<1>11. SplitSystem(messages) = SplitNext(before, messages[N])
  BY <1>1, <1>3, SplitSteps DEF SplitSystem, Before
<1>12. /\ SplitSystem(messages).system = before.system
       /\ SplitSystem(messages).rest = Append(before.rest, messages[N])
  <2> HIDE DEF before, N
  <2> QED
    BY <1>4, <1>5, <1>7, <1>11, OneMessage
<1>13. \A i \in 1 .. (Len(before.rest) + 1) - 1 : i \in DOMAIN before.rest
  BY <1>9
<1>14. Len(before.rest) + 1 \in Nat \ {0}
  BY <1>9
<1> HIDE DEF before, N
<1>15. \A i \in 1 .. (Len(before.rest) + 1) - 1 :
         /\ before.rest[i] \in Message /\ ~IsSystem(before.rest[i])
         /\ Translatable(before.rest[i]) /\ ~before.rest[i].breakpoint
  BY <1>7, <1>10, <1>13
<1> QED
  BY <1>2, <1>4, <1>5, <1>6, <1>7, <1>12, <1>14, <1>15 DEF before, N

\* What the final call's messages are: the conversation, with the breakpoint at
\* its last message, and two more.
LEMMA HandoffPlaces ==
  ASSUME NEW messages \in Seq(Message), messages # <<>>
  PROVE  LET N == Len(messages)
             all == HandoffMessages(messages)
         IN  /\ N \in Nat \ {0} /\ all \in Seq(Message) /\ Len(all) = N + 2
             /\ \A i \in 1 .. N - 1 : all[i] = messages[i]
             /\ all[N] = [messages[N] EXCEPT !.breakpoint = TRUE]
             /\ all[N + 1] = Says("assistant", "analysis")
             /\ all[N + 2] = Says("user", "write")
<1> DEFINE N == Len(messages)
           all == HandoffMessages(messages)
           marked == [messages[N] EXCEPT !.breakpoint = TRUE]
           kept == [messages EXCEPT ![N] = marked]
<1>1. N \in Nat \ {0} /\ N \in 1 .. N /\ messages[N] \in Message
  <2>1. N \in Nat \ {0}
    BY EmptySeq
  <2>2. N \in 1 .. N
    BY <2>1
  <2> QED
    BY <2>1, <2>2, ElementOfSeq
<1>2. marked \in Message
  BY <1>1 DEF Message
<1>3. all = kept \o Handoff
  BY DEF HandoffMessages
<1>4. /\ kept \in Seq(Message) /\ Len(kept) = N
      /\ \A i \in 1 .. N : kept[i] = IF i = N THEN marked ELSE messages[i]
  <2> HIDE DEF marked
  <2> QED
    BY <1>1, <1>2, ExceptSeq
<1>5. Handoff \in Seq(Message) /\ Len(Handoff) = 2
  BY WordsAssumption DEF Handoff, Says, Message, Roles
<1>6. Handoff[1] = Says("assistant", "analysis") /\ Handoff[2] = Says("user", "write")
  BY DEF Handoff
<1> HIDE DEF all, kept
<1>7. /\ all \in Seq(Message) /\ Len(all) = N + 2
      /\ \A i \in 1 .. N + 2 : all[i] = IF i <= N THEN kept[i] ELSE Handoff[i - N]
  <2>1. /\ kept \o Handoff \in Seq(Message)
        /\ Len(kept \o Handoff) = Len(kept) + Len(Handoff)
        /\ \A i \in 1 .. Len(kept) + Len(Handoff) :
             (kept \o Handoff)[i] = IF i <= Len(kept) THEN kept[i] ELSE Handoff[i - Len(kept)]
    <3>1. PICK k \in Seq(Message) : k = kept
      BY <1>4
    <3>2. PICK h \in Seq(Message) : h = Handoff
      BY <1>5
    <3>3. /\ k \o h \in Seq(Message) /\ Len(k \o h) = Len(k) + Len(h)
          /\ \A i \in 1 .. Len(k) + Len(h) :
               (k \o h)[i] = IF i <= Len(k) THEN k[i] ELSE h[i - Len(k)]
      BY ConcatProperties
    <3> QED
      BY <3>1, <3>2, <3>3
  <2> QED
    BY <1>3, <1>4, <1>5, <2>1
<1>8. /\ N <= N /\ N + 1 \in 1 .. N + 2 /\ ~(N + 1 <= N) /\ (N + 1) - N = 1
      /\ N + 2 \in 1 .. N + 2 /\ ~(N + 2 <= N) /\ (N + 2) - N = 2
      /\ \A i \in 1 .. N - 1 : i \in 1 .. N /\ i <= N /\ i # N /\ i \in 1 .. N + 2
      /\ N \in 1 .. N + 2
  BY <1>1
<1> HIDE DEF marked, N
<1>9. all[N] = marked /\ \A i \in 1 .. N - 1 : all[i] = messages[i]
  BY <1>1, <1>4, <1>7, <1>8
<1>10. all[N + 1] = Handoff[1] /\ all[N + 2] = Handoff[2]
  BY <1>7, <1>8
<1> QED
  BY <1>1, <1>6, <1>7, <1>9, <1>10 DEF all, marked, N

\* Two messages, the assistant's and the user's, are two more turns.
LEMMA HandoffSplit ==
  ASSUME NEW messages, CleanMessages(messages), Markable(messages)
  PROVE  LET N == Len(messages)
             before == Before(messages)
             marked == [messages[N] EXCEPT !.breakpoint = TRUE]
             split == SplitSystem(HandoffMessages(messages))
         IN  /\ marked \in Message
             /\ split.system = before.system
             /\ split.rest = Append(Append(Append(before.rest, marked),
                                           Says("assistant", "analysis")),
                                    Says("user", "write"))
<1> DEFINE N == Len(messages)
           all == HandoffMessages(messages)
           before == Before(messages)
           marked == [messages[N] EXCEPT !.breakpoint = TRUE]
           one == Says("assistant", "analysis")
           two == Says("user", "write")
<1>1. messages \in Seq(Message) /\ messages # <<>>
  BY DEF CleanMessages, Markable
<1>2. /\ N \in Nat \ {0} /\ all \in Seq(Message) /\ Len(all) = N + 2
      /\ \A i \in 1 .. N - 1 : all[i] = messages[i]
      /\ all[N] = marked /\ all[N + 1] = one /\ all[N + 2] = two
  BY <1>1, HandoffPlaces
<1>3. messages[N] \in Message /\ ~IsSystem(messages[N]) /\ before \in Parts
  BY LastTurn
<1>4. marked \in Message /\ ~IsSystem(marked)
  BY <1>3 DEF Message, IsSystem
<1>5. one \in Message /\ ~IsSystem(one) /\ two \in Message /\ ~IsSystem(two)
  BY WordsAssumption DEF Says, Message, Roles, IsSystem
<1>6. before = Split(all)[N - 1]
  <2>1. N - 1 \in Nat /\ N - 1 <= Len(messages) /\ N - 1 <= Len(all)
    BY <1>2
  <2>2. Split(messages)[N - 1] = Split(all)[N - 1]
    <3> HIDE DEF all
    <3> QED
      BY <1>1, <1>2, <2>1, SplitAgrees
  <2> QED
    BY <2>2 DEF Before
<1> HIDE DEF all, before, marked, one, two, N
<1>7. /\ N \in 1 .. Len(all) /\ N + 1 \in 1 .. Len(all) /\ N + 2 \in 1 .. Len(all)
      /\ (N + 1) - 1 = N /\ (N + 2) - 1 = N + 1
  BY <1>2
<1>8. Split(all)[N] = SplitNext(before, marked)
  BY <1>2, <1>6, <1>7, SplitSteps
<1>9. Split(all)[N + 1] = SplitNext(Split(all)[N], one)
  BY <1>2, <1>7, SplitSteps
<1>10. Split(all)[N + 2] = SplitNext(Split(all)[N + 1], two)
  BY <1>2, <1>7, SplitSteps
<1>11. /\ Split(all)[N] \in Parts /\ Split(all)[N].system = before.system
       /\ Split(all)[N].rest = Append(before.rest, marked)
  BY <1>3, <1>4, <1>8, OneMessage
<1>12. /\ Split(all)[N + 1] \in Parts /\ Split(all)[N + 1].system = before.system
       /\ Split(all)[N + 1].rest = Append(Append(before.rest, marked), one)
  <2>1. PICK p \in Parts : p = Split(all)[N]
    BY <1>11
  <2>2. SplitNext(p, one) \in Parts /\ SplitNext(p, one).system = p.system
        /\ SplitNext(p, one).rest = Append(p.rest, one)
    BY <1>5, OneMessage
  <2> QED
    BY <1>9, <1>11, <2>1, <2>2
<1>13. /\ Split(all)[N + 2].system = before.system
       /\ Split(all)[N + 2].rest = Append(Append(Append(before.rest, marked), one), two)
  <2>1. PICK p \in Parts : p = Split(all)[N + 1]
    BY <1>12
  <2>2. SplitNext(p, two).system = p.system /\ SplitNext(p, two).rest = Append(p.rest, two)
    BY <1>5, OneMessage
  <2> QED
    BY <1>10, <1>12, <2>1, <2>2
<1>14. SplitSystem(all) = Split(all)[N + 2]
  BY <1>2 DEF SplitSystem
<1> QED
  BY <1>4, <1>13, <1>14 DEF N, all, before, marked, one, two

\* With the handoff or without it: the same turns up to the breakpoint.
LEMMA SharedRest ==
  ASSUME NEW messages, CleanMessages(messages), Markable(messages),
         NEW all \in {messages, HandoffMessages(messages)}
  PROVE  LET before == Before(messages)
             k == Len(before.rest) + 1
             rest == SplitSystem(all).rest
         IN  /\ SplitSystem(all).system = before.system
             /\ rest \in Seq(Message) /\ k \in 1 .. Len(rest)
             /\ \A i \in 1 .. k - 1 : rest[i] = before.rest[i]
             /\ AnthropicTurn(rest[k]) = AnthropicTurn(messages[Len(messages)])
             /\ \A i \in 1 .. Len(rest) : ~IsSystem(rest[i]) /\ Translatable(rest[i])
             /\ CacheBreakpointIndex(rest) = k
<1> DEFINE N == Len(messages)
           before == Before(messages)
           k == Len(before.rest) + 1
           m == messages[N]
           rest == SplitSystem(all).rest
<1>1. /\ m \in Message /\ ~IsSystem(m) /\ Translatable(m)
      /\ before \in Parts /\ k \in Nat \ {0}
      /\ \A i \in 1 .. k - 1 :
           /\ before.rest[i] \in Message /\ ~IsSystem(before.rest[i])
           /\ Translatable(before.rest[i]) /\ ~before.rest[i].breakpoint
  BY LastTurn
<1>2. PICK r \in Seq(Message) : r = before.rest /\ Len(r) = k - 1
  BY <1>1 DEF Parts
<1>3. CASE all = messages
  <2>1. SplitSystem(all).system = before.system /\ rest = Append(before.rest, m)
    BY <1>3, LastTurn
  <2>2. ~m.breakpoint
    <3>1. N \in Nat \ {0} /\ messages \in Seq(Message)
      BY LastTurn DEF CleanMessages
    <3>2. N \in DOMAIN messages
      BY <3>1, LenProperties
    <3> QED
      BY <3>2 DEF CleanMessages
  <2>3. /\ Append(r, m) \in Seq(Message) /\ Len(Append(r, m)) = Len(r) + 1
        /\ \A i \in 1 .. Len(r) : Append(r, m)[i] = r[i]
        /\ Append(r, m)[Len(r) + 1] = m
    BY <1>1, AppendProperties
  <2> HIDE DEF before, k, m, rest
  <2>4. /\ rest \in Seq(Message) /\ Len(rest) = k /\ rest[k] = m
        /\ \A i \in 1 .. k - 1 : rest[i] = before.rest[i]
    BY <1>1, <1>2, <2>1, <2>3
  <2>5. \A i \in 1 .. Len(rest) : i \in 1 .. k - 1 \/ i = k
    BY <1>1, <2>4
  <2>6. \A i \in 1 .. Len(rest) :
          ~IsSystem(rest[i]) /\ Translatable(rest[i]) /\ ~rest[i].breakpoint
    BY <1>1, <2>2, <2>4, <2>5
  <2>7. k \in 1 .. Len(rest)
    BY <1>1, <2>4
  <2>8. CacheBreakpointIndex(rest) = k
    BY <2>4, <2>6, <2>7, Breakpoint
  <2> QED
    BY <2>1, <2>4, <2>6, <2>7, <2>8 DEF before, k, m, rest
<1>4. CASE all = HandoffMessages(messages)
  <2> DEFINE marked == [m EXCEPT !.breakpoint = TRUE]
             one == Says("assistant", "analysis")
             two == Says("user", "write")
             r1 == Append(r, marked)
             r2 == Append(r1, one)
             r3 == Append(r2, two)
  <2>1. /\ marked \in Message /\ SplitSystem(all).system = before.system /\ rest = r3
    BY <1>2, <1>4, HandoffSplit
  <2>2. /\ one \in Message /\ ~IsSystem(one) /\ Translatable(one) /\ ~one.breakpoint
        /\ two \in Message /\ ~IsSystem(two) /\ Translatable(two) /\ ~two.breakpoint
    BY WordsAssumption DEF Says, Message, Roles, IsSystem, Translatable
  <2>3. /\ marked.breakpoint /\ ~IsSystem(marked) /\ Translatable(marked)
        /\ AnthropicTurn(marked) = AnthropicTurn(m)
    <3>1. /\ marked.breakpoint = TRUE /\ marked.role = m.role /\ marked.text = m.text
          /\ marked.calls = m.calls
      BY <1>1 DEF Message
    <3> HIDE DEF marked, m
    <3> QED
      BY <1>1, <3>1 DEF IsSystem, Translatable, AnthropicTurn
  <2> HIDE DEF before, k, m, rest, marked, one, two
  <2>4. /\ r1 \in Seq(Message) /\ Len(r1) = k /\ r1[k] = marked
        /\ \A i \in 1 .. k - 1 : r1[i] = r[i]
    BY <1>1, <1>2, <2>1, AppendProperties
  <2> HIDE DEF r1
  <2>5. /\ r2 \in Seq(Message) /\ Len(r2) = k + 1 /\ r2[k + 1] = one
        /\ \A i \in 1 .. k : r2[i] = r1[i]
    BY <2>2, <2>4, AppendProperties
  <2> HIDE DEF r2
  <2>6. /\ r3 \in Seq(Message) /\ Len(r3) = k + 2 /\ r3[k + 2] = two
        /\ \A i \in 1 .. k + 1 : r3[i] = r2[i]
    <3>1. Len(r2) + 1 = k + 2
      BY <1>1, <2>5
    <3> QED
      BY <2>2, <2>5, <3>1, AppendProperties
  <2> HIDE DEF r3
  <2>7. /\ k \in 1 .. k /\ k \in 1 .. k + 1 /\ k + 1 \in 1 .. k + 1 /\ k \in 1 .. k + 2
        /\ \A i \in 1 .. k - 1 : i \in 1 .. k /\ i \in 1 .. k + 1 /\ i # k
        /\ \A i \in 1 .. k + 2 : i \in 1 .. k - 1 \/ i \in {k, k + 1, k + 2}
    BY <1>1
  <2>8. /\ r3[k] = marked /\ r3[k + 1] = one /\ r3[k + 2] = two
        /\ \A i \in 1 .. k - 1 : r3[i] = before.rest[i]
    BY <1>2, <2>4, <2>5, <2>6, <2>7
  <2>9. \A i \in 1 .. k + 2 : ~IsSystem(r3[i]) /\ Translatable(r3[i])
    BY <1>1, <2>2, <2>3, <2>7, <2>8
  <2>10. \A i \in 1 .. k + 2 : r3[i].breakpoint => i = k
    BY <1>1, <2>2, <2>3, <2>7, <2>8
  <2>11. CacheBreakpointIndex(r3) = k
    BY <2>3, <2>6, <2>7, <2>8, <2>10, Breakpoint
  <2> QED
    BY <2>1, <2>3, <2>6, <2>7, <2>8, <2>9, <2>11 DEF before, k, m, rest
<1> QED
  BY <1>3, <1>4

\* The prefix of every call that caches: the split before the last message, and
\* that message, marked.
SharedTurns(messages) ==
  LET rest == Before(messages).rest
      last == Marked(AnthropicTurn(messages[Len(messages)]))
  IN  [i \in 1 .. Len(rest) + 1 |-> IF i = Len(rest) + 1 THEN last ELSE AnthropicTurn(rest[i])]

LEMMA PrefixOfBody ==
  ASSUME NEW messages, CleanMessages(messages), Markable(messages),
         NEW all \in {messages, HandoffMessages(messages)},
         NEW q, q.messages = all, q.cache = TRUE
  PROVE  Prefix(AnthropicBody(q)) =
           [model |-> q.model, tools |-> ToolsSent(q),
            system |-> Before(messages).system, turns |-> SharedTurns(messages)]
<1> DEFINE before == Before(messages)
           k == Len(before.rest) + 1
           m == messages[Len(messages)]
           rest == SplitSystem(q.messages).rest
           turns == [i \in DOMAIN rest |-> AnthropicTurn(rest[i])]
           body == AnthropicBody(q)
<1>1. /\ SplitSystem(q.messages).system = before.system
      /\ rest \in Seq(Message) /\ k \in 1 .. Len(rest)
      /\ \A i \in 1 .. k - 1 : rest[i] = before.rest[i]
      /\ AnthropicTurn(rest[k]) = AnthropicTurn(m)
      /\ \A i \in 1 .. Len(rest) : ~IsSystem(rest[i]) /\ Translatable(rest[i])
      /\ CacheBreakpointIndex(rest) = k
  BY SharedRest
<1>2. AnthropicTurn(m).blocks # <<>> /\ k \in Nat \ {0}
  BY LastTurn
<1>3. Len(rest) \in Nat /\ DOMAIN rest = 1 .. Len(rest)
  BY <1>1, LenProperties
<1>4. turns \in [1 .. Len(rest) -> PlainTurn]
  <2> SUFFICES ASSUME NEW i \in 1 .. Len(rest) PROVE AnthropicTurn(rest[i]) \in PlainTurn
    BY <1>3
  <2>1. rest[i] \in Message
    BY <1>1, ElementOfSeq
  <2> QED
    BY <1>1, <2>1, TurnBlocks
<1>5. turns[k] = AnthropicTurn(m)
  BY <1>1, <1>3
<1>6. /\ body.turns = MarkCachePrefix(turns, k)
      /\ body.model = q.model /\ body.tools = ToolsSent(q)
      /\ body.system = before.system
  BY <1>1 DEF AnthropicBody
<1> HIDE DEF turns, body
<1>7. /\ DOMAIN body.turns = 1 .. Len(rest)
      /\ MarkedAt(body) = {k}
      /\ \A i \in 1 .. Len(rest) :
           body.turns[i] = IF i = k THEN Marked(turns[k]) ELSE turns[i]
  <2>1. PICK n \in Nat : n = Len(rest)
    BY <1>3
  <2>2. PICK at \in 1 .. n : at = k
    BY <1>1, <2>1
  <2>3. PICK t \in [1 .. n -> PlainTurn] : t = turns
    BY <1>4, <2>1
  <2>4. t[at].blocks # <<>>
    BY <1>2, <1>5, <2>2, <2>3
  <2>5. body.turns = MarkCachePrefix(t, at)
    BY <1>6, <2>2, <2>3
  <2>6. /\ DOMAIN body.turns = 1 .. n
        /\ MarkedAt(body) = {at}
        /\ \A i \in 1 .. n : body.turns[i] = IF i = at THEN Marked(t[at]) ELSE t[i]
    BY <2>4, <2>5, OneMarked
  <2> QED
    BY <2>1, <2>2, <2>3, <2>6
<1>8. {n \in DOMAIN body.turns : \E j \in MarkedAt(body) : n <= j} = 1 .. k
  BY <1>1, <1>2, <1>3, <1>7
<1>9. \A i \in 1 .. k :
        body.turns[i] = IF i = k THEN Marked(AnthropicTurn(m)) ELSE AnthropicTurn(before.rest[i])
  <2> SUFFICES ASSUME NEW i \in 1 .. k
               PROVE  body.turns[i] = IF i = k THEN Marked(AnthropicTurn(m))
                                      ELSE AnthropicTurn(before.rest[i])
    OBVIOUS
  <2>1. i \in 1 .. Len(rest) /\ (i # k => i \in 1 .. k - 1)
    BY <1>1, <1>2, <1>3
  <2>2. i \in DOMAIN rest /\ turns[i] = AnthropicTurn(rest[i])
    BY <1>3, <2>1 DEF turns
  <2>3. body.turns[i] = IF i = k THEN Marked(turns[k]) ELSE turns[i]
    BY <1>7, <2>1
  <2>4. i # k => rest[i] = before.rest[i]
    BY <1>1, <2>1
  <2> HIDE DEF rest, before, k, m
  <2> QED
    BY <1>5, <2>2, <2>3, <2>4
<1>10. [i \in 1 .. k |-> body.turns[i]] = SharedTurns(messages)
  <2> HIDE DEF body
  <2> QED
    BY <1>9 DEF SharedTurns
<1>11. Prefix(body) = [model |-> body.model, tools |-> body.tools, system |-> body.system,
                       turns |-> [i \in 1 .. k |-> body.turns[i]]]
  BY <1>8 DEF Prefix
<1> QED
  BY <1>6, <1>10, <1>11 DEF body

\* The prefix has a turn for every message that is not the system's.
LEMMA WholePrefix ==
  ASSUME NEW messages, CleanMessages(messages), Markable(messages)
  PROVE  DOMAIN SharedTurns(messages) =
           1 .. Cardinality({i \in DOMAIN messages : ~IsSystem(messages[i])})
<1> DEFINE N == Len(messages)
           before == Before(messages)
<1>1. messages \in Seq(Message) /\ N \in Nat \ {0} /\ DOMAIN messages = 1 .. N
  BY LastTurn, LenProperties DEF CleanMessages
<1>2. N \in 0 .. N
  BY <1>1
<1>3. Len(SplitSystem(messages).rest) =
        Cardinality({i \in DOMAIN messages : ~IsSystem(messages[i])})
  BY <1>1, <1>2, SplitRest DEF SplitSystem
<1>4. /\ before.rest \in Seq(Message) /\ messages[N] \in Message
      /\ SplitSystem(messages).rest = Append(before.rest, messages[N])
  BY LastTurn DEF Parts
<1>5. Len(SplitSystem(messages).rest) = Len(before.rest) + 1
  <2> HIDE DEF before, N
  <2> QED
    BY <1>4, AppendProperties
<1> QED
  BY <1>3, <1>5 DEF SharedTurns

-----------------------------------------------------------------------------
(* Sequences of words, put one after the other.                             *)

Parted == Seq(Seq(Words))

\* A function on 1 .. n whose values are sequences of words is a sequence of them.
LEMMA PartedFunction ==
  ASSUME NEW n \in Nat, NEW f \in [1 .. n -> Seq(Words)]
  PROVE  f \in Parted /\ Len(f) = n
<1>1. f \in Seq(Seq(Words))
  BY DEF Seq
<1>2. DOMAIN f = 1 .. n /\ DOMAIN f = 1 .. Len(f) /\ Len(f) \in Nat
  BY <1>1, LenProperties
<1>3. Len(f) = n
  BY <1>2
<1> QED
  BY <1>1, <1>3 DEF Parted

\* The recursion, part by part.
LEMMA FlatSteps ==
  ASSUME NEW parts \in Parted
  PROVE  /\ Flat(parts)[0] = <<>>
         /\ \A n \in 1 .. Len(parts) : Flat(parts)[n] = Flat(parts)[n - 1] \o parts[n]
<1> DEFINE Start == <<>>
           N == Len(parts)
           Is(f, k) == f = [n \in 0 .. k |-> IF n = 0 THEN Start ELSE f[n - 1] \o parts[n]]
           H == {k \in 0 .. N : \E f : Is(f, k)}
<1>1. N \in Nat
  BY LenProperties DEF Parted
<1>2. 0 \in H
  <2>1. [n \in 0 .. 0 |-> Start] =
          [n \in 0 .. 0 |-> IF n = 0 THEN Start
                            ELSE [m \in 0 .. 0 |-> Start][n - 1] \o parts[n]]
    <3>1. \A n \in 0 .. 0 : n = 0
      OBVIOUS
    <3> HIDE DEF Start
    <3> QED
      BY <3>1
  <2>2. Is([n \in 0 .. 0 |-> Start], 0)
    BY <2>1
  <2> HIDE DEF Is, N
  <2> QED
    BY <1>1, <2>2
<1>3. ASSUME NEW k \in 0 .. N - 1, k \in H PROVE k + 1 \in H
  <2>1. PICK f : Is(f, k)
    BY <1>3
  <2> DEFINE g == [n \in 0 .. k + 1 |-> IF n <= k THEN f[n] ELSE f[k] \o parts[k + 1]]
             t == [n \in 0 .. k + 1 |-> IF n = 0 THEN Start ELSE g[n - 1] \o parts[n]]
  <2>2. ASSUME NEW n \in 0 .. k + 1 PROVE g[n] = t[n]
    <3>1. CASE n = 0
      <4>1. g[0] = f[0] /\ f[0] = Start
        BY <1>1, <2>1
      <4> QED
        BY <3>1, <4>1
    <3>2. CASE n \in 1 .. k
      <4>1. n - 1 \in 0 .. k /\ n - 1 <= k /\ n \in 0 .. k /\ n <= k /\ n # 0
        BY <1>1, <3>2
      <4>2. g[n] = f[n] /\ g[n - 1] = f[n - 1]
        BY <4>1
      <4>3. f[n] = f[n - 1] \o parts[n]
        <5> HIDE DEF Start
        <5> QED
          BY <2>1, <4>1
      <4> HIDE DEF g
      <4> QED
        BY <4>1, <4>2, <4>3
    <3>3. CASE n = k + 1
      <4>1. g[k] = f[k] /\ g[k + 1] = f[k] \o parts[k + 1] /\ k + 1 # 0 /\ (k + 1) - 1 = k
        BY <1>1
      <4> HIDE DEF g
      <4> QED
        BY <3>3, <4>1
    <3> QED
      BY <1>1, <3>1, <3>2, <3>3
  <2>3. g = t
    <3>1. g = [n \in 0 .. k + 1 |-> g[n]] /\ t = [n \in 0 .. k + 1 |-> t[n]]
      OBVIOUS
    <3> HIDE DEF g, t
    <3> QED
      BY <2>2, <3>1
  <2>4. Is(g, k + 1)
    <3> HIDE DEF g
    <3> QED
      BY <2>3
  <2>5. k + 1 \in 0 .. N
    BY <1>1
  <2> HIDE DEF Is, g, N
  <2> QED
    BY <2>4, <2>5
<1>4. \E f : Is(f, N)
  <2> HIDE DEF H, Is, N
  <2>1. \A n \in 0 .. N - 1 : n \in H => n + 1 \in H
    BY <1>3
  <2>2. \A n \in 0 .. N : n \in H
    BY <1>1, <1>2, <2>1, UpTo
  <2>3. N \in H
    BY <1>1, <2>2
  <2> QED
    BY <2>3 DEF H
<1>5. Flat(parts) = CHOOSE f : Is(f, N)
  BY DEF Flat
<1>6. Is(Flat(parts), N)
  <2> HIDE DEF Is, N
  <2> QED
    BY <1>4, <1>5
<1>7. \A n \in 1 .. N : n \in 0 .. N /\ n # 0
  BY <1>1
<1>8. 0 \in 0 .. N
  BY <1>1
<1> DEFINE s == Flat(parts)
<1> HIDE DEF s
<1>9. Is(s, N)
  BY <1>6 DEF s
<1> HIDE DEF Start, N
<1> QED
  BY <1>7, <1>8, <1>9 DEF s, Start, N

\* What comes of the recursion is a sequence of words.
LEMMA FlatType ==
  ASSUME NEW parts \in Parted
  PROVE  \A n \in 0 .. Len(parts) : Flat(parts)[n] \in Seq(Words)
<1> DEFINE N == Len(parts)
           H == {k \in 0 .. N : Flat(parts)[k] \in Seq(Words)}
<1>1. N \in Nat
  BY LenProperties DEF Parted
<1>2. 0 \in H
  <2>1. Flat(parts)[0] = <<>>
    BY FlatSteps
  <2>2. <<>> \in Seq(Words)
    BY EmptySeq
  <2>3. Flat(parts)[0] \in Seq(Words)
    BY <2>1, <2>2, Zenon
  <2> QED
    BY <1>1, <2>3
<1>3. \A k \in 0 .. N - 1 : k \in H => k + 1 \in H
  <2> SUFFICES ASSUME NEW k \in 0 .. N - 1, k \in H PROVE k + 1 \in H
    OBVIOUS
  <2>1. k + 1 \in 1 .. N /\ (k + 1) - 1 = k /\ k + 1 \in 0 .. N
    BY <1>1
  <2>2. parts[k + 1] \in Seq(Words)
    BY <2>1, ElementOfSeq DEF Parted
  <2>3. Flat(parts)[k + 1] = Flat(parts)[k] \o parts[k + 1]
    BY <2>1, FlatSteps
  <2>4. Flat(parts)[k] \in Seq(Words)
    OBVIOUS
  <2>5. Flat(parts)[k] \o parts[k + 1] \in Seq(Words)
    BY <2>2, <2>4, ConcatProperties
  <2> QED
    BY <2>1, <2>3, <2>5
<1>4. \A k \in 0 .. N : k \in H
  <2> HIDE DEF H, N
  <2> QED
    BY <1>1, <1>2, <1>3, UpTo
<1> QED
  BY <1>4

\* What comes after the first parts does not change their words.
LEMMA FlatAgrees ==
  ASSUME NEW parts \in Parted, NEW others \in Parted, NEW L \in Nat,
         L <= Len(parts), L <= Len(others), \A i \in 1 .. L : parts[i] = others[i]
  PROVE  Flat(parts)[L] = Flat(others)[L]
<1> DEFINE H == {k \in 0 .. L : Flat(parts)[k] = Flat(others)[k]}
<1>1. 0 \in H
  <2>1. Flat(parts)[0] = <<>> /\ Flat(others)[0] = <<>>
    BY FlatSteps
  <2>2. Flat(parts)[0] = Flat(others)[0]
    BY <2>1, Zenon
  <2> QED
    BY <2>2
<1>2. \A k \in 0 .. L - 1 : k \in H => k + 1 \in H
  <2> SUFFICES ASSUME NEW k \in 0 .. L - 1, k \in H PROVE k + 1 \in H
    OBVIOUS
  <2>1. /\ k + 1 \in 1 .. L /\ (k + 1) - 1 = k /\ k + 1 \in 0 .. L
        /\ k + 1 \in 1 .. Len(parts) /\ k + 1 \in 1 .. Len(others)
    BY LenProperties DEF Parted
  <2>2. /\ Flat(parts)[k + 1] = Flat(parts)[k] \o parts[k + 1]
        /\ Flat(others)[k + 1] = Flat(others)[k] \o others[k + 1]
    BY <2>1, FlatSteps
  <2> QED
    BY <2>1, <2>2
<1>3. \A k \in 0 .. L : k \in H
  <2> HIDE DEF H
  <2> QED
    BY <1>1, <1>2, UpTo
<1> QED
  BY <1>3

\* One more part adds its words at the end.
LEMMA JoinedAppend ==
  ASSUME NEW parts \in Parted, NEW words \in Seq(Words)
  PROVE  /\ Append(parts, words) \in Parted /\ Joined(parts) \in Seq(Words)
         /\ Joined(Append(parts, words)) = Joined(parts) \o words
<1> DEFINE all == Append(parts, words)
           N == Len(parts)
<1>1. /\ all \in Parted /\ Len(all) = N + 1 /\ N \in Nat
      /\ \A i \in 1 .. N : all[i] = parts[i]
      /\ all[N + 1] = words
  BY AppendProperties, LenProperties DEF Parted
<1> HIDE DEF all
<1>2. N <= Len(all) /\ N + 1 \in 1 .. Len(all) /\ (N + 1) - 1 = N /\ N \in 0 .. N
  BY <1>1
<1>3. Flat(all)[N] = Flat(parts)[N]
  BY <1>1, <1>2, FlatAgrees
<1>4. Flat(all)[N + 1] = Flat(all)[N] \o words
  BY <1>1, <1>2, FlatSteps
<1>5. Joined(parts) \in Seq(Words)
  BY <1>2, FlatType DEF Joined
<1> QED
  BY <1>1, <1>3, <1>4, <1>5 DEF Joined, all

\* The words of none, one and two parts.
LEMMA JoinedFew ==
  /\ <<>> \in Parted /\ Joined(<<>>) = <<>>
  /\ \A v \in Seq(Words) : Joined(<<v>>) = v
  /\ \A v, w \in Seq(Words) : Joined(<<v, w>>) = v \o w
<1>1. <<>> \in Parted /\ Len(<<>>) = 0
  BY EmptySeq DEF Parted
<1>2. Joined(<<>>) = <<>>
  <2>1. Flat(<<>>)[0] = <<>>
    BY <1>1, FlatSteps
  <2> QED
    BY <1>1, <2>1 DEF Joined
<1>3. ASSUME NEW v \in Seq(Words) PROVE <<v>> \in Parted /\ Joined(<<v>>) = v
  <2>1. <<v>> = Append(<<>>, v)
    OBVIOUS
  <2>2. <<>> \o v = v
    BY ConcatEmptySeq
  <2>3. Append(<<>>, v) \in Parted /\ Joined(Append(<<>>, v)) = Joined(<<>>) \o v
    BY <1>1, JoinedAppend
  <2> QED
    BY <1>2, <2>1, <2>2, <2>3
<1>4. ASSUME NEW v \in Seq(Words), NEW w \in Seq(Words) PROVE Joined(<<v, w>>) = v \o w
  <2>1. <<v, w>> = Append(<<v>>, w)
    OBVIOUS
  <2>2. Joined(Append(<<v>>, w)) = Joined(<<v>>) \o w
    BY <1>3, JoinedAppend
  <2> QED
    BY <1>3, <2>1, <2>2
<1> QED
  BY <1>1, <1>2, <1>3, <1>4

\* The words of a text and of a message.
LEMMA WordTypes ==
  /\ \A w \in Words : Word(w) \in Seq(Words)
  /\ \A m \in Message : WordsIn(m) \in Seq(Words)
<1>1. ASSUME NEW w \in Words PROVE Word(w) \in Seq(Words)
  <2>1. <<w>> \in Seq(Words) /\ <<>> \in Seq(Words)
    BY EmptySeq
  <2> QED
    BY <2>1 DEF Word
<1>2. ASSUME NEW m \in Message PROVE WordsIn(m) \in Seq(Words)
  <2>1. m.text \in Words /\ m.calls \in Words
    BY DEF Message
  <2>2. Word(m.text) \in Seq(Words) /\ Word(m.calls) \in Seq(Words)
    BY <1>1, <2>1
  <2> QED
    BY <2>2, ConcatProperties DEF WordsIn
<1> QED
  BY <1>1, <1>2

LEMMA OneAndOne ==
  ASSUME NEW x, NEW y
  PROVE  <<x>> \o <<y>> = <<x, y>>
<1>1. <<x>> \in Seq({x, y}) /\ y \in {x, y}
  OBVIOUS
<1>2. Append(<<x>>, y) = <<x>> \o <<y>>
  BY <1>1, AppendIsConcat
<1>3. Append(<<x>>, y) = <<x, y>>
  <2>1. <<x, y>> \in Seq({x, y}) /\ Len(<<x, y>>) = 2 /\ Len(<<x>>) = 1
        /\ <<x, y>>[1] = x /\ <<x, y>>[2] = y /\ <<x>>[1] = x
    OBVIOUS
  <2>2. /\ Append(<<x>>, y) \in Seq({x, y}) /\ Len(Append(<<x>>, y)) = 2
        /\ Append(<<x>>, y)[1] = x /\ Append(<<x>>, y)[2] = y
    BY <1>1, <2>1, AppendProperties
  <2>3. \A i \in 1 .. 2 : i \in {1, 2}
    OBVIOUS
  <2>4. \A i \in 1 .. 2 : Append(<<x>>, y)[i] = <<x, y>>[i]
    BY <2>1, <2>2, <2>3
  <2> QED
    BY <2>1, <2>2, <2>4, SeqEqual
<1> QED
  BY <1>2, <1>3, Zenon

\* The blocks of a text and of a call say no more and no less.
LEMMA BlockWords ==
  ASSUME NEW text \in Words, NEW calls \in Words
  PROVE  LET blocks == NonEmpty("text", text) \o NonEmpty("tool_use", calls)
         IN  Joined([j \in DOMAIN blocks |-> Word(blocks[j].what)]) = Word(text) \o Word(calls)
<1> DEFINE t == Block("text", text)
           c == Block("tool_use", calls)
           blocks == NonEmpty("text", text) \o NonEmpty("tool_use", calls)
           words == [j \in DOMAIN blocks |-> Word(blocks[j].what)]
<1>1. t.what = text /\ c.what = calls
  BY DEF Block
<1>2. Word(text) \in Seq(Words) /\ Word(calls) \in Seq(Words)
  BY WordTypes
<1> HIDE DEF t, c
<1>3. CASE text = "none" /\ calls = "none"
  <2>1. blocks = <<>>
    BY <1>3 DEF NonEmpty
  <2>2. words = <<>>
    <3> HIDE DEF blocks
    <3> QED
      BY <2>1
  <2>3. Word(text) = <<>> /\ Word(calls) = <<>>
    BY <1>3 DEF Word
  <2>4. Word(text) \o Word(calls) = <<>>
    BY <2>3
  <2> QED
    BY <2>2, <2>4, JoinedFew, Zenon
<1>4. CASE text # "none" /\ calls = "none"
  <2>1. blocks = <<t>>
    BY <1>4 DEF NonEmpty, t
  <2>2. words = <<Word(text)>>
    <3> HIDE DEF blocks
    <3> QED
      BY <1>1, <2>1
  <2>3. Word(calls) = <<>>
    BY <1>4 DEF Word
  <2>4. Word(text) \o Word(calls) = Word(text)
    BY <1>2, <2>3, ConcatEmptySeq
  <2>5. Joined(<<Word(text)>>) = Word(text)
    BY <1>2, JoinedFew
  <2> QED
    BY <2>2, <2>4, <2>5, Zenon
<1>5. CASE text = "none" /\ calls # "none"
  <2>1. blocks = <<c>>
    BY <1>5 DEF NonEmpty, c
  <2>2. words = <<Word(calls)>>
    <3> HIDE DEF blocks
    <3> QED
      BY <1>1, <2>1
  <2>3. Word(text) = <<>>
    BY <1>5 DEF Word
  <2>4. Word(text) \o Word(calls) = Word(calls)
    BY <1>2, <2>3, ConcatEmptySeq
  <2>5. Joined(<<Word(calls)>>) = Word(calls)
    BY <1>2, JoinedFew
  <2> QED
    BY <2>2, <2>4, <2>5, Zenon
<1>6. CASE text # "none" /\ calls # "none"
  <2>1. blocks = <<t, c>>
    <3>1. NonEmpty("text", text) = <<t>> /\ NonEmpty("tool_use", calls) = <<c>>
      BY <1>6 DEF NonEmpty, t, c
    <3>2. <<t>> \o <<c>> = <<t, c>>
      BY OneAndOne
    <3> QED
      BY <3>1, <3>2
  <2>2. words = <<Word(text), Word(calls)>>
    <3> HIDE DEF blocks
    <3> QED
      BY <1>1, <2>1
  <2>3. Joined(<<Word(text), Word(calls)>>) = Word(text) \o Word(calls)
    BY <1>2, JoinedFew
  <2> QED
    BY <2>2, <2>3, Zenon
<1> QED
  BY <1>3, <1>4, <1>5, <1>6

\* What only the sidecar or an assistant may have.
Speakable(m) == m \in Message /\ (m.calls # "none" => m.role = "assistant")

\* A turn says what its message says, for either provider.
LEMMA SaysItsMessage ==
  ASSUME NEW m, Speakable(m)
  PROVE  /\ TurnWords(OpenAITurn(m)) = WordsIn(m)
         /\ ~IsSystem(m) /\ Translatable(m) => TurnWords(AnthropicTurn(m)) = WordsIn(m)
<1>1. m.text \in Words /\ m.calls \in Words /\ m.role \in Roles
  BY DEF Speakable, Message
<1> DEFINE blocks == NonEmpty("text", m.text) \o NonEmpty("tool_use", m.calls)
<1>2. Joined([j \in DOMAIN blocks |-> Word(blocks[j].what)]) = WordsIn(m)
  BY <1>1, BlockWords DEF WordsIn
<1>3. OpenAITurn(m).blocks = blocks
  BY DEF OpenAITurn
<1>4. m.role = "assistant" => AnthropicTurn(m).blocks = blocks
  BY DEF AnthropicTurn
<1>5. ASSUME NEW type, m.role # "assistant",
             AnthropicTurn(m).blocks = <<Block(type, m.text)>>
      PROVE  TurnWords(AnthropicTurn(m)) = WordsIn(m)
  <2>1. m.calls = "none"
    BY <1>5 DEF Speakable
  <2>2. Word(m.text) \in Seq(Words) /\ Word(m.calls) = <<>>
    BY <1>1, <2>1, WordTypes DEF Word
  <2>3. WordsIn(m) = Word(m.text)
    BY <2>2, ConcatEmptySeq DEF WordsIn
  <2>4. [j \in DOMAIN <<Block(type, m.text)>> |-> Word(<<Block(type, m.text)>>[j].what)]
          = <<Word(m.text)>>
    BY DEF Block
  <2>5. Joined(<<Word(m.text)>>) = Word(m.text)
    BY <2>2, JoinedFew
  <2> QED
    BY <1>5, <2>3, <2>4, <2>5, Zenon DEF TurnWords
<1>6. m.role = "user" => AnthropicTurn(m).blocks = <<Block("text", m.text)>>
  BY DEF AnthropicTurn
<1>7. m.role = "tool" => AnthropicTurn(m).blocks = <<Block("tool_result", m.text)>>
  BY DEF AnthropicTurn
<1> HIDE DEF blocks
<1>8. TurnWords(OpenAITurn(m)) = WordsIn(m)
  BY <1>2, <1>3 DEF TurnWords
<1>9. m.role = "assistant" => TurnWords(AnthropicTurn(m)) = WordsIn(m)
  BY <1>2, <1>4 DEF TurnWords
<1>10. ~IsSystem(m) /\ Translatable(m) => m.role \in {"user", "assistant", "tool"}
  BY <1>1 DEF IsSystem, Translatable, Roles
<1> QED
  BY <1>5, <1>6, <1>7, <1>8, <1>9, <1>10

\* A marker changes nothing that is said.
LEMMA MarkedWords ==
  ASSUME NEW turn \in PlainTurn, turn.blocks # <<>>
  PROVE  TurnWords(Marked(turn)) = TurnWords(turn)
<1> DEFINE blocks == turn.blocks
           last == Len(blocks)
           marked == [blocks[last] EXCEPT !.marked = TRUE]
           all == [blocks EXCEPT ![last] = marked]
<1>1. blocks \in Seq(PlainBlock)
  BY DEF PlainTurn
<1>2. last \in 1 .. last /\ DOMAIN blocks = 1 .. last
  BY <1>1, EmptySeq, LenProperties
<1>3. blocks[last] \in PlainBlock
  BY <1>1, <1>2, ElementOfSeq
<1>4. marked.what = blocks[last].what
  BY <1>3 DEF PlainBlock
<1>5. Marked(turn).blocks = all
  BY DEF Marked, PlainTurn
<1> HIDE DEF marked, blocks
<1>6. DOMAIN all = DOMAIN blocks /\ \A j \in DOMAIN blocks : all[j].what = blocks[j].what
  BY <1>4
<1>7. [j \in DOMAIN all |-> Word(all[j].what)] = [j \in DOMAIN blocks |-> Word(blocks[j].what)]
  <2> HIDE DEF all
  <2> QED
    BY <1>6
<1> QED
  BY <1>5, <1>7 DEF TurnWords, blocks

\* markCachePrefix leaves what the turns say.
LEMMA PrefixWords ==
  ASSUME NEW n \in Nat, NEW turns \in [1 .. n -> PlainTurn], NEW at \in 0 .. n,
         NEW all, all = MarkCachePrefix(turns, at)
  PROVE  /\ DOMAIN all = 1 .. n
         /\ \A i \in 1 .. n : TurnWords(all[i]) = TurnWords(turns[i])
<1>1. CASE all = turns
  BY <1>1
<1>2. CASE at # 0 /\ turns[at].blocks # <<>>
  <2>1. at \in 1 .. n
    BY <1>2
  <2>2. all = [turns EXCEPT ![at] = Marked(turns[at])]
    BY <1>2, <2>1 DEF MarkCachePrefix, Marked
  <2>3. TurnWords(Marked(turns[at])) = TurnWords(turns[at])
    BY <1>2, <2>1, MarkedWords
  <2> QED
    BY <2>1, <2>2, <2>3
<1> QED
  BY <1>1, <1>2 DEF MarkCachePrefix

\* A set of naturals with a bound has a greatest element.
LEMMA GreatestNumber ==
  ASSUME NEW n \in Nat, NEW T \in SUBSET (0 .. n), T # {}
  PROVE  Max(T) \in T
<1> DEFINE R == {k \in 0 .. n : n - k \in T}
<1>1. R \in SUBSET Nat /\ R # {}
  <2>1. PICK x \in T : TRUE
    OBVIOUS
  <2>2. n - x \in 0 .. n /\ n - (n - x) = x
    BY <2>1
  <2>3. n - x \in R
    BY <2>1, <2>2
  <2>4. \A k \in R : k \in Nat
    OBVIOUS
  <2> QED
    BY <2>3, <2>4
<1>2. PICK k \in R : \A j \in R : k <= j
  <2> HIDE DEF R
  <2> QED
    BY <1>1, LeastNumber
<1>3. ASSUME NEW y \in T PROVE n - k >= y
  <2>1. n - y \in 0 .. n /\ n - (n - y) = y
    OBVIOUS
  <2>2. n - y \in R
    BY <2>1
  <2>3. k <= n - y /\ k \in 0 .. n
    BY <1>2, <2>2
  <2> QED
    BY <2>3
<1>4. n - k \in T
  BY <1>2
<1>5. \E x \in T : \A y \in T : x >= y
  BY <1>3, <1>4
<1> QED
  BY <1>5 DEF Max

LEMMA BreakpointPlace ==
  ASSUME NEW rest \in Seq(Message)
  PROVE  CacheBreakpointIndex(rest) \in 0 .. Len(rest)
<1> DEFINE marks == {i \in DOMAIN rest : rest[i].breakpoint}
           T == marks \cup
                (IF \E i \in DOMAIN rest : rest[i].breakpoint THEN {} ELSE {Len(rest)})
<1>1. Len(rest) \in Nat /\ DOMAIN rest = 1 .. Len(rest)
  BY LenProperties
<1>2. T \in SUBSET (0 .. Len(rest)) /\ T # {}
  <2>1. \A i \in marks : i \in 0 .. Len(rest)
    BY <1>1
  <2>2. Len(rest) \in 0 .. Len(rest)
    BY <1>1
  <2> QED
    BY <2>1, <2>2
<1>3. Max(T) \in T
  <2> HIDE DEF T
  <2> QED
    BY <1>1, <1>2, GreatestNumber
<1> QED
  BY <1>2, <1>3 DEF CacheBreakpointIndex

\* The parts of a conversation, by message: all its words, the system's and the
\* others'.
ByMessage(messages) == [i \in DOMAIN messages |-> WordsIn(messages[i])]
OfSystem(messages) ==
  [i \in DOMAIN messages |-> IF IsSystem(messages[i]) THEN WordsIn(messages[i]) ELSE <<>>]
OfOthers(messages) ==
  [i \in DOMAIN messages |-> IF IsSystem(messages[i]) THEN <<>> ELSE WordsIn(messages[i])]
ByText(system) == [i \in DOMAIN system |-> Word(system[i])]

LEMMA MessageParts ==
  ASSUME NEW messages \in Seq(Message)
  PROVE  /\ ByMessage(messages) \in Parted /\ Len(ByMessage(messages)) = Len(messages)
         /\ OfSystem(messages) \in Parted /\ Len(OfSystem(messages)) = Len(messages)
         /\ OfOthers(messages) \in Parted /\ Len(OfOthers(messages)) = Len(messages)
<1>1. Len(messages) \in Nat /\ DOMAIN messages = 1 .. Len(messages)
  BY LenProperties
<1>2. \A i \in 1 .. Len(messages) : WordsIn(messages[i]) \in Seq(Words)
  BY ElementOfSeq, WordTypes
<1>3. <<>> \in Seq(Words)
  BY EmptySeq
<1>4. /\ ByMessage(messages) \in [1 .. Len(messages) -> Seq(Words)]
      /\ OfSystem(messages) \in [1 .. Len(messages) -> Seq(Words)]
      /\ OfOthers(messages) \in [1 .. Len(messages) -> Seq(Words)]
  BY <1>1, <1>2, <1>3 DEF ByMessage, OfSystem, OfOthers
<1> QED
  BY <1>1, <1>4, PartedFunction

\* One message more, one text more.
LEMMA GrownConversation ==
  ASSUME NEW messages \in Seq(Message), NEW m \in Message
  PROVE  Conversation(Append(messages, m)) = Conversation(messages) \o WordsIn(m)
<1> DEFINE N == Len(messages)
           more == Append(messages, m)
           parts == ByMessage(messages)
           all == ByMessage(more)
<1>1. /\ more \in Seq(Message) /\ Len(more) = N + 1 /\ N \in Nat /\ more[N + 1] = m
      /\ \A i \in 1 .. N : more[i] = messages[i]
  BY AppendProperties, LenProperties
<1>2. DOMAIN more = 1 .. N + 1 /\ DOMAIN messages = 1 .. N
  BY <1>1, LenProperties
<1>3. WordsIn(m) \in Seq(Words)
  BY WordTypes
<1> HIDE DEF more, N
<1>4. parts \in Parted /\ Len(parts) = N /\ all \in Parted /\ Len(all) = N + 1
  BY <1>1, MessageParts DEF N
<1>5. /\ \A i \in 1 .. N : parts[i] = WordsIn(messages[i])
      /\ \A i \in 1 .. N + 1 : all[i] = WordsIn(more[i])
  BY <1>2 DEF ByMessage
<1>6. \A i \in 1 .. N : i \in 1 .. N + 1
  BY <1>1
<1>7. N + 1 \in 1 .. N + 1
  BY <1>1
<1> HIDE DEF parts, all
<1>8. all = Append(parts, WordsIn(m))
  <2> DEFINE added == Append(parts, WordsIn(m))
  <2>1. /\ added \in Parted /\ Len(added) = N + 1 /\ added[N + 1] = WordsIn(m)
        /\ \A i \in 1 .. N : added[i] = parts[i]
    BY <1>3, <1>4, AppendProperties DEF Parted
  <2> HIDE DEF added
  <2>2. \A i \in 1 .. N + 1 : i \in 1 .. N \/ i = N + 1
    BY <1>1
  <2>3. \A i \in 1 .. N + 1 : all[i] = added[i]
    BY <1>1, <1>5, <1>6, <1>7, <2>1, <2>2
  <2>4. all = added
    BY <1>4, <2>1, <2>3, SeqEqual DEF Parted
  <2> QED
    BY <2>4 DEF added
<1>9. Joined(all) = Joined(parts) \o WordsIn(m)
  BY <1>3, <1>4, <1>8, JoinedAppend
<1> QED
  BY <1>9 DEF Conversation, all, parts, ByMessage, more

LEMMA GrownSystem ==
  ASSUME NEW system \in Seq(Words), NEW w \in Words
  PROVE  Joined(ByText(Append(system, w))) = Joined(ByText(system)) \o Word(w)
<1> DEFINE N == Len(system)
           more == Append(system, w)
           parts == ByText(system)
           all == ByText(more)
<1>1. /\ more \in Seq(Words) /\ Len(more) = N + 1 /\ N \in Nat /\ more[N + 1] = w
      /\ \A i \in 1 .. N : more[i] = system[i]
  BY AppendProperties, LenProperties
<1>2. DOMAIN more = 1 .. N + 1 /\ DOMAIN system = 1 .. N
  BY <1>1, LenProperties
<1>3. Word(w) \in Seq(Words)
  BY WordTypes
<1> HIDE DEF more
<1>4. parts \in Parted /\ Len(parts) = N /\ all \in Parted /\ Len(all) = N + 1
  <2>1. \A i \in 1 .. N : Word(system[i]) \in Seq(Words)
    BY ElementOfSeq, WordTypes
  <2>2. \A i \in 1 .. N + 1 : Word(more[i]) \in Seq(Words)
    BY <1>1, ElementOfSeq, WordTypes
  <2> HIDE DEF N
  <2>3. parts \in [1 .. N -> Seq(Words)] /\ all \in [1 .. N + 1 -> Seq(Words)]
    BY <1>2, <2>1, <2>2 DEF ByText
  <2>4. N + 1 \in Nat
    BY <1>1
  <2> HIDE DEF parts, all
  <2> QED
    BY <1>1, <2>3, <2>4, PartedFunction
<1> HIDE DEF N
<1>5. /\ \A i \in 1 .. N : parts[i] = Word(system[i])
      /\ \A i \in 1 .. N + 1 : all[i] = Word(more[i])
  BY <1>2 DEF ByText
<1>6. \A i \in 1 .. N : i \in 1 .. N + 1
  BY <1>1
<1>7. N + 1 \in 1 .. N + 1
  BY <1>1
<1> HIDE DEF parts, all
<1>8. all = Append(parts, Word(w))
  <2> DEFINE added == Append(parts, Word(w))
  <2>1. /\ added \in Parted /\ Len(added) = N + 1 /\ added[N + 1] = Word(w)
        /\ \A i \in 1 .. N : added[i] = parts[i]
    BY <1>3, <1>4, AppendProperties DEF Parted
  <2> HIDE DEF added
  <2>2. \A i \in 1 .. N + 1 : i \in 1 .. N \/ i = N + 1
    BY <1>1
  <2>3. \A i \in 1 .. N + 1 : all[i] = added[i]
    BY <1>1, <1>5, <1>6, <1>7, <2>1, <2>2
  <2>4. all = added
    BY <1>4, <2>1, <2>3, SeqEqual DEF Parted
  <2> QED
    BY <2>4 DEF added
<1>9. Joined(all) = Joined(parts) \o Word(w)
  BY <1>3, <1>4, <1>8, JoinedAppend
<1> QED
  BY <1>9 DEF all, parts, more

\* splitSystem takes the words apart and loses none.
LEMMA SplitWords ==
  ASSUME NEW messages \in Seq(Message),
         \A i \in 1 .. Len(messages) : Speakable(messages[i])
  PROVE  /\ Joined(ByText(SplitSystem(messages).system)) = Instructions(messages)
         /\ Conversation(SplitSystem(messages).rest) = Dialogue(messages)
<1> DEFINE N == Len(messages)
           s == Split(messages)
           p == OfSystem(messages)
           d == OfOthers(messages)
           Good(k) == /\ Joined(ByText(s[k].system)) = Flat(p)[k]
                      /\ Conversation(s[k].rest) = Flat(d)[k]
           H == {k \in 0 .. N : Good(k)}
<1>1. N \in Nat /\ DOMAIN messages = 1 .. N
  BY LenProperties
<1>2. p \in Parted /\ Len(p) = N /\ d \in Parted /\ Len(d) = N
  BY MessageParts
<1>3. 0 \in H
  <2>1. s[0].system = <<>> /\ s[0].rest = <<>>
    BY SplitSteps
  <2>2. Flat(p)[0] = <<>> /\ Flat(d)[0] = <<>>
    BY <1>2, FlatSteps
  <2>3. ByText(<<>>) = <<>> /\ ByMessage(<<>>) = <<>>
    BY DEF ByText, ByMessage
  <2>4. Joined(<<>>) = <<>>
    BY JoinedFew
  <2>5. Joined(ByText(<<>>)) = <<>> /\ Conversation(<<>>) = <<>>
    BY <2>3, <2>4, Zenon DEF Conversation, ByMessage
  <2>6. Good(0)
    BY <2>1, <2>2, <2>5, Zenon
  <2> HIDE DEF Good, N
  <2> QED
    BY <1>1, <2>6
<1>4. ASSUME NEW k \in 0 .. N - 1, k \in H PROVE k + 1 \in H
  <2> DEFINE m == messages[k + 1]
  <2>1. k + 1 \in 1 .. N /\ k \in 0 .. N /\ (k + 1) - 1 = k /\ k + 1 \in 0 .. N
    BY <1>1
  <2>2. m \in Message /\ Speakable(m) /\ m.text \in Words /\ m.calls \in Words
    <3>1. m \in Message /\ Speakable(m)
      BY <2>1, ElementOfSeq
    <3> QED
      BY <3>1 DEF Message
  <2>3. s[k + 1] = SplitNext(s[k], m)
    BY <2>1, SplitSteps
  <2>4. Good(k)
    BY <1>4
  <2>5. s[k] \in Parts
    BY <2>1, SplitRest
  <2>6. PICK parts \in Parts : parts = s[k]
    BY <2>5
  <2>7. parts.rest \in Seq(Message) /\ parts.system \in Seq(Words)
    BY DEF Parts
  <2>8. /\ Flat(p)[k + 1] = Flat(p)[k] \o p[k + 1]
        /\ Flat(d)[k + 1] = Flat(d)[k] \o d[k + 1]
    BY <1>2, <2>1, FlatSteps
  <2>9. Flat(p)[k] \in Seq(Words) /\ Flat(d)[k] \in Seq(Words)
    BY <1>2, <2>1, FlatType
  <2>10. p[k + 1] = (IF IsSystem(m) THEN WordsIn(m) ELSE <<>>)
         /\ d[k + 1] = (IF IsSystem(m) THEN <<>> ELSE WordsIn(m))
    BY <1>1, <2>1 DEF OfSystem, OfOthers
  <2>11. Flat(p)[k] \o <<>> = Flat(p)[k] /\ Flat(d)[k] \o <<>> = Flat(d)[k]
    BY <2>9, ConcatEmptySeq
  <2> HIDE DEF m, s, p, d
  <2>12. CASE ~IsSystem(m)
    <3>1. /\ SplitNext(parts, m).rest = Append(parts.rest, m)
          /\ SplitNext(parts, m).system = parts.system
      BY <2>2, <2>12, OneMessage
    <3>2. Conversation(Append(parts.rest, m)) = Conversation(parts.rest) \o WordsIn(m)
      BY <2>2, <2>7, GrownConversation
    <3>3. p[k + 1] = <<>> /\ d[k + 1] = WordsIn(m)
      BY <2>10, <2>12, Zenon
    <3>4. s[k + 1].rest = Append(parts.rest, m) /\ s[k + 1].system = s[k].system
      BY <2>3, <2>6, <3>1, Zenon
    <3>5. Joined(ByText(s[k + 1].system)) = Flat(p)[k + 1]
      BY <2>4, <2>8, <2>11, <3>3, <3>4, Zenon
    <3>6. Conversation(s[k + 1].rest) = Flat(d)[k + 1]
      BY <2>4, <2>6, <2>8, <3>2, <3>3, <3>4, Zenon
    <3>7. Good(k + 1)
      BY <3>5, <3>6
    <3> HIDE DEF Good, N
    <3> QED
      BY <2>1, <3>7
  <2>13. CASE IsSystem(m)
    <3>1. m.calls = "none" /\ Word(m.calls) = <<>>
      BY <2>2, <2>13 DEF Speakable, IsSystem, Word
    <3>2. Word(m.text) \in Seq(Words)
      BY <2>2, WordTypes
    <3>3. WordsIn(m) = Word(m.text)
      <4>1. Word(m.text) \o <<>> = Word(m.text)
        BY <3>2, ConcatEmptySeq
      <4> QED
        BY <3>1, <4>1, Zenon DEF WordsIn
    <3>4. s[k + 1].rest = s[k].rest
      <4>1. SplitNext(parts, m).rest = parts.rest
        BY <2>2, <2>13, OneMessage
      <4> QED
        BY <2>3, <2>6, <4>1, Zenon
    <3>5. p[k + 1] = Word(m.text) /\ d[k + 1] = <<>>
      BY <2>10, <2>13, <3>3, Zenon
    <3>6. Joined(ByText(s[k + 1].system)) = Joined(ByText(s[k].system)) \o Word(m.text)
      <4>1. CASE HasText(m)
        <5>1. SplitNext(parts, m).system = Append(parts.system, m.text)
          BY <2>13, <4>1 DEF SplitNext, Parts
        <5>2. Joined(ByText(Append(parts.system, m.text))) =
                Joined(ByText(parts.system)) \o Word(m.text)
          BY <2>2, <2>7, GrownSystem
        <5> QED
          BY <2>3, <2>6, <5>1, <5>2, Zenon
      <4>2. CASE ~HasText(m)
        <5>1. SplitNext(parts, m) = parts
          BY <2>13, <4>2 DEF SplitNext
        <5>2. Word(m.text) = <<>>
          BY <4>2 DEF HasText, Word
        <5>3. Joined(ByText(s[k].system)) \o <<>> = Joined(ByText(s[k].system))
          BY <2>4, <2>11, Zenon
        <5> QED
          BY <2>3, <2>6, <5>1, <5>2, <5>3, Zenon
      <4> QED
        BY <4>1, <4>2
    <3>7. Joined(ByText(s[k + 1].system)) = Flat(p)[k + 1]
      BY <2>4, <2>8, <3>5, <3>6, Zenon
    <3>8. Conversation(s[k + 1].rest) = Flat(d)[k + 1]
      BY <2>4, <2>8, <2>11, <3>4, <3>5, Zenon
    <3>9. Good(k + 1)
      BY <3>7, <3>8
    <3> HIDE DEF Good, N
    <3> QED
      BY <2>1, <3>9
  <2> QED
    BY <2>12, <2>13
<1>5. \A k \in 0 .. N - 1 : k \in H => k + 1 \in H
  BY <1>4
<1>6. \A k \in 0 .. N : k \in H
  <2> HIDE DEF H, N
  <2> QED
    BY <1>1, <1>3, <1>5, UpTo
<1>7. Good(N)
  <2>1. N \in 0 .. N
    BY <1>1
  <2>2. N \in H
    <3> HIDE DEF H, N
    <3> QED
      BY <1>6, <2>1
  <2> QED
    BY <2>2
<1>8. Instructions(messages) = Flat(p)[N] /\ Dialogue(messages) = Flat(d)[N]
  <2>1. Instructions(messages) = Joined(p) /\ Dialogue(messages) = Joined(d)
    BY DEF Instructions, Dialogue, OfSystem, OfOthers
  <2> HIDE DEF p, d
  <2> QED
    BY <1>2, <2>1 DEF Joined
<1> QED
  BY <1>7, <1>8 DEF SplitSystem

\* A body says the words of its messages: in their order, or the system's first.
LEMMA BodyWords ==
  ASSUME NEW messages \in Seq(Message),
         \A i \in 1 .. Len(messages) : Speakable(messages[i]),
         NEW ep \in Endpoint, NEW q, q.messages = messages, Accepts(ep, q)
  PROVE  Said(Body(ep, q)) = IF ep.api = "openai" THEN Conversation(messages)
                             ELSE Instructions(messages) \o Dialogue(messages)
<1>1. Len(messages) \in Nat /\ DOMAIN messages = 1 .. Len(messages)
  BY LenProperties
<1>2. CASE ep.api = "openai"
  <2> DEFINE body == OpenAIBody(q)
  <2>1. /\ Body(ep, q) = body /\ body.system = <<>>
        /\ body.turns = [i \in DOMAIN messages |-> OpenAITurn(messages[i])]
    BY <1>2 DEF Body, OpenAIBody
  <2>2. \A i \in DOMAIN messages : TurnWords(OpenAITurn(messages[i])) = WordsIn(messages[i])
    BY <1>1, SaysItsMessage
  <2> HIDE DEF body
  <2>3. [i \in DOMAIN body.turns |-> TurnWords(body.turns[i])] = ByMessage(messages)
    BY <2>1, <2>2 DEF ByMessage
  <2>4. Joined([i \in DOMAIN body.system |-> Word(body.system[i])]) = <<>>
    <3>1. [i \in DOMAIN body.system |-> Word(body.system[i])] = <<>>
      BY <2>1
    <3> QED
      BY <3>1, JoinedFew, Zenon
  <2>5. Joined(ByMessage(messages)) \in Seq(Words)
    <3>1. ByMessage(messages) \in Parted
      BY MessageParts
    <3>2. Len(ByMessage(messages)) \in 0 .. Len(ByMessage(messages))
      BY <1>1, MessageParts
    <3> QED
      BY <3>1, <3>2, FlatType DEF Joined
  <2>6. Said(body) = <<>> \o Joined(ByMessage(messages))
    BY <2>3, <2>4, Zenon DEF Said
  <2>7. <<>> \o Joined(ByMessage(messages)) = Joined(ByMessage(messages))
    BY <2>5, ConcatEmptySeq
  <2>8. Said(body) = Conversation(messages)
    BY <2>6, <2>7, Zenon DEF Conversation, ByMessage
  <2> QED
    BY <1>2, <2>1, <2>8, Zenon
<1>3. CASE ep.api # "openai"
  <2> DEFINE body == AnthropicBody(q)
             rest == SplitSystem(messages).rest
             turns == [i \in DOMAIN rest |-> AnthropicTurn(rest[i])]
             at == CacheBreakpointIndex(rest)
  <2>1. /\ Body(ep, q) = body
        /\ body.system = SplitSystem(messages).system
        /\ body.turns = IF q.cache THEN MarkCachePrefix(turns, at) ELSE turns
    BY <1>3 DEF Body, AnthropicBody
  <2>2. \A i \in 1 .. Len(messages) : Translatable(messages[i])
    BY <1>1, <1>3 DEF Accepts, AnthropicAccepts
  <2>3. Len(messages) \in 0 .. Len(messages)
    BY <1>1
  <2>4. /\ SplitSystem(messages) \in Parts
        /\ \A i \in DOMAIN rest :
             /\ ~IsSystem(rest[i])
             /\ \E j \in 1 .. Len(messages) : rest[i] = messages[j]
    BY <2>3, SplitRest DEF SplitSystem
  <2>5. rest \in Seq(Message)
    BY <2>4 DEF Parts
  <2>6. Len(rest) \in Nat /\ DOMAIN rest = 1 .. Len(rest)
    BY <2>5, LenProperties
  <2>7. at \in 0 .. Len(rest)
    BY <2>5, BreakpointPlace
  <2> HIDE DEF rest, at
  <2>8. \A i \in 1 .. Len(rest) : /\ Speakable(rest[i]) /\ Translatable(rest[i])
                                  /\ ~IsSystem(rest[i])
    BY <2>2, <2>4, <2>6
  <2>9. \A i \in 1 .. Len(rest) : /\ AnthropicTurn(rest[i]) \in PlainTurn
                                  /\ TurnWords(AnthropicTurn(rest[i])) = WordsIn(rest[i])
    BY <2>8, TurnBlocks, SaysItsMessage DEF Speakable
  <2>10. /\ turns \in [1 .. Len(rest) -> PlainTurn]
         /\ \A i \in 1 .. Len(rest) : turns[i] = AnthropicTurn(rest[i])
    BY <2>6, <2>9
  <2> HIDE DEF turns, body
  <2>11. /\ DOMAIN body.turns = 1 .. Len(rest)
         /\ \A i \in 1 .. Len(rest) : TurnWords(body.turns[i]) = TurnWords(turns[i])
    <3>1. CASE body.turns = turns
      BY <2>10, <3>1
    <3>2. CASE body.turns = MarkCachePrefix(turns, at)
      <4>1. PICK n \in Nat : n = Len(rest)
        BY <2>6
      <4>2. turns \in [1 .. n -> PlainTurn] /\ at \in 0 .. n
        BY <2>7, <2>10, <4>1
      <4>3. /\ DOMAIN body.turns = 1 .. n
            /\ \A i \in 1 .. n : TurnWords(body.turns[i]) = TurnWords(turns[i])
        BY <3>2, <4>2, PrefixWords
      <4> QED
        BY <4>1, <4>3
    <3> QED
      BY <2>1, <3>1, <3>2
  <2>12. \A i \in 1 .. Len(rest) : TurnWords(body.turns[i]) = WordsIn(rest[i])
    BY <2>9, <2>10, <2>11
  <2>13. [i \in DOMAIN body.turns |-> TurnWords(body.turns[i])] = ByMessage(rest)
    BY <2>6, <2>11, <2>12 DEF ByMessage
  <2>14. Said(body) = Joined(ByText(body.system)) \o Joined(ByMessage(rest))
    BY <2>13, Zenon DEF Said, ByText
  <2>15. /\ Joined(ByText(SplitSystem(messages).system)) = Instructions(messages)
         /\ Conversation(rest) = Dialogue(messages)
    BY SplitWords DEF rest
  <2>16. Said(body) = Instructions(messages) \o Dialogue(messages)
    BY <2>1, <2>14, <2>15, Zenon DEF Conversation, ByMessage
  <2> QED
    BY <1>3, <2>1, <2>16, Zenon
<1> QED
  BY <1>2, <1>3

\* Two parts more.
LEMMA JoinedTwoMore ==
  ASSUME NEW N \in Nat, NEW parts \in Parted, NEW all \in Parted,
         Len(parts) = N, Len(all) = N + 2, \A i \in 1 .. N : all[i] = parts[i]
  PROVE  /\ Joined(parts) \in Seq(Words)
         /\ Joined(all) = (Joined(parts) \o all[N + 1]) \o all[N + 2]
<1>1. /\ N + 1 \in 1 .. Len(all) /\ N + 2 \in 1 .. Len(all)
      /\ (N + 1) - 1 = N /\ (N + 2) - 1 = N + 1
      /\ N <= Len(parts) /\ N <= Len(all) /\ N \in 0 .. Len(parts)
  OBVIOUS
<1>2. Flat(all)[N] = Flat(parts)[N]
  BY <1>1, FlatAgrees
<1>3. Flat(all)[N + 1] = Flat(all)[N] \o all[N + 1]
  BY <1>1, FlatSteps
<1>4. Flat(all)[N + 2] = Flat(all)[N + 1] \o all[N + 2]
  BY <1>1, FlatSteps
<1>5. Joined(parts) = Flat(parts)[N] /\ Joined(all) = Flat(all)[N + 2]
  BY DEF Joined
<1>6. Flat(parts)[N] \in Seq(Words)
  BY <1>1, FlatType
<1> QED
  BY <1>2, <1>3, <1>4, <1>5, <1>6, Zenon

\* The two messages of the handoff, and the conversation that comes before them.
LEMMA HandoffWhole ==
  ASSUME NEW messages \in Seq(Message)
  PROVE  LET N == Len(messages)
             all == HandoffMessages(messages)
         IN  /\ N \in Nat /\ all \in Seq(Message) /\ Len(all) = N + 2
             /\ \A i \in 1 .. N : /\ all[i].role = messages[i].role
                                  /\ all[i].text = messages[i].text
                                  /\ all[i].calls = messages[i].calls
             /\ all[N + 1] = Says("assistant", "analysis")
             /\ all[N + 2] = Says("user", "write")
<1> DEFINE N == Len(messages)
           all == HandoffMessages(messages)
<1>1. CASE messages = <<>>
  <2>1. Handoff \in Seq(Message) /\ Len(Handoff) = 2
    BY WordsAssumption DEF Handoff, Says, Message, Roles
  <2>2. Handoff[1] = Says("assistant", "analysis") /\ Handoff[2] = Says("user", "write")
    BY DEF Handoff
  <2>3. all = <<>> \o Handoff
    BY <1>1 DEF HandoffMessages
  <2>4. all = Handoff
    BY <2>1, <2>3, ConcatEmptySeq
  <2>5. N = 0
    BY <1>1
  <2> HIDE DEF all, N
  <2>6. \A i \in 1 .. N : FALSE
    BY <2>5
  <2>7. Len(all) = N + 2 /\ all[N + 1] = Handoff[1] /\ all[N + 2] = Handoff[2]
    BY <2>1, <2>4, <2>5
  <2>8. N \in Nat /\ all \in Seq(Message)
    BY <2>1, <2>4, <2>5
  <2> QED
    BY <2>2, <2>6, <2>7, <2>8 DEF all, N
<1>2. CASE messages # <<>>
  <2>1. /\ N \in Nat \ {0} /\ all \in Seq(Message) /\ Len(all) = N + 2
        /\ \A i \in 1 .. N - 1 : all[i] = messages[i]
        /\ all[N] = [messages[N] EXCEPT !.breakpoint = TRUE]
        /\ all[N + 1] = Says("assistant", "analysis")
        /\ all[N + 2] = Says("user", "write")
    BY <1>2, HandoffPlaces
  <2>2. messages[N] \in Message
    <3>1. N \in 1 .. N
      BY <2>1
    <3> QED
      BY <3>1, ElementOfSeq
  <2> HIDE DEF all
  <2>3. /\ all[N].role = messages[N].role /\ all[N].text = messages[N].text
        /\ all[N].calls = messages[N].calls
    BY <2>1, <2>2 DEF Message
  <2>4. \A i \in 1 .. N : i \in 1 .. N - 1 \/ i = N
    BY <2>1
  <2>5. \A i \in 1 .. N : /\ all[i].role = messages[i].role
                          /\ all[i].text = messages[i].text
                          /\ all[i].calls = messages[i].calls
    BY <2>1, <2>3, <2>4
  <2> QED
    BY <2>1, <2>5 DEF all
<1> QED
  BY <1>1, <1>2

LEMMA ConversationType ==
  ASSUME NEW messages \in Seq(Message)
  PROVE  /\ Conversation(messages) \in Seq(Words)
         /\ Instructions(messages) \o Dialogue(messages) \in Seq(Words)
<1>1. \A parts \in Parted : Joined(parts) \in Seq(Words)
  <2> SUFFICES ASSUME NEW parts \in Parted PROVE Joined(parts) \in Seq(Words)
    OBVIOUS
  <2>1. Len(parts) \in 0 .. Len(parts)
    <3>1. Len(parts) \in Nat
      BY LenProperties DEF Parted
    <3> QED
      BY <3>1
  <2> QED
    BY <2>1, FlatType DEF Joined
<1>2. /\ Joined(ByMessage(messages)) \in Seq(Words)
      /\ Joined(OfSystem(messages)) \in Seq(Words)
      /\ Joined(OfOthers(messages)) \in Seq(Words)
  BY <1>1, MessageParts
<1>3. Joined(OfSystem(messages)) \o Joined(OfOthers(messages)) \in Seq(Words)
  BY <1>2, ConcatProperties
<1> QED
  BY <1>2, <1>3, Zenon DEF Conversation, Instructions, Dialogue, ByMessage, OfSystem, OfOthers

\* The handoff adds its two words at the end, of the whole and of the dialogue.
LEMMA HandoffWords ==
  ASSUME NEW messages \in Seq(Message),
         \A i \in 1 .. Len(messages) : Speakable(messages[i])
  PROVE  LET all == HandoffMessages(messages)
             added == <<"analysis", "write">>
         IN  /\ all \in Seq(Message) /\ \A i \in 1 .. Len(all) : Speakable(all[i])
             /\ Conversation(all) = Conversation(messages) \o added
             /\ Instructions(all) \o Dialogue(all) =
                  (Instructions(messages) \o Dialogue(messages)) \o added
<1> DEFINE N == Len(messages)
           all == HandoffMessages(messages)
           one == Says("assistant", "analysis")
           two == Says("user", "write")
           a == <<"analysis">>
           w == <<"write">>
<1>1. /\ N \in Nat /\ all \in Seq(Message) /\ Len(all) = N + 2
      /\ \A i \in 1 .. N : /\ all[i].role = messages[i].role
                           /\ all[i].text = messages[i].text
                           /\ all[i].calls = messages[i].calls
      /\ all[N + 1] = one /\ all[N + 2] = two
  BY HandoffWhole
<1>2. DOMAIN all = 1 .. N + 2 /\ DOMAIN messages = 1 .. N
  BY <1>1, LenProperties
<1>3. /\ one \in Message /\ Speakable(one) /\ ~IsSystem(one)
      /\ two \in Message /\ Speakable(two) /\ ~IsSystem(two)
  BY WordsAssumption DEF Says, Message, Roles, IsSystem, Speakable
<1>4. a \in Seq(Words) /\ w \in Seq(Words) /\ a \o w = <<"analysis", "write">>
  <2>1. a \in Seq(Words) /\ w \in Seq(Words)
    BY WordsAssumption
  <2> QED
    BY <2>1, OneAndOne
<1>5. WordsIn(one) = a /\ WordsIn(two) = w
  <2>1. /\ Word("none") = <<>> /\ Word("analysis") = a /\ Word("write") = w
    BY DEF Word
  <2>2. a \o <<>> = a /\ w \o <<>> = w
    BY <1>4, ConcatEmptySeq
  <2>3. /\ one.text = "analysis" /\ one.calls = "none"
        /\ two.text = "write" /\ two.calls = "none"
    BY DEF Says
  <2> QED
    BY <2>1, <2>2, <2>3, Zenon DEF WordsIn
<1> HIDE DEF all, one, two, a, w, N
<1>6. \A i \in 1 .. N + 2 : i \in 1 .. N \/ i = N + 1 \/ i = N + 2
  BY <1>1
<1>7. /\ \A i \in 1 .. N : i \in 1 .. N + 2
      /\ N + 1 \in 1 .. N + 2 /\ N + 2 \in 1 .. N + 2
  BY <1>1
<1>8. \A i \in 1 .. N + 2 : Speakable(all[i])
  <2> SUFFICES ASSUME NEW i \in 1 .. N + 2 PROVE Speakable(all[i])
    OBVIOUS
  <2>1. all[i] \in Message
    BY <1>1, ElementOfSeq
  <2>2. CASE i \in 1 .. N
    <3>1. Speakable(messages[i])
      BY <2>2 DEF N
    <3> QED
      BY <1>1, <2>1, <2>2, <3>1 DEF Speakable
  <2> QED
    BY <1>1, <1>3, <1>6, <2>2
<1>9. \A i \in 1 .. N : /\ IsSystem(all[i]) <=> IsSystem(messages[i])
                        /\ WordsIn(all[i]) = WordsIn(messages[i])
  BY <1>1 DEF IsSystem, WordsIn
<1>10. /\ ByMessage(messages) \in Parted /\ Len(ByMessage(messages)) = N
       /\ OfSystem(messages) \in Parted /\ Len(OfSystem(messages)) = N
       /\ OfOthers(messages) \in Parted /\ Len(OfOthers(messages)) = N
       /\ ByMessage(all) \in Parted /\ Len(ByMessage(all)) = N + 2
       /\ OfSystem(all) \in Parted /\ Len(OfSystem(all)) = N + 2
       /\ OfOthers(all) \in Parted /\ Len(OfOthers(all)) = N + 2
  BY <1>1, MessageParts DEF N
<1>11. /\ \A i \in 1 .. N : ByMessage(all)[i] = ByMessage(messages)[i]
       /\ ByMessage(all)[N + 1] = a /\ ByMessage(all)[N + 2] = w
  BY <1>1, <1>2, <1>5, <1>7, <1>9 DEF ByMessage
<1>12. /\ \A i \in 1 .. N : OfSystem(all)[i] = OfSystem(messages)[i]
       /\ OfSystem(all)[N + 1] = <<>> /\ OfSystem(all)[N + 2] = <<>>
  BY <1>1, <1>2, <1>3, <1>7, <1>9 DEF OfSystem
<1>13. /\ \A i \in 1 .. N : OfOthers(all)[i] = OfOthers(messages)[i]
       /\ OfOthers(all)[N + 1] = a /\ OfOthers(all)[N + 2] = w
  BY <1>1, <1>2, <1>3, <1>5, <1>7, <1>9 DEF OfOthers
<1>14. /\ Conversation(all) = Joined(ByMessage(all))
       /\ Conversation(messages) = Joined(ByMessage(messages))
       /\ Instructions(all) = Joined(OfSystem(all))
       /\ Instructions(messages) = Joined(OfSystem(messages))
       /\ Dialogue(all) = Joined(OfOthers(all))
       /\ Dialogue(messages) = Joined(OfOthers(messages))
  BY DEF Conversation, Instructions, Dialogue, ByMessage, OfSystem, OfOthers
<1> DEFINE Associates == \A x, y, z \in Seq(Words) : (x \o y) \o z = x \o (y \o z)
<1>0. Associates
  BY ConcatAssociative
<1> HIDE DEF Associates
<1>15. /\ Conversation(messages) \in Seq(Words)
       /\ Conversation(all) = (Conversation(messages) \o a) \o w
  <2>1. /\ Joined(ByMessage(messages)) \in Seq(Words)
        /\ Joined(ByMessage(all)) =
             (Joined(ByMessage(messages)) \o ByMessage(all)[N + 1]) \o ByMessage(all)[N + 2]
    BY <1>1, <1>10, <1>11, JoinedTwoMore
  <2> QED
    BY <1>11, <1>14, <2>1, Zenon
<1>16. /\ Instructions(messages) \in Seq(Words)
       /\ Instructions(all) = (Instructions(messages) \o <<>>) \o <<>>
  BY <1>1, <1>10, <1>12, <1>14, JoinedTwoMore
<1>17. /\ Dialogue(messages) \in Seq(Words)
       /\ Dialogue(all) = (Dialogue(messages) \o a) \o w
  <2>1. /\ Joined(OfOthers(messages)) \in Seq(Words)
        /\ Joined(OfOthers(all)) =
             (Joined(OfOthers(messages)) \o OfOthers(all)[N + 1]) \o OfOthers(all)[N + 2]
    BY <1>1, <1>10, <1>13, JoinedTwoMore
  <2> QED
    BY <1>13, <1>14, <2>1, Zenon
<1>18. Conversation(all) = Conversation(messages) \o (a \o w)
  BY <1>0, <1>4, <1>15, Zenon DEF Associates
<1>19. Instructions(all) = Instructions(messages)
  BY <1>16, ConcatEmptySeq
<1>20. Dialogue(all) = Dialogue(messages) \o (a \o w)
  BY <1>0, <1>4, <1>17, Zenon DEF Associates
<1>21. Instructions(all) \o Dialogue(all) =
         (Instructions(messages) \o Dialogue(messages)) \o (a \o w)
  <2>1. a \o w \in Seq(Words)
    BY <1>4, ConcatProperties
  <2>2. (Instructions(messages) \o Dialogue(messages)) \o (a \o w) =
          Instructions(messages) \o (Dialogue(messages) \o (a \o w))
    <3>1. Instructions(messages) \in Seq(Words) /\ Dialogue(messages) \in Seq(Words)
      BY <1>16, <1>17
    <3> QED
      BY <1>0, <2>1, <3>1, Zenon DEF Associates
  <2> QED
    BY <1>19, <1>20, <2>2, Zenon
<1>22. \A i \in 1 .. Len(all) : Speakable(all[i])
  BY <1>1, <1>8
<1> QED
  BY <1>1, <1>4, <1>18, <1>21, <1>22, Zenon DEF all

\* The judge's prompt is the user's task, if there is one, and never empty.
LEMMA PromptIsTask ==
  ASSUME base \in Request
  PROVE  /\ JudgePrompt \in Words /\ JudgePrompt # "none"
         /\ \A i \in DOMAIN base.messages : TaskAt(i) => JudgePrompt = base.messages[i].text
<1> DEFINE messages == base.messages
           asked == {i \in DOMAIN messages : messages[i].role = "user" /\ messages[i].text # "none"}
<1>1. messages \in Seq(Message)
  BY DEF Request
<1>2. Len(messages) \in Nat /\ DOMAIN messages = 1 .. Len(messages)
  BY <1>1, LenProperties
<1>3. "prompt" \in Words /\ "prompt" # "none"
  BY WordsAssumption
<1>4. CASE asked = {}
  <2>1. LastUserContent(messages) = "none"
    BY <1>4 DEF LastUserContent
  <2>2. JudgePrompt = "prompt"
    BY <2>1 DEF JudgePrompt
  <2>3. \A i \in DOMAIN messages : ~TaskAt(i)
    BY <1>4 DEF TaskAt, UserSpeaks, HasText
  <2> QED
    BY <1>3, <2>2, <2>3
<1>5. CASE asked # {}
  <2>1. Max(asked) \in asked
    <3>1. asked \in SUBSET (0 .. Len(messages))
      BY <1>2
    <3> HIDE DEF asked
    <3> QED
      BY <1>2, <1>5, <3>1, GreatestNumber
  <2>2. LastUserContent(messages) = messages[Max(asked)].text
    BY <1>5 DEF LastUserContent
  <2>3. messages[Max(asked)].text \in Words /\ messages[Max(asked)].text # "none"
    <3>1. Max(asked) \in DOMAIN messages /\ messages[Max(asked)].text # "none"
      BY <2>1
    <3>2. messages[Max(asked)] \in Message
      <4> HIDE DEF asked
      <4> QED
        BY <1>1, <1>2, <3>1, ElementOfSeq
    <3> QED
      BY <3>1, <3>2 DEF Message
  <2>4. JudgePrompt = messages[Max(asked)].text
    BY <2>2, <2>3 DEF JudgePrompt
  <2>5. ASSUME NEW i \in DOMAIN messages, TaskAt(i) PROVE i = Max(asked)
    <3>1. i \in asked /\ \A j \in asked : j <= i
      BY <2>5 DEF TaskAt, UserSpeaks, HasText
    <3>2. \A j \in asked : j \in Nat
      BY <1>2
    <3>3. \A x \in asked : (\A y \in asked : x >= y) => x = i
      <4> HIDE DEF asked
      <4> QED
        BY <3>1, <3>2
    <3>4. \E x \in asked : \A y \in asked : x >= y
      <4> HIDE DEF asked
      <4> QED
        BY <3>1, <3>2
    <3> HIDE DEF asked
    <3> QED
      BY <3>3, <3>4 DEF Max
  <2> QED
    BY <2>3, <2>4, <2>5
<1> QED
  BY <1>4, <1>5

\* The judge reads its instruction, then the prompt.
LEMMA JudgeWords ==
  ASSUME base \in Request, NEW ep \in Endpoint, NEW instruction \in {"compare", "again"}
  PROVE  LET q == JudgeRequest(ep, instruction)
         IN  Accepts(ep, q) => Said(Body(ep, q)) = <<instruction, JudgePrompt>>
<1> DEFINE q == JudgeRequest(ep, instruction)
           first == Says("system", instruction)
           second == Says("user", JudgePrompt)
           messages == <<first, second>>
           a == <<instruction>>
           b == <<JudgePrompt>>
<1> SUFFICES ASSUME Accepts(ep, q) PROVE Said(Body(ep, q)) = <<instruction, JudgePrompt>>
  OBVIOUS
<1>1. instruction \in Words /\ instruction # "none" /\ JudgePrompt \in Words /\ JudgePrompt # "none"
  BY WordsAssumption, PromptIsTask
<1>2. /\ first \in Message /\ Speakable(first) /\ IsSystem(first)
      /\ second \in Message /\ Speakable(second) /\ ~IsSystem(second)
  BY <1>1, WordsAssumption DEF Says, Message, Roles, Speakable, IsSystem
<1>3. a \in Seq(Words) /\ b \in Seq(Words) /\ <<>> \in Seq(Words)
  BY <1>1, EmptySeq
<1>4. WordsIn(first) = a /\ WordsIn(second) = b
  <2>1. Word("none") = <<>> /\ Word(instruction) = a /\ Word(JudgePrompt) = b
    BY <1>1 DEF Word
  <2>2. a \o <<>> = a /\ b \o <<>> = b
    BY <1>3, ConcatEmptySeq
  <2>3. /\ first.text = instruction /\ first.calls = "none"
        /\ second.text = JudgePrompt /\ second.calls = "none"
    BY DEF Says
  <2> QED
    BY <2>1, <2>2, <2>3, Zenon DEF WordsIn
<1>5. a \o b = <<instruction, JudgePrompt>>
  BY OneAndOne
<1>6. q.messages = messages
  BY DEF JudgeRequest
<1> HIDE DEF q, first, second, a, b
<1>7. messages \in Seq(Message) /\ \A i \in 1 .. Len(messages) : Speakable(messages[i])
  BY <1>2
<1>8. DOMAIN messages = {1, 2} /\ messages[1] = first /\ messages[2] = second
  OBVIOUS
<1>9. ByMessage(messages) = <<a, b>>
  BY <1>4 DEF ByMessage
<1>10. OfSystem(messages) = <<a, <<>>>>
  BY <1>2, <1>4 DEF OfSystem
<1>11. OfOthers(messages) = <<<<>>, b>>
  BY <1>2, <1>4 DEF OfOthers
<1>12. Conversation(messages) = a \o b
  <2>1. Conversation(messages) = Joined(ByMessage(messages))
    BY DEF Conversation, ByMessage
  <2>2. Joined(<<a, b>>) = a \o b
    BY <1>3, JoinedFew
  <2> QED
    BY <1>9, <2>1, <2>2, Zenon
<1>13. Instructions(messages) = a
  <2>1. Instructions(messages) = Joined(OfSystem(messages))
    BY DEF Instructions, OfSystem
  <2>2. Joined(<<a, <<>>>>) = a \o <<>>
    BY <1>3, JoinedFew
  <2>3. a \o <<>> = a
    BY <1>3, ConcatEmptySeq
  <2> QED
    BY <1>10, <2>1, <2>2, <2>3, Zenon
<1>14. Dialogue(messages) = b
  <2>1. Dialogue(messages) = Joined(OfOthers(messages))
    BY DEF Dialogue, OfOthers
  <2>2. Joined(<<<<>>, b>>) = <<>> \o b
    BY <1>3, JoinedFew
  <2>3. <<>> \o b = b
    BY <1>3, ConcatEmptySeq
  <2> QED
    BY <1>11, <2>1, <2>2, <2>3, Zenon
<1> HIDE DEF messages
<1>15. Said(Body(ep, q)) = IF ep.api = "openai" THEN Conversation(messages)
                           ELSE Instructions(messages) \o Dialogue(messages)
  BY <1>6, <1>7, BodyWords
<1> QED
  BY <1>5, <1>12, <1>13, <1>14, <1>15, Zenon

-----------------------------------------------------------------------------
(* The calls of a turn.                                                     *)

Callers == {"speculative", "panel", "retry", "final"}

\* What the four callers ask: the conversation, with the handoff or without it.
LEMMA AskedRequest ==
  ASSUME base \in Request, setup.primary \in Endpoint, NEW who \in Callers,
         NEW ep \in Endpoint, who = "final" => ep = setup.primary,
         NEW q \in Asked(who, ep)
  PROVE  /\ q.messages = IF who = "final" THEN HandoffMessages(base.messages)
                         ELSE base.messages
         /\ q.model = ep.model /\ q.cache = ep.cache
<1>1. /\ WithEndpoint(base, ep).messages = base.messages
      /\ WithEndpoint(base, ep).model = ep.model
      /\ WithEndpoint(base, ep).cache = ep.cache
      /\ WithEndpoint(base, ep) \in Request
  <2>1. WithEndpoint(base, ep) \in Request
    BY EndpointRequest
  <2> QED
    BY <2>1 DEF WithEndpoint, Request
<1>2. /\ MemberRequest(ep).messages = base.messages
      /\ MemberRequest(ep).model = ep.model
      /\ MemberRequest(ep).cache = ep.cache
      /\ MemberRequest(ep) \in Request
  <2>1. MemberRequest(ep) \in Request
    BY EndpointRequest DEF MemberRequest
  <2> QED
    BY <1>1, <2>1 DEF MemberRequest, WithoutTools, Request
<1>3. /\ RetryRequest(ep).messages = base.messages
      /\ RetryRequest(ep).model = ep.model
      /\ RetryRequest(ep).cache = ep.cache
  BY <1>2 DEF RetryRequest, Request
<1>4. ASSUME ep = setup.primary
      PROVE  /\ FinalRequest.messages = HandoffMessages(base.messages)
             /\ FinalRequest.model = ep.model
             /\ FinalRequest.cache = ep.cache
  BY <1>2, <1>4 DEF FinalRequest, MemberRequest, Request
<1> QED
  BY <1>1, <1>2, <1>3, <1>4 DEF Asked, Callers

\* A conversation that Anthropic's client took has nothing that cannot be
\* translated, handed off or not.
LEMMA AcceptedClean ==
  ASSUME base \in Requests, NEW q, AnthropicAccepts(q), Markable(base.messages),
         q.messages \in {base.messages, HandoffMessages(base.messages)}
  PROVE  CleanMessages(base.messages)
<1> DEFINE messages == base.messages
           N == Len(messages)
<1>1. messages \in Seq(Message) /\ \A i \in DOMAIN messages : ~messages[i].breakpoint
  BY RequestsAssumption DEF Request
<1>2. messages # <<>>
  BY DEF Markable
<1>3. N \in Nat \ {0} /\ DOMAIN messages = 1 .. N
  BY <1>1, <1>2, EmptySeq, LenProperties
<1>4. CASE q.messages = messages
  BY <1>1, <1>4 DEF AnthropicAccepts, CleanMessages
<1>5. CASE q.messages = HandoffMessages(messages)
  <2> DEFINE all == HandoffMessages(messages)
  <2>1. /\ all \in Seq(Message) /\ Len(all) = N + 2
        /\ \A i \in 1 .. N - 1 : all[i] = messages[i]
        /\ all[N] = [messages[N] EXCEPT !.breakpoint = TRUE]
    BY <1>1, <1>2, HandoffPlaces
  <2>2. DOMAIN all = 1 .. N + 2
    BY <2>1, LenProperties
  <2>3. \A i \in 1 .. N + 2 : Translatable(all[i])
    BY <1>5, <2>2 DEF AnthropicAccepts
  <2> HIDE DEF all
  <2>4. ASSUME NEW i \in 1 .. N PROVE Translatable(messages[i])
    <3>1. i \in 1 .. N + 2 /\ (i \in 1 .. N - 1 \/ i = N)
      BY <1>3
    <3>2. messages[i] \in Message
      BY <1>1, ElementOfSeq
    <3>3. CASE i \in 1 .. N - 1
      BY <2>1, <2>3, <3>1, <3>3
    <3>4. CASE i = N
      <4>1. all[N].role = messages[N].role /\ all[N].calls = messages[N].calls
        BY <2>1, <3>2, <3>4 DEF Message
      <4> QED
        BY <2>3, <3>1, <3>4, <4>1 DEF Translatable
    <3> QED
      BY <3>1, <3>3, <3>4
  <2> QED
    BY <1>1, <1>3, <2>4 DEF CleanMessages
<1> QED
  BY <1>4, <1>5

\* A step that makes a call keeps what is known of the calls.
LEMMA CallSent ==
  ASSUME SentInv, UNCHANGED <<base, setup>>,
         NEW who \in Callers \cup {"judge"}, NEW ep \in Endpoint,
         NEW q \in Asked(who, ep), Call(who, ep, q),
         who = "final" => ep = setup.primary
  PROVE  SentInv'
<1> DEFINE new == [who |-> who, ep |-> ep, refused |-> ~Accepts(ep, q),
                   body |-> IF Accepts(ep, q) THEN Body(ep, q) ELSE Nil]
           Good(c) ==
             /\ c.who \in {"speculative", "panel", "retry", "judge", "final"}
             /\ c.ep \in Endpoint
             /\ c.who = "final" => c.ep = setup.primary
             /\ ~c.refused =>
                  \E r \in Asked(c.who, c.ep) : Accepts(c.ep, r) /\ c.body = Body(c.ep, r)
<1>1. \A w, e : Asked(w, e)' = Asked(w, e)
  BY DEF Asked, MemberRequest, RetryRequest, FinalRequest, JudgeRequest, JudgePrompt
<1>2. sent' = sent \cup {new}
  BY DEF Call
<1>3. \A c \in sent : Good(c)
  BY DEF SentInv
<1>4. Good(new)
  <2>1. /\ new.who = who /\ new.ep = ep /\ new.refused = ~Accepts(ep, q)
        /\ ~new.refused => Accepts(ep, q) /\ new.body = Body(ep, q)
    OBVIOUS
  <2>2. who \in {"speculative", "panel", "retry", "judge", "final"}
    BY DEF Callers
  <2> HIDE DEF new
  <2> QED
    BY <2>1, <2>2
<1> HIDE DEF new, Good
<1>5. \A c \in sent' : Good(c)
  BY <1>2, <1>3, <1>4
<1> QED
  BY <1>1, <1>5 DEF SentInv, Good

\* Every step keeps what is known of the calls.
LEMMA SentStep ==
  ASSUME IInv, [Next]_vars
  PROVE  SentInv'
<1>1. /\ SentInv /\ setup.primary \in Endpoint /\ setup.judge \in Endpoint
      /\ \A m \in DOMAIN member : setup.panel[m] \in Endpoint
  BY Given, SetupsAssumption DEF IInv, TurnInv
<1>2. CASE Speculate
  <2>1. /\ Call("speculative", setup.primary, WithEndpoint(base, setup.primary))
        /\ UNCHANGED <<base, setup>>
    BY <1>2 DEF Speculate
  <2>2. WithEndpoint(base, setup.primary) \in Asked("speculative", setup.primary)
    BY DEF Asked
  <2> QED
    BY <1>1, <2>1, <2>2, CallSent DEF Callers
<1>3. ASSUME NEW m \in DOMAIN member, CallMember(m) \/ RetryMember(m) PROVE SentInv'
  <2>1. PICK ep \in Endpoint : ep = setup.panel[m]
    BY <1>1
  <2>2. UNCHANGED <<base, setup>>
    BY <1>3 DEF CallMember, RetryMember
  <2>3. MemberRequest(ep) \in Asked("panel", ep) /\ RetryRequest(ep) \in Asked("retry", ep)
    BY DEF Asked
  <2>4. CASE CallMember(m)
    <3>1. Call("panel", ep, MemberRequest(ep))
      BY <2>1, <2>4 DEF CallMember
    <3> QED
      BY <1>1, <2>2, <2>3, <3>1, CallSent DEF Callers
  <2>5. CASE RetryMember(m)
    <3>1. Call("retry", ep, RetryRequest(ep))
      BY <2>1, <2>5 DEF RetryMember
    <3> QED
      BY <1>1, <2>2, <2>3, <3>1, CallSent DEF Callers
  <2> QED
    BY <1>3, <2>4, <2>5
<1>4. CASE (\E m \in DOMAIN member : MemberEnds(m)) \/ Degrade \/ UNCHANGED vars
  <2>1. UNCHANGED <<base, setup, sent>>
    BY <1>4 DEF MemberEnds, Degrade, vars
  <2>2. \A w, e : Asked(w, e)' = Asked(w, e)
    BY <2>1 DEF Asked, MemberRequest, RetryRequest, FinalRequest, JudgeRequest, JudgePrompt
  <2> QED
    BY <1>1, <2>1, <2>2 DEF SentInv
<1>5. CASE Judge \/ RetryJudge
  <2>1. PICK instruction \in {"compare", "again"} :
          Call("judge", setup.judge, JudgeRequest(setup.judge, instruction))
    BY <1>5 DEF Judge, RetryJudge
  <2>2. UNCHANGED <<base, setup>>
    BY <1>5 DEF Judge, RetryJudge
  <2>3. JudgeRequest(setup.judge, instruction) \in Asked("judge", setup.judge)
    BY DEF Asked
  <2> QED
    BY <1>1, <2>1, <2>2, <2>3, CallSent DEF Callers
<1>6. CASE Final
  <2>1. Call("final", setup.primary, FinalRequest) /\ UNCHANGED <<base, setup>>
    BY <1>6 DEF Final
  <2>2. FinalRequest \in Asked("final", setup.primary)
    BY DEF Asked
  <2> QED
    BY <1>1, <2>1, <2>2, CallSent DEF Callers
<1> QED
  BY <1>2, <1>3, <1>4, <1>5, <1>6 DEF Next, Ended

\* What a turn knows at each point, and which request is behind each call, for
\* every conversation and configuration.
THEOREM Invariance == Spec => []IInv
<1>1. Init => IInv
  BY DEF Init, IInv, TurnInv, SentInv, NoLateRefusal
<1>2. IInv /\ [Next]_vars => IInv'
  BY Step, SentStep DEF IInv
<1> QED
  BY <1>1, <1>2, PTL DEF Spec

\* No turn is lost to a request the sidecar shapes itself, once its speculative
\* request was accepted (judge.go:89, handoff.go:16, pipeline.go:214).
THEOREM NeverRefusedLate == Spec => []NoLateRefusal
<1>1. IInv => NoLateRefusal
  BY DEF IInv, TurnInv
<1> QED
  BY <1>1, Invariance, PTL

\* Two calls of a turn that cache, for one model and with the same tools, have
\* the same prefix, and it is the whole conversation without the handoff
\* (pipeline.go:250, handoff.go:22, anthropic.go:265, 275).
THEOREM PrefixAlwaysShared == Spec => []PrefixShared
<1>1. ASSUME IInv, NEW c \in sent, CacheAware(c), c.who # "judge", Markable(base.messages)
      PROVE  /\ CleanMessages(base.messages)
             /\ Prefix(c.body) =
                  [model |-> c.ep.model, tools |-> c.body.tools,
                   system |-> Before(base.messages).system,
                   turns |-> SharedTurns(base.messages)]
  <2>1. /\ base \in Request /\ base \in Requests /\ setup.primary \in Endpoint
    BY <1>1, Given DEF IInv, TurnInv
  <2>2. /\ c.who \in Callers /\ c.ep \in Endpoint
        /\ c.who = "final" => c.ep = setup.primary
        /\ \E q \in Asked(c.who, c.ep) : Accepts(c.ep, q) /\ c.body = Body(c.ep, q)
    BY <1>1 DEF IInv, SentInv, CacheAware, Callers
  <2>3. PICK q \in Asked(c.who, c.ep) : Accepts(c.ep, q) /\ c.body = Body(c.ep, q)
    BY <2>2
  <2>4. /\ q.messages \in {base.messages, HandoffMessages(base.messages)}
        /\ q.model = c.ep.model /\ q.cache = c.ep.cache
    BY <2>1, <2>2, <2>3, AskedRequest
  <2>5. c.ep.api = "anthropic" /\ c.ep.cache = TRUE
    BY <1>1, <2>2 DEF CacheAware, Endpoint
  <2>6. AnthropicAccepts(q) /\ c.body = AnthropicBody(q)
    BY <2>2, <2>3, <2>5 DEF Accepts, Body
  <2>7. CleanMessages(base.messages)
    BY <1>1, <2>1, <2>4, <2>6, AcceptedClean
  <2>8. c.body.tools = ToolsSent(q)
    BY <2>6 DEF AnthropicBody
  <2>9. q.cache = TRUE
    BY <2>4, <2>5
  <2>10. Prefix(AnthropicBody(q)) =
           [model |-> q.model, tools |-> ToolsSent(q),
            system |-> Before(base.messages).system, turns |-> SharedTurns(base.messages)]
    <3>1. PICK messages : messages = base.messages
      OBVIOUS
    <3>2. /\ CleanMessages(messages) /\ Markable(messages)
          /\ q.messages \in {messages, HandoffMessages(messages)}
      BY <1>1, <2>4, <2>7, <3>1
    <3>3. Prefix(AnthropicBody(q)) =
           [model |-> q.model, tools |-> ToolsSent(q),
            system |-> Before(messages).system, turns |-> SharedTurns(messages)]
      <4>1. PICK all \in {messages, HandoffMessages(messages)} : q.messages = all
        BY <3>2
      <4> QED
        BY <2>9, <3>2, <4>1, PrefixOfBody
    <3> QED
      BY <3>1, <3>3
  <2> QED
    BY <2>4, <2>6, <2>7, <2>8, <2>10
<1>2. IInv => PrefixShared
  <2> SUFFICES ASSUME IInv, NEW c \in sent, NEW d \in sent,
                      CacheAware(c), CacheAware(d), c.who # "judge", d.who # "judge",
                      c.ep.model = d.ep.model, c.body.tools = d.body.tools,
                      Markable(base.messages)
               PROVE  /\ Prefix(c.body) = Prefix(d.body)
                      /\ DOMAIN Prefix(c.body).turns =
                           1 .. Cardinality({i \in DOMAIN base.messages :
                                               ~IsSystem(base.messages[i])})
    BY DEF PrefixShared
  <2>1. Prefix(c.body) = Prefix(d.body)
    <3>1. Prefix(c.body) =
            [model |-> c.ep.model, tools |-> c.body.tools,
             system |-> Before(base.messages).system, turns |-> SharedTurns(base.messages)]
      BY <1>1
    <3>2. Prefix(d.body) =
            [model |-> d.ep.model, tools |-> d.body.tools,
             system |-> Before(base.messages).system, turns |-> SharedTurns(base.messages)]
      BY <1>1
    <3> QED
      BY <3>1, <3>2
  <2>2. Prefix(c.body).turns = SharedTurns(base.messages) /\ CleanMessages(base.messages)
    <3>1. /\ CleanMessages(base.messages)
          /\ Prefix(c.body) =
               [model |-> c.ep.model, tools |-> c.body.tools,
                system |-> Before(base.messages).system, turns |-> SharedTurns(base.messages)]
      BY <1>1
    <3> QED
      BY <3>1
  <2>3. DOMAIN SharedTurns(base.messages) =
          1 .. Cardinality({i \in DOMAIN base.messages : ~IsSystem(base.messages[i])})
    BY <2>2, WholePrefix
  <2> QED
    BY <2>1, <2>2, <2>3
<1> QED
  BY <1>2, Invariance, PTL

\* Every model that answers reads the whole conversation, each word of it once and
\* in its place, and the judge reads the user's task (anthropic.go:158, 358;
\* openai.go:156; handoff.go:16; judge.go:147).
THEOREM WholeConversationAlways == Spec => []WholeConversation
<1>1. ASSUME IInv
      PROVE  /\ base \in Request /\ setup.primary \in Endpoint
             /\ base.messages \in Seq(Message)
             /\ \A i \in 1 .. Len(base.messages) : Speakable(base.messages[i])
  <2>1. base \in Request /\ base \in Requests /\ setup.primary \in Endpoint
    BY <1>1, Given DEF IInv, TurnInv
  <2>2. base.messages \in Seq(Message)
    BY <2>1 DEF Request
  <2>3. DOMAIN base.messages = 1 .. Len(base.messages)
    BY <2>2, LenProperties
  <2>4. ASSUME NEW i \in 1 .. Len(base.messages) PROVE Speakable(base.messages[i])
    <3>1. base.messages[i] \in Message
      BY <2>2, ElementOfSeq
    <3> QED
      BY <2>1, <2>3, <3>1, RequestsAssumption DEF Speakable
  <2> QED
    BY <2>1, <2>2, <2>4
<1>2. ASSUME IInv, NEW c \in sent, ~c.refused, c.who # "judge"
      PROVE  Said(c.body) =
               (IF c.ep.api = "openai" THEN Conversation(base.messages)
                ELSE Instructions(base.messages) \o Dialogue(base.messages))
               \o (IF c.who = "final" THEN <<"analysis", "write">> ELSE <<>>)
  <2>1. /\ c.who \in Callers /\ c.ep \in Endpoint
        /\ c.who = "final" => c.ep = setup.primary
        /\ \E q \in Asked(c.who, c.ep) : Accepts(c.ep, q) /\ c.body = Body(c.ep, q)
    BY <1>2 DEF IInv, SentInv, Callers
  <2>2. PICK q \in Asked(c.who, c.ep) : Accepts(c.ep, q) /\ c.body = Body(c.ep, q)
    BY <2>1
  <2>3. q.messages = IF c.who = "final" THEN HandoffMessages(base.messages) ELSE base.messages
    BY <1>1, <1>2, <2>1, AskedRequest
  <2>4. PICK messages \in Seq(Message) : messages = base.messages
    BY <1>1, <1>2
  <2>5. \A i \in 1 .. Len(messages) : Speakable(messages[i])
    BY <1>1, <1>2, <2>4
  <2>6. CASE c.who = "final"
    <3>1. PICK all : all = HandoffMessages(messages)
      OBVIOUS
    <3>2. /\ all \in Seq(Message) /\ \A i \in 1 .. Len(all) : Speakable(all[i])
          /\ Conversation(all) = Conversation(messages) \o <<"analysis", "write">>
          /\ Instructions(all) \o Dialogue(all) =
               (Instructions(messages) \o Dialogue(messages)) \o <<"analysis", "write">>
      BY <2>5, <3>1, HandoffWords
    <3>3. q.messages = all
      BY <2>3, <2>4, <2>6, <3>1
    <3>4. Said(Body(c.ep, q)) = IF c.ep.api = "openai" THEN Conversation(all)
                                ELSE Instructions(all) \o Dialogue(all)
      BY <2>1, <2>2, <3>2, <3>3, BodyWords
    <3> QED
      BY <2>2, <2>4, <2>6, <3>2, <3>4, Zenon
  <2>7. CASE c.who # "final"
    <3>1. q.messages = messages
      BY <2>3, <2>4, <2>7
    <3>2. Said(Body(c.ep, q)) = IF c.ep.api = "openai" THEN Conversation(messages)
                                ELSE Instructions(messages) \o Dialogue(messages)
      BY <2>1, <2>2, <2>5, <3>1, BodyWords
    <3>3. /\ Conversation(messages) \in Seq(Words)
          /\ Instructions(messages) \o Dialogue(messages) \in Seq(Words)
      BY ConversationType
    <3>4. \A s \in Seq(Words) : s \o <<>> = s
      BY ConcatEmptySeq
    <3> QED
      BY <2>2, <2>4, <2>7, <3>2, <3>3, <3>4, Zenon
  <2> QED
    BY <2>6, <2>7
<1>3. ASSUME IInv, NEW c \in sent, ~c.refused, c.who = "judge",
             NEW i \in DOMAIN base.messages, TaskAt(i)
      PROVE  Last(Said(c.body)) = base.messages[i].text
  <2>1. /\ c.ep \in Endpoint
        /\ \E q \in Asked("judge", c.ep) : Accepts(c.ep, q) /\ c.body = Body(c.ep, q)
    BY <1>3 DEF IInv, SentInv
  <2>2. PICK instruction \in {"compare", "again"} :
          /\ Accepts(c.ep, JudgeRequest(c.ep, instruction))
          /\ c.body = Body(c.ep, JudgeRequest(c.ep, instruction))
    BY <2>1 DEF Asked
  <2>3. Said(c.body) = <<instruction, JudgePrompt>>
    BY <1>1, <1>3, <2>1, <2>2, JudgeWords
  <2>4. Last(Said(c.body)) = JudgePrompt
    BY <2>3 DEF Last
  <2>5. JudgePrompt = base.messages[i].text
    BY <1>1, <1>3, PromptIsTask
  <2> QED
    BY <2>4, <2>5
<1>4. IInv => WholeConversation
  BY <1>2, <1>3, Zenon DEF WholeConversation
<1> QED
  BY <1>4, Invariance, PTL
=============================================================================
