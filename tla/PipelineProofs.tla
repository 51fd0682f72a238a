--------------------------- MODULE PipelineProofs ---------------------------
(***************************************************************************)
(* Theorems about Pipeline, for every panel, every quorum, every registry   *)
(* and every bound.                                                         *)
(***************************************************************************)
EXTENDS Pipeline, FiniteSetTheorems, SequenceTheorems, TLAPS

Items == {"spec", "call", "final", "aside", "finish", "done"}

\* What emitBuffered and Done write.
Parts == {"spec", "call", "finish", "done"}

\* A buffered response is a sequence of text and tool-call items that ends in
\* the two frames of SendFinish.
LEMMA BufferedShape ==
  ASSUME NEW resp \in Responses
  PROVE  /\ Buffered(resp) \in Seq(Parts)
         /\ Len(Buffered(resp)) \in Nat /\ Len(Buffered(resp)) >= 2
         /\ \A i \in 1 .. Len(Buffered(resp)) :
              /\ Buffered(resp)[i] \in Parts
              /\ Buffered(resp)[i] = "done" <=> i = Len(Buffered(resp))
              /\ Buffered(resp)[i] = "finish" <=> i = Len(Buffered(resp)) - 1
<1> DEFINE n == (IF resp.text THEN 1 ELSE 0) + resp.calls + 2
           f == [i \in 1 .. n |-> IF i = n THEN "done"
                                  ELSE IF i = n - 1 THEN "finish"
                                  ELSE IF i = 1 /\ resp.text THEN "spec" ELSE "call"]
<1>1. n \in Nat /\ n >= 2
  BY BoundAssumption DEF Responses
<1>2. Buffered(resp) = f
  BY DEF Buffered
<1> HIDE DEF n
<1>3. f \in [1 .. n -> Parts]
  BY DEF Parts
<1>4. f \in Seq(Parts) /\ Len(f) = n
  BY <1>1, <1>3
<1>5. \A i \in 1 .. n : f[i] = "done" <=> i = n
  OBVIOUS
<1>6. \A i \in 1 .. n : f[i] = "finish" <=> i = n - 1
  BY <1>1
<1> HIDE DEF f
<1> QED
  BY <1>1, <1>2, <1>3, <1>4, <1>5, <1>6

\* Every decision Run builds is one of Decisions.
LEMMA DecisionType ==
  /\ Fallbacks \subseteq Reasons
  /\ \A c \in Fallbacks \cup {"tool_call"} : EmitFailed[c] \in Reasons
  /\ {"none", "primary_provider_missing", "speculative_failed"} \subseteq Reasons
  /\ \A kind \in Kinds, reason \in Reasons : Fresh(kind, reason) \in Decisions
  /\ \A d \in Decisions :
       /\ [d EXCEPT !.panel = TRUE] \in Decisions
       /\ [d EXCEPT !.analysis = TRUE] \in Decisions
       /\ [d EXCEPT !.kind = "fusion"] \in Decisions
       /\ [d EXCEPT !.kind = "failed",
                    !.reason = "primary_final_failed_midstream"] \in Decisions
<1>1. /\ Fallbacks \subseteq Reasons
      /\ \A c \in Fallbacks \cup {"tool_call"} : EmitFailed[c] \in Reasons
      /\ {"none", "primary_provider_missing", "speculative_failed",
          "primary_final_failed_midstream"} \subseteq Reasons
  BY Zenon DEF Reasons
<1>2. {"fusion", "failed"} \subseteq Kinds
  BY DEF Kinds
<1> QED
  BY <1>1, <1>2 DEF Decisions, Fresh

\* Every record a panel goroutine leaves is one of Members.
LEMMA MemberType ==
  /\ {Idle, Asked, Unregistered} \subseteq Members
  /\ \A x \in Members :
       /\ [x EXCEPT !.attempts = 2] \in Members
       /\ \A got \in {"none", "empty", "text"},
             err \in {"none", "upstream", "deadline", "canceled"} :
            [x EXCEPT !.at = "done", !.got = got, !.err = err] \in Members
<1>1. Idle \in Members
  BY DEF Members, Idle
<1>2. Asked \in Members
  BY DEF Members, Asked
<1>3. Unregistered \in Members
  BY <1>1 DEF Members, Unregistered
<1>4. ASSUME NEW x \in Members PROVE [x EXCEPT !.attempts = 2] \in Members
  BY DEF Members
<1>5. ASSUME NEW x \in Members, NEW got \in {"none", "empty", "text"},
             NEW err \in {"none", "upstream", "deadline", "canceled"}
      PROVE  [x EXCEPT !.at = "done", !.got = got, !.err = err] \in Members
  BY DEF Members
<1> QED
  BY <1>1, <1>2, <1>3, <1>4, <1>5

\* The types hold initially, and every step keeps them.
LEMMA TypeInit == Init => TypeOK
<1> SUFFICES ASSUME Init PROVE TypeOK
  OBVIOUS
<1>1. NoResponse \in Responses
  BY BoundAssumption DEF NoResponse, Responses
<1>2. Fresh("none", "none") \in Decisions
  BY DecisionType DEF Kinds
<1>3. <<>> \in Seq(Parts) /\ <<>> \in Seq(Items)
  OBVIOUS
<1>4. [m \in Panel |-> Idle] \in [Panel -> Members]
  BY MemberType
<1>5. 0 \in Nat
  OBVIOUS
<1> QED
  BY <1>1, <1>2, <1>3, <1>4, <1>5, Zenon DEF Init, TypeOK, Parts, Items

\* What the shared pieces of the actions leave has the right types.
EmitTyped ==
  /\ pc' \in {"emit", "returned"} /\ dec' \in Decisions
  /\ cause' \in Fallbacks \cup {"tool_call", "none"}
  /\ todo' \in Seq(Parts)

\* What emitBuffered has to write is a sequence of items.
LEMMA EmitType ==
  ASSUME NEW why \in Fallbacks \cup {"tool_call"}, NEW resp \in Responses, Emit(why, resp)
  PROVE  /\ pc' = "emit" /\ cause' \in Fallbacks \cup {"tool_call", "none"}
         /\ todo' \in Seq(Parts)
BY BufferedShape DEF Emit

\* A failed final stream leaves a decision, a cause and a rest to write of their types.
LEMMA StreamFailedType ==
  ASSUME TypeOK, NEW saw \in BOOLEAN, StreamFailed(saw), UNCHANGED spec
  PROVE  EmitTyped
<1>1. CASE saw
  BY <1>1, DecisionType DEF TypeOK, StreamFailed, Return, EmitTyped, Parts
<1>2. CASE ~saw
  <2>1. Emit("primary_final_failed", spec) /\ UNCHANGED dec
    BY <1>2 DEF StreamFailed
  <2> QED
    BY <2>1, EmitType DEF TypeOK, EmitTyped, Fallbacks
<1> QED
  BY <1>1, <1>2

\* A write leaves a wire of items behind, whether it is taken or refused.
LEMMA SinkType ==
  ASSUME TypeOK, NEW item \in Items, Accept(item) \/ Refuse
  PROVE  wire' \in Seq(Items) /\ sinkErr' \in BOOLEAN
<1>1. wire \in Seq(Items) /\ sinkErr \in BOOLEAN
  BY DEF TypeOK, Items
<1>2. CASE Accept(item)
  BY <1>1, <1>2, AppendProperties DEF Accept
<1>3. CASE Refuse
  BY <1>1, <1>3 DEF Refuse
<1> QED
  BY <1>2, <1>3

\* Taking the first of the items to write leaves a rest and a wire of items.
LEMMA WriteType ==
  ASSUME TypeOK, todo # <<>>, Accept(Head(todo)), todo' = Tail(todo)
  PROVE  todo' \in Seq(Parts) /\ wire' \in Seq(Items)
<1>1. todo \in Seq(Parts)
  BY DEF TypeOK, Parts
<1>2. Head(todo) \in Items /\ Tail(todo) \in Seq(Parts)
  BY <1>1, HeadTailProperties DEF Items, Parts
<1> QED
  BY <1>2, SinkType

\* Every step keeps the types.
LEMMA TypeStep == TypeOK /\ WireInv /\ [Next]_vars => TypeOK'
<1> SUFFICES ASSUME TypeOK, WireInv, [Next]_vars PROVE TypeOK'
  OBVIOUS
<1> USE DEF TypeOK, Kinds, Parts
<1>1. CASE PrimaryMissing
  BY <1>1, DecisionType DEF PrimaryMissing, Return, panel, bill, sink, client
<1>2. CASE CallSpeculative
  BY <1>2 DEF CallSpeculative, panel, bill, sink, client
<1>3. CASE SpeculativeFails
  BY <1>3, DecisionType DEF SpeculativeFails, Return, panel, bill, sink, client
<1>4. ASSUME NEW resp \in Responses, SpeculativeReturns(resp) PROVE TypeOK'
  <2>1. spec' \in Responses /\ spent' \in Nat /\ usage' \in Nat
    BY <1>4 DEF SpeculativeReturns
  <2>2. CASE Emit("tool_call", resp) /\ UNCHANGED panel
    <3>1. pc' = "emit" /\ cause' = "tool_call" /\ todo' \in Seq(Parts)
      BY <2>2, BufferedShape DEF Emit
    <3> QED
      BY <1>4, <2>1, <2>2, <3>1 DEF SpeculativeReturns, panel, sink, client
  <2>3. CASE StartPanel /\ UNCHANGED <<todo, cause>>
    <3>1. /\ pc' = "panel" /\ member' \in [Panel -> Members]
          /\ panelCtx' \in {"live", "deadline", "canceled"}
      BY <2>3, MemberType DEF StartPanel
    <3> QED
      BY <1>4, <2>1, <2>3, <3>1 DEF SpeculativeReturns, sink, client
  <2> QED
    BY <1>4, <2>2, <2>3 DEF SpeculativeReturns
<1>5. CASE EmitAccepted
  <2>1. dec' \in Decisions /\ pc' \in {"emit", "returned"}
    BY <1>5, DecisionType DEF EmitAccepted, Return, Fallbacks
  <2>2. todo' \in Seq(Parts) /\ wire' \in Seq(Items)
    <3>1. pc = "emit" /\ todo # <<>> /\ Accept(Head(todo)) /\ todo' = Tail(todo)
      BY <1>5 DEF EmitAccepted, WireInv, EmitInv
    <3> QED
      BY <3>1, WriteType
  <2>3. UNCHANGED <<spec, promoted, sawContent, stream, cause, panel, bill, client,
                    registered, sinkErr>>
    BY <1>5 DEF EmitAccepted, Accept
  <2> QED
    BY <2>1, <2>2, <2>3 DEF panel, bill, client, Items, Parts
<1>6. CASE EmitRefused
  <2>1. cause \in Fallbacks \cup {"tool_call"}
    BY <1>6 DEF EmitRefused, WireInv, EmitInv
  <2>2. dec' \in Decisions /\ pc' = "returned"
    BY <1>6, <2>1, DecisionType DEF EmitRefused, Return
  <2> QED
    BY <1>6, <2>2 DEF EmitRefused, Refuse, panel, bill, client
<1>7. ASSUME NEW m \in Panel, NEW got \in {"empty", "text"}, MemberReturns(m, got)
      PROVE  TypeOK'
  <2>1. spent' \in Nat
    BY <1>7 DEF MemberReturns
  <2>2. member' \in [Panel -> Members]
    <3>1. member[m] \in Members
      OBVIOUS
    <3>2. \/ member' = [member EXCEPT ![m] = [@ EXCEPT !.attempts = 2]]
          \/ member' = [member EXCEPT ![m] = [@ EXCEPT !.at = "done", !.got = got,
                                                       !.err = "none"]]
      BY <1>7 DEF MemberReturns, Settle
    <3> QED
      BY <3>1, <3>2, MemberType
  <2> QED
    BY <1>7, <2>1, <2>2 DEF MemberReturns, run, sink, client
<1>8. ASSUME NEW m \in Panel, MemberFails(m) PROVE TypeOK'
  BY <1>8, MemberType DEF MemberFails, Settle, run, bill, sink, client
<1>9. ASSUME NEW m \in Panel, MemberCutShort(m) PROVE TypeOK'
  BY <1>9, MemberType DEF MemberCutShort, MemberLive, Settle, run, bill, sink, client
<1>10. CASE PanelTimeout
  BY <1>10 DEF PanelTimeout, run, bill, sink, client
<1>11. CASE PanelDone
  <2>1. Cardinality(Answered) \in Nat
    BY FS_Subset, FS_CardinalityType, PanelAssumption DEF Answered
  <2>2. usage' \in Nat
    BY <1>11, <2>1 DEF PanelDone
  <2>3. promoted' \in BOOLEAN
    <3>1. Sparse \in BOOLEAN
      BY DEF Sparse
    <3> QED
      BY <1>11, <3>1 DEF PanelDone
  <2>4. dec' \in Decisions
    BY <1>11, DecisionType DEF PanelDone
  <2>5. /\ pc' \in {"emit", "judge"}
        /\ cause' \in Fallbacks \cup {"tool_call", "none"}
        /\ todo' \in Seq(Parts)
    BY <1>11, EmitType DEF PanelDone, Fallbacks
  <2> QED
    BY <1>11, <2>2, <2>3, <2>4, <2>5, Zenon DEF PanelDone, panel, sink, client
<1>12. CASE JudgeFails \/ JudgeMissing
  <2>1. /\ Degrade("judge_failed")
        /\ UNCHANGED <<panel, bill, sink, client, registered>>
    BY <1>12 DEF JudgeFails, JudgeMissing
  <2>2. pc' = "emit" /\ cause' \in Fallbacks /\ todo' \in Seq(Parts)
    BY <2>1, BufferedShape DEF Fallbacks, Degrade, Emit
  <2> QED
    BY <2>1, <2>2 DEF Degrade, panel, bill, sink, client
<1>13. ASSUME NEW parses \in BOOLEAN, JudgeReturns(parses) PROVE TypeOK'
  <2>1. spent' \in Nat /\ usage' \in Nat
    BY <1>13 DEF JudgeReturns
  <2>2. /\ pc' \in {"final", "judgeRetry", "emit"} /\ dec' \in Decisions
        /\ cause' \in Fallbacks \cup {"tool_call", "none"}
        /\ todo' \in Seq(Parts)
        /\ UNCHANGED <<spec, promoted, sawContent, stream>>
    BY <1>13, EmitType, DecisionType DEF JudgeReturns, Degrade, Fallbacks
  <2> QED
    BY <1>13, <2>1, <2>2 DEF JudgeReturns, panel, sink, client
<1>14. CASE StreamOpens \/ StreamEnds
  <2>1. <<"finish", "done">> \in Seq(Parts)
    BY DEF Parts
  <2>2. /\ pc' \in {"final", "finishing"} /\ stream' \in {"open", "ended"}
        /\ todo' \in Seq(Parts) /\ spent' \in Nat /\ usage' \in Nat
    <3>1. CASE StreamOpens
      BY <3>1 DEF StreamOpens
    <3>2. CASE StreamEnds
      BY <2>1, <3>2 DEF StreamEnds
    <3> QED
      BY <1>14, <3>1, <3>2
  <2>3. UNCHANGED <<spec, promoted, sawContent, cause, dec, panel, sink, client, registered>>
    BY <1>14 DEF StreamOpens, StreamEnds
  <2> QED
    BY <2>2, <2>3 DEF panel, sink, client, Parts
<1>15. CASE StreamContent \/ StreamAside
  <2>1. wire' \in Seq(Items) /\ sinkErr' \in BOOLEAN
    BY <1>15, SinkType DEF StreamContent, StreamAside, Items
  <2>2. EmitTyped \/ UNCHANGED <<pc, todo, cause, dec>>
    <3>1. UNCHANGED spec
      BY <1>15 DEF StreamContent, StreamAside
    <3> QED
      BY <1>15, <3>1, StreamFailedType DEF StreamContent, StreamAside
  <2>3. /\ sawContent' \in BOOLEAN /\ stream' \in {"open", "broken"}
        /\ UNCHANGED <<spec, promoted, panel, bill, client, registered>>
    BY <1>15 DEF StreamContent, StreamAside
  <2> QED
    BY <2>1, <2>2, <2>3 DEF EmitTyped, panel, bill, client, Items, Parts
<1>16. CASE StreamBreaks \/ FinishRefused
  <2>1. wire' \in Seq(Items) /\ sinkErr' \in BOOLEAN
    BY <1>16, SinkType DEF StreamBreaks, FinishRefused, sink, Items
  <2>2. EmitTyped
    <3>1. UNCHANGED spec
      BY <1>16 DEF StreamBreaks, FinishRefused
    <3> QED
      BY <1>16, <3>1, StreamFailedType DEF StreamBreaks, FinishRefused
  <2>3. /\ UNCHANGED <<spec, promoted, sawContent, panel, bill, client, registered>>
        /\ stream' \in {stream, "broken"}
    BY <1>16 DEF StreamBreaks, FinishRefused
  <2> QED
    BY <2>1, <2>2, <2>3 DEF EmitTyped, panel, bill, client, Items, Parts
<1>17. CASE FinishAccepted
  <2>1. dec' \in Decisions /\ pc' \in {"finishing", "returned"}
    BY <1>17, DecisionType DEF FinishAccepted, Return
  <2>2. todo' \in Seq(Parts) /\ wire' \in Seq(Items)
    <3>1. todo # <<>> /\ Accept(Head(todo)) /\ todo' = Tail(todo)
      BY <1>17 DEF FinishAccepted, WireInv
    <3> QED
      BY <3>1, WriteType
  <2>3. UNCHANGED <<spec, promoted, sawContent, stream, cause, panel, bill, client,
                    registered, sinkErr>>
    BY <1>17 DEF FinishAccepted, Accept
  <2> QED
    BY <2>1, <2>2, <2>3 DEF panel, bill, client, Items, Parts
<1>18. CASE ClientLeaves
  BY <1>18 DEF ClientLeaves, run, panel, bill, sink
<1>19. CASE CtxCanceled
  BY <1>19 DEF CtxCanceled, run, bill, sink
<1>20. CASE UNCHANGED vars
  BY <1>20 DEF vars, run, panel, bill, sink, client
<1> QED
  BY <1>1, <1>2, <1>3, <1>4, <1>5, <1>6, <1>7, <1>8, <1>9, <1>10, <1>11, <1>12,
     <1>13, <1>14, <1>15, <1>16, <1>17, <1>18, <1>19, <1>20
  DEF Next, Sidecar, Upstream, Returned

\* What the client may read: WireInv says it for a run in progress, and the two
\* properties it serves say it for a run that returned.
WireSafe == WireInv /\ ControlInv /\ OneAnswer /\ DecisionMatchesWire

\* The initial wire is empty, and safe.
LEMMA WireInit == Init => WireSafe
BY DEF Init, WireSafe, WireInv, ControlInv, OneAnswer, DecisionMatchesWire, Sent, Fresh

\* An item at the end of the wire is the only change to it.
LEMMA AppendWire ==
  ASSUME TypeOK, NEW item \in Items, wire' = Append(wire, item)
  PROVE  /\ Len(wire) \in Nat /\ Len(wire') = Len(wire) + 1
         /\ wire'[Len(wire) + 1] = item
         /\ \A i \in 1 .. Len(wire) : wire'[i] = wire[i]
         /\ \A x \in Items : Sent(x)' <=> (Sent(x) \/ x = item)
<1>1. wire \in Seq(Items)
  BY DEF TypeOK, Items
<1>2. /\ Len(wire) \in Nat /\ Len(wire') = Len(wire) + 1
      /\ wire'[Len(wire) + 1] = item
      /\ \A i \in 1 .. Len(wire) : wire'[i] = wire[i]
  BY <1>1, AppendProperties, LenProperties
<1> QED
  BY <1>2 DEF Sent

\* What a write does to the wire: the item at its end, or nothing.
LEMMA Written ==
  ASSUME TypeOK, NEW item \in Items, Accept(item)
  PROVE  \/ conn = "up" /\ wire' = Append(wire, item)
         \/ conn = "down" /\ wire' = wire
BY DEF Accept, TypeOK

\* A wire that leaves the last position alone keeps to one answer.
LEMMA StillOneAnswer ==
  ASSUME TypeOK, NEW item \in Items, OneAnswer, wire' = Append(wire, item),
         item = "final" => ~Sent("spec") /\ ~Sent("call"),
         item \in {"spec", "call"} => ~Sent("final"),
         item = "aside" => \A i \in 1 .. Len(wire) : wire[i] \in {"final", "aside"}
  PROVE  OneAnswer'
<1>1. (Sent("final") => ~Sent("spec") /\ ~Sent("call"))'
  BY AppendWire DEF OneAnswer, Items
<1>2. ASSUME NEW i \in 1 .. Len(wire'), NEW j \in 1 .. Len(wire'),
             i < j, wire'[j] = "aside"
      PROVE  wire'[i] \in {"final", "aside"}
  <2>1. i \in 1 .. Len(wire) /\ wire'[i] = wire[i]
    BY <1>2, AppendWire
  <2>2. CASE j = Len(wire) + 1
    BY <1>2, <2>1, <2>2, AppendWire
  <2>3. CASE j # Len(wire) + 1
    <3>1. j \in 1 .. Len(wire) /\ wire'[j] = wire[j]
      BY <1>2, <2>3, AppendWire
    <3> QED
      BY <1>2, <2>1, <3>1 DEF OneAnswer
  <2> QED
    BY <2>2, <2>3
<1> QED
  BY <1>1, <1>2 DEF OneAnswer

\* emitBuffered begins behind nothing, or behind the asides of a final stream and,
\* for a client that left, its finish chunk.
LEMMA EmitWire ==
  ASSUME TypeOK', dec'.kind = "none", NEW why \in Fallbacks \cup {"tool_call"},
         spec' \in Responses, Emit(why, spec'),
         wire' # <<>> => why = "primary_final_failed",
         \A i \in 1 .. Len(wire') :
           wire'[i] = "aside" \/ (conn' # "up" /\ i = Len(wire') /\ wire'[i] = "finish")
  PROVE  WireInv' /\ OneAnswer' /\ DecisionMatchesWire'
<1>1. /\ pc' = "emit" /\ cause' # "none" /\ cause' = why /\ todo' = Buffered(spec')
      /\ Len(Buffered(spec')) \in Nat /\ Len(Buffered(spec')) >= 2
  BY BufferedShape DEF Emit, Fallbacks
<1>2. Len(wire') \in Nat
  BY LenProperties DEF TypeOK
<1>3. ~Sent("final")' /\ ~Sent("done")' /\ (Sent("aside")' => cause' = "primary_final_failed")
  BY <1>1 DEF Sent
<1>4. todo' # <<>> /\ Len(Buffered(spec')) - Len(todo') = 0
  BY <1>1
<1>5. \A i \in 1 .. Len(todo') : todo'[i] = Buffered(spec')[0 + i]
  BY <1>1
<1>6. conn' = "up" => Led(Len(wire), 0)' /\ Len(wire') \in 0 .. Len(wire')
  BY <1>2 DEF Led
<1>7. EmitInv'
  BY <1>1, <1>3, <1>4, <1>5, <1>6 DEF EmitInv
<1>8. OneAnswer'
  BY <1>2, <1>3 DEF OneAnswer
<1>9. DecisionMatchesWire'
  BY <1>3 DEF DecisionMatchesWire
<1> QED
  BY <1>1, <1>7, <1>8, <1>9 DEF WireInv

\* What EmitInv says of the next item to write.
LEMMA NextItem ==
  ASSUME TypeOK, pc = "emit", EmitInv
  PROVE  /\ Len(todo) \in Nat \ {0} /\ Head(todo) = todo[1]
         /\ Len(Buffered(spec)) \in Nat /\ Len(Buffered(spec)) >= Len(todo)
         /\ todo[1] = Buffered(spec)[Len(Buffered(spec)) - Len(todo) + 1]
         /\ todo[1] \in Parts
         /\ todo[1] = "done" <=> Len(todo) = 1
         /\ todo[1] = "finish" <=> Len(todo) = 2
         /\ Len(Tail(todo)) = Len(todo) - 1
         /\ \A i \in 1 .. Len(todo) - 1 : Tail(todo)[i] = todo[i + 1]
         /\ Tail(todo) = <<>> <=> Len(todo) = 1
<1> DEFINE all == Buffered(spec)
<1>1. /\ todo \in Seq(Parts) /\ todo # <<>> /\ spec \in Responses
      /\ Len(all) - Len(todo) >= 0
      /\ \A i \in 1 .. Len(todo) : todo[i] = all[Len(all) - Len(todo) + i]
  BY DEF TypeOK, EmitInv, Parts
<1>2. Len(all) \in Nat /\ Len(todo) \in Nat \ {0} /\ Len(all) >= Len(todo)
  BY <1>1, BufferedShape, EmptySeq
<1> HIDE DEF all
<1>3. /\ Head(todo) = todo[1] /\ Tail(todo) \in Seq(Parts)
      /\ Len(Tail(todo)) = Len(todo) - 1
      /\ \A i \in 1 .. Len(todo) - 1 : Tail(todo)[i] = todo[i + 1]
  BY <1>1, <1>2, HeadTailProperties
<1>4. Tail(todo) = <<>> <=> Len(todo) = 1
  BY <1>2, <1>3, EmptySeq
<1>5. /\ Len(all) - Len(todo) + 1 \in 1 .. Len(all)
      /\ todo[1] = all[Len(all) - Len(todo) + 1]
  BY <1>1, <1>2
<1>6. \A i \in 1 .. Len(all) :
        all[i] \in Parts /\ (all[i] = "done" <=> i = Len(all))
        /\ (all[i] = "finish" <=> i = Len(all) - 1)
  BY <1>1, BufferedShape DEF all
<1>7. /\ todo[1] \in Parts /\ (todo[1] = "done" <=> Len(todo) = 1)
      /\ (todo[1] = "finish" <=> Len(todo) = 2)
  <2>1. PICK a \in Nat, b \in Nat : a = Len(all) /\ b = Len(todo)
    BY <1>2
  <2>2. /\ a - b + 1 \in 1 .. a /\ todo[1] = all[a - b + 1]
        /\ \A i \in 1 .. a :
             all[i] \in Parts /\ (all[i] = "done" <=> i = a)
             /\ (all[i] = "finish" <=> i = a - 1)
    BY <1>5, <1>6, <2>1
  <2>3. (a - b + 1 = a <=> b = 1) /\ (a - b + 1 = a - 1 <=> b = 2)
    OBVIOUS
  <2>4. /\ todo[1] \in Parts /\ (todo[1] = "done" <=> b = 1)
        /\ (todo[1] = "finish" <=> b = 2)
    BY <2>2, <2>3
  <2> QED
    BY <2>1, <2>4
<1> QED
  BY <1>2, <1>3, <1>4, <1>5, <1>7 DEF all

\* One item more of the buffered response behind the same asides.
LEMMA LedStep ==
  ASSUME TypeOK, NEW k \in 0 .. Len(wire), NEW n \in Nat, Led(k, n), spec' = spec,
         NEW item \in Items, item = Buffered(spec)[n + 1], wire' = Append(wire, item)
  PROVE  k \in 0 .. Len(wire') /\ Led(k, n + 1)'
<1>1. /\ Len(wire) \in Nat /\ Len(wire') = Len(wire) + 1
      /\ wire'[Len(wire) + 1] = item
      /\ \A i \in 1 .. Len(wire) : wire'[i] = wire[i]
  BY AppendWire
<1>2. k \in Nat /\ Len(wire) = k + n
  BY <1>1 DEF Led
<1>3. ASSUME NEW i \in 1 .. Len(wire')
      PROVE  wire'[i] = IF i <= k THEN "aside" ELSE Buffered(spec)[i - k]
  <2>1. CASE i = Len(wire) + 1
    <3>1. i - k = n + 1 /\ ~(i <= k)
      BY <1>2, <2>1
    <3> QED
      BY <1>1, <2>1, <3>1
  <2>2. CASE i # Len(wire) + 1
    <3>1. i \in 1 .. Len(wire)
      BY <1>1, <2>2
    <3> QED
      BY <1>1, <3>1 DEF Led
  <2> QED
    BY <2>1, <2>2
<1> QED
  BY <1>1, <1>2, <1>3 DEF Led

\* One item of emitBuffered: the rest shrinks by what the wire gains, and [DONE]
\* leaves together with the decision.
LEMMA EmitAcceptedWire ==
  ASSUME TypeOK, TypeOK', WireSafe, EmitAccepted
  PROVE  WireSafe'
<1> USE DEF WireSafe
<1> DEFINE all == Buffered(spec)
<1>1. /\ pc = "emit" /\ EmitInv /\ Accept(Head(todo)) /\ todo' = Tail(todo)
      /\ dec.kind = "none"
      /\ UNCHANGED <<spec, cause, conn, ctx, panelCtx>>
  BY DEF EmitAccepted, WireInv, ControlInv, panel, client
<1>0. PICK n \in Nat : n = Len(all) - Len(todo)
  BY <1>1, NextItem
<1>2. /\ Len(todo) \in Nat \ {0} /\ Head(todo) = todo[1]
      /\ todo[1] = all[n + 1] /\ todo[1] \in Parts
      /\ todo[1] = "done" <=> Len(todo) = 1
      /\ todo[1] = "finish" <=> Len(todo) = 2
      /\ Len(todo') = Len(todo) - 1
      /\ \A i \in 1 .. Len(todo) - 1 : todo'[i] = todo[i + 1]
      /\ todo' = <<>> <=> Len(todo) = 1
  BY <1>0, <1>1, NextItem
<1>3. /\ cause # "none" /\ ~Sent("final") /\ ~Sent("done")
      /\ Sent("aside") => cause = "primary_final_failed"
      /\ \A i \in 1 .. Len(todo) : todo[i] = all[n + i]
      /\ conn = "up" => \E k \in 0 .. Len(wire) : Led(k, n)
  BY <1>0, <1>1 DEF EmitInv
<1>4. todo[1] \in Items /\ todo[1] \notin {"final", "aside"}
  BY <1>2 DEF Parts, Items
<1>5. \/ conn = "up" /\ wire' = Append(wire, todo[1])
      \/ conn = "down" /\ wire' = wire
  BY <1>1, <1>2, <1>4, Written
<1>6. /\ \A x \in Items : Sent(x)' <=> (Sent(x) \/ (conn = "up" /\ x = todo[1]))
      /\ OneAnswer'
  <2>1. CASE conn = "up" /\ wire' = Append(wire, todo[1])
    BY <1>3, <1>4, <2>1, AppendWire, StillOneAnswer
  <2>2. CASE conn = "down" /\ wire' = wire
    BY <2>2 DEF Sent, OneAnswer
  <2> QED
    BY <1>5, <2>1, <2>2
<1>7. conn = "up" => \E k \in 0 .. Len(wire') : Led(k, n + 1)'
  <2> SUFFICES ASSUME conn = "up" PROVE \E k \in 0 .. Len(wire') : Led(k, n + 1)'
    OBVIOUS
  <2>1. PICK k \in 0 .. Len(wire) : Led(k, n)
    BY <1>3
  <2>2. wire' = Append(wire, todo[1]) /\ todo[1] = Buffered(spec)[n + 1]
    BY <1>2, <1>5
  <2> QED
    BY <1>1, <1>2, <1>4, <2>1, <2>2, LedStep
<1>8. CASE todo' # <<>>
  <2>1. pc' = "emit" /\ dec' = dec
    BY <1>1, <1>8 DEF EmitAccepted
  <2>2. /\ todo[1] # "done" /\ Len(todo) > 1
        /\ (Len(all) - Len(todo))' = n + 1
    BY <1>0, <1>1, <1>2, <1>8
  <2>3. \A i \in 1 .. Len(todo') : todo'[i] = all[(n + 1) + i]
    <3>1. ASSUME NEW i \in 1 .. Len(todo') PROVE todo'[i] = all[(n + 1) + i]
      <4>1. todo'[i] = todo[i + 1] /\ i + 1 \in 1 .. Len(todo)
        BY <1>2
      <4>2. todo[i + 1] = all[n + (i + 1)]
        BY <1>3, <4>1
      <4>3. n + (i + 1) = (n + 1) + i
        BY <1>2
      <4> QED
        BY <4>1, <4>2, <4>3
    <3> QED
      BY <3>1
  <2>4. ~Sent("final")' /\ ~Sent("done")' /\ (Sent("aside")' => Sent("aside"))
    BY <1>3, <1>4, <1>6, <2>2 DEF Items
  <2>5. EmitInv'
    <3>1. all' = all /\ (Len(all) - Len(todo))' = n + 1 /\ n + 1 >= 0
      BY <1>1, <1>2, <2>2
    <3>2. \A i \in 1 .. Len(todo') : todo'[i] = all'[(Len(all) - Len(todo))' + i]
      BY <2>3, <3>1
    <3>3. conn' = "up" => \E k \in 0 .. Len(wire') : Led(k, Len(all) - Len(todo))'
      BY <1>1, <1>7, <3>1 DEF Led
    <3> QED
      BY <1>1, <1>3, <1>8, <2>4, <3>1, <3>2, <3>3 DEF EmitInv
  <2>6. WireInv' /\ ControlInv'
    BY <1>1, <2>1, <2>5 DEF WireInv, ControlInv
  <2>7. DecisionMatchesWire'
    BY <1>1, <2>1, <2>4 DEF DecisionMatchesWire
  <2> QED
    BY <1>6, <2>6, <2>7
<1>9. CASE todo' = <<>>
  <2>1. /\ pc' = "returned"
        /\ dec' = IF cause = "tool_call" THEN Fresh("tool_call", "none")
                                         ELSE Fresh("degraded", cause)
    BY <1>1, <1>9 DEF EmitAccepted, Return
  <2>2. /\ dec'.kind \in {"tool_call", "degraded"}
        /\ cause = "primary_final_failed" => dec'.reason = "primary_final_failed"
    BY <2>1 DEF Fresh
  <2>3. todo[1] = "done" /\ n + 1 = Len(Buffered(spec))
    BY <1>0, <1>1, <1>2, <1>9, NextItem
  <2>4. Sent("done")' <=> conn = "up"
    BY <1>3, <1>6, <2>3 DEF Items
  <2>5. Sent("aside")' => dec'.reason = "primary_final_failed"
    BY <1>3, <1>4, <1>6, <2>2 DEF Items
  <2>6. conn = "up" => \E k \in 0 .. Len(wire') : Led(k, Len(Buffered(spec)))'
    BY <1>1, <1>7, <2>3 DEF Led
  <2>7. DecisionMatchesWire'
    BY <1>1, <2>2, <2>4, <2>5, <2>6 DEF DecisionMatchesWire
  <2>8. WireInv' /\ ControlInv'
    BY <1>1, <2>1, <2>2 DEF WireInv, ControlInv
  <2> QED
    BY <1>6, <2>7, <2>8
<1> QED
  BY <1>8, <1>9

\* A frame of Done: the finish chunk, or [DONE] with the decision.
LEMMA FinishAcceptedWire ==
  ASSUME TypeOK, TypeOK', WireSafe, FinishAccepted
  PROVE  WireSafe'
<1> USE DEF WireSafe
<1>1. /\ pc = "finishing" /\ StreamInv /\ Accept(Head(todo)) /\ todo' = Tail(todo)
      /\ dec.kind = "none"
      /\ UNCHANGED <<spec, sawContent, conn, ctx, panelCtx>>
  BY DEF FinishAccepted, WireInv, ControlInv, panel, client
<1>2. /\ ~Sent("spec") /\ ~Sent("call") /\ ~Sent("done") /\ Len(wire) \in Nat
      /\ \A i \in 1 .. Len(wire) :
           wire[i] \in {"final", "aside"} \/ (i = Len(wire) /\ wire[i] = "finish")
      /\ Sent("final") => sawContent
      /\ conn = "up" /\ sawContent => Sent("final")
  BY <1>1, LenProperties DEF StreamInv, Sent, TypeOK
<1>3. CASE todo = <<"finish", "done">> /\ ~Sent("finish")
  <2>1. Head(todo) = "finish" /\ Tail(todo) = <<"done">> /\ Tail(todo) # <<>>
    BY <1>3
  <2>2. pc' = "finishing" /\ dec' = dec /\ todo' = <<"done">>
    BY <1>1, <2>1 DEF FinishAccepted
  <2>3. \A i \in 1 .. Len(wire) : wire[i] \in {"final", "aside"}
    BY <1>2, <1>3 DEF Sent
  <2>4. CASE conn = "down" /\ wire' = wire
    BY <1>1, <2>2, <2>4
    DEF WireInv, StreamInv, ControlInv, OneAnswer, DecisionMatchesWire, Sent
  <2>5. CASE conn = "up" /\ wire' = Append(wire, "finish")
    <3>1. /\ Len(wire') = Len(wire) + 1 /\ wire'[Len(wire) + 1] = "finish"
          /\ \A i \in 1 .. Len(wire) : wire'[i] = wire[i]
          /\ Sent("finish")' /\ (Sent("final")' <=> Sent("final")) /\ ~Sent("done")'
      BY <1>2, <2>5, AppendWire DEF Items
    <3>2. OneAnswer'
      BY <2>5, StillOneAnswer DEF Items
    <3>3. StreamInv'
      BY <1>1, <1>2, <2>3, <3>1 DEF StreamInv
    <3> QED
      BY <1>1, <2>2, <3>1, <3>2, <3>3 DEF WireInv, ControlInv, DecisionMatchesWire
  <2> QED
    BY <1>1, <2>1, <2>4, <2>5, Written DEF Items
<1>4. CASE todo = <<"done">> /\ (conn = "up" => Sent("finish"))
  <2>1. Head(todo) = "done" /\ Tail(todo) = <<>>
    BY <1>4
  <2>2. pc' = "returned" /\ dec'.kind = "fusion"
    BY <1>1, <2>1 DEF FinishAccepted, Return, TypeOK, Decisions
  <2>3. CASE conn = "down" /\ wire' = wire
    BY <1>1, <1>2, <2>2, <2>3
    DEF WireInv, ControlInv, OneAnswer, DecisionMatchesWire, Sent
  <2>4. CASE conn = "up" /\ wire' = Append(wire, "done")
    <3>1. /\ Len(wire') = Len(wire) + 1 /\ wire'[Len(wire) + 1] = "done"
          /\ \A i \in 1 .. Len(wire) : wire'[i] = wire[i]
          /\ Sent("done")' /\ (Sent("final")' <=> Sent("final"))
      BY <2>4, AppendWire DEF Items
    <3>2. OneAnswer'
      BY <2>4, StillOneAnswer DEF Items
    <3>3. /\ Len(wire) >= 1 /\ wire[Len(wire)] = "finish"
          /\ \A i \in 1 .. Len(wire) : i # Len(wire) => wire[i] \in {"final", "aside"}
      BY <1>2, <1>4, <2>4 DEF Sent
    <3>4. \A i \in 1 .. Len(wire') :
            wire'[i] \in IF i = Len(wire') THEN {"done"}
                        ELSE IF i = Len(wire') - 1 THEN {"finish"}
                        ELSE {"final", "aside"}
      BY <1>2, <3>1, <3>3
    <3>5. Sent("final")' <=> sawContent'
      BY <1>1, <1>2, <2>4, <3>1
    <3>6. DecisionMatchesWire'
      BY <1>1, <2>2, <3>1, <3>4, <3>5 DEF DecisionMatchesWire
    <3> QED
      BY <1>1, <2>2, <3>2, <3>6 DEF WireInv, ControlInv
  <2> QED
    BY <1>1, <2>1, <2>3, <2>4, Written DEF Items
<1> QED
  BY <1>1, <1>3, <1>4 DEF WireInv

\* A final stream that fails is salvaged only while none of its content is out.
LEMMA StreamFailedWire ==
  ASSUME TypeOK, TypeOK', WireSafe, pc \in {"final", "finishing"},
         NEW saw \in BOOLEAN, StreamFailed(saw), Sent("final") => saw,
         Sent("finish") => conn # "up",
         UNCHANGED <<wire, conn, ctx, panelCtx, spec>>
  PROVE  WireSafe'
<1> USE DEF WireSafe
<1>1. /\ dec.kind = "none" /\ ~Sent("done") /\ conn \in {"up", "down"}
      /\ \A i \in 1 .. Len(wire) :
           wire[i] \in {"final", "aside"} \/ (i = Len(wire) /\ wire[i] = "finish")
  BY DEF WireInv, StreamInv, ControlInv, Sent, TypeOK
<1>2. \A x \in Items : Sent(x)' <=> Sent(x)
  BY DEF Sent
<1>3. CASE saw
  <2>1. pc' = "returned" /\ dec'.kind = "failed"
    BY <1>3 DEF StreamFailed, Return, TypeOK, Decisions
  <2>2. OneAnswer'
    BY DEF OneAnswer, Sent
  <2>3. DecisionMatchesWire'
    BY <1>1, <1>2, <2>1 DEF DecisionMatchesWire, Items
  <2> QED
    BY <2>1, <2>2, <2>3 DEF WireInv, ControlInv
<1>4. CASE ~saw
  <2>1. /\ Emit("primary_final_failed", spec') /\ spec' \in Responses
        /\ dec'.kind = "none" /\ pc' = "emit"
    BY <1>1, <1>4 DEF StreamFailed, Emit, TypeOK
  <2>2. \A i \in 1 .. Len(wire') :
          wire'[i] = "aside" \/ (conn' # "up" /\ i = Len(wire') /\ wire'[i] = "finish")
    BY <1>1, <1>4 DEF Sent
  <2>3. ControlInv'
    BY <2>1 DEF ControlInv
  <2> QED
    BY <2>1, <2>2, <2>3, EmitWire DEF Fallbacks
<1> QED
  BY <1>3, <1>4

\* Every step keeps wire, rest and decision in agreement.
LEMMA WireStep == TypeOK /\ TypeOK' /\ WireSafe /\ [Next]_vars => WireSafe'
<1> SUFFICES ASSUME TypeOK, TypeOK', WireSafe, [Next]_vars PROVE WireSafe'
  OBVIOUS
<1> USE DEF WireSafe
<1>1. CASE PrimaryMissing \/ SpeculativeFails
  <2>1. /\ wire = <<>> /\ wire' = wire /\ pc' = "returned" /\ dec'.kind = "failed"
        /\ UNCHANGED <<conn, ctx, panelCtx>>
    BY <1>1
    DEF PrimaryMissing, SpeculativeFails, Return, Fresh, WireInv, sink, client, panel
  <2> QED
    BY <2>1 DEF WireInv, ControlInv, OneAnswer, DecisionMatchesWire, Sent
<1>2. CASE CallSpeculative
  <2>1. /\ wire = <<>> /\ wire' = wire /\ pc' = "speculative" /\ dec.kind = "none"
        /\ ~sawContent' /\ UNCHANGED <<dec, conn, ctx, panelCtx>>
    BY <1>2 DEF CallSpeculative, WireInv, ControlInv, sink, client, panel
  <2> QED
    BY <2>1 DEF WireInv, ControlInv, OneAnswer, DecisionMatchesWire, Sent
<1>3. ASSUME NEW resp \in Responses, SpeculativeReturns(resp) PROVE WireSafe'
  <2>1. /\ wire = <<>> /\ wire' = <<>> /\ dec.kind = "none" /\ dec' = dec
        /\ UNCHANGED <<conn, ctx>> /\ spec' = resp /\ ctx = "live" /\ ~sawContent'
    BY <1>3 DEF SpeculativeReturns, CallLive, WireInv, ControlInv, sink, client
  <2>2. CASE Emit("tool_call", resp) /\ UNCHANGED panel
    <3>1. WireInv' /\ OneAnswer' /\ DecisionMatchesWire'
      BY <2>1, <2>2, EmitWire
    <3>2. ControlInv'
      BY <2>1, <2>2 DEF ControlInv, Emit, panel
    <3> QED
      BY <3>1, <3>2
  <2>3. CASE StartPanel
    BY <2>1, <2>3
    DEF StartPanel, WireInv, ControlInv, OneAnswer, DecisionMatchesWire, Sent
  <2> QED
    BY <1>3, <2>2, <2>3 DEF SpeculativeReturns
<1>4. CASE EmitAccepted
  BY <1>4, EmitAcceptedWire
<1>5. CASE EmitRefused
  <2>1. /\ dec.kind = "none" /\ dec'.kind = "failed" /\ pc' = "returned" /\ ~Sent("done")
        /\ conn = "down" /\ UNCHANGED <<wire, conn, ctx, panelCtx>>
    BY <1>5
    DEF EmitRefused, Refuse, Return, Fresh, WireInv, EmitInv, ControlInv, client, panel
  <2>2. \A x \in Items : Sent(x)' <=> Sent(x)
    BY <2>1 DEF Sent
  <2>3. DecisionMatchesWire'
    BY <2>1, <2>2 DEF DecisionMatchesWire, Items
  <2>4. OneAnswer'
    BY <2>1 DEF OneAnswer, Sent
  <2> QED
    BY <2>1, <2>3, <2>4 DEF WireInv, ControlInv
<1>6. ASSUME UNCHANGED <<pc, spec, sawContent, todo, cause, dec, wire>>,
             conn' = conn \/ conn' = "down",
             panelCtx' = "canceled" => ctx' = "canceled", ctx' = "canceled" => conn' = "down"
      PROVE  WireSafe'
  <2>1. Sent("done")' = Sent("done") /\ Sent("final")' = Sent("final")
        /\ Sent("aside")' = Sent("aside") /\ Sent("finish")' = Sent("finish")
        /\ OneAnswer' = OneAnswer /\ (conn' = "up" => conn = "up")
        /\ \A k, n : Led(k, n)' = Led(k, n)
    BY <1>6 DEF Sent, OneAnswer, Led
  <2>2. StreamInv => StreamInv'
    BY <1>6, <2>1 DEF StreamInv
  <2>3. EmitInv => EmitInv'
    BY <1>6, <2>1 DEF EmitInv
  <2>4. WireInv'
    BY <1>6, <2>1, <2>2, <2>3 DEF WireInv
  <2>5. ControlInv'
    BY <1>6 DEF ControlInv
  <2>6. DecisionMatchesWire'
    BY <1>6, <2>1 DEF DecisionMatchesWire, TypeOK
  <2> QED
    BY <2>1, <2>4, <2>5, <2>6
<1>7. CASE \/ PanelTimeout \/ ClientLeaves \/ CtxCanceled \/ StreamOpens \/ UNCHANGED vars
           \/ \E m \in Panel : \/ MemberFails(m) \/ MemberCutShort(m)
                               \/ \E got \in {"empty", "text"} : MemberReturns(m, got)
  <2>1. UNCHANGED <<pc, spec, sawContent, todo, cause, dec, wire>>
    BY <1>7
    DEF PanelTimeout, ClientLeaves, CtxCanceled, StreamOpens, vars, MemberFails, MemberCutShort,
        MemberReturns, run, sink
  <2>2. /\ conn' = conn \/ conn' = "down"
        /\ panelCtx' = "canceled" => ctx' = "canceled"
        /\ ctx' = "canceled" => conn' = "down"
    BY <1>7
    DEF PanelTimeout, ClientLeaves, CtxCanceled, StreamOpens, vars, MemberFails, MemberCutShort,
        MemberReturns, ControlInv, panel, client
  <2> QED
    BY <1>6, <2>1, <2>2
<1>8. CASE PanelDone
  <2>1. /\ wire = <<>> /\ wire' = <<>> /\ dec.kind = "none" /\ dec'.kind = "none"
        /\ UNCHANGED <<conn, ctx, panelCtx, spec>> /\ pc' \in {"emit", "judge"} /\ ~sawContent'
    BY <1>8 DEF PanelDone, Emit, WireInv, ControlInv, TypeOK, Decisions, sink, client, panel
  <2>2. ControlInv'
    BY <2>1 DEF ControlInv
  <2>3. CASE Emit("panel_insufficient", spec)
    <3>1. spec' \in Responses /\ Emit("panel_insufficient", spec')
      BY <2>1, <2>3 DEF TypeOK, Emit
    <3> QED
      BY <2>1, <2>2, <3>1, EmitWire DEF Fallbacks
  <2>4. CASE pc' = "judge"
    BY <2>1, <2>2, <2>4 DEF WireInv, OneAnswer, DecisionMatchesWire, Sent
  <2> QED
    BY <1>8, <2>3, <2>4 DEF PanelDone
<1>9. CASE JudgeFails \/ JudgeMissing \/ \E parses \in BOOLEAN : JudgeReturns(parses)
  <2>1. /\ wire = <<>> /\ wire' = <<>> /\ dec.kind = "none" /\ dec'.kind = "none"
        /\ UNCHANGED <<conn, ctx, panelCtx, spec>> /\ ~sawContent'
        /\ pc' \in {"final", "judgeRetry"} \/ Emit("judge_failed", spec)
    BY <1>9
    DEF JudgeFails, JudgeMissing, JudgeReturns, Degrade, Emit, WireInv, ControlInv, TypeOK,
        Decisions, sink, client, panel
  <2>2. CASE Emit("judge_failed", spec)
    <3>1. spec' \in Responses /\ Emit("judge_failed", spec')
      BY <2>1, <2>2 DEF TypeOK, Emit
    <3>2. ControlInv'
      BY <2>1, <2>2 DEF ControlInv, Emit
    <3> QED
      BY <2>1, <3>1, <3>2, EmitWire DEF Fallbacks
  <2>3. CASE pc' = "judgeRetry"
    BY <2>1, <2>3 DEF WireInv, ControlInv, OneAnswer, DecisionMatchesWire, Sent
  <2>4. CASE pc' = "final"
    BY <2>1, <2>4
    DEF WireInv, StreamInv, ControlInv, OneAnswer, DecisionMatchesWire, Sent
  <2> QED
    BY <2>1, <2>2, <2>3, <2>4
<1>10. pc = "final" =>
         /\ StreamInv /\ dec.kind = "none" /\ ~Sent("finish") /\ ~Sent("done")
         /\ ~Sent("spec") /\ ~Sent("call")
         /\ \A i \in 1 .. Len(wire) : wire[i] \in {"final", "aside"}
  BY DEF WireInv, StreamInv, ControlInv, Sent
<1>11. ASSUME pc = "final", NEW item \in {"final", "aside"}, Accept(item),
              UNCHANGED <<pc, dec, conn, ctx, panelCtx>>,
              sawContent' = (sawContent \/ item = "final")
       PROVE  WireSafe'
  <2>1. CASE conn = "down" /\ wire' = wire
    BY <1>10, <1>11, <2>1
    DEF WireInv, StreamInv, ControlInv, OneAnswer, DecisionMatchesWire, Sent
  <2>2. CASE conn = "up" /\ wire' = Append(wire, item)
    <3>1. /\ Len(wire') = Len(wire) + 1 /\ wire'[Len(wire) + 1] = item
          /\ \A i \in 1 .. Len(wire) : wire'[i] = wire[i]
          /\ \A x \in Items : Sent(x)' <=> (Sent(x) \/ x = item)
          /\ Len(wire) \in Nat
      BY <2>2, AppendWire DEF Items
    <3>2. \A i \in 1 .. Len(wire') : wire'[i] \in {"final", "aside"}
      BY <1>10, <1>11, <3>1
    <3>3. OneAnswer'
      BY <1>10, <1>11, <2>2, StillOneAnswer DEF Items
    <3>4. /\ ~Sent("finish")' /\ ~Sent("done")'
          /\ Sent("final")' <=> (Sent("final") \/ item = "final")
      BY <1>10, <1>11, <3>1 DEF Items
    <3>5. StreamInv'
      BY <1>10, <1>11, <3>2, <3>4 DEF StreamInv
    <3> QED
      BY <1>10, <1>11, <3>3, <3>4, <3>5 DEF WireInv, ControlInv, DecisionMatchesWire
  <2> QED
    BY <1>11, <2>1, <2>2, Written DEF Items
<1>12. CASE StreamContent
  <2>1. pc = "final" /\ sawContent' = TRUE /\ UNCHANGED <<spec, conn, ctx, panelCtx>>
    BY <1>12 DEF StreamContent, panel, client
  <2>2. CASE Accept("final") /\ UNCHANGED <<pc, dec>>
    BY <1>11, <2>1, <2>2 DEF TypeOK
  <2>3. CASE Refuse /\ StreamFailed(TRUE)
    BY <1>10, <2>1, <2>3, StreamFailedWire DEF Refuse
  <2> QED
    BY <1>12, <2>2, <2>3 DEF StreamContent
<1>13. CASE StreamAside
  <2>1. pc = "final" /\ UNCHANGED <<sawContent, spec, conn, ctx, panelCtx>>
    BY <1>13 DEF StreamAside, panel, client
  <2>2. CASE Accept("aside") /\ UNCHANGED <<pc, dec>>
    BY <1>11, <2>1, <2>2 DEF TypeOK
  <2>3. CASE Refuse /\ StreamFailed(sawContent)
    BY <1>10, <2>1, <2>3, StreamFailedWire DEF Refuse, StreamInv, TypeOK
  <2> QED
    BY <1>13, <2>2, <2>3 DEF StreamAside
<1>14. CASE StreamBreaks
  <2>1. /\ pc = "final" /\ StreamFailed(sawContent)
        /\ UNCHANGED <<spec, wire, conn, ctx, panelCtx>>
    BY <1>14 DEF StreamBreaks, sink, panel, client
  <2> QED
    BY <1>10, <2>1, StreamFailedWire DEF StreamInv, TypeOK
<1>15. CASE StreamEnds
  <2>1. /\ pc = "final" /\ pc' = "finishing" /\ todo' = <<"finish", "done">>
        /\ UNCHANGED <<sawContent, dec, wire, conn, ctx, panelCtx>>
    BY <1>15 DEF StreamEnds, sink, panel, client
  <2>2. StreamInv' /\ ~Sent("finish")' /\ ~Sent("done")' /\ OneAnswer'
    BY <1>10, <2>1 DEF StreamInv, Sent, OneAnswer
  <2> QED
    BY <1>10, <2>1, <2>2 DEF WireInv, ControlInv, DecisionMatchesWire
<1>16. CASE FinishAccepted
  BY <1>16, FinishAcceptedWire
<1>17. CASE FinishRefused
  <2>1. /\ pc = "finishing" /\ StreamFailed(sawContent) /\ conn = "down" /\ StreamInv
        /\ UNCHANGED <<spec, wire, conn, ctx, panelCtx>>
    BY <1>17 DEF FinishRefused, Refuse, WireInv, panel, client
  <2> QED
    BY <2>1, StreamFailedWire DEF StreamInv, TypeOK
<1> QED
  BY <1>1, <1>2, <1>3, <1>4, <1>5, <1>7, <1>8, <1>9, <1>12, <1>13, <1>14, <1>15, <1>16, <1>17
  DEF Next, Sidecar, Upstream, Returned

\* The panel's records, and the judge's input made from them.
PanelSafe == PanelIsolation /\ JudgeHasInput

\* No panel has run in an initial state.
LEMMA PanelInit == Init => PanelSafe
BY DEF Init, PanelSafe, PanelIsolation, JudgeHasInput, Idle

\* Completing a sparse panel with the speculative response never hands the
\* judge more texts than the panel has members, because the quorum is at most
\* the panel's size.
LEMMA QuorumInput ==
  ASSUME TypeOK
  PROVE  Cardinality(Successes) + (IF Sparse THEN 1 ELSE 0) \in 1 .. Cardinality(Panel)
<1>1. /\ Cardinality(Successes) \in Nat /\ Cardinality(Panel) \in Nat
      /\ Cardinality(Successes) <= Cardinality(Panel)
  BY FS_Subset, FS_CardinalityType, PanelAssumption DEF Successes
<1>2. MinSuccess \in 1 .. Cardinality(Panel)
  BY PanelAssumption
<1> QED
  BY <1>1, <1>2 DEF Sparse

\* Every step keeps the panel's results apart and the judge supplied.
LEMMA PanelStep == TypeOK /\ WireSafe /\ PanelSafe /\ [Next]_vars => PanelSafe'
<1> SUFFICES ASSUME TypeOK, WireSafe, PanelSafe, [Next]_vars PROVE PanelSafe'
  OBVIOUS
<1> USE DEF PanelSafe
<1>1. ASSUME UNCHANGED <<member, panelCtx, promoted, spec, ctx>>,
             pc' \in {"judge", "judgeRetry", "final"} => pc \in {"judge", "judgeRetry", "final"}
      PROVE  PanelSafe'
  BY <1>1 DEF PanelIsolation, JudgeHasInput, JudgeInputs, Successes, Success
<1>2. CASE \/ PrimaryMissing \/ CallSpeculative \/ SpeculativeFails
           \/ EmitAccepted \/ EmitRefused \/ JudgeFails \/ JudgeMissing
           \/ StreamOpens \/ StreamContent \/ StreamAside \/ StreamBreaks \/ StreamEnds
           \/ FinishAccepted \/ FinishRefused \/ ClientLeaves \/ UNCHANGED vars
           \/ \E parses \in BOOLEAN : JudgeReturns(parses)
  BY <1>1, <1>2
  DEF PrimaryMissing, CallSpeculative, SpeculativeFails, EmitAccepted, EmitRefused,
      JudgeFails, JudgeMissing, JudgeReturns, Degrade, Emit, StreamOpens, StreamContent,
      StreamAside, StreamBreaks, StreamEnds, FinishAccepted, FinishRefused, StreamFailed,
      Return, ClientLeaves, vars, run, panel, client
<1>3. ASSUME NEW resp \in Responses, SpeculativeReturns(resp) PROVE PanelSafe'
  <2>1. CASE Emit("tool_call", resp) /\ UNCHANGED panel
    BY <1>3, <2>1
    DEF SpeculativeReturns, Emit, PanelIsolation, JudgeHasInput, panel, client
  <2>2. CASE StartPanel
    <3>1. \A m \in Panel : member'[m].err \in {"none", "unregistered"}
      BY <2>2 DEF StartPanel, Asked, Unregistered, Idle
    <3> QED
      BY <2>2, <3>1 DEF StartPanel, PanelIsolation, JudgeHasInput
  <2> QED
    BY <1>3, <2>1, <2>2 DEF SpeculativeReturns
<1>4. ASSUME NEW m \in Panel, NEW got, NEW err, Settle(m, got, err),
             err = "canceled" => ctx = "canceled", err = "deadline" => panelCtx = "deadline",
             pc' = "panel", UNCHANGED <<ctx, panelCtx>>
      PROVE  PanelSafe'
  <2>1. ASSUME NEW n \in Panel
        PROVE  member'[n].err = IF n = m THEN err ELSE member[n].err
    BY <1>4, <2>1 DEF Settle, TypeOK, Members
  <2> QED
    BY <1>4, <2>1 DEF PanelIsolation, JudgeHasInput
<1>5. ASSUME NEW m \in Panel, NEW got \in {"empty", "text"}, MemberReturns(m, got)
      PROVE  PanelSafe'
  <2>1. pc' = "panel" /\ UNCHANGED <<ctx, panelCtx>>
    BY <1>5 DEF MemberReturns, run, client
  <2>2. CASE member' = [member EXCEPT ![m] = [@ EXCEPT !.attempts = 2]]
    <3>1. ASSUME NEW n \in Panel PROVE member'[n].err = member[n].err
      BY <2>2, <3>1 DEF TypeOK, Members
    <3> QED
      BY <2>1, <3>1 DEF PanelIsolation, JudgeHasInput
  <2>3. CASE Settle(m, got, "none")
    BY <1>4, <2>1, <2>3
  <2> QED
    BY <1>5, <2>2, <2>3 DEF MemberReturns
<1>6. ASSUME NEW m \in Panel, MemberFails(m) PROVE PanelSafe'
  BY <1>4, <1>6 DEF MemberFails, run, client
<1>7. ASSUME NEW m \in Panel, MemberCutShort(m) PROVE PanelSafe'
  BY <1>4, <1>7 DEF MemberCutShort, WireSafe, ControlInv, run, client
<1>8. CASE PanelTimeout
  BY <1>8 DEF PanelTimeout, WireSafe, ControlInv, PanelIsolation, JudgeHasInput, run, client
<1>9. CASE PanelDone
  <2>1. UNCHANGED <<member, panelCtx, spec, ctx>>
    BY <1>9 DEF PanelDone, panel, client
  <2>2. PanelIsolation'
    BY <2>1 DEF PanelIsolation
  <2>3. CASE pc' = "judge" /\ promoted' = Sparse /\ (Sparse => spec.text)
    <3>1. Successes' = Successes
      BY <2>1 DEF Successes, Success
    <3> QED
      BY <2>1, <2>2, <2>3, <3>1, QuorumInput DEF JudgeHasInput, JudgeInputs, Sparse
  <2>4. CASE pc' = "emit"
    BY <2>2, <2>4 DEF JudgeHasInput
  <2> QED
    BY <1>9, <2>3, <2>4 DEF PanelDone, Emit
<1>10. CASE CtxCanceled
  BY <1>10
  DEF CtxCanceled, PanelIsolation, JudgeHasInput, JudgeInputs, Successes, Success, run
<1> QED
  BY <1>2, <1>3, <1>5, <1>6, <1>7, <1>8, <1>9, <1>10 DEF Next, Sidecar, Upstream, Returned

-----------------------------------------------------------------------------
(* What is billed.                                                          *)

\* The panel's sets are finite, and the one that gains a member counts one more.
LEMMA PanelSets ==
  ASSUME NEW S \in SUBSET Panel
  PROVE  /\ IsFiniteSet(S) /\ Cardinality(S) \in Nat
         /\ \A m \in Panel \ S : Cardinality(S \cup {m}) = Cardinality(S) + 1
<1>1. IsFiniteSet(S)
  BY FS_Subset, PanelAssumption
<1> QED
  BY <1>1, FS_CardinalityType, FS_AddElement

\* Every step bills what it spends, but for the answers that are thrown away, those
\* of a panel under way and a stream that is not through.
UsageSafe == MemberInv /\ UsageAccounting
LEMMA UsageStep ==
  ASSUME TypeOK, TypeOK', UsageSafe, [Next]_vars
  PROVE  UsageSafe'
<1> USE DEF UsageSafe
<1>1. /\ Retried \in SUBSET Panel /\ Unbilled \in SUBSET Panel
      /\ Cardinality(Retried) \in Nat /\ Cardinality(Unbilled) \in Nat
      /\ spent \in Nat /\ usage \in Nat /\ Cardinality({}) = 0
  BY PanelSets, FS_EmptySet DEF Retried, Unbilled, TypeOK
<1>2. (pc # "panel" => Unbilled = {}) /\ Cut \in {0, 1} /\ Cut' \in {0, 1}
  BY DEF Unbilled, Cut
\* Outside the panel.
<1>3. ASSUME UNCHANGED member, pc # "panel", pc' \notin {"panel", "start"},
             pc' = "speculative" => pc = "start",
             spent' - spent = (usage' - usage) + (Cut' - Cut)
      PROVE  UsageSafe'
  <2>1. MemberInv'
    BY <1>3 DEF MemberInv
  <2>2. Retried' = Retried /\ Unbilled' = {}
    BY <1>3 DEF Retried, Unbilled
  <2>3. usage' \in Nat /\ spent' \in Nat
    BY DEF TypeOK
  <2>4. Cardinality(Unbilled) = 0 /\ Cardinality(Unbilled') = 0
    BY <1>1, <1>2, <1>3, <2>2
  <2>5. spent' = usage' + Cardinality(Retried) + Cut'
    BY <1>1, <1>2, <1>3, <2>3, <2>4 DEF UsageAccounting
  <2>6. UsageAccounting'
    BY <1>1, <1>2, <2>2, <2>3, <2>4, <2>5 DEF UsageAccounting
  <2> QED
    BY <2>1, <2>6
<1>4. CASE \/ PrimaryMissing \/ CallSpeculative \/ SpeculativeFails \/ EmitAccepted \/ EmitRefused
           \/ JudgeFails \/ JudgeMissing \/ FinishAccepted \/ FinishRefused
           \/ StreamContent \/ StreamAside \/ StreamBreaks
  <2>1. /\ UNCHANGED <<member, spent, usage>> /\ pc # "panel"
        /\ pc' \notin {"panel", "start"}
        /\ pc' = "speculative" => pc = "start"
    BY <1>4 DEF PrimaryMissing, CallSpeculative, SpeculativeFails, EmitAccepted, EmitRefused,
      JudgeFails, JudgeMissing, FinishAccepted, FinishRefused, StreamContent, StreamAside,
      StreamBreaks, Degrade, Emit, StreamFailed, Return, panel, bill
  <2>2. stream' = stream \/ (stream = "open" /\ stream' = "broken")
    BY <1>4 DEF PrimaryMissing, CallSpeculative, SpeculativeFails, EmitAccepted, EmitRefused,
      JudgeFails, JudgeMissing, FinishAccepted, FinishRefused, StreamContent, StreamAside,
      StreamBreaks, Degrade
  <2>3. Cut' = Cut
    BY <2>2 DEF Cut
  <2> QED
    BY <1>1, <1>2, <1>3, <2>1, <2>3
<1>5. CASE StreamOpens \/ StreamEnds \/ \E parses \in BOOLEAN : JudgeReturns(parses)
  <2>1. /\ UNCHANGED member /\ pc # "panel" /\ pc' \notin {"panel", "start", "speculative"}
    BY <1>5 DEF StreamOpens, StreamEnds, JudgeReturns, Degrade, Emit, panel
  <2>2. CASE StreamOpens
    BY <1>1, <1>3, <2>1, <2>2 DEF StreamOpens, Cut
  <2>3. CASE StreamEnds
    BY <1>1, <1>3, <2>1, <2>3 DEF StreamEnds, Cut
  <2>4. CASE \E parses \in BOOLEAN : JudgeReturns(parses)
    <3>1. spent' = spent + 1 /\ usage' = usage + 1 /\ stream' = stream
      BY <2>4 DEF JudgeReturns, Degrade
    <3> QED
      BY <1>1, <1>3, <2>1, <3>1 DEF Cut
  <2> QED
    BY <1>5, <2>2, <2>3, <2>4
<1>6. ASSUME NEW resp \in Responses, SpeculativeReturns(resp) PROVE UsageSafe'
  <2>1. pc = "speculative" /\ spent' = spent + 1 /\ usage' = usage + 1 /\ Cut' = Cut
    BY <1>6 DEF SpeculativeReturns, Cut
  <2>2. CASE Emit("tool_call", resp) /\ UNCHANGED panel
    BY <1>1, <1>2, <1>3, <2>1, <2>2 DEF Emit, panel
  <2>3. CASE StartPanel
    <3>1. pc' = "panel" /\ \A m \in Panel : member'[m].got = "none" /\ member'[m].attempts # 2
      BY <2>3 DEF StartPanel, Asked, Unregistered, Idle
    <3>2. MemberInv'
      BY <3>1 DEF MemberInv
    <3>3. Retried = {} /\ Retried' = {} /\ Unbilled' = {}
      BY <2>1, <3>1 DEF MemberInv, Retried, Unbilled
    <3>4. /\ Cardinality(Retried) = 0 /\ Cardinality(Unbilled) = 0
          /\ Cardinality(Retried') = 0 /\ Cardinality(Unbilled') = 0
      BY <1>1, <1>2, <2>1, <3>3
    <3>5. UsageAccounting'
      BY <1>1, <1>2, <2>1, <3>4 DEF UsageAccounting
    <3> QED
      BY <3>2, <3>5
  <2> QED
    BY <1>6, <2>2, <2>3 DEF SpeculativeReturns
\* In the panel.
<1>7. ASSUME NEW m \in Panel, NEW got \in {"empty", "text"}, MemberReturns(m, got)
      PROVE  UsageSafe'
  <2>1. /\ pc = "panel" /\ pc' = "panel" /\ member[m].at = "asked" /\ member[m].got = "none"
        /\ spent' = spent + 1 /\ usage' = usage /\ Cut' = Cut
    BY <1>7 DEF MemberReturns, run, MemberInv, Cut
  <2>2. CASE got = "empty" /\ member[m].attempts = 1
    <3>1. \A n \in Panel :
            /\ member'[n].got = member[n].got /\ member'[n].at = member[n].at
            /\ member'[n].attempts = IF n = m THEN 2 ELSE member[n].attempts
      BY <1>7, <2>2 DEF MemberReturns, TypeOK, Members
    <3>2. MemberInv'
      BY <2>1, <3>1 DEF MemberInv
    <3>3. Unbilled' = Unbilled
      BY <2>1, <3>1 DEF Unbilled
    <3>4. Retried' = Retried \cup {m} /\ m \notin Retried
      BY <2>2, <3>1 DEF Retried
    <3>5. Cardinality(Retried') = Cardinality(Retried) + 1
      BY <1>1, <3>4, PanelSets
    <3> QED
      BY <1>1, <1>2, <2>1, <3>2, <3>3, <3>5 DEF UsageAccounting
  <2>3. CASE ~(got = "empty" /\ member[m].attempts = 1)
    <3>1. \A n \in Panel :
            /\ member'[n].got = IF n = m THEN got ELSE member[n].got
            /\ member'[n].at = IF n = m THEN "done" ELSE member[n].at
            /\ member'[n].attempts = member[n].attempts
      <4>1. Settle(m, got, "none")
        BY <1>7, <2>3 DEF MemberReturns
      <4> QED
        BY <4>1 DEF Settle, TypeOK, Members
    <3>2. MemberInv'
      BY <2>1, <3>1 DEF MemberInv
    <3>3. Retried' = Retried
      BY <3>1 DEF Retried
    <3>4. Unbilled' = Unbilled \cup {m} /\ m \notin Unbilled
      BY <2>1, <3>1 DEF Unbilled
    <3>5. Cardinality(Unbilled') = Cardinality(Unbilled) + 1
      BY <1>1, <3>4, PanelSets
    <3> QED
      BY <1>1, <1>2, <2>1, <3>2, <3>3, <3>5 DEF UsageAccounting
  <2> QED
    BY <2>2, <2>3
<1>8. ASSUME NEW m \in Panel, MemberFails(m) \/ MemberCutShort(m) PROVE UsageSafe'
  <2>1. /\ pc = "panel" /\ pc' = "panel" /\ member[m].at = "asked" /\ member[m].got = "none"
        /\ UNCHANGED <<spent, usage, Cut>> /\ \E err : Settle(m, "none", err)
    BY <1>8 DEF MemberFails, MemberCutShort, run, bill, MemberInv, Cut
  <2>2. \A n \in Panel :
          /\ member'[n].got = member[n].got
          /\ member'[n].at = IF n = m THEN "done" ELSE member[n].at
          /\ member'[n].attempts = member[n].attempts
    BY <2>1 DEF Settle, TypeOK, Members
  <2>3. MemberInv'
    BY <2>1, <2>2 DEF MemberInv
  <2>4. Retried' = Retried /\ Unbilled' = Unbilled
    BY <2>1, <2>2 DEF Retried, Unbilled
  <2> QED
    BY <2>1, <2>3, <2>4 DEF UsageAccounting
<1>9. CASE PanelDone
  <2>1. /\ UNCHANGED <<member, spent>> /\ pc = "panel" /\ pc' \in {"emit", "judge"}
        /\ usage' = usage + Cardinality(Answered) /\ Cut' = Cut
    BY <1>9 DEF PanelDone, Emit, panel, Cut
  <2>2. Unbilled = Answered /\ Unbilled' = {} /\ Retried' = Retried
    BY <2>1 DEF Unbilled, Answered, Retried
  <2>3. MemberInv'
    BY <2>1 DEF MemberInv
  <2> QED
    BY <1>1, <1>2, <2>1, <2>2, <2>3 DEF UsageAccounting
<1>10. CASE PanelTimeout \/ ClientLeaves \/ CtxCanceled \/ UNCHANGED vars
  <2>1. UNCHANGED <<pc, stream, member, spent, usage>>
    BY <1>10 DEF PanelTimeout, ClientLeaves, CtxCanceled, vars, run, panel, bill
  <2> QED
    BY <2>1 DEF MemberInv, UsageAccounting, Retried, Unbilled, Cut
<1> QED
  BY <1>4, <1>5, <1>6, <1>7, <1>8, <1>9, <1>10 DEF Next, Sidecar, Upstream, Returned

-----------------------------------------------------------------------------
\* The inductive invariant holds in every state of every run of the pipeline.
THEOREM Invariance == Spec => []IInv
<1>1. Init => IInv
  <2> SUFFICES ASSUME Init PROVE IInv
    OBVIOUS
  <2>1. TurnInv
    BY TypeInit, WireInit, PanelInit DEF TurnInv, WireSafe, PanelSafe
  <2>2. \A m \in Panel : member[m] = Idle
    BY DEF Init
  <2>3. MemberInv
    BY <2>2 DEF Idle, MemberInv
  <2>4. Retried = {} /\ Unbilled = {}
    BY <2>2 DEF Idle, Retried, Unbilled
  <2>5. UsageAccounting
    BY <2>4, FS_EmptySet DEF Init, UsageAccounting, Cut
  <2> QED
    BY <2>1, <2>3, <2>5 DEF IInv
<1>2. IInv /\ [Next]_vars => IInv'
  <2> SUFFICES ASSUME IInv, [Next]_vars PROVE IInv'
    OBVIOUS
  <2>1. TypeOK'
    BY TypeStep DEF IInv, TurnInv
  <2>2. WireSafe'
    BY <2>1, WireStep DEF IInv, TurnInv, WireSafe
  <2>3. PanelSafe'
    BY PanelStep DEF IInv, TurnInv, WireSafe, PanelSafe
  <2>4. UsageSafe'
    BY <2>1, UsageStep DEF IInv, TurnInv, UsageSafe
  <2> QED
    BY <2>1, <2>2, <2>3, <2>4 DEF IInv, TurnInv, WireSafe, PanelSafe, UsageSafe
<1> QED
  BY <1>1, <1>2, PTL DEF Spec

\* Every variable has its type, whatever the upstream models and the client do.
THEOREM TypeCorrect == Spec => []TypeOK
BY Invariance, PTL DEF IInv, TurnInv

\* No client reads text of two answers, whatever asides of a final stream stand in
\* front of the one it reads.
THEOREM OneAnswerAlways == Spec => []OneAnswer
BY Invariance, PTL DEF IInv, TurnInv

\* [DONE], what was read before it and the decision always agree, and a failed turn
\* has shown a finish reason to nobody who stayed.
THEOREM DecisionAlwaysMatchesWire == Spec => []DecisionMatchesWire
BY Invariance, PTL DEF IInv, TurnInv

\* No panel member is disturbed by another one.
THEOREM PanelIsolated == Spec => []PanelIsolation
BY Invariance, PTL DEF IInv, TurnInv

\* Nothing is billed twice, and what is missing is known: the empty first answers of
\* the members asked twice and a final stream that broke, in whatever order the panel
\* answers, times out or is cancelled (pipeline.go:143-148, panel.go:118-132).
THEOREM UsageAlwaysAccounted == Spec => []UsageAccounting
BY Invariance, PTL DEF IInv

\* The judge always has between one and |Panel| texts to compare, the speculative
\* response among them exactly when the panel missed its quorum.
THEOREM JudgeAlwaysHasInput == Spec => []JudgeHasInput
BY Invariance, PTL DEF IInv, TurnInv

-----------------------------------------------------------------------------
(* Run implements TurnContract.                                             *)

\* A step that leaves the wire and the outcome alone stutters, or is the client
\* leaving.
LEMMA Invisible ==
  ASSUME TypeOK, TypeOK', wire' = wire, dec'.kind = dec.kind,
         conn' = conn \/ (conn = "up" /\ conn' = "down")
  PROVE  [Contract!Next]_(Contract!vars)
BY DEF TypeOK, Sent, Contract!Next, Contract!vars, Contract!Leave

\* A step that only records a failure, in front of nobody who has read a finish
\* reason.
LEMMA Failing ==
  ASSUME wire' = wire, conn' = conn, dec.kind = "none", dec'.kind = "failed",
         Sent("finish") => conn # "up"
  PROVE  [Contract!Next]_(Contract!vars)
<1>1. \A x \in Items : Sent(x)' <=> Sent(x)
  BY DEF Sent
<1>2. /\ Sent("final")' = Sent("final") /\ Sent("spec")' = Sent("spec")
      /\ Sent("call")' = Sent("call") /\ Sent("aside")' = Sent("aside")
      /\ Sent("finish")' = Sent("finish") /\ Sent("done")' = Sent("done")
  BY <1>1 DEF Items, Sent
<1>3. Contract!Fail
  BY <1>2 DEF Contract!Fail
<1> QED
  BY <1>3 DEF Contract!Next

\* One more item for a client that has not read the end: text or tool calls of an
\* answer, an aside, or the finish chunk.
LEMMA Delivering ==
  ASSUME TypeOK, ~Sent("finish"), ~Sent("done"), dec.kind = "none", dec'.kind = "none",
         conn = "up", conn' = "up", NEW item \in Items \ {"done"},
         wire' = Append(wire, item),
         item \in {"final", "aside"} => ~Sent("spec") /\ ~Sent("call"),
         item \in {"spec", "call"} => ~Sent("final")
  PROVE  [Contract!Next]_(Contract!vars)
<1>1. \A x \in Items : Sent(x)' <=> (Sent(x) \/ x = item)
  BY AppendWire
<1>2. /\ ~Sent("done")'
      /\ item # "finish" => ~Sent("finish")'
      /\ item # "aside" => Sent("aside")' = Sent("aside")
      /\ item # "final" => Sent("final")' = Sent("final")
      /\ item \notin {"spec", "call"} =>
           (Sent("spec") \/ Sent("call"))' = (Sent("spec") \/ Sent("call"))
  BY <1>1 DEF Items, Sent
<1>3. CASE item = "final"
  <2>1. Sent("final")' /\ ~Sent("spec") /\ ~Sent("call")
    BY <1>1, <1>3 DEF Items
  <2>2. Contract!Deliver("fused")
    BY <1>2, <1>3, <2>1 DEF Contract!Deliver, Contract!Open
  <2> QED
    BY <2>2 DEF Contract!Next, Contract!Sources
<1>4. CASE item \in {"spec", "call"}
  <2>1. ~Sent("final")' /\ ~Sent("final") /\ (Sent("spec")' \/ Sent("call")')
    BY <1>1, <1>4 DEF Items
  <2>2. Contract!Deliver("speculative")
    BY <1>2, <1>4, <2>1 DEF Contract!Deliver, Contract!Open
  <2> QED
    BY <2>2 DEF Contract!Next, Contract!Sources
<1>5. CASE item = "aside"
  <2>1. Sent("aside")' /\ Sent("aside")' = TRUE /\ ~Sent("spec") /\ ~Sent("call")
    BY <1>1, <1>5 DEF Items, Sent
  <2>2. Contract!DeliverAside
    BY <1>2, <1>5, <2>1 DEF Contract!DeliverAside, Contract!Open
  <2> QED
    BY <2>2 DEF Contract!Next
<1>6. CASE item = "finish"
  <2>1. Sent("finish")'
    BY <1>1, <1>6 DEF Items
  <2>2. Contract!Announce
    BY <1>2, <1>6, <2>1 DEF Contract!Announce, Contract!Open
  <2> QED
    BY <2>2 DEF Contract!Next
<1> QED
  BY <1>3, <1>4, <1>5, <1>6 DEF Items

\* [DONE] and the decision, in one step.
LEMMA Finishing ==
  ASSUME TypeOK, TypeOK', ~Sent("done"), dec.kind = "none",
         dec'.kind \in {"tool_call", "degraded", "fusion"}, conn' = conn,
         conn = "up" => Sent("finish"),
         \/ conn = "up" /\ wire' = Append(wire, "done")
         \/ conn = "down" /\ wire' = wire,
         dec'.kind = "fusion" => ~Sent("spec") /\ ~Sent("call"),
         dec'.kind # "fusion" => ~Sent("final"),
         dec'.kind = "tool_call" => ~Sent("aside")
  PROVE  [Contract!Next]_(Contract!vars)
<1>1. \A x \in Items : Sent(x)' <=> (Sent(x) \/ (conn = "up" /\ x = "done"))
  <2>1. CASE conn = "up" /\ wire' = Append(wire, "done")
    BY <2>1, AppendWire DEF Items
  <2>2. CASE conn = "down" /\ wire' = wire
    BY <2>2 DEF Sent
  <2> QED
    BY <2>1, <2>2
<1>2. /\ Sent("final")' = Sent("final") /\ Sent("spec")' = Sent("spec")
      /\ Sent("call")' = Sent("call") /\ Sent("aside")' = Sent("aside")
      /\ Sent("finish")' = Sent("finish") /\ Sent("done")' = (conn = "up")
  BY <1>1 DEF Items, Sent
<1> DEFINE answer == IF Sent("final") THEN "fused"
                     ELSE IF Sent("spec") \/ Sent("call") THEN "speculative" ELSE "none"
<1>3. answer \in {"none", Contract!SourceOf[dec'.kind]} /\ answer' = answer
  BY <1>2 DEF Contract!SourceOf
<1> HIDE DEF answer
<1>4. CASE conn = "up"
  <2>1. Contract!Finish(dec'.kind)
    BY <1>2, <1>3, <1>4 DEF Contract!Finish, answer
  <2> QED
    BY <2>1 DEF Contract!Next, Contract!SourceOf
<1>5. CASE conn = "down"
  <2>1. Contract!Finish(dec'.kind)
    BY <1>2, <1>3, <1>5 DEF Contract!Finish, answer
  <2> QED
    BY <2>1 DEF Contract!Next, Contract!SourceOf
<1> QED
  BY <1>4, <1>5 DEF TypeOK

\* A client that stayed has read the finish chunk exactly when [DONE] is all that
\* emitBuffered has still to write.
LEMMA EmitFinish ==
  ASSUME TypeOK, pc = "emit", EmitInv, conn = "up"
  PROVE  Sent("finish") <=> Len(todo) = 1
<1> DEFINE all == Buffered(spec)
<1>1. PICK k \in 0 .. Len(wire) : Led(k, Len(all) - Len(todo))
  BY DEF EmitInv
<1>2. PICK a \in Nat, b \in Nat, w \in Nat : a = Len(all) /\ b = Len(todo) /\ w = Len(wire)
  <2>1. Len(wire) \in Nat
    BY LenProperties DEF TypeOK
  <2> QED
    BY <2>1, NextItem
<1>3. /\ w = k + (a - b) /\ k \in Nat /\ b >= 1 /\ a >= b /\ a >= 2
      /\ \A i \in 1 .. w : wire[i] = IF i <= k THEN "aside" ELSE all[i - k]
  BY <1>1, <1>2, NextItem, BufferedShape DEF Led, TypeOK
<1>4. \A i \in 1 .. a : all[i] = "finish" <=> i = a - 1
  BY <1>2, BufferedShape DEF TypeOK
<1> HIDE DEF all
<1>5. ASSUME Sent("finish") PROVE b = 1
  <2>1. PICK i \in 1 .. w : wire[i] = "finish"
    BY <1>2, <1>5 DEF Sent
  <2>2. i - k \in 1 .. a /\ all[i - k] = "finish"
    BY <1>3, <2>1
  <2>3. i - k = a - 1
    BY <1>4, <2>2
  <2> QED
    BY <1>3, <2>1, <2>3
<1>6. ASSUME b = 1 PROVE Sent("finish")
  <2>1. w \in 1 .. w /\ w - k = a - 1 /\ ~(w <= k)
    BY <1>3, <1>6
  <2>2. all[a - 1] = "finish"
    BY <1>3, <1>4
  <2>3. wire[w] = "finish"
    BY <1>3, <2>1, <2>2
  <2> QED
    BY <1>2, <2>1, <2>3 DEF Sent
<1> QED
  BY <1>2, <1>5, <1>6

\* Every step of a run is a step of the contract, or is not visible to the client.
LEMMA ContractStep == TurnInv /\ TurnInv' /\ [Next]_vars => [Contract!Next]_(Contract!vars)
<1> SUFFICES ASSUME TurnInv, TurnInv', [Next]_vars PROVE [Contract!Next]_(Contract!vars)
  OBVIOUS
<1> USE DEF TurnInv
<1>1. CASE PrimaryMissing \/ SpeculativeFails
  <2>1. /\ dec.kind = "none" /\ dec'.kind = "failed" /\ UNCHANGED <<wire, conn>>
        /\ wire = <<>>
    BY <1>1
    DEF PrimaryMissing, SpeculativeFails, Return, Fresh, ControlInv, WireInv, sink, client
  <2> QED
    BY <2>1, Failing DEF Sent
<1>2. CASE EmitRefused
  BY <1>2, Failing DEF EmitRefused, Return, Refuse, Fresh, ControlInv, client
<1>3. CASE \/ CallSpeculative \/ PanelTimeout \/ CtxCanceled \/ ClientLeaves \/ UNCHANGED vars
           \/ JudgeFails \/ JudgeMissing \/ StreamOpens \/ StreamEnds
           \/ \E m \in Panel : \/ MemberFails(m) \/ MemberCutShort(m)
                               \/ \E got \in {"empty", "text"} : MemberReturns(m, got)
           \/ \E resp \in Responses : SpeculativeReturns(resp)
  BY <1>3, Invisible
  DEF CallSpeculative, PanelTimeout, CtxCanceled, ClientLeaves, vars, JudgeFails, JudgeMissing,
      Degrade, MemberFails, MemberCutShort, MemberReturns, SpeculativeReturns, StreamOpens,
      StreamEnds, run, sink, client
<1>4. CASE PanelDone \/ \E parses \in BOOLEAN : JudgeReturns(parses)
  <2>1. UNCHANGED <<wire, conn>> /\ dec'.kind = dec.kind
    BY <1>4 DEF PanelDone, JudgeReturns, Degrade, sink, client, TypeOK, Decisions
  <2> QED
    BY <2>1, Invisible
<1>5. ASSUME NEW saw \in BOOLEAN, pc \in {"final", "finishing"}, StreamFailed(saw),
             Sent("finish") => conn # "up", UNCHANGED <<wire, conn>>
      PROVE  [Contract!Next]_(Contract!vars)
  <2>1. dec.kind = "none" /\ dec'.kind \in {"none", "failed"}
    BY <1>5 DEF StreamFailed, Return, ControlInv, TypeOK, Decisions
  <2> QED
    BY <1>5, <2>1, Failing, Invisible
<1>6. /\ pc \in {"final", "finishing"} =>
           dec.kind = "none" /\ ~Sent("done") /\ ~Sent("spec") /\ ~Sent("call")
      /\ pc = "final" => ~Sent("finish")
  BY DEF WireInv, StreamInv, ControlInv, Sent
<1>7. ASSUME pc = "final", NEW item \in {"final", "aside"}, Accept(item),
             UNCHANGED <<dec, conn>>
      PROVE  [Contract!Next]_(Contract!vars)
  <2>1. CASE conn = "up" /\ wire' = Append(wire, item)
    BY <1>6, <1>7, <2>1, Delivering DEF Items
  <2>2. CASE conn = "down" /\ wire' = wire
    BY <1>7, <2>2, Invisible
  <2> QED
    BY <1>7, <2>1, <2>2, Written DEF Items
<1>8. CASE StreamContent \/ StreamAside
  <2>1. pc = "final" /\ conn' = conn
    BY <1>8 DEF StreamContent, StreamAside, client
  <2>2. CASE \E item \in {"final", "aside"} : Accept(item) /\ UNCHANGED dec
    BY <1>7, <2>1, <2>2
  <2>3. CASE Refuse /\ \E saw \in BOOLEAN : StreamFailed(saw)
    BY <1>5, <1>6, <2>1, <2>3 DEF Refuse
  <2> QED
    BY <1>8, <2>2, <2>3 DEF StreamContent, StreamAside, TypeOK
<1>9. CASE StreamBreaks
  BY <1>5, <1>6, <1>9 DEF StreamBreaks, sink, client, TypeOK
<1>10. CASE FinishRefused
  BY <1>5, <1>10 DEF FinishRefused, Refuse, client, TypeOK
<1>11. CASE FinishAccepted
  <2>1. /\ pc = "finishing" /\ conn' = conn /\ Accept(Head(todo)) /\ todo' = Tail(todo)
        /\ \/ todo = <<"finish", "done">> /\ ~Sent("finish")
           \/ todo = <<"done">> /\ (conn = "up" => Sent("finish"))
    BY <1>11 DEF FinishAccepted, WireInv, client
  <2>2. CASE todo = <<"finish", "done">> /\ ~Sent("finish")
    <3>1. Head(todo) = "finish" /\ Tail(todo) # <<>>
      BY <2>2
    <3>2. dec' = dec
      BY <1>11, <3>1 DEF FinishAccepted
    <3>3. CASE conn = "up" /\ wire' = Append(wire, "finish")
      BY <1>6, <2>1, <2>2, <3>2, <3>3, Delivering DEF Items
    <3>4. CASE conn = "down" /\ wire' = wire
      BY <2>1, <3>2, <3>4, Invisible
    <3> QED
      BY <2>1, <3>1, <3>3, <3>4, Written DEF Items
  <2>3. CASE todo = <<"done">> /\ (conn = "up" => Sent("finish"))
    <3>1. Head(todo) = "done" /\ Tail(todo) = <<>>
      BY <2>3
    <3>2. dec'.kind = "fusion"
      BY <1>11, <3>1 DEF FinishAccepted, Return, TypeOK, Decisions
    <3>3. \/ conn = "up" /\ wire' = Append(wire, "done")
          \/ conn = "down" /\ wire' = wire
      BY <2>1, <3>1, Written DEF Items
    <3> QED
      BY <1>6, <2>1, <2>3, <3>2, <3>3, Finishing
  <2> QED
    BY <2>1, <2>2, <2>3
<1>12. CASE EmitAccepted
  <2>1. /\ pc = "emit" /\ EmitInv /\ dec.kind = "none" /\ conn' = conn
        /\ Accept(Head(todo)) /\ ~Sent("done") /\ ~Sent("final")
        /\ Sent("aside") => cause = "primary_final_failed"
    BY <1>12 DEF EmitAccepted, WireInv, EmitInv, ControlInv, client
  <2>2. /\ Head(todo) = todo[1] /\ todo[1] \in Parts
        /\ todo[1] = "done" <=> Len(todo) = 1
        /\ Tail(todo) = <<>> <=> Len(todo) = 1
    BY <2>1, NextItem
  <2>3. \/ conn = "up" /\ wire' = Append(wire, todo[1])
        \/ conn = "down" /\ wire' = wire
    BY <2>1, <2>2, Written DEF Items, Parts
  <2>4. conn = "up" => (Sent("finish") <=> Len(todo) = 1)
    BY <2>1, EmitFinish
  <2>5. CASE Tail(todo) = <<>>
    <3>1. /\ dec'.kind \in {"tool_call", "degraded"} /\ todo[1] = "done"
          /\ dec'.kind = "tool_call" => ~Sent("aside")
      BY <1>12, <2>1, <2>2, <2>5 DEF EmitAccepted, Return, Fresh
    <3> QED
      BY <2>1, <2>2, <2>3, <2>4, <2>5, <3>1, Finishing
  <2>6. CASE Tail(todo) # <<>>
    <3>1. dec' = dec /\ todo[1] \in Items \ {"done"} /\ todo[1] \notin {"final", "aside"}
      BY <1>12, <2>2, <2>6 DEF EmitAccepted, Items, Parts
    <3>2. CASE conn = "up" /\ wire' = Append(wire, todo[1])
      BY <2>1, <2>2, <2>4, <2>6, <3>1, <3>2, Delivering
    <3>3. CASE conn = "down" /\ wire' = wire
      BY <2>1, <3>1, <3>3, Invisible
    <3> QED
      BY <2>3, <3>2, <3>3
  <2> QED
    BY <2>5, <2>6
<1> QED
  BY <1>1, <1>2, <1>3, <1>4, <1>8, <1>9, <1>10, <1>11, <1>12
  DEF Next, Sidecar, Upstream, Returned

\* Every run of the pipeline is a run of the contract.
THEOREM ContractImplemented == Spec => ImplementsContract
<1>1. Init => Contract!Init
  BY DEF Init, Contract!Init, Sent, Fresh
<1>2. TurnInv /\ TurnInv' /\ [Next]_vars => [Contract!Next]_(Contract!vars)
  BY ContractStep
<1>3. IInv => TurnInv
  BY DEF IInv
<1> QED
  BY <1>1, <1>2, <1>3, Invariance, PTL DEF Spec, ImplementsContract, Contract!Spec
=============================================================================
