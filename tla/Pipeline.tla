------------------------------ MODULE Pipeline ------------------------------
(***************************************************************************)
(* One run of fusion.Pipeline.Run: a speculative call, the panel fan-out,   *)
(* the judge, the streamed final answer, and every fallback between them.   *)
(* The actors are the goroutine that executes Run, one goroutine per panel  *)
(* member, the panel's timer, the upstream models, and the client at the    *)
(* other end of the sink.                                                   *)
(*                                                                         *)
(* A text is only empty or not; the sink carries items: "spec" (the whole   *)
(* speculative text), "call" (a tool-call delta of it), "final" (a content  *)
(* delta of the final stream), "aside" (a tool-call or reasoning delta of   *)
(* the final stream), and the two frames of SendFinish, "finish" (the chunk *)
(* with the finish reason) and "done" ([DONE]).  Progress deltas are left   *)
(* out: Run ignores what becomes of them.                                   *)
(*                                                                         *)
(* A definition named X_Something is X with one plausible mistake; it takes *)
(* no part in the specification.                                           *)
(***************************************************************************)
EXTENDS Naturals, Sequences, FiniteSets

CONSTANTS
  Panel,        \* model.Panel: the panel's endpoints
  Primary,      \* model.Primary
  Judge,        \* model.Judge
  MinSuccess,   \* model.PanelMinSuccess
  Registries,   \* the sets of endpoints whose provider may be registered
  MaxCalls,     \* bound: tool-call deltas of one speculative response
  MaxChunks     \* bound: deltas of one final stream

\* Config.Validate: a non-empty panel, and 1 <= panel_min_success <= its size.
ASSUME PanelAssumption ==
  /\ IsFiniteSet(Panel)
  /\ MinSuccess \in 1 .. Cardinality(Panel)
ASSUME EndpointAssumption ==
  /\ Primary \notin Panel /\ Judge \notin Panel /\ Primary # Judge
  /\ Registries \subseteq SUBSET (Panel \cup {Primary, Judge})
ASSUME BoundAssumption == MaxCalls \in Nat /\ MaxChunks \in Nat

VARIABLES
  pc,           \* where Run is
  registered,   \* the endpoints whose provider is in Run's registry
  spec,         \* specResp
  member,       \* rawResults: one PanelMemberResult per endpoint
  panelCtx,     \* the context of the panel calls: live, or why it ended
  promoted,     \* the speculative response stands in as a panelist
  sawContent,   \* contentGate.sawContent
  stream,       \* the final call's stream: none before the upstream answers
  todo,         \* what emitBuffered, or the final stream's Done, has yet to write
  cause,        \* why emitBuffered runs: "tool_call" or a fallback reason
  dec,          \* the Decision under construction, then the one returned
  usage,        \* responses rolled up into Decision.Usage
  spent,        \* responses the upstream models delivered or began, and bill
  ctx,          \* the request's context
  conn,         \* the client's connection
  sinkErr,      \* the sink has refused a write, and refuses every later one
  wire          \* the items written while the client was connected

run == <<pc, spec, promoted, sawContent, stream, todo, cause, dec>>
panel == <<member, panelCtx>>
bill == <<usage, spent>>
sink == <<sinkErr, wire>>
client == <<ctx, conn>>
vars == <<run, panel, bill, sink, client, registered>>

-----------------------------------------------------------------------------
Fallbacks == {"panel_insufficient", "judge_failed", "primary_final_failed"}

\* The reason degradeWithSpeculative and the passthrough record for a refused
\* write.
EmitFailed ==
  [tool_call            |-> "tool_call_emit_failed",
   panel_insufficient   |-> "panel_insufficient_emit_failed",
   judge_failed         |-> "judge_failed_emit_failed",
   primary_final_failed |-> "primary_final_failed_emit_failed"]

Kinds == {"none", "tool_call", "fusion", "degraded", "failed"}
Reasons ==
  Fallbacks \cup {EmitFailed[c] : c \in Fallbacks \cup {"tool_call"}}
    \cup {"none", "primary_provider_missing", "speculative_failed",
          "primary_final_failed_midstream"}
Decisions ==
  [kind : Kinds,
   reason : Reasons,
   panel : BOOLEAN,      \* Decision.Panel is set
   analysis : BOOLEAN]   \* Decision.JudgeAnalysis is set

\* A fresh Decision literal: whatever the run had recorded so far is not in it.
Fresh(kind, reason) ==
  [kind |-> kind, reason |-> reason, panel |-> FALSE, analysis |-> FALSE]

Responses == [text : BOOLEAN, calls : 0 .. MaxCalls,
              finish : {"stop", "tool_calls"}]
NoResponse == [text |-> FALSE, calls |-> 0, finish |-> "stop"]

IsFinalization(resp) == resp.calls = 0 /\ resp.finish # "tool_calls"

\* The items emitBuffered writes for a response: its text if there is one, its
\* tool-call deltas, and what SendFinish makes of Done.
Buffered(resp) ==
  LET n == (IF resp.text THEN 1 ELSE 0) + resp.calls + 2
  IN  [i \in 1 .. n |-> IF i = n THEN "done"
                        ELSE IF i = n - 1 THEN "finish"
                        ELSE IF i = 1 /\ resp.text THEN "spec" ELSE "call"]

Members == [at : {"idle", "asked", "done"}, attempts : 0 .. 2,
            got : {"none", "empty", "text"},
            err : {"none", "unregistered", "upstream", "deadline", "canceled"}]
Idle == [at |-> "idle", attempts |-> 0, got |-> "none", err |-> "none"]
Asked == [at |-> "asked", attempts |-> 1, got |-> "none", err |-> "none"]
Unregistered == [Idle EXCEPT !.at = "done", !.err = "unregistered"]

Success(m) == member[m].err = "none" /\ member[m].got = "text"
Successes == {m \in Panel : Success(m)}
Answered_OnlySuccesses == Successes
Answered == {m \in Panel : member[m].got # "none"}

Sparse_OffByOne == Cardinality(Successes) <= MinSuccess
Sparse == Cardinality(Successes) < MinSuccess

\* What the judge is given: the panel's successes and the promoted response.
JudgeInputs == Cardinality(Successes) + (IF promoted THEN 1 ELSE 0)

-----------------------------------------------------------------------------
Init ==
  /\ pc = "start" /\ registered \in Registries
  /\ spec = NoResponse /\ promoted = FALSE
  /\ sawContent = FALSE /\ stream = "none"
  /\ todo = <<>> /\ cause = "none" /\ dec = Fresh("none", "none")
  /\ member = [m \in Panel |-> Idle] /\ panelCtx = "live"
  /\ usage = 0 /\ spent = 0
  /\ ctx = "live" /\ conn = "up" /\ sinkErr = FALSE /\ wire = <<>>

\* A write to the sink.  Once the client is gone the server's buffers may
\* still take an item, which is then lost; a refused write is final.
Accept(item) ==
  /\ ~sinkErr
  /\ wire' = IF conn = "up" THEN Append(wire, item) ELSE wire
  /\ UNCHANGED sinkErr
Refuse ==
  /\ conn = "down"
  /\ sinkErr' = TRUE
  /\ UNCHANGED wire

Return(d) == pc' = "returned" /\ dec' = d

\* Every call outside the panel runs under the request's context.
CallLive_Detached == TRUE
CallLive == ctx = "live"

\* Begin emitBuffered(sink, resp).
Emit(why, resp) == pc' = "emit" /\ cause' = why /\ todo' = Buffered(resp)
Degrade(why) == Emit(why, spec) /\ UNCHANGED <<spec, promoted, sawContent, stream, dec>>

-----------------------------------------------------------------------------
(* Phase 1 and 2: the speculative call, and detection.                      *)

PrimaryMissing ==
  /\ pc = "start" /\ Primary \notin registered
  /\ Return(Fresh("failed", "primary_provider_missing"))
  /\ UNCHANGED <<spec, promoted, sawContent, stream, todo, cause,
                 panel, bill, sink, client, registered>>

CallSpeculative ==
  /\ pc = "start" /\ Primary \in registered
  /\ pc' = "speculative"
  /\ UNCHANGED <<spec, promoted, sawContent, stream, todo, cause, dec,
                 panel, bill, sink, client, registered>>

SpeculativeFails ==
  /\ pc = "speculative"
  /\ Return(Fresh("failed", "speculative_failed"))
  /\ UNCHANGED <<spec, promoted, sawContent, stream, todo, cause,
                 panel, bill, sink, client, registered>>

\* runPanel: a provider that is not registered is an error at once, every other
\* member gets a goroutine; a context derived from a cancelled one is cancelled.
StartPanel ==
  /\ pc' = "panel"
  /\ member' = [m \in Panel |-> IF m \in registered THEN Asked
                                                    ELSE Unregistered]
  /\ panelCtx' = IF ctx = "canceled" THEN "canceled" ELSE "live"

SpeculativeReturns(resp) ==
  /\ pc = "speculative" /\ CallLive
  /\ spec' = resp
  /\ spent' = spent + 1 /\ usage' = usage + 1
  /\ \/ /\ ~IsFinalization(resp)
        /\ Emit("tool_call", resp)
        /\ UNCHANGED panel
     \/ /\ IsFinalization(resp)
        /\ StartPanel
        /\ UNCHANGED <<todo, cause>>
  /\ UNCHANGED <<promoted, sawContent, stream, dec, sink, client, registered>>

-----------------------------------------------------------------------------
(* emitBuffered, item by item.                                              *)

EmitAccepted ==
  /\ pc = "emit" /\ Accept(Head(todo))
  /\ todo' = Tail(todo)
  /\ \/ /\ Tail(todo) # <<>>
        /\ UNCHANGED <<pc, dec>>
     \/ /\ Tail(todo) = <<>>
        /\ Return(IF cause = "tool_call" THEN Fresh("tool_call", "none")
                                         ELSE Fresh("degraded", cause))
  /\ UNCHANGED <<spec, promoted, sawContent, stream, cause,
                 panel, bill, client, registered>>

EmitRefused_Retries ==
  /\ pc = "emit" /\ Refuse
  /\ UNCHANGED <<run, panel, bill, client, registered>>

EmitRefused ==
  /\ pc = "emit" /\ Refuse
  /\ Return(Fresh("failed", EmitFailed[cause]))
  /\ UNCHANGED <<spec, promoted, sawContent, stream, todo, cause,
                 panel, bill, client, registered>>

-----------------------------------------------------------------------------
(* Phase 3: the panel.  A call succeeds, or fails by itself, only while its *)
(* context is live; afterwards it is cut short.                             *)

MemberLive_RetryDetached(m) == panelCtx = "live" \/ member[m].attempts = 2
MemberLive(m) == panelCtx = "live"

Settle(m, got, err) ==
  member' = [member EXCEPT ![m] = [@ EXCEPT !.at = "done", !.got = got,
                                             !.err = err]]

\* callPanelMember: an empty first answer is thrown away and asked for again.
MemberReturns(m, got) ==
  /\ pc = "panel" /\ member[m].at = "asked" /\ MemberLive(m)
  /\ spent' = spent + 1
  /\ IF got = "empty" /\ member[m].attempts = 1
     THEN member' = [member EXCEPT ![m] = [@ EXCEPT !.attempts = 2]]
     ELSE Settle(m, got, "none")
  /\ UNCHANGED <<run, panelCtx, usage, sink, client, registered>>

MemberFails_CancelsSiblings(m) ==
  /\ pc = "panel" /\ member[m].at = "asked" /\ MemberLive(m)
  /\ Settle(m, "none", "upstream")
  /\ panelCtx' = "canceled"
  /\ UNCHANGED <<run, bill, sink, client, registered>>

MemberFails(m) ==
  /\ pc = "panel" /\ member[m].at = "asked" /\ MemberLive(m)
  /\ Settle(m, "none", "upstream")
  /\ UNCHANGED <<run, panelCtx, bill, sink, client, registered>>

MemberCutShort(m) ==
  /\ pc = "panel" /\ member[m].at = "asked" /\ ~MemberLive(m)
  /\ Settle(m, "none", panelCtx)
  /\ UNCHANGED <<run, panelCtx, bill, sink, client, registered>>

PanelTimeout ==
  /\ pc = "panel" /\ panelCtx = "live"
  /\ panelCtx' = "deadline"
  /\ UNCHANGED <<run, member, bill, sink, client, registered>>

\* g.Wait returns; the responses are billed, and a sparse panel is completed
\* with the speculative response or given up.
PanelDone ==
  /\ pc = "panel" /\ \A m \in Panel : member[m].at = "done"
  /\ usage' = usage + Cardinality(Answered)
  /\ \/ /\ Sparse /\ ~spec.text
        /\ Emit("panel_insufficient", spec)
        /\ UNCHANGED <<promoted, dec>>
     \/ /\ Sparse => spec.text
        /\ pc' = "judge"
        /\ promoted' = Sparse
        /\ dec' = [dec EXCEPT !.panel = TRUE]
        /\ UNCHANGED <<todo, cause>>
  /\ UNCHANGED <<spec, sawContent, stream, panel, spent, sink, client, registered>>

-----------------------------------------------------------------------------
(* Phase 4: the judge, asked a second time when its answer is not JSON.     *)

JudgeFails ==
  /\ pc \in {"judge", "judgeRetry"}
  /\ Degrade("judge_failed")
  /\ UNCHANGED <<panel, bill, sink, client, registered>>

JudgeMissing ==
  /\ pc = "judge" /\ Judge \notin registered
  /\ Degrade("judge_failed")
  /\ UNCHANGED <<panel, bill, sink, client, registered>>

JudgeReturns(parses) ==
  /\ pc \in {"judge", "judgeRetry"} /\ Judge \in registered /\ CallLive
  /\ spent' = spent + 1 /\ usage' = usage + 1
  /\ \/ /\ parses
        /\ pc' = "final" /\ dec' = [dec EXCEPT !.analysis = TRUE]
        /\ UNCHANGED <<spec, promoted, sawContent, stream, todo, cause>>
     \/ /\ ~parses /\ pc = "judge"
        /\ pc' = "judgeRetry"
        /\ UNCHANGED <<spec, promoted, sawContent, stream, todo, cause, dec>>
     \/ /\ ~parses /\ pc = "judgeRetry"
        /\ Degrade("judge_failed")
  /\ UNCHANGED <<panel, sink, client, registered>>

-----------------------------------------------------------------------------
(* Phase 5: the streamed final answer.                                      *)

StreamFailed_NoGate(saw) ==
  Emit("primary_final_failed", spec) /\ UNCHANGED dec
StreamFailed_Swallowed(saw) ==
  Return([dec EXCEPT !.kind = "fusion"]) /\ UNCHANGED <<todo, cause>>

\* The stream has failed: salvage the turn if no content was sent.
StreamFailed(saw) ==
  IF saw THEN /\ Return([dec EXCEPT !.kind = "failed",
                          !.reason = "primary_final_failed_midstream"])
              /\ UNCHANGED <<todo, cause>>
         ELSE Emit("primary_final_failed", spec) /\ UNCHANGED dec

\* The upstream answers; from here on it bills the call.
StreamOpens ==
  /\ pc = "final" /\ stream = "none" /\ CallLive
  /\ stream' = "open" /\ spent' = spent + 1
  /\ UNCHANGED <<pc, spec, promoted, sawContent, todo, cause, dec,
                 panel, usage, sink, client, registered>>

\* contentGate notes the content before the inner sink is asked to take it.
StreamContent ==
  /\ pc = "final" /\ stream = "open" /\ CallLive /\ Len(wire) < MaxChunks
  /\ sawContent' = TRUE
  /\ \/ Accept("final") /\ UNCHANGED <<pc, stream, todo, cause, dec>>
     \/ Refuse /\ stream' = "broken" /\ StreamFailed(TRUE)
  /\ UNCHANGED <<spec, promoted, panel, bill, client, registered>>

\* A tool-call or reasoning delta passes the gate unnoticed.
StreamAside_Noted ==
  /\ pc = "final" /\ stream = "open" /\ CallLive /\ Len(wire) < MaxChunks
  /\ sawContent' = TRUE
  /\ \/ Accept("aside") /\ UNCHANGED <<pc, stream, todo, cause, dec>>
     \/ Refuse /\ stream' = "broken" /\ StreamFailed(TRUE)
  /\ UNCHANGED <<spec, promoted, panel, bill, client, registered>>
StreamAside ==
  /\ pc = "final" /\ stream = "open" /\ CallLive /\ Len(wire) < MaxChunks
  /\ \/ Accept("aside") /\ UNCHANGED <<pc, stream, todo, cause, dec>>
     \/ Refuse /\ stream' = "broken" /\ StreamFailed(sawContent)
  /\ UNCHANGED <<spec, promoted, sawContent, panel, bill, client, registered>>

\* The call fails, before its answer or in the middle of it: Stream returns the
\* error and no usage.
StreamBreaks ==
  /\ pc = "final"
  /\ stream' = IF stream = "open" THEN "broken" ELSE stream
  /\ StreamFailed(sawContent)
  /\ UNCHANGED <<spec, promoted, sawContent, panel, bill, sink, client, registered>>

\* The upstream is through: Stream calls Done and returns its error with the usage.
StreamEnds ==
  /\ pc = "final" /\ stream = "open" /\ CallLive
  /\ stream' = "ended" /\ usage' = usage + 1
  /\ pc' = "finishing" /\ todo' = <<"finish", "done">>
  /\ UNCHANGED <<spec, promoted, sawContent, cause, dec,
                 panel, spent, sink, client, registered>>

\* SendFinish: the finish chunk, and [DONE] if that was taken.
FinishAccepted ==
  /\ pc = "finishing" /\ Accept(Head(todo))
  /\ todo' = Tail(todo)
  /\ \/ Tail(todo) # <<>> /\ UNCHANGED <<pc, dec>>
     \/ Tail(todo) = <<>> /\ Return([dec EXCEPT !.kind = "fusion"])
  /\ UNCHANGED <<spec, promoted, sawContent, stream, cause,
                 panel, bill, client, registered>>

FinishRefused ==
  /\ pc = "finishing" /\ Refuse
  /\ StreamFailed(sawContent)
  /\ UNCHANGED <<spec, promoted, sawContent, stream, panel, bill, client, registered>>

-----------------------------------------------------------------------------
(* The client and the HTTP server around Run.                               *)

ClientLeaves ==
  /\ conn = "up" /\ conn' = "down"
  /\ UNCHANGED <<run, panel, bill, sink, ctx, registered>>

\* net/http cancels the request's context once it notices; a cancelled context
\* cancels the panel's.
CtxCanceled ==
  /\ conn = "down" /\ ctx = "live"
  /\ ctx' = "canceled"
  /\ panelCtx' = IF pc = "panel" /\ panelCtx = "live" THEN "canceled"
                                                     ELSE panelCtx
  /\ UNCHANGED <<run, member, bill, sink, conn, registered>>

Returned == pc = "returned" /\ UNCHANGED vars

-----------------------------------------------------------------------------
\* The steps of Run that wait for nobody but its own timer and context.
Sidecar ==
  \/ PrimaryMissing \/ CallSpeculative
  \/ EmitAccepted \/ EmitRefused \/ FinishAccepted \/ FinishRefused
  \/ PanelTimeout \/ PanelDone
  \/ \E m \in Panel : MemberCutShort(m)
  \/ JudgeMissing
  \/ ~CallLive /\ (SpeculativeFails \/ JudgeFails \/ StreamBreaks)

\* The steps that are an upstream model's answer.
Upstream ==
  \/ SpeculativeFails \/ \E resp \in Responses : SpeculativeReturns(resp)
  \/ \E m \in Panel : \/ MemberFails(m)
                      \/ \E got \in {"empty", "text"} : MemberReturns(m, got)
  \/ JudgeFails \/ \E parses \in BOOLEAN : JudgeReturns(parses)
  \/ StreamOpens \/ StreamContent \/ StreamAside \/ StreamBreaks \/ StreamEnds

Next == Sidecar \/ Upstream \/ ClientLeaves \/ CtxCanceled \/ Returned

\* The sidecar goes on by itself; nothing is assumed of the upstream models,
\* of the client, or of the discovery that it left.
Spec == Init /\ [][Next]_vars /\ WF_vars(Sidecar)

-----------------------------------------------------------------------------
(* Properties.                                                              *)

\* Every variable has its type.
TypeOK ==
  /\ pc \in {"start", "speculative", "panel", "judge", "judgeRetry", "final",
             "finishing", "emit", "returned"}
  /\ registered \in Registries
  /\ spec \in Responses
  /\ member \in [Panel -> Members]
  /\ panelCtx \in {"live", "deadline", "canceled"}
  /\ promoted \in BOOLEAN /\ sawContent \in BOOLEAN
  /\ stream \in {"none", "open", "broken", "ended"}
  /\ todo \in Seq({"spec", "call", "finish", "done"})
  /\ cause \in Fallbacks \cup {"tool_call", "none"}
  /\ dec \in Decisions
  /\ usage \in Nat /\ spent \in Nat
  /\ ctx \in {"live", "canceled"} /\ conn \in {"up", "down"}
  /\ sinkErr \in BOOLEAN
  /\ wire \in Seq({"spec", "call", "final", "aside", "finish", "done"})

Sent(item) == \E i \in 1 .. Len(wire) : wire[i] = item

\* The client never reads text of two answers: once content of the final stream
\* went out, no fallback writes the speculative response behind it, and once that
\* response has begun nothing more of the final stream arrives.  (Its tool-call and
\* reasoning deltas may stand in front: contentGate lets them pass unnoticed.)
OneAnswer ==
  /\ Sent("final") => ~Sent("spec") /\ ~Sent("call")
  /\ \A i, j \in 1 .. Len(wire) :
       i < j /\ wire[j] = "aside" => wire[i] \in {"final", "aside"}

\* The wire is k asides and the first n items of the speculative response.
Led(k, n) ==
  /\ Len(wire) = k + n
  /\ \A i \in 1 .. Len(wire) :
       wire[i] = IF i <= k THEN "aside" ELSE Buffered(spec)[i - k]

\* [DONE] and the decision agree: a client that read it was served as the decision
\* says (passthrough: the whole buffered response and nothing else; degradation:
\* that response, after asides if the final stream failed; fusion: the final
\* stream, with text unless that stream had none), and one that stayed reads it if
\* it was served.  A turn that failed has shown nobody but a client that left a
\* finish reason.
DecisionMatchesWire ==
  /\ Sent("done") =>
       \/ /\ dec.kind \in {"tool_call", "degraded"}
          /\ \E k \in 0 .. Len(wire) : Led(k, Len(Buffered(spec)))
          /\ Sent("aside") => dec.reason = "primary_final_failed"
       \/ /\ dec.kind = "fusion"
          /\ \A i \in 1 .. Len(wire) :
               wire[i] \in IF i = Len(wire) THEN {"done"}
                          ELSE IF i = Len(wire) - 1 THEN {"finish"}
                          ELSE {"final", "aside"}
          /\ Sent("final") <=> sawContent
  /\ dec.kind \in {"tool_call", "degraded", "fusion"} /\ conn = "up" =>
       Sent("done")
  /\ dec.kind = "failed" /\ Sent("finish") => conn = "down"

\* Panel members do not disturb each other: a member is recorded as cancelled
\* only if the whole request was, and as late only if the panel's cap expired;
\* a sibling's failure reaches nobody else.
PanelIsolation ==
  \A m \in Panel :
    /\ member[m].err = "canceled" => ctx = "canceled"
    /\ member[m].err = "deadline" => panelCtx = "deadline"

\* The judge has something to compare: between one and |Panel| texts, with the
\* speculative response among them exactly when the panel missed its quorum, and
\* only if that response has a text.
JudgeHasInput ==
  pc \in {"judge", "judgeRetry", "final"} =>
    /\ JudgeInputs \in 1 .. Cardinality(Panel)
    /\ promoted <=> Cardinality(Successes) < MinSuccess
    /\ promoted => spec.text

\* No response is rolled up into Decision.Usage twice, in whatever order the panel,
\* the judge and the stream answer, fail and fall back; what is missing from it are
\* the calls whose figures never get to Run: the empty first answers of members
\* asked twice, and a final stream that was answered and broke (MCPipeline's
\* UsageIsWhole is what the comment says of them).
Retried == {m \in Panel : member[m].attempts = 2}
Unbilled == {m \in Panel : pc = "panel" /\ member[m].got # "none"}
Cut == IF stream \in {"open", "broken"} THEN 1 ELSE 0
UsageAccounting ==
  spent = usage + Cardinality(Retried) + Cardinality(Unbilled) + Cut

\* The panel ends, with no help from the upstream models: the cap and the
\* request's context reach every member, first attempt or retry.
PanelBounded == pc = "panel" ~> pc # "panel"

\* Once the request's context is cancelled Run returns, wherever it was.
CancelEndsTurn == ctx = "canceled" ~> pc = "returned"

\* With upstream models that answer, one way or another, every turn ends.
TurnEnds == WF_vars(Upstream) => <>(pc = "returned")

\* Before the final stream and emitBuffered nothing is on the wire and contentGate
\* saw nothing; the stream puts only its own deltas there, content only after
\* contentGate saw it, and the two frames of Done behind them; emitBuffered has an
\* end of the buffered response to write, and a client that stayed has read exactly
\* what comes before it, after the asides of a final stream if that is why the
\* response is emitted.
StreamInv ==
  /\ \A i \in 1 .. Len(wire) :
       wire[i] \in {"final", "aside"} \/ (i = Len(wire) /\ wire[i] = "finish")
  /\ Sent("final") => sawContent
  /\ conn = "up" /\ sawContent => Sent("final")
EmitInv ==
  LET all == Buffered(spec)
      n == Len(all) - Len(todo)
  IN  /\ cause # "none" /\ todo # <<>> /\ n >= 0
      /\ \A i \in 1 .. Len(todo) : todo[i] = all[n + i]
      /\ ~Sent("final") /\ ~Sent("done")
      /\ Sent("aside") => cause = "primary_final_failed"
      /\ conn = "up" => \E k \in 0 .. Len(wire) : Led(k, n)
WireInv ==
  /\ pc \notin {"final", "finishing", "emit", "returned"} => wire = <<>> /\ ~sawContent
  /\ pc = "final" => StreamInv /\ ~Sent("finish")
  /\ pc = "finishing" =>
       /\ StreamInv
       /\ \/ todo = <<"finish", "done">> /\ ~Sent("finish")
          \/ todo = <<"done">> /\ (conn = "up" => Sent("finish"))
  /\ pc = "emit" => EmitInv

\* A decision is made once, and the panel's context ends for a reason.
ControlInv ==
  /\ dec.kind = "none" <=> pc # "returned"
  /\ panelCtx = "canceled" => ctx = "canceled"
  /\ ctx = "canceled" => conn = "down"

\* A member has got nothing before it is asked, and nothing yet while it is.
MemberInv ==
  /\ pc \in {"start", "speculative"} =>
       \A m \in Panel : member[m].got = "none" /\ member[m].attempts # 2
  /\ \A m \in Panel : member[m].at = "asked" => member[m].got = "none"

\* The inductive invariant behind the safety properties.
TurnInv ==
  /\ TypeOK /\ WireInv /\ ControlInv
  /\ OneAnswer /\ DecisionMatchesWire /\ PanelIsolation /\ JudgeHasInput
IInv == TurnInv /\ MemberInv /\ UsageAccounting

\* What the turn promises its client.
Contract == INSTANCE TurnContract WITH
  answer <- IF Sent("final") THEN "fused"
            ELSE IF Sent("spec") \/ Sent("call") THEN "speculative" ELSE "none",
  aside <- Sent("aside"),
  marker <- IF Sent("done") THEN "done" ELSE IF Sent("finish") THEN "finish" ELSE "none",
  outcome <- IF dec.kind = "none" THEN "pending" ELSE dec.kind,
  connected <- conn = "up"

\* Run implements the contract: a step of Run delivers, finishes, fails, or is
\* not visible to the client.
ImplementsContract == Contract!Spec
=============================================================================
