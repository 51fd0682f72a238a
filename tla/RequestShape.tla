---------------------------- MODULE RequestShape ----------------------------
(***************************************************************************)
(* The requests of one turn: how the pipeline shapes the client's request   *)
(* for the speculative call, each panel member and its retry, the judge and *)
(* the final call (internal/fusion), and how the two provider clients       *)
(* translate each of them into the body they post (internal/providers).     *)
(* A request may be refused: then the call fails before anything is sent.   *)
(*                                                                         *)
(* Texts and tool calls are words; "none" is the empty one.  Tool lists,    *)
(* tool choices and budgets keep the cases the code tells apart; sampling   *)
(* parameters, formats and the choice of the budget's field are left out.   *)
(*                                                                         *)
(* A definition named X_Something is X with one plausible mistake; it takes *)
(* no part in the specification.                                           *)
(***************************************************************************)
EXTENDS Integers, SequencesExt

CONSTANTS
  Requests,    \* what clients may ask
  Setups,      \* what the configuration may say of the client's model
  Words,       \* texts and calls
  Nil,         \* an optional number that is not there, or no body
  RetryFloor,  \* panelRetryFloor
  DefaultMax   \* the max_tokens Anthropic's client fills in

Roles == {"system", "user", "assistant", "tool", "developer"}
ToolLists == {"absent", "functions", "other"}
ToolChoices == {"absent", "none", "auto", "required", "named", "native", "malformed"}
OptionalMax == Nat \cup {Nil}

Message == [role : Roles, text : Words, calls : Words, breakpoint : BOOLEAN]

\* A CompletionRequest.
Request ==
  [model : Words, messages : Seq(Message), tools : ToolLists, choice : ToolChoices,
   maxTokens : OptionalMax, cache : BOOLEAN]

Endpoint ==
  [api : {"openai", "anthropic"}, model : Words, maxTokens : OptionalMax,
   cache : BOOLEAN]

\* What only the sidecar sets is not set; assistants make tool calls.
ASSUME RequestsAssumption ==
  \A q \in Requests :
    /\ q \in Request /\ ~q.cache
    /\ \A i \in DOMAIN q.messages :
         /\ ~q.messages[i].breakpoint
         /\ q.messages[i].calls # "none" => q.messages[i].role = "assistant"
ASSUME SetupsAssumption ==
  Setups \subseteq [primary : Endpoint, panel : Seq(Endpoint), judge : Endpoint]
ASSUME NumbersAssumption ==
  RetryFloor \in Nat /\ DefaultMax \in Nat /\ Nil \notin Nat
ASSUME WordsAssumption ==
  {"none", "compare", "again", "prompt", "analysis", "write"} \subseteq Words

VARIABLES
  base,     \* the translated request of the client
  setup,    \* the model it asks for
  phase,    \* start, panel, judging, judged, ended
  member,   \* what each panel member does: waiting, called, over
  sent      \* the calls made: who made it, to which endpoint, with which body

vars == <<base, setup, phase, member, sent>>

-----------------------------------------------------------------------------
(* The requests the pipeline makes of the client's.                         *)

WithEndpoint(request, ep) ==
  [request EXCEPT !.model = ep.model, !.cache = ep.cache,
                  !.maxTokens = IF ep.maxTokens = Nil THEN @ ELSE ep.maxTokens]

WithoutTools(request) == [request EXCEPT !.tools = "absent", !.choice = "absent"]

MemberRequest(ep) == WithoutTools(WithEndpoint(base, ep))

\* The second attempt, when the first one's answer was empty.
RetryRequest(ep) ==
  [MemberRequest(ep) EXCEPT !.maxTokens =
     IF ep.maxTokens # Nil /\ ep.maxTokens > RetryFloor THEN ep.maxTokens
                                                        ELSE RetryFloor]

Says(role, text) ==
  [role |-> role, text |-> text, calls |-> "none", breakpoint |-> FALSE]

LastUserContent(messages) ==
  LET asked == {i \in DOMAIN messages :
                  messages[i].role = "user" /\ messages[i].text # "none"}
  IN  IF asked = {} THEN "none" ELSE messages[Max(asked)].text

\* The prompt quotes the client's task; it is not empty without one either.
JudgePrompt ==
  LET task == LastUserContent(base.messages)
  IN  IF task = "none" THEN "prompt" ELSE task

\* The judge's endpoint has no say in the budget, nor in the cache.
JudgeRequest(ep, instruction) ==
  [model |-> ep.model,
   messages |-> <<Says("system", instruction), Says("user", JudgePrompt)>>,
   tools |-> "absent", choice |-> "absent", maxTokens |-> Nil, cache |-> FALSE]

Handoff == <<Says("assistant", "analysis"), Says("user", "write")>>

HandoffMessages_NoBreakpoint(original) == original \o Handoff
HandoffMessages(original) ==
  (IF original = <<>> THEN <<>>
   ELSE [original EXCEPT ![Len(original)].breakpoint = TRUE]) \o Handoff

FinalRequest_KeepsTools ==
  [WithEndpoint(base, setup.primary) EXCEPT
     !.messages = HandoffMessages(base.messages), !.choice = "absent"]
FinalRequest ==
  [WithoutTools(WithEndpoint(base, setup.primary)) EXCEPT
     !.messages = HandoffMessages(base.messages)]

-----------------------------------------------------------------------------
(* The bodies the clients make of a request.                                *)

Block(type, what) == [type |-> type, what |-> what, marked |-> FALSE]

NonEmpty(type, what) == IF what = "none" THEN <<>> ELSE <<Block(type, what)>>

AnthropicTurn(m) ==
  CASE m.role = "user" -> [role |-> "user", blocks |-> <<Block("text", m.text)>>]
    [] m.role = "assistant" ->
         [role |-> "assistant",
          blocks |-> NonEmpty("text", m.text) \o NonEmpty("tool_use", m.calls)]
    [] m.role = "tool" ->
         [role |-> "user", blocks |-> <<Block("tool_result", m.text)>>]

OpenAITurn(m) ==
  [role |-> m.role,
   blocks |-> NonEmpty("text", m.text) \o NonEmpty("tool_use", m.calls)]

\* splitSystem.
IsSystem(m) == m.role = "system"
HasText(m) == m.text # "none"
SplitNext_LastWins(parts, m) ==
  IF ~IsSystem(m) THEN [parts EXCEPT !.rest = Append(@, m)]
  ELSE IF HasText(m) THEN [parts EXCEPT !.system = <<m.text>>]
  ELSE parts
SplitNext(parts, m) ==
  IF ~IsSystem(m) THEN [parts EXCEPT !.rest = Append(@, m)]
  ELSE IF HasText(m) THEN [parts EXCEPT !.system = Append(@, m.text)]
  ELSE parts
Split(messages) ==
  LET split[n \in 0 .. Len(messages)] ==
        IF n = 0 THEN [system |-> <<>>, rest |-> <<>>]
        ELSE SplitNext(split[n - 1], messages[n])
  IN  split
SplitSystem(messages) == Split(messages)[Len(messages)]

\* 0 when there are no messages.
CacheBreakpointIndex(messages) ==
  Max({i \in DOMAIN messages : messages[i].breakpoint} \cup
      (IF \E i \in DOMAIN messages : messages[i].breakpoint THEN {}
       ELSE {Len(messages)}))

MarkCachePrefix(turns, at) ==
  IF at = 0 THEN turns
  ELSE IF turns[at].blocks = <<>> THEN turns
  ELSE [turns EXCEPT ![at].blocks[Len(turns[at].blocks)].marked = TRUE]

\* translateToolChoice, and whether it drops the tools; null, an unknown string
\* and a choice without its name are malformed.
ChoiceSent(choice) ==
  CASE choice = "required" -> "any"
    [] choice = "named" -> "tool"
    [] OTHER -> choice
ToolsSent(request) == IF request.choice = "none" THEN "absent" ELSE request.tools

\* The arguments of a garbled call are not JSON, and fail json.Marshal.
Translatable(m) == m.role # "developer" /\ m.calls # "garbled"
AnthropicAccepts(request) ==
  /\ \A i \in DOMAIN request.messages : Translatable(request.messages[i])
  /\ request.choice # "malformed"
  /\ ToolsSent(request) # "other"

AnthropicBody(request) ==
  LET split == SplitSystem(request.messages)
      rest == split.rest
      turns == [i \in DOMAIN rest |-> AnthropicTurn(rest[i])]
  IN  [model |-> request.model,
       system |-> split.system,
       turns |-> IF request.cache
                 THEN MarkCachePrefix(turns, CacheBreakpointIndex(rest)) ELSE turns,
       tools |-> ToolsSent(request),
       choice |-> IF ToolsSent(request) = "absent" THEN "absent"
                  ELSE ChoiceSent(request.choice),
       budget |-> IF request.maxTokens = Nil THEN DefaultMax ELSE request.maxTokens]

OpenAIBody(request) ==
  [model |-> request.model, system |-> <<>>,
   turns |-> [i \in DOMAIN request.messages |-> OpenAITurn(request.messages[i])],
   tools |-> request.tools, choice |-> request.choice, budget |-> request.maxTokens]

Accepts(ep, request) == ep.api = "openai" \/ AnthropicAccepts(request)

Body(ep, request) ==
  IF ep.api = "openai" THEN OpenAIBody(request) ELSE AnthropicBody(request)

-----------------------------------------------------------------------------
Init ==
  /\ base \in Requests /\ setup \in Setups
  /\ phase = "start" /\ sent = {}
  /\ member = [m \in DOMAIN setup.panel |-> "waiting"]

\* Complete and Stream, up to the POST.
Call(who, ep, request) ==
  sent' = sent \cup
    {[who |-> who, ep |-> ep, refused |-> ~Accepts(ep, request),
      body |-> IF Accepts(ep, request) THEN Body(ep, request) ELSE Nil]}

\* The turn goes on after an answer without tool calls.
Speculate ==
  /\ phase = "start"
  /\ Call("speculative", setup.primary, WithEndpoint(base, setup.primary))
  /\ \/ phase' = "ended"
     \/ /\ Accepts(setup.primary, WithEndpoint(base, setup.primary))
        /\ phase' = "panel"
  /\ UNCHANGED <<base, setup, member>>

\* The members run side by side; one that refuses its request fails alone.
CallMember(m) ==
  LET ep == setup.panel[m] IN
  /\ phase = "panel" /\ member[m] = "waiting"
  /\ Call("panel", ep, MemberRequest(ep))
  /\ member' = [member EXCEPT ![m] =
                  IF Accepts(ep, MemberRequest(ep)) THEN "called" ELSE "over"]
  /\ UNCHANGED <<base, setup, phase>>

\* An answer, an error, or the panel's timeout.
MemberEnds(m) ==
  /\ phase = "panel" /\ member[m] = "called"
  /\ member' = [member EXCEPT ![m] = "over"]
  /\ UNCHANGED <<base, setup, phase, sent>>

\* An empty answer.
RetryMember(m) ==
  LET ep == setup.panel[m] IN
  /\ phase = "panel" /\ member[m] = "called"
  /\ Call("retry", ep, RetryRequest(ep))
  /\ member' = [member EXCEPT ![m] = "over"]
  /\ UNCHANGED <<base, setup, phase>>

PanelOver == phase = "panel" /\ \A m \in DOMAIN member : member[m] = "over"

\* Too few members answered, and the speculative answer was empty.
Degrade ==
  /\ PanelOver /\ phase' = "ended"
  /\ UNCHANGED <<base, setup, member, sent>>

Judge ==
  /\ PanelOver
  /\ Call("judge", setup.judge, JudgeRequest(setup.judge, "compare"))
  /\ phase' \in {"judging", "judged", "ended"}
  /\ UNCHANGED <<base, setup, member>>

\* Its answer was not the JSON it was asked for.
RetryJudge ==
  /\ phase = "judging"
  /\ Call("judge", setup.judge, JudgeRequest(setup.judge, "again"))
  /\ phase' \in {"judged", "ended"}
  /\ UNCHANGED <<base, setup, member>>

Final ==
  /\ phase = "judged"
  /\ Call("final", setup.primary, FinalRequest)
  /\ phase' = "ended"
  /\ UNCHANGED <<base, setup, member>>

Ended == phase = "ended" /\ UNCHANGED vars

Next ==
  \/ Speculate
  \/ \E m \in DOMAIN member : CallMember(m) \/ MemberEnds(m) \/ RetryMember(m)
  \/ Degrade \/ Judge \/ RetryJudge \/ Final
  \/ Ended

Spec == Init /\ [][Next]_vars

-----------------------------------------------------------------------------
(* Properties.                                                              *)

\* A turn that got its speculative answer is not lost to a request the sidecar
\* shapes itself: the judge's, a retry's and the final one can be translated
\* (judge.go:89, handoff.go:16, pipeline.go:214; anthropic.go:158).
NoLateRefusal ==
  \A c \in sent : c.refused => c.who \in {"speculative", "panel"}

\* What is known of a turn at each point: the speculative request was accepted
\* before anything else was asked, a member's before its retry.
TurnInv ==
  /\ base \in Requests /\ setup \in Setups
  /\ phase \in {"start", "panel", "judging", "judged", "ended"}
  /\ member \in [DOMAIN setup.panel -> {"waiting", "called", "over"}]
  /\ phase \in {"panel", "judging", "judged"} =>
       Accepts(setup.primary, WithEndpoint(base, setup.primary))
  /\ \A m \in DOMAIN member :
       member[m] = "called" => Accepts(setup.panel[m], MemberRequest(setup.panel[m]))
  /\ NoLateRefusal

\* The requests that may be behind a call that was sent.
Asked(who, ep) ==
  CASE who = "speculative" -> {WithEndpoint(base, ep)}
    [] who = "panel" -> {MemberRequest(ep)}
    [] who = "retry" -> {RetryRequest(ep)}
    [] who = "judge" -> {JudgeRequest(ep, "compare"), JudgeRequest(ep, "again")}
    [] who = "final" -> {FinalRequest}
SentInv ==
  \A c \in sent :
    /\ c.who \in {"speculative", "panel", "retry", "judge", "final"} /\ c.ep \in Endpoint
    /\ c.who = "final" => c.ep = setup.primary
    /\ ~c.refused =>
         \E q \in Asked(c.who, c.ep) : Accepts(c.ep, q) /\ c.body = Body(c.ep, q)

IInv == TurnInv /\ SentInv

\* The words of the first n parts, for each n, and those of all the parts.
Flat(parts) ==
  LET flat[n \in 0 .. Len(parts)] == IF n = 0 THEN <<>> ELSE flat[n - 1] \o parts[n]
  IN  flat
Joined(parts) == Flat(parts)[Len(parts)]

Word(word) == IF word = "none" THEN <<>> ELSE <<word>>
WordsIn(m) == Word(m.text) \o Word(m.calls)

\* The words of a body, in the order the model reads them.
TurnWords(turn) == Joined([j \in DOMAIN turn.blocks |-> Word(turn.blocks[j].what)])
Said(body) ==
  Joined([i \in DOMAIN body.system |-> Word(body.system[i])]) \o
  Joined([i \in DOMAIN body.turns |-> TurnWords(body.turns[i])])

\* The words of a conversation, those of the system and those of the others.
Conversation(messages) == Joined([i \in DOMAIN messages |-> WordsIn(messages[i])])
Instructions(messages) ==
  Joined([i \in DOMAIN messages |->
            IF IsSystem(messages[i]) THEN WordsIn(messages[i]) ELSE <<>>])
Dialogue(messages) ==
  Joined([i \in DOMAIN messages |->
            IF IsSystem(messages[i]) THEN <<>> ELSE WordsIn(messages[i])])

\* The user's task is at i: nothing the user says later has a text.
UserSpeaks(m) == m.role = "user" /\ HasText(m)
TaskAt(i) ==
  /\ UserSpeaks(base.messages[i])
  /\ \A j \in DOMAIN base.messages : UserSpeaks(base.messages[j]) => j <= i

\* Every model that answers sees the whole conversation, each word of it once and
\* in its order, but that Anthropic's client puts what the system says in front;
\* the handoff comes last, and only in the final call (anthropic.go:158, 358;
\* openai.go:156; handoff.go:16).  The judge is told the task: the last thing the
\* user really said, also when tool calls follow it (judge.go:147).
WholeConversation ==
  \A c \in sent :
    /\ ~c.refused /\ c.who # "judge" =>
         LET added == IF c.who = "final" THEN <<"analysis", "write">> ELSE <<>>
         IN  Said(c.body) =
               (IF c.ep.api = "openai" THEN Conversation(base.messages)
                ELSE Instructions(base.messages) \o Dialogue(base.messages)) \o added
    /\ ~c.refused /\ c.who = "judge" =>
         \A i \in DOMAIN base.messages :
           TaskAt(i) => Last(Said(c.body)) = base.messages[i].text

\* What a provider's prefix cache is keyed by: everything up to the marked block.
MarkedAt(body) ==
  {i \in DOMAIN body.turns :
     \E j \in DOMAIN body.turns[i].blocks : body.turns[i].blocks[j].marked}
Prefix(body) ==
  [model |-> body.model, tools |-> body.tools, system |-> body.system,
   turns |-> [i \in {n \in DOMAIN body.turns : \E k \in MarkedAt(body) : n <= k} |->
                body.turns[i]]]

CacheAware(c) == c.ep.api = "anthropic" /\ c.ep.cache /\ ~c.refused

\* A breakpoint needs a last message that is a turn, with a block to mark.
Markable(messages) ==
  /\ messages # <<>>
  /\ Last(messages).role # "system"
  /\ Last(messages).role = "assistant" =>
       Last(messages).text # "none" \/ Last(messages).calls # "none"

\* The calls of a turn that cache share their prefix: of two that go to one
\* model with the same tools the one writes what the other reads, and it holds
\* the whole conversation, without the handoff (pipeline.go:250, handoff.go:22,
\* anthropic.go:265, 275).
PrefixShared ==
  \A c, d \in sent :
    /\ CacheAware(c) /\ CacheAware(d) /\ "judge" \notin {c.who, d.who}
    /\ c.ep.model = d.ep.model /\ c.body.tools = d.body.tools
    /\ Markable(base.messages)
    => /\ Prefix(c.body) = Prefix(d.body)
       /\ DOMAIN Prefix(c.body).turns =
            1 .. Cardinality({i \in DOMAIN base.messages : ~IsSystem(base.messages[i])})

-----------------------------------------------------------------------------
(* What comments and documentation say, and the code does not do.           *)

\* "The speculative call writes the cache; the final primary call reads the same
\* prefix back (a near-guaranteed hit ...)" (README.md:149).
FinalReadsSpeculative ==
  \A c, d \in sent :
    /\ CacheAware(c) /\ CacheAware(d) /\ Markable(base.messages)
    /\ c.who = "speculative" /\ d.who = "final"
    => Prefix(c.body) = Prefix(d.body)

\* A member "was retried with a larger token budget" (panel.go:17): at least not
\* with a smaller one.
RetryHasBudget ==
  \A c, d \in sent :
    /\ ~c.refused /\ ~d.refused
    /\ c.who = "panel" /\ d.who = "retry" /\ c.ep = d.ep /\ c.body.budget # Nil
    => d.body.budget >= c.body.budget
=============================================================================
