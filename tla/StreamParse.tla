---------------------------- MODULE StreamParse ----------------------------
(***************************************************************************)
(* One streaming call of a provider client: the POST, the lines of the      *)
(* upstream's event stream as scanSSE reads them, and the two parsers that  *)
(* turn its events into deltas (openai.go, anthropic.go).  The actors are   *)
(* the upstream, which sends one line after the other and may stop          *)
(* anywhere, the client, and the sink, which may refuse any call.           *)
(*                                                                         *)
(* The JSON of an event is sent in one data line ("whole") or spread over   *)
(* two ("first", "second"); it decodes if all of it arrived and the         *)
(* upstream formed it well.  Comment lines change nothing and are left out. *)
(*                                                                         *)
(* A definition named X_Something is X with one plausible mistake; it takes *)
(* no part in the specification.                                           *)
(***************************************************************************)
EXTENDS Integers, SequencesExt

CONSTANTS
  OpenAIEvents,      \* the events an OpenAI-compatible upstream may send
  AnthropicEvents,   \* the events the Messages API may send
  Words,             \* the names, reasons and texts that occur in events
  Nil,               \* no usage block in a chunk; no event begun
  MaxEvents          \* bound: events of one stream

\* Token counts, as the upstream writes them and as Usage carries them.
Tokens == [prompt : Nat, read : Nat, written : Nat, completion : Nat,
           total : Nat]
NoTokens == [prompt |-> 0, read |-> 0, written |-> 0, completion |-> 0,
             total |-> 0]

Event ==
  [name : Words,          \* on its "event:" line; the empty string is "none"
   marker : BOOLEAN,      \* its data is "[DONE]", which is not JSON
   formed : BOOLEAN,      \* its data is well-formed JSON
   deltas : Seq(Words),   \* what the data says, in the order it is parsed
   finish : Words,        \* the finish or stop reason
   usage : Tokens \cup {Nil}]

BlockEvents == {"content_block_start", "content_block_delta"}

\* OpenAI's chunks are nameless and may say everything; of Anthropic's events
\* the block events carry the deltas.  Ill-formed data says nothing.
ASSUME OpenAIAssumption ==
  \A e \in OpenAIEvents :
    /\ e \in Event /\ e.name = "none"
    /\ e.marker => ~e.formed
    /\ ~e.formed => e.deltas = <<>>
ASSUME AnthropicAssumption ==
  \A e \in AnthropicEvents :
    /\ e \in Event /\ e.name # "none" /\ ~e.marker /\ e.usage # Nil
    /\ e.name \notin BlockEvents \/ ~e.formed => e.deltas = <<>>
ASSUME WordsAssumption ==
  {"none", "stop", "length", "tool_calls"} \subseteq Words
ASSUME NilAssumption ==
  Nil \notin Tokens \cup OpenAIEvents \cup AnthropicEvents
ASSUME MaxEventsAssumption == MaxEvents \in Nat

VARIABLES
  api,         \* the client: openai or anthropic
  at,          \* where Stream is: calling, reading, ending, returned
  body,        \* the response body: none yet, open, closed (EOF), broken
  cur, sent,   \* the event being sent; the last of its lines that was sent
  stream,      \* the events whose data has been sent
  answer,      \* their deltas
  eventName, dataParts,    \* scanSSE's locals
  finish, usage,           \* the parser's locals
  given,       \* the deltas handed to the sink
  done,        \* the finish reasons Done was called with
  refused,     \* the sink has refused a call
  result,      \* open, ok or error
  returned     \* the Usage that Stream returned

upstream == <<body, cur, sent, stream, answer>>
scanner == <<eventName, dataParts>>
parser == <<finish, usage>>
sink == <<given, done, refused>>
outcome == <<result, returned>>
vars == <<api, at, upstream, scanner, parser, sink, outcome>>

Events == IF api = "openai" THEN OpenAIEvents ELSE AnthropicEvents

-----------------------------------------------------------------------------
(* What the parsers make of an event.                                       *)

Complete == dataParts \in {<<"whole">>, <<"first", "second">>}
Decodes == Complete /\ cur.formed

OpenAIVerdict_MarkerDecoded == IF Decodes THEN "read" ELSE "malformed"
OpenAIVerdict ==
  CASE Complete /\ cur.marker -> "terminator"
    [] Decodes -> "read"
    [] OTHER -> "malformed"

\* Usage and stop events that do not decode are passed over, and so are events
\* of other names, in-stream errors among them; a block must decode.
AnthropicVerdict ==
  CASE eventName = "message_stop" -> "terminator"
    [] eventName \in BlockEvents -> IF Decodes THEN "read" ELSE "malformed"
    [] eventName \in {"message_start", "message_delta"} /\ Decodes -> "read"
    [] OTHER -> "ignored"

Verdict == IF api = "openai" THEN OpenAIVerdict ELSE AnthropicVerdict

LastFinish == IF cur.finish = "none" THEN finish ELSE cur.finish

OpenAIRecord ==
  /\ usage' = IF cur.usage = Nil THEN usage ELSE cur.usage
  /\ finish' = LastFinish

AnthropicRecord_DeltaResetsUsage ==
  /\ usage' = IF eventName \in BlockEvents THEN usage ELSE cur.usage
  /\ finish' = IF eventName = "message_delta" THEN LastFinish ELSE finish
AnthropicRecord ==
  /\ usage' =
       CASE eventName = "message_start" ->
              [cur.usage EXCEPT !.completion = usage.completion]
         [] eventName = "message_delta" /\ cur.usage.completion > 0 ->
              [usage EXCEPT !.completion = cur.usage.completion]
         [] OTHER -> usage
  /\ finish' = IF eventName = "message_delta" THEN LastFinish ELSE finish

\* What a parser keeps of an event it reads.
Record == IF api = "openai" THEN OpenAIRecord ELSE AnthropicRecord

\* OpenAI's prompt count includes the cached tokens, Anthropic's does not.
OpenAIUsage_PromptKeepsCached(raw) == [raw EXCEPT !.written = 0]
OpenAIUsage(raw) ==
  [raw EXCEPT !.prompt = IF @ < raw.read THEN 0 ELSE @ - raw.read,
              !.written = 0]
AnthropicUsage(raw) ==
  [raw EXCEPT !.total = raw.prompt + raw.completion + raw.read + raw.written]

ToUsage(raw) == IF api = "openai" THEN OpenAIUsage(raw) ELSE AnthropicUsage(raw)

MapStopReason(s) ==
  CASE s \in {"end_turn", "stop_sequence"} -> "stop"
    [] s = "max_tokens" -> "length"
    [] s = "tool_use" -> "tool_calls"
    [] OTHER -> s

ToFinish(s) == IF api = "openai" THEN s ELSE MapStopReason(s)

-----------------------------------------------------------------------------
Init ==
  /\ api \in {"openai", "anthropic"} /\ at = "calling" /\ body = "none"
  /\ cur = Nil /\ sent = "none" /\ stream = <<>> /\ answer = <<>>
  /\ eventName = "none" /\ dataParts = <<>>
  /\ finish = "none" /\ usage = NoTokens
  /\ given = <<>> /\ done = <<>> /\ refused = FALSE
  /\ result = "open" /\ returned = NoTokens

Fail == at' = "returned" /\ result' = "error" /\ returned' = NoTokens

\* The request is not built, not answered, or answered with another status
\* than 2xx.
CallFails ==
  /\ at = "calling" /\ Fail
  /\ UNCHANGED <<api, upstream, scanner, parser, sink>>

CallAnswered ==
  /\ at = "calling"
  /\ at' = "reading" /\ body' = "open"
  /\ UNCHANGED <<api, cur, sent, stream, answer, scanner, parser, sink, outcome>>

-----------------------------------------------------------------------------
(* The upstream sends a line and the scanner reads it.                      *)

Line == at = "reading" /\ UNCHANGED <<api, at, body, parser, sink, outcome>>

NameLine(e) ==
  /\ Line /\ sent = "none" /\ Len(stream) < MaxEvents
  /\ e.name # "none"
  /\ cur' = e /\ sent' = "name"
  /\ eventName' = e.name
  /\ UNCHANGED <<stream, answer, dataParts>>

\* The data of a named event follows its name, that of a nameless one begins it.
Follows(e) ==
  IF e.name = "none" THEN sent = "none" /\ Len(stream) < MaxEvents
                 ELSE sent = "name" /\ e = cur

DataLine(e, part) ==
  /\ Line /\ Follows(e)
  /\ cur' = e
  /\ dataParts' = Append(dataParts, part)
  /\ \/ /\ part = "whole" /\ sent' = "data"
        /\ stream' = Append(stream, e) /\ answer' = answer \o e.deltas
     \/ /\ part = "first" /\ sent' = "half"
        /\ UNCHANGED <<stream, answer>>
  /\ UNCHANGED eventName

SecondDataLine ==
  /\ Line /\ sent = "half" /\ ~cur.marker
  /\ sent' = "data"
  /\ dataParts' = Append(dataParts, "second")
  /\ stream' = Append(stream, cur) /\ answer' = answer \o cur.deltas
  /\ UNCHANGED <<cur, eventName>>

\* The deltas of an event go to the sink one by one; the call fails with the
\* first that is refused.
Hand_RefusalIgnored(next) ==
  \E k \in 0 .. Len(cur.deltas) :
    /\ given' = given \o SubSeq(cur.deltas, 1, k)
    /\ at' = next
    /\ UNCHANGED <<done, refused, outcome>>
Hand(next) ==
  \/ /\ given' = given \o cur.deltas
     /\ at' = next
     /\ UNCHANGED <<done, refused, outcome>>
  \/ \E k \in 1 .. Len(cur.deltas) :
       /\ given' = given \o SubSeq(cur.deltas, 1, k)
       /\ refused' = TRUE /\ Fail
       /\ UNCHANGED done

\* The handler that the client passes to scanSSE.
Handle(next) ==
  \/ /\ Verdict = "ignored"
     /\ at' = next /\ UNCHANGED <<parser, sink, outcome>>
  \/ /\ Verdict = "terminator"
     /\ at' = "ending" /\ UNCHANGED <<parser, sink, outcome>>
  \/ /\ Verdict = "malformed"
     /\ Fail /\ UNCHANGED <<parser, sink>>
  \/ Verdict = "read" /\ Record /\ Hand(next)

\* scanSSE's flush: the locals are cleared, an event that has data is handled,
\* and the client goes on to next unless the handler ends the stream.
Flush_KeepsParts(next) ==
  /\ eventName' = "none" /\ UNCHANGED dataParts
  /\ IF dataParts = <<>> THEN at' = next /\ UNCHANGED <<parser, sink, outcome>>
                         ELSE Handle(next)
Flush(next) ==
  /\ eventName' = "none" /\ dataParts' = <<>>
  /\ IF dataParts = <<>> THEN at' = next /\ UNCHANGED <<parser, sink, outcome>>
                         ELSE Handle(next)

BlankLine ==
  /\ at = "reading" /\ sent \in {"name", "data"}
  /\ cur' = Nil /\ sent' = "none"
  /\ Flush("reading")
  /\ UNCHANGED <<api, body, stream, answer>>

EndOfBody_NoFlush ==
  /\ at = "reading"
  /\ body' = "closed" /\ at' = "ending"
  /\ UNCHANGED <<api, cur, sent, stream, answer, scanner, parser, sink, outcome>>

\* The upstream closes the stream, after whatever line; what the scanner holds
\* is handled as if the blank line had come.
EndOfBody ==
  /\ at = "reading"
  /\ body' = "closed"
  /\ Flush("ending")
  /\ UNCHANGED <<api, cur, sent, stream, answer>>

\* Reading fails: the connection breaks, the context ends, or a line is longer
\* than the scanner's buffer.
BodyBreaks ==
  /\ at = "reading"
  /\ body' = "broken" /\ Fail
  /\ UNCHANGED <<api, cur, sent, stream, answer, scanner, parser, sink>>

-----------------------------------------------------------------------------
\* The end of the parser: Done, whose error is Stream's, and the usage, which
\* is returned either way.
End ==
  /\ at = "ending"
  /\ at' = "returned"
  /\ done' = Append(done, ToFinish(finish))
  /\ returned' = ToUsage(usage)
  /\ \/ result' = "ok" /\ UNCHANGED refused
     \/ result' = "error" /\ refused' = TRUE
  /\ UNCHANGED <<api, upstream, scanner, parser, given>>

Returned == at = "returned" /\ UNCHANGED vars

Next ==
  \/ CallFails \/ CallAnswered
  \/ \E e \in Events : \/ NameLine(e)
                       \/ \E part \in {"whole", "first"} : DataLine(e, part)
  \/ SecondDataLine \/ BlankLine \/ EndOfBody \/ BodyBreaks
  \/ End \/ Returned

Spec == Init /\ [][Next]_vars

-----------------------------------------------------------------------------
(* Properties.                                                              *)

\* Every variable has its type.
TypeOK ==
  /\ api \in {"openai", "anthropic"}
  /\ at \in {"calling", "reading", "ending", "returned"}
  /\ body \in {"none", "open", "closed", "broken"}
  /\ cur \in Events \cup {Nil}
  /\ sent \in {"none", "name", "half", "data"}
  /\ stream \in Seq(Events) /\ answer \in Seq(Words)
  /\ eventName \in Words /\ dataParts \in Seq({"whole", "first", "second"})
  /\ finish \in Words /\ usage \in Tokens
  /\ given \in Seq(Words) /\ done \in Seq(Words) /\ refused \in BOOLEAN
  /\ result \in {"open", "ok", "error"} /\ returned \in Tokens

\* The upstream said that it was finished.
UpstreamEnded ==
  \/ body = "closed"
  \/ /\ stream # <<>>
     /\ Last(stream).marker \/ Last(stream).name = "message_stop"

\* An answer that passes for complete is complete: Stream returns without an
\* error only when the upstream said that it was finished (a terminator, or a
\* clean end of the body), never after a broken body, and then the sink has had
\* every delta the upstream sent, also those of a last event without its blank
\* line.
WholeAnswer ==
  result = "ok" => given = answer /\ UpstreamEnded

\* A stream without a fault never fails: behind an error there is a call that
\* was not answered, a body that broke or was cut inside an event, data that is
\* not JSON, or a sink that refused.
NoFalseFailure ==
  result = "error" =>
    \/ body \in {"none", "broken"}
    \/ body = "closed" /\ sent = "half"
    \/ \E i \in 1 .. Len(stream) : ~stream[i].formed /\ ~stream[i].marker
    \/ refused

\* The last of the stream's events at the positions in I, or Nil.
LastOf(I) == IF I = {} THEN Nil ELSE stream[Max(I)]

\* What the first n events of the stream report beside the text.
TokensOf(e) == IF e = Nil THEN NoTokens ELSE e.usage
StopReason(n) ==
  LET stop == LastOf({i \in 1 .. n : /\ stream[i].formed /\ stream[i].finish # "none"
                                     /\ \/ api = "openai"
                                        \/ stream[i].name = "message_delta"})
  IN  IF stop = Nil THEN "none" ELSE stop.finish
TokenCounts(n) ==
  LET block == LastOf({i \in 1 .. n : stream[i].formed /\ stream[i].usage # Nil})
      start == LastOf({i \in 1 .. n : /\ stream[i].formed
                                      /\ stream[i].name = "message_start"})
      count == LastOf({i \in 1 .. n : /\ stream[i].formed
                                      /\ stream[i].name = "message_delta"
                                      /\ stream[i].usage.completion > 0})
  IN  IF api = "openai" THEN TokensOf(block)
      ELSE [TokensOf(start) EXCEPT !.completion = TokensOf(count).completion]

\* Nothing the upstream reported beside the text is lost or overwritten by an
\* event that does not report it: Done announces the last stop reason sent, and
\* the usage is the last block (OpenAI, in a chunk of its own after the stop
\* reason) or the prompt side of message_start with the completion count of
\* message_delta (Anthropic).
Reported ==
  result = "ok" => /\ done = <<ToFinish(StopReason(Len(stream)))>>
                   /\ returned = ToUsage(TokenCounts(Len(stream)))

\* An OpenAI usage block that adds up, the cached tokens being prompt tokens.
Consistent(u) == u.read <= u.prompt /\ u.total = u.prompt + u.completion

ConsistentStream ==
  api = "openai" =>
    \A i \in 1 .. Len(stream) :
      stream[i].usage # Nil => Consistent(stream[i].usage)

\* Token counts of the two providers mean the same: as long as an OpenAI
\* upstream's own counts are consistent, the parts of the returned usage
\* (uncached prompt, cache reads and writes, completion) add up to its total.
UsageAddsUp ==
  ConsistentStream =>
    returned.total = returned.prompt + returned.read + returned.written
                       + returned.completion

\* What the scanner holds is what was sent of the current event, and what was
\* answered and not yet handed over is the current event's.
ScanInv ==
  /\ sent = "none" <=> cur = Nil
  /\ at = "calling" => sent = "none"
  /\ at \in {"calling", "reading"} =>
       /\ body = (IF at = "calling" THEN "none" ELSE "open")
       /\ eventName = (IF cur = Nil THEN "none" ELSE cur.name)
       /\ sent \in {"none", "name"} => dataParts = <<>>
       /\ sent = "half" => dataParts = <<"first">>
       /\ sent = "data" => Complete
       /\ answer = given \o (IF sent = "data" THEN cur.deltas ELSE <<>>)
  /\ at = "ending" => answer = given /\ UpstreamEnded
  /\ result = "open" <=> at # "returned"
  /\ result = "open" => returned = NoTokens
  /\ done # <<>> => at = "returned"
  /\ IsPrefix(given, answer)

\* What the parser will report stems from the stream.
UsageInv ==
  /\ sent = "data" => stream # <<>> /\ Last(stream) = cur
  /\ ConsistentStream /\ api = "openai" => Consistent(usage)

\* The events whose data was handled, and what the parser holds of them.
Handled == IF at = "reading" /\ sent = "data" THEN Len(stream) - 1 ELSE Len(stream)
ReportInv ==
  at # "returned" => finish = StopReason(Handled) /\ usage = TokenCounts(Handled)

\* The inductive invariant.
CallInv == TypeOK /\ ScanInv /\ UsageInv /\ WholeAnswer /\ UsageAddsUp
IInv == CallInv /\ NoFalseFailure /\ ReportInv /\ Reported

Contract == INSTANCE ProviderStream WITH done <- done # <<>>

\* Both clients implement what Provider and Sink promise.
ImplementsStream == Contract!Spec
=============================================================================
