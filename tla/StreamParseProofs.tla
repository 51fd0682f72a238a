-------------------------- MODULE StreamParseProofs --------------------------
(***************************************************************************)
(* Theorems about a streaming call, for every set of events that satisfies  *)
(* the assumptions and for streams of every length.                         *)
(***************************************************************************)
EXTENDS StreamParse, SequenceTheorems, FiniteSetTheorems, WellFoundedInduction, TLAPS

\* What IsPrefix means, element by element.
LEMMA PrefixDef ==
  ASSUME NEW S, NEW s \in Seq(S), NEW t \in Seq(S)
  PROVE  IsPrefix(s, t) <=> /\ Len(s) <= Len(t)
                            /\ \A i \in 1 .. Len(s) : s[i] = t[i]
<1>1. CASE Len(s) <= Len(t)
  <2>1. SubSeq(s, 1, Len(s)) = s
    OBVIOUS
  <2>2. /\ SubSeq(t, 1, Len(s)) \in Seq(S)
        /\ Len(SubSeq(t, 1, Len(s))) = Len(s)
        /\ \A i \in 1 .. Len(s) : SubSeq(t, 1, Len(s))[i] = t[i]
    BY <1>1
  <2>3. SubSeq(t, 1, Len(s)) = s <=> \A i \in 1 .. Len(s) : s[i] = t[i]
    BY <2>2, SeqEqual
  <2>. QED
    BY <1>1, <2>1, <2>3 DEF IsPrefix
<1>2. CASE ~(Len(s) <= Len(t))
  BY <1>2 DEF IsPrefix
<1>. QED
  BY <1>1, <1>2

\* Appending to a sequence leaves it a prefix.
LEMMA PrefixConcat ==
  ASSUME NEW S, NEW s \in Seq(S), NEW t \in Seq(S)
  PROVE  /\ s \o t \in Seq(S)
         /\ IsPrefix(s, s) /\ IsPrefix(s, s \o t)
<1>1. /\ s \o t \in Seq(S) /\ Len(s) <= Len(s \o t)
      /\ \A i \in 1 .. Len(s) : s[i] = (s \o t)[i]
  OBVIOUS
<1>2. IsPrefix(s, s \o t)
  BY <1>1, PrefixDef
<1>3. IsPrefix(s, s)
  BY PrefixDef
<1>. QED
  BY <1>1, <1>2, <1>3

\* A beginning of what is appended makes a prefix of the whole.
LEMMA PrefixSub ==
  ASSUME NEW S, NEW s \in Seq(S), NEW t \in Seq(S), NEW k \in 0 .. Len(t)
  PROVE  /\ s \o SubSeq(t, 1, k) \in Seq(S)
         /\ IsPrefix(s, s \o SubSeq(t, 1, k))
         /\ IsPrefix(s \o SubSeq(t, 1, k), s \o t)
<1>. DEFINE u == SubSeq(t, 1, k)
<1>1. /\ u \in Seq(S) /\ Len(u) = k
      /\ \A i \in 1 .. k : u[i] = t[i]
  OBVIOUS
<1>2. s \o u \in Seq(S) /\ s \o t \in Seq(S)
  BY <1>1
<1>. HIDE DEF u
<1>3. /\ Len(s \o u) <= Len(s \o t)
      /\ \A i \in 1 .. Len(s \o u) : (s \o u)[i] = (s \o t)[i]
  BY <1>1
<1>4. IsPrefix(s \o u, s \o t)
  BY <1>2, <1>3, PrefixDef
<1>. QED
  BY <1>1, <1>2, <1>4, PrefixConcat DEF u

\* IsPrefix is transitive.
LEMMA PrefixTrans ==
  ASSUME NEW S, NEW s \in Seq(S), NEW t \in Seq(S), NEW u \in Seq(S),
         IsPrefix(s, t), IsPrefix(t, u)
  PROVE  IsPrefix(s, u)
BY PrefixDef

-----------------------------------------------------------------------------
(* The events.                                                              *)

\* What the assumptions say of the event being sent.
LEMMA EventFacts ==
  ASSUME TypeOK, NEW e \in Events
  PROVE  /\ e \in Event /\ e # Nil
         /\ ~e.formed => e.deltas = <<>>
         /\ e.marker => ~e.formed
         /\ api = "openai" => e.name = "none"
         /\ api = "anthropic" => /\ e.name # "none" /\ ~e.marker
                                 /\ e.usage \in Tokens
                                 /\ e.name \notin BlockEvents => e.deltas = <<>>
BY OpenAIAssumption, AnthropicAssumption, NilAssumption
   DEF TypeOK, Events, Event

\* Init establishes the invariant.
LEMMA InitCallInv == Init => CallInv
<1>. SUFFICES ASSUME Init PROVE CallInv
  OBVIOUS
<1>1. NoTokens \in Tokens
  BY DEF NoTokens, Tokens
<1>2. TypeOK
  <2>1. /\ api \in {"openai", "anthropic"}
        /\ at \in {"calling", "reading", "ending", "returned"}
        /\ body \in {"none", "open", "closed", "broken"}
        /\ cur \in Events \cup {Nil}
        /\ sent \in {"none", "name", "half", "data"}
    BY DEF Init
  <2>2. stream \in Seq(Events) /\ answer \in Seq(Words)
    BY DEF Init
  <2>3. eventName \in Words /\ finish \in Words
    BY WordsAssumption DEF Init
  <2>4. dataParts \in Seq({"whole", "first", "second"})
    BY DEF Init
  <2>5. given \in Seq(Words) /\ done \in Seq(Words)
    BY DEF Init
  <2>6. usage \in Tokens /\ returned \in Tokens
    BY <1>1 DEF Init
  <2>7. refused \in BOOLEAN /\ result \in {"open", "ok", "error"}
    BY DEF Init
  <2>. QED
    BY <2>1, <2>2, <2>3, <2>4, <2>5, <2>6, <2>7 DEF TypeOK
<1>3. answer = given \o <<>> /\ IsPrefix(given, answer)
  <2>1. given = <<>> /\ answer = <<>> /\ given \in Seq(Words)
    BY DEF Init
  <2>2. IsPrefix(given, answer)
    BY <2>1, PrefixConcat
  <2>. QED
    BY <2>1, <2>2
<1>4. ScanInv
  BY <1>3 DEF Init, ScanInv
<1>5. UsageInv
  BY DEF Init, UsageInv, Consistent, NoTokens
<1>6. WholeAnswer
  BY DEF Init, WholeAnswer
<1>7. UsageAddsUp
  BY DEF Init, UsageAddsUp, NoTokens
<1>. QED
  BY <1>2, <1>4, <1>5, <1>6, <1>7 DEF CallInv

\* Failing keeps what the invariant says of the outcome.
LEMMA FailOutcome ==
  ASSUME Fail
  PROVE  /\ at' = "returned" /\ result' = "error" /\ returned' \in Tokens
         /\ UsageAddsUp'
BY DEF Fail, NoTokens, Tokens, UsageAddsUp

-----------------------------------------------------------------------------
(* The steps.                                                               *)

\* A line of the upstream: only the scanner and the upstream's side change.
LEMMA LineCallInv ==
  ASSUME CallInv, Line,
         \/ \E e \in Events : \/ NameLine(e)
                              \/ \E part \in {"whole", "first"} :
                                   DataLine(e, part)
         \/ SecondDataLine
  PROVE  CallInv'
<1>. USE DEF CallInv
<1>1. /\ TypeOK /\ ScanInv /\ UsageInv
      /\ at = "reading" /\ result = "open" /\ body = "open"
  BY DEF Line, ScanInv
<1>2. /\ UNCHANGED <<api, at, body, parser, sink, outcome>>
      /\ Events' = Events
  BY DEF Line, Events
<1>3. ASSUME NEW e \in Events, NameLine(e)
      PROVE  TypeOK' /\ ScanInv' /\ UsageInv'
  <2>1. /\ cur' = e /\ sent' = "name" /\ eventName' = e.name
        /\ sent = "none" /\ cur = Nil
        /\ UNCHANGED <<stream, answer, dataParts>>
        /\ e # Nil /\ e.name \in Words
    BY <1>1, <1>3, EventFacts DEF NameLine, ScanInv, Event
  <2>2. TypeOK'
    BY <1>1, <1>2, <2>1 DEF TypeOK, parser, sink, outcome
  <2>3. ScanInv'
    BY <1>1, <1>2, <2>1 DEF ScanInv, parser, sink, outcome
  <2>4. UsageInv'
    BY <1>1, <1>2, <2>1 DEF UsageInv, ConsistentStream, Consistent, parser
  <2>. QED
    BY <2>2, <2>3, <2>4
\* The data of an event is complete: it joins the stream and the answer.
<1>4. ASSUME NEW e \in Events, cur' = e, sent' = "data",
             sent # "data", eventName' = eventName, eventName = e.name,
             stream' = Append(stream, e), answer' = answer \o e.deltas,
             dataParts' \in {<<"whole">>, <<"first", "second">>}
      PROVE  TypeOK' /\ ScanInv' /\ UsageInv'
  <2>1. e # Nil /\ e \in Event /\ e.deltas \in Seq(Words)
    BY <1>1, EventFacts DEF Event
  <2>2. stream \in Seq(Events) /\ answer \in Seq(Words) /\ given \in Seq(Words)
    BY <1>1 DEF TypeOK
  <2>3. stream' \in Seq(Events) /\ answer' \in Seq(Words)
    BY <2>1, <2>2, <1>4
  <2>4. dataParts' \in Seq({"whole", "first", "second"})
    <3>1. CASE dataParts' = <<"whole">>
      BY <3>1
    <3>2. CASE dataParts' = <<"first", "second">>
      BY <3>2
    <3>. QED
      BY <1>4, <3>1, <3>2
  <2>5. TypeOK'
    BY <1>1, <1>2, <1>4, <2>3, <2>4 DEF TypeOK, parser, sink, outcome
  <2>6. answer = given
    <3>1. answer = given \o <<>>
      BY <1>1, <1>4 DEF ScanInv
    <3>. QED
      BY <3>1, <2>2
  <2>7. answer' = given \o e.deltas /\ IsPrefix(given, answer')
    BY <2>1, <2>2, <2>6, <1>4, PrefixConcat
  <2>8. ScanInv'
    BY <1>1, <1>2, <1>4, <2>1, <2>7
       DEF ScanInv, Complete, parser, sink, outcome
  <2>9. Last(stream') = e /\ stream' # <<>>
    BY <2>2, <1>4 DEF Last
  <2>10. ConsistentStream' => ConsistentStream
    BY <2>2, <1>2, <1>4 DEF ConsistentStream
  <2>11. UsageInv'
    BY <1>1, <1>2, <1>4, <2>9, <2>10 DEF UsageInv, Consistent, parser
  <2>. QED
    BY <2>5, <2>8, <2>11
<1>5. ASSUME NEW e \in Events, DataLine(e, "whole")
      PROVE  TypeOK' /\ ScanInv' /\ UsageInv'
  <2>1. /\ Follows(e) /\ cur' = e /\ sent' = "data"
        /\ dataParts' = Append(dataParts, "whole") /\ eventName' = eventName
        /\ stream' = Append(stream, e) /\ answer' = answer \o e.deltas
    BY <1>5 DEF DataLine
  <2>2. sent \in {"none", "name"} /\ eventName = e.name
    BY <2>1, <1>1 DEF Follows, ScanInv
  <2>3. dataParts = <<>>
    BY <2>2, <1>1 DEF ScanInv
  <2>4. dataParts' = <<"whole">>
    BY <2>1, <2>3
  <2>. QED
    BY <1>4, <2>1, <2>2, <2>4
<1>6. ASSUME NEW e \in Events, DataLine(e, "first")
      PROVE  TypeOK' /\ ScanInv' /\ UsageInv'
  <2>1. /\ Follows(e) /\ cur' = e /\ sent' = "half"
        /\ dataParts' = Append(dataParts, "first") /\ eventName' = eventName
        /\ UNCHANGED <<stream, answer>>
    BY <1>6 DEF DataLine
  <2>2. sent \in {"none", "name"} /\ eventName = e.name
    BY <2>1, <1>1 DEF Follows, ScanInv
  <2>3. dataParts = <<>>
    BY <2>2, <1>1 DEF ScanInv
  <2>4. dataParts' = <<"first">> /\ e # Nil
    BY <1>1, <2>1, <2>3, EventFacts
  <2>5. dataParts' \in Seq({"whole", "first", "second"})
    BY <2>4
  <2>6. TypeOK'
    BY <1>1, <1>2, <2>1, <2>5 DEF TypeOK, parser, sink, outcome
  <2>7. ScanInv'
    BY <1>1, <1>2, <2>1, <2>2, <2>4 DEF ScanInv, parser, sink, outcome
  <2>8. UsageInv'
    BY <1>1, <1>2, <2>1, <2>2 DEF UsageInv, ConsistentStream, Consistent, parser
  <2>. QED
    BY <2>6, <2>7, <2>8
<1>7. ASSUME SecondDataLine
      PROVE  TypeOK' /\ ScanInv' /\ UsageInv'
  <2>1. /\ sent = "half" /\ sent' = "data"
        /\ dataParts' = Append(dataParts, "second")
        /\ stream' = Append(stream, cur) /\ answer' = answer \o cur.deltas
        /\ cur' = cur /\ eventName' = eventName
    BY <1>7 DEF SecondDataLine
  <2>2. cur \in Events /\ eventName = cur.name /\ dataParts = <<"first">>
    BY <2>1, <1>1 DEF TypeOK, ScanInv
  <2>3. dataParts' = <<"first", "second">>
    <3>. DEFINE Parts == {"whole", "first", "second"}
    <3>1. <<"first">> \in Seq(Parts) /\ <<"first", "second">> \in Seq(Parts)
      OBVIOUS
    <3>2. /\ dataParts' \in Seq(Parts) /\ Len(dataParts') = 2
          /\ dataParts'[1] = "first" /\ dataParts'[2] = "second"
      BY <2>1, <2>2, <3>1
    <3>. QED
      BY <3>1, <3>2, SeqEqual
  <2>. QED
    BY <1>4, <2>1, <2>2, <2>3
<1>8. TypeOK' /\ ScanInv' /\ UsageInv'
  BY <1>3, <1>5, <1>6, <1>7
<1>9. WholeAnswer'
  BY <1>1, <1>2 DEF WholeAnswer, outcome
<1>10. UsageAddsUp'
  BY <1>1, <1>2 DEF UsageAddsUp, ScanInv, NoTokens, outcome
<1>. QED
  BY <1>8, <1>9, <1>10

\* The handler hands over all that was answered, or fails at a refused delta.
LEMMA HandFacts ==
  ASSUME TypeOK, ScanInv, at = "reading", sent = "data", NEW next, Hand(next)
  PROVE  /\ given' \in Seq(Words)
         /\ IsPrefix(given, given') /\ IsPrefix(given', answer)
         /\ done' = done /\ refused' \in BOOLEAN
         /\ \/ at' = next /\ given' = answer /\ UNCHANGED outcome
            \/ Fail
<1>1. /\ given \in Seq(Words) /\ cur.deltas \in Seq(Words)
      /\ answer = given \o cur.deltas
  BY EventFacts DEF TypeOK, ScanInv, Event
<1>2. CASE /\ given' = given \o cur.deltas /\ at' = next
           /\ UNCHANGED <<done, refused, outcome>>
  <2>1. /\ given' = answer /\ given' \in Seq(Words) /\ IsPrefix(given, given')
        /\ IsPrefix(given', answer)
    BY <1>1, <1>2, PrefixConcat
  <2>. QED
    BY <1>2, <2>1 DEF TypeOK, outcome
<1>3. ASSUME NEW k \in 1 .. Len(cur.deltas),
             given' = given \o SubSeq(cur.deltas, 1, k),
             refused' = TRUE, Fail, done' = done
      PROVE  /\ given' \in Seq(Words)
             /\ IsPrefix(given, given') /\ IsPrefix(given', answer)
  <2>1. k \in 0 .. Len(cur.deltas)
    BY <1>1
  <2>. QED
    BY <1>1, <1>3, <2>1, PrefixSub
<1>. QED
  BY <1>2, <1>3 DEF Hand

\* What the parser keeps has its type and stems from the event.
LEMMA RecordFacts ==
  ASSUME TypeOK, ScanInv, UsageInv, at = "reading", sent = "data", Record
  PROVE  /\ finish' \in Words /\ usage' \in Tokens
         /\ ConsistentStream /\ api = "openai" => Consistent(usage')
<1>1. /\ cur \in Event /\ cur \in Events /\ eventName = cur.name
      /\ finish \in Words /\ usage \in Tokens
      /\ stream # <<>> /\ Last(stream) = cur /\ stream \in Seq(Events)
  BY EventFacts DEF TypeOK, ScanInv, UsageInv
<1>2. cur.finish \in Words /\ cur.usage \in Tokens \cup {Nil}
  BY <1>1 DEF Event
<1>3. CASE api = "openai"
  <2>1. /\ usage' = IF cur.usage = Nil THEN usage ELSE cur.usage
        /\ finish' = LastFinish
    BY <1>3 DEF Record, OpenAIRecord
  <2>2. Len(stream) \in 1 .. Len(stream) /\ stream[Len(stream)] = cur
    BY <1>1 DEF Last
  <2>3. ConsistentStream => Consistent(usage')
    BY <1>3, <2>1, <2>2 DEF ConsistentStream, UsageInv
  <2>. QED
    BY <1>1, <1>2, <2>1, <2>3 DEF LastFinish
<1>4. CASE api = "anthropic"
  <2>1. AnthropicRecord /\ cur.usage \in Tokens
    BY <1>1, <1>4, EventFacts DEF Record
  <2>2. finish' \in Words
    BY <1>1, <1>2, <2>1 DEF AnthropicRecord, LastFinish
  <2>3. /\ [cur.usage EXCEPT !.completion = usage.completion] \in Tokens
        /\ [usage EXCEPT !.completion = cur.usage.completion] \in Tokens
    BY <1>1, <2>1 DEF Tokens
  <2>4. usage' \in Tokens
    BY <1>1, <2>1, <2>3 DEF AnthropicRecord
  <2>. QED
    BY <1>4, <2>2, <2>4
<1>. QED
  BY <1>3, <1>4 DEF TypeOK

\* What a flush does: the held event is handled, and nothing answered is left
\* behind unless the call fails.
LEMMA FlushFacts ==
  ASSUME TypeOK, ScanInv, UsageInv, at = "reading",
         NEW next \in {"reading", "ending"}, Flush(next)
  PROVE  /\ eventName' = "none" /\ dataParts' = <<>>
         /\ finish' \in Words /\ usage' \in Tokens
         /\ ConsistentStream /\ api = "openai" => Consistent(usage')
         /\ given' \in Seq(Words)
         /\ IsPrefix(given, given') /\ IsPrefix(given', answer)
         /\ done' = done /\ refused' \in BOOLEAN
         /\ \/ /\ at' \in {next, "ending"}
               /\ given' = answer /\ UNCHANGED outcome
               /\ at' # next /\ sent = "data" => UpstreamEnded
            \/ Fail
<1>. DEFINE Result ==
         /\ finish' \in Words /\ usage' \in Tokens
         /\ ConsistentStream /\ api = "openai" => Consistent(usage')
         /\ given' \in Seq(Words)
         /\ IsPrefix(given, given') /\ IsPrefix(given', answer)
         /\ done' = done /\ refused' \in BOOLEAN
         /\ \/ /\ at' \in {next, "ending"}
               /\ given' = answer /\ UNCHANGED outcome
               /\ at' # next /\ sent = "data" => UpstreamEnded
            \/ Fail
<1>1. /\ given \in Seq(Words) /\ answer \in Seq(Words)
      /\ finish \in Words /\ usage \in Tokens /\ refused \in BOOLEAN
      /\ IsPrefix(given, answer) /\ IsPrefix(given, given)
      /\ ConsistentStream /\ api = "openai" => Consistent(usage)
  BY PrefixConcat DEF TypeOK, ScanInv, UsageInv
<1>2. ASSUME UNCHANGED <<parser, sink>>, Fail
      PROVE  Result
  BY <1>1, <1>2 DEF parser, sink
\* Nothing was said that the sink has not had.
<1>3. ASSUME UNCHANGED <<parser, sink, outcome>>, at' \in {next, "ending"},
             answer = given,
             at' # next /\ sent = "data" => UpstreamEnded
      PROVE  Result
  BY <1>1, <1>3 DEF parser, sink
<1>. HIDE DEF Result
<1>4. ASSUME dataParts = <<>> PROVE Result
  <2>1. sent # "data" /\ sent # "half"
    BY <1>4 DEF ScanInv, Complete
  <2>2. answer = given
    BY <1>1, <2>1 DEF ScanInv
  <2>. QED
    BY <1>3, <1>4, <2>1, <2>2 DEF Flush
<1>5. ASSUME dataParts # <<>> PROVE Result
  <2>1. /\ sent \in {"half", "data"} /\ cur # Nil /\ cur \in Events
        /\ eventName = cur.name /\ cur \in Event
    BY <1>5, EventFacts DEF ScanInv, TypeOK
  <2>2. Handle(next)
    BY <1>5 DEF Flush
  <2>3. sent = "half" => ~Complete
    BY DEF ScanInv, Complete
  <2>4. cur.deltas = <<>> \/ sent = "half" => answer = given
    BY <1>1, <2>1 DEF ScanInv
  <2>5. CASE Verdict = "ignored"
    <3>1. api = "anthropic" /\ eventName \notin BlockEvents
      BY <2>5 DEF Verdict, OpenAIVerdict, AnthropicVerdict, TypeOK, Decodes
    <3>2. answer = given
      BY <2>1, <2>4, <3>1, EventFacts
    <3>3. at' = next /\ UNCHANGED <<parser, sink, outcome>>
      BY <2>2, <2>5 DEF Handle
    <3>. QED
      BY <1>3, <3>2, <3>3
  <2>6. CASE Verdict = "terminator"
    <3>1. cur.marker \/ cur.name = "message_stop"
      BY <2>1, <2>6 DEF Verdict, OpenAIVerdict, AnthropicVerdict, Decodes
    <3>2. cur.deltas = <<>>
      <4>1. CASE cur.marker
        BY <4>1, <2>1, EventFacts
      <4>2. CASE ~cur.marker
        <5>1. cur.name = "message_stop" /\ api = "anthropic"
          BY <4>2, <3>1, <2>1, EventFacts DEF TypeOK
        <5>. QED
          BY <5>1, <2>1, EventFacts DEF BlockEvents
      <4>. QED
        BY <4>1, <4>2
    <3>3. sent = "data" => UpstreamEnded
      BY <3>1 DEF UsageInv, UpstreamEnded
    <3>4. at' = "ending" /\ UNCHANGED <<parser, sink, outcome>>
      BY <2>2, <2>6 DEF Handle
    <3>. QED
      BY <1>3, <2>4, <3>2, <3>3, <3>4
  <2>7. CASE Verdict = "malformed"
    BY <1>2, <2>2, <2>7 DEF Handle
  <2>8. CASE Verdict = "read"
    <3>1. Record /\ Hand(next)
      BY <2>2, <2>8 DEF Handle
    <3>2. Complete
      BY <2>8 DEF Verdict, OpenAIVerdict, AnthropicVerdict, Decodes
    <3>3. sent = "data"
      BY <2>1, <2>3, <3>2
    <3>. QED
      BY <3>1, <3>3, RecordFacts, HandFacts DEF Result
  <2>. QED
    BY <2>2, <2>5, <2>6, <2>7, <2>8 DEF Handle
<1>6. Result
  BY <1>4, <1>5
<1>. QED
  BY <1>6 DEF Flush, Result

\* A flush of the scanner, after a blank line or at the end of the body.
LEMMA FlushCallInv ==
  ASSUME CallInv, BlankLine \/ EndOfBody
  PROVE  CallInv'
<1>. DEFINE next == IF BlankLine THEN "reading" ELSE "ending"
<1>1. /\ TypeOK /\ ScanInv /\ UsageInv
      /\ at = "reading" /\ result = "open" /\ returned = NoTokens /\ done = <<>>
      /\ Flush(next) /\ next \in {"reading", "ending"}
      /\ UNCHANGED <<api, stream, answer>> /\ Events' = Events
  BY DEF CallInv, ScanInv, BlankLine, EndOfBody, Events
<1>. HIDE DEF next
<1>2. /\ eventName' = "none" /\ dataParts' = <<>>
      /\ finish' \in Words /\ usage' \in Tokens
      /\ ConsistentStream /\ api = "openai" => Consistent(usage')
      /\ given' \in Seq(Words)
      /\ IsPrefix(given', answer)
      /\ done' = done /\ refused' \in BOOLEAN
      /\ \/ /\ at' \in {next, "ending"}
            /\ given' = answer /\ UNCHANGED outcome
            /\ at' # next /\ sent = "data" => UpstreamEnded
         \/ Fail
  BY <1>1, FlushFacts
<1>3. \/ /\ BlankLine /\ next = "reading" /\ sent \in {"name", "data"}
         /\ cur' = Nil /\ sent' = "none" /\ body' = body
      \/ /\ EndOfBody /\ next = "ending" /\ body' = "closed"
         /\ cur' = cur /\ sent' = sent
  BY DEF next, BlankLine, EndOfBody
<1>4. TypeOK'
  <2>1. at' \in {"calling", "reading", "ending", "returned"}
    BY <1>1, <1>2 DEF Fail
  <2>2. result' \in {"open", "ok", "error"} /\ returned' \in Tokens
    BY <1>1, <1>2, FailOutcome DEF TypeOK, outcome
  <2>3. dataParts' \in Seq({"whole", "first", "second"})
    BY <1>2
  <2>. QED
    BY <1>1, <1>2, <1>3, <2>1, <2>2, <2>3, WordsAssumption DEF TypeOK
<1>5. ScanInv'
  <2>1. CASE Fail
    BY <2>1, <1>1, <1>2, <1>3, FailOutcome DEF ScanInv
  <2>2. CASE /\ at' \in {next, "ending"}
             /\ given' = answer /\ UNCHANGED outcome
             /\ at' # next /\ sent = "data" => UpstreamEnded
    <3>1. given' \o <<>> = given'
      BY <1>2
    <3>2. at' = "ending" => UpstreamEnded'
      <4>1. CASE next = "ending"
        BY <1>3, <4>1 DEF UpstreamEnded
      <4>2. CASE next = "reading"
        <5>1. BlankLine /\ body' = body /\ stream' = stream
          BY <4>2, <1>1, <1>3
        <5>2. sent # "data" => dataParts = <<>>
          BY <5>1, <1>1 DEF BlankLine, ScanInv
        <5>3. sent # "data" => at' = "reading"
          BY <5>2, <4>2, <1>1 DEF Flush
        <5>. QED
          BY <2>2, <4>2, <5>1, <5>3 DEF UpstreamEnded
      <4>. QED
        BY <1>1, <4>1, <4>2
    <3>3. result' = "open" /\ returned' = NoTokens
      BY <2>2, <1>1 DEF outcome
    <3>4. at' \in {"reading", "ending"} /\ (at' = "reading" => next = "reading")
      BY <2>2, <1>1
    <3>5. body = "open" /\ (sent = "none" <=> cur = Nil)
      BY <1>1 DEF ScanInv
    <3>. QED
      BY <2>2, <1>1, <1>2, <1>3, <3>1, <3>2, <3>3, <3>4, <3>5
         DEF ScanInv, Complete
  <2>. QED
    BY <1>2, <2>1, <2>2
<1>6. UsageInv'
  BY <1>1, <1>2, <1>3 DEF UsageInv, ConsistentStream, Consistent
<1>7. WholeAnswer' /\ UsageAddsUp'
  <2>1. CASE Fail
    BY <2>1, FailOutcome DEF WholeAnswer
  <2>2. CASE UNCHANGED outcome
    BY <2>2, <1>1 DEF WholeAnswer, UsageAddsUp, NoTokens, outcome
  <2>. QED
    BY <1>2, <2>1, <2>2
<1>. QED
  BY <1>4, <1>5, <1>6, <1>7 DEF CallInv

\* The parts of the returned usage add up if the parser's do.
LEMMA ToUsageFacts ==
  ASSUME TypeOK
  PROVE  /\ ToUsage(usage) \in Tokens
         /\ (api = "openai" => Consistent(usage)) =>
              ToUsage(usage).total =
                ToUsage(usage).prompt + ToUsage(usage).read
                  + ToUsage(usage).written + ToUsage(usage).completion
<1>1. usage \in Tokens
  BY DEF TypeOK
<1>2. CASE api = "openai"
  <2>. DEFINE p == IF usage.prompt < usage.read THEN 0
                                                ELSE usage.prompt - usage.read
  <2>1. ToUsage(usage) = [prompt |-> p, read |-> usage.read, written |-> 0,
                          completion |-> usage.completion,
                          total |-> usage.total]
    BY <1>1, <1>2 DEF ToUsage, OpenAIUsage, Tokens
  <2>2. /\ usage.prompt \in Nat /\ usage.read \in Nat
        /\ usage.completion \in Nat /\ usage.total \in Nat
    BY <1>1 DEF Tokens
  <2>3. p \in Nat
    BY <2>2
  <2>4. Consistent(usage) =>
          usage.total = p + usage.read + 0 + usage.completion
    BY <2>2 DEF Consistent
  <2>. HIDE DEF p
  <2>. QED
    BY <1>2, <2>1, <2>2, <2>3, <2>4 DEF Tokens
<1>3. CASE api = "anthropic"
  BY <1>1, <1>3 DEF ToUsage, AnthropicUsage, Tokens
<1>. QED
  BY <1>2, <1>3 DEF TypeOK

\* The call begins, breaks off, or ends.
LEMMA OtherCallInv ==
  ASSUME CallInv, CallFails \/ CallAnswered \/ BodyBreaks \/ End
  PROVE  CallInv'
<1>1. /\ TypeOK /\ ScanInv /\ UsageInv
      /\ result = "open" /\ returned = NoTokens /\ done = <<>>
      /\ given \in Seq(Words) /\ IsPrefix(given, answer)
  BY DEF CallInv, ScanInv, TypeOK, CallFails, CallAnswered, BodyBreaks, End
<1>2. /\ UNCHANGED <<api, cur, sent, stream, answer, scanner, parser, given>>
      /\ Events' = Events
  BY DEF CallFails, CallAnswered, BodyBreaks, End, upstream, sink, Events
<1>3. UsageInv'
  BY <1>1, <1>2 DEF UsageInv, ConsistentStream, Consistent, parser
<1>4. CASE CallFails \/ BodyBreaks
  <2>1. /\ Fail /\ UNCHANGED <<done, refused>>
        /\ body' = body \/ body' = "broken"
    BY <1>4 DEF CallFails, BodyBreaks, upstream, sink
  <2>2. TypeOK'
    BY <1>1, <1>2, <2>1, FailOutcome DEF TypeOK, Fail, scanner, parser
  <2>3. ScanInv'
    BY <1>1, <1>2, <2>1, FailOutcome DEF ScanInv
  <2>. QED
    BY <1>3, <2>1, <2>2, <2>3, FailOutcome DEF CallInv, WholeAnswer
<1>5. CASE CallAnswered
  <2>1. /\ at = "calling" /\ at' = "reading" /\ body' = "open"
        /\ UNCHANGED <<sink, outcome>>
    BY <1>5 DEF CallAnswered
  <2>2. TypeOK'
    BY <1>1, <1>2, <2>1 DEF TypeOK, scanner, parser, sink, outcome
  <2>3. ScanInv'
    BY <1>1, <1>2, <2>1 DEF ScanInv, Complete, scanner, sink, outcome
  <2>4. WholeAnswer' /\ UsageAddsUp'
    BY <1>1, <2>1 DEF WholeAnswer, UsageAddsUp, NoTokens, outcome
  <2>. QED
    BY <1>3, <2>2, <2>3, <2>4 DEF CallInv
<1>6. CASE End
  <2>1. /\ at = "ending" /\ at' = "returned" /\ body' = body
        /\ done' = Append(done, ToFinish(finish))
        /\ returned' = ToUsage(usage)
        /\ result' \in {"ok", "error"} /\ refused' \in BOOLEAN
    BY <1>6, <1>1 DEF End, upstream, TypeOK
  <2>2. ToFinish(finish) \in Words
    BY <1>1, WordsAssumption DEF TypeOK, ToFinish, MapStopReason
  <2>3. TypeOK'
    BY <1>1, <1>2, <2>1, <2>2, ToUsageFacts DEF TypeOK, scanner, parser
  <2>4. answer = given /\ UpstreamEnded
    BY <1>1, <2>1 DEF ScanInv
  <2>5. ScanInv'
    BY <1>1, <1>2, <2>1 DEF ScanInv
  <2>6. WholeAnswer'
    BY <1>2, <2>1, <2>4 DEF WholeAnswer, UpstreamEnded
  <2>7. UsageAddsUp'
    <3>1. ConsistentStream' => ConsistentStream
      BY <1>2 DEF ConsistentStream
    <3>2. ConsistentStream => (api = "openai" => Consistent(usage))
      BY <1>1 DEF UsageInv
    <3>. QED
      BY <1>1, <2>1, <3>1, <3>2, ToUsageFacts DEF UsageAddsUp
  <2>. QED
    BY <1>3, <2>3, <2>5, <2>6, <2>7 DEF CallInv
<1>. QED
  BY <1>4, <1>5, <1>6

-----------------------------------------------------------------------------
(* Failures.                                                                *)

\* Data that a parser calls malformed is not JSON, or was cut.
LEMMA MalformedData ==
  ASSUME CallInv, at = "reading", dataParts # <<>>, Verdict = "malformed", sent # "half"
  PROVE  \E i \in 1 .. Len(stream) : ~stream[i].formed /\ ~stream[i].marker
<1>1. /\ sent = "data" /\ Complete /\ cur \in Events
      /\ stream \in Seq(Events) /\ stream # <<>> /\ Last(stream) = cur
  BY DEF CallInv, TypeOK, ScanInv, UsageInv
<1>2. Len(stream) \in 1 .. Len(stream) /\ stream[Len(stream)] = cur
  BY <1>1 DEF Last
<1>3. ~Decodes /\ ~cur.marker
  <2>1. CASE api = "openai"
    BY <1>1, <2>1 DEF Verdict, OpenAIVerdict
  <2>2. CASE api = "anthropic"
    <3>1. ~cur.marker
      BY <1>1, <2>2, EventFacts DEF CallInv
    <3>2. ~Decodes
      BY <2>2 DEF Verdict, AnthropicVerdict
    <3>. QED
      BY <3>1, <3>2
  <2>. QED
    BY <2>1, <2>2 DEF CallInv, TypeOK
<1>. QED
  BY <1>1, <1>2, <1>3 DEF Decodes

\* No step fails without a fault of the upstream, the network or the sink.
LEMMA FailureStep ==
  ASSUME CallInv, NoFalseFailure, [Next]_vars
  PROVE  NoFalseFailure'
<1>1. result = "error" => at = "returned"
  BY DEF CallInv, ScanInv
<1>2. CASE CallFails \/ BodyBreaks
  BY <1>2 DEF CallFails, BodyBreaks, upstream, NoFalseFailure, CallInv, ScanInv
<1>3. CASE CallAnswered \/ SecondDataLine \/ \E e \in Events : \/ NameLine(e)
                              \/ \E part \in {"whole", "first"} : DataLine(e, part)
  <2>1. result' = result /\ at # "returned"
    BY <1>3 DEF CallAnswered, SecondDataLine, NameLine, DataLine, Line, outcome
  <2>. QED
    BY <1>1, <2>1 DEF NoFalseFailure
<1>4. ASSUME NEW next, Flush(next), at = "reading", stream' = stream,
             sent = "half" => body' = "closed" /\ sent' = "half"
      PROVE  NoFalseFailure'
  <2>1. CASE UNCHANGED outcome
    BY <1>1, <1>4, <2>1 DEF NoFalseFailure, outcome
  <2>2. CASE refused'
    BY <2>2 DEF NoFalseFailure
  <2>3. CASE dataParts # <<>> /\ Verdict = "malformed"
    BY <1>4, <2>3, MalformedData DEF NoFalseFailure
  <2>. QED
    BY <1>4, <2>1, <2>2, <2>3 DEF Flush, Handle, Hand
<1>5. CASE BlankLine \/ EndOfBody
  BY <1>4, <1>5 DEF BlankLine, EndOfBody
<1>6. CASE End
  BY <1>6 DEF End, NoFalseFailure
<1>7. CASE UNCHANGED vars
  BY <1>7 DEF vars, upstream, sink, outcome, NoFalseFailure
<1>. QED
  BY <1>2, <1>3, <1>5, <1>6, <1>7 DEF Next, Returned

-----------------------------------------------------------------------------
(* What is reported beside the text.                                        *)

\* A set of naturals has a least element: the finite sets are well-founded.
LEMMA LeastNumber ==
  ASSUME NEW T \in SUBSET Nat, T # {}
  PROVE  \E x \in T : \A y \in T : x <= y
<1>. DEFINE R == StrictSubsetOrdering(Nat)
            S == FiniteSubsetsOf(Nat)
            I == {0 .. n : n \in T}
<1>1. IsWellFoundedOn(R, S)
  BY FS_StrictSubsetOrderingWellFounded
<1>2. I \subseteq S /\ I # {}
  <2>1. \A n \in T : IsFiniteSet(0 .. n)
    BY FS_Interval
  <2>2. \A n \in T : 0 .. n \in SUBSET Nat
    OBVIOUS
  <2>3. \A n \in T : 0 .. n \in S
    BY <2>1, <2>2 DEF FiniteSubsetsOf
  <2>. HIDE DEF S
  <2>. QED
    BY <2>3
<1>3. \E x \in I : \A y \in I : ~ (<<y, x>> \in R)
  <2>. HIDE DEF R, S, I
  <2>. QED
    BY <1>1, <1>2, WFMin
<1>4. PICK x \in T : \A y \in T : ~ (<<0 .. y, 0 .. x>> \in R)
  BY <1>3
<1>5. ASSUME NEW y \in T, ~(x <= y)
      PROVE  FALSE
  <2>1. /\ (0 .. y) \subseteq (0 .. x)
        /\ x \in 0 .. x /\ x \notin 0 .. y
    BY <1>5
  <2>2. <<0 .. y, 0 .. x>> \in R
    BY <2>1 DEF StrictSubsetOrdering
  <2>. QED
    BY <2>2, <1>4
<1>. QED
  BY <1>5

\* Max is the greatest of some positions, and the only one.
LEMMA MaxFacts ==
  ASSUME NEW n \in Nat, NEW I \in SUBSET (1 .. n), I # {}
  PROVE  /\ Max(I) \in I /\ \A i \in I : i <= Max(I)
         /\ \A m \in I : (\A i \in I : i <= m) => Max(I) = m
<1>1. \A i \in I : i \in Nat /\ i <= n /\ n - i \in Nat
  OBVIOUS
<1>2. PICK d \in {n - i : i \in I} : \A c \in {n - i : i \in I} : d <= c
  <2>1. {n - i : i \in I} \in SUBSET Nat
    BY <1>1
  <2>2. {n - i : i \in I} # {}
    OBVIOUS
  <2>. QED
    BY <2>1, <2>2, LeastNumber
<1>3. PICK m \in I : d = n - m
  BY <1>2
<1>4. \A i \in I : n - m <= n - i
  BY <1>2, <1>3
<1>5. \A i \in I : i <= m
  BY <1>1, <1>4
<1>6. Max(I) \in I /\ \A i \in I : i <= Max(I)
  BY <1>5 DEF Max
<1>7. ASSUME NEW k \in I, \A i \in I : i <= k PROVE Max(I) = k
  <2>1. Max(I) <= k /\ k <= Max(I) /\ k \in Nat /\ Max(I) \in Nat
    BY <1>1, <1>6, <1>7
  <2>. QED
    BY <2>1
<1>. QED
  BY <1>6, <1>7

\* The last of some positions stays the last of them as the stream grows, and a
\* position beyond them becomes it.
LEMMA LastOfFacts ==
  ASSUME NEW n \in Nat, NEW I \in SUBSET (1 .. n)
  PROVE  /\ (\A i \in 1 .. n : stream'[i] = stream[i]) => LastOf(I)' = LastOf(I)
         /\ LastOf(I \cup {n + 1}) = stream[n + 1]
<1>1. ASSUME \A i \in 1 .. n : stream'[i] = stream[i]
      PROVE  LastOf(I)' = LastOf(I)
  <2>1. CASE I = {}
    BY <2>1 DEF LastOf
  <2>2. CASE I # {}
    BY <1>1, <2>2, MaxFacts DEF LastOf
  <2>. QED
    BY <2>1, <2>2
<1>2. LastOf(I \cup {n + 1}) = stream[n + 1]
  <2>. DEFINE J == I \cup {n + 1}
  <2>1. /\ J \in SUBSET (1 .. n + 1) /\ n + 1 \in Nat /\ J # {}
        /\ n + 1 \in J /\ \A i \in J : i <= n + 1
    OBVIOUS
  <2>. HIDE DEF J
  <2>2. Max(J) = n + 1
    BY <2>1, MaxFacts
  <2>. QED
    BY <2>1, <2>2 DEF LastOf, J
<1>. QED
  BY <1>1, <1>2

\* The positions each part of the report looks for.
StopAt(n) == {i \in 1 .. n : /\ stream[i].formed /\ stream[i].finish # "none"
                             /\ \/ api = "openai"
                                \/ stream[i].name = "message_delta"}
BlockAt(n) == {i \in 1 .. n : stream[i].formed /\ stream[i].usage # Nil}
StartAt(n) == {i \in 1 .. n : stream[i].formed /\ stream[i].name = "message_start"}
CountAt(n) == {i \in 1 .. n : /\ stream[i].formed /\ stream[i].name = "message_delta"
                              /\ stream[i].usage.completion > 0}

\* The report in terms of these positions.
LEMMA ReportDef ==
  ASSUME NEW n \in Nat
  PROVE  /\ StopReason(n) = IF LastOf(StopAt(n)) = Nil THEN "none" ELSE LastOf(StopAt(n)).finish
         /\ api = "openai" => TokenCounts(n) = TokensOf(LastOf(BlockAt(n)))
         /\ api # "openai" =>
              TokenCounts(n) = [TokensOf(LastOf(StartAt(n))) EXCEPT
                                  !.completion = TokensOf(LastOf(CountAt(n))).completion]
BY DEF StopReason, TokenCounts, StopAt, BlockAt, StartAt, CountAt

\* What the stream has reported stays reported as it grows.
LEMMA ReportKept ==
  ASSUME NEW n \in Nat, api' = api, \A i \in 1 .. n : stream'[i] = stream[i]
  PROVE  StopReason(n)' = StopReason(n) /\ TokenCounts(n)' = TokenCounts(n)
<1>1. /\ StopAt(n)' = StopAt(n) /\ BlockAt(n)' = BlockAt(n)
      /\ StartAt(n)' = StartAt(n) /\ CountAt(n)' = CountAt(n)
  BY DEF StopAt, BlockAt, StartAt, CountAt
<1>2. ASSUME NEW I \in SUBSET (1 .. n) PROVE LastOf(I)' = LastOf(I)
  BY LastOfFacts
<1>3. /\ StopAt(n) \in SUBSET (1 .. n) /\ BlockAt(n) \in SUBSET (1 .. n)
      /\ StartAt(n) \in SUBSET (1 .. n) /\ CountAt(n) \in SUBSET (1 .. n)
  BY DEF StopAt, BlockAt, StartAt, CountAt
<1>4. /\ LastOf(StopAt(n))' = LastOf(StopAt(n)) /\ LastOf(BlockAt(n))' = LastOf(BlockAt(n))
      /\ LastOf(StartAt(n))' = LastOf(StartAt(n)) /\ LastOf(CountAt(n))' = LastOf(CountAt(n))
  BY <1>1, <1>2, <1>3 DEF LastOf
<1>5. /\ TokensOf(LastOf(BlockAt(n)))' = TokensOf(LastOf(BlockAt(n)))
      /\ TokensOf(LastOf(StartAt(n)))' = TokensOf(LastOf(StartAt(n)))
      /\ TokensOf(LastOf(CountAt(n)))' = TokensOf(LastOf(CountAt(n)))
  BY <1>4 DEF TokensOf
<1>6. StopReason(n)' = StopReason(n)
  BY <1>4, ReportDef DEF StopReason, StopAt
<1>7. TokenCounts(n)' = TokenCounts(n)
  BY <1>5 DEF TokenCounts, BlockAt, StartAt, CountAt
<1>. QED
  BY <1>6, <1>7

\* The last of the positions in I is one of them.
LEMMA LastOfIn ==
  ASSUME NEW n \in Nat, NEW I \in SUBSET (1 .. n), I # {}
  PROVE  \E i \in I : LastOf(I) = stream[i]
BY MaxFacts DEF LastOf

\* What an Anthropic report is made of are token counts.
LEMMA TokensOfFacts ==
  ASSUME CallInv, api = "anthropic", NEW n \in 0 .. Len(stream)
  PROVE  TokensOf(LastOf(StartAt(n))) \in Tokens /\ TokensOf(LastOf(CountAt(n))) \in Tokens
<1>1. \A i \in 1 .. n : stream[i] # Nil /\ stream[i].usage \in Tokens
  BY EventFacts DEF CallInv, TypeOK
<1>2. NoTokens \in Tokens
  BY DEF NoTokens, Tokens
<1>3. ASSUME NEW I \in SUBSET (1 .. n) PROVE TokensOf(LastOf(I)) \in Tokens
  <2>1. CASE I = {}
    BY <1>2, <2>1 DEF TokensOf, LastOf
  <2>2. CASE I # {}
    <3>1. PICK i \in I : LastOf(I) = stream[i]
      <4>1. n \in Nat
        BY DEF CallInv, TypeOK
      <4>. QED
        BY <2>2, <4>1, LastOfIn
    <3>2. i \in 1 .. n
      OBVIOUS
    <3>. QED
      BY <1>1, <3>1, <3>2 DEF TokensOf
  <2>. QED
    BY <2>1, <2>2
<1>. QED
  BY <1>3 DEF StartAt, CountAt

\* What one more event adds to the report.
LEMMA ReportNext ==
  ASSUME CallInv, NEW n \in Nat, n + 1 \in 1 .. Len(stream), NEW e, e = stream[n + 1]
  PROVE  /\ StopReason(n + 1) =
              IF e.formed /\ e.finish # "none" /\ (api = "openai" \/ e.name = "message_delta")
                THEN e.finish ELSE StopReason(n)
         /\ api = "openai" =>
              TokenCounts(n + 1) = IF e.formed /\ e.usage # Nil THEN e.usage ELSE TokenCounts(n)
         /\ api # "openai" =>
              TokenCounts(n + 1) =
                IF e.formed /\ e.name = "message_start"
                  THEN [e.usage EXCEPT !.completion = TokenCounts(n).completion]
                ELSE IF e.formed /\ e.name = "message_delta" /\ e.usage.completion > 0
                  THEN [TokenCounts(n) EXCEPT !.completion = e.usage.completion]
                ELSE TokenCounts(n)
<1>1. e # Nil /\ e \in Events
  BY EventFacts DEF CallInv, TypeOK
<1>2. ASSUME NEW I \in SUBSET (1 .. n)
      PROVE  LastOf(I \cup {n + 1}) = e
  BY <1>2, LastOfFacts
<1>3. /\ StopAt(n) \in SUBSET (1 .. n) /\ BlockAt(n) \in SUBSET (1 .. n)
      /\ StartAt(n) \in SUBSET (1 .. n) /\ CountAt(n) \in SUBSET (1 .. n)
  BY DEF StopAt, BlockAt, StartAt, CountAt
<1>4. 1 .. n + 1 = (1 .. n) \cup {n + 1}
  OBVIOUS
<1>5. StopReason(n + 1) =
        IF e.formed /\ e.finish # "none" /\ (api = "openai" \/ e.name = "message_delta")
          THEN e.finish ELSE StopReason(n)
  <2>1. StopAt(n + 1) =
          IF e.formed /\ e.finish # "none" /\ (api = "openai" \/ e.name = "message_delta")
            THEN StopAt(n) \cup {n + 1} ELSE StopAt(n)
    BY <1>4 DEF StopAt
  <2>2. /\ StopReason(n) = IF LastOf(StopAt(n)) = Nil THEN "none" ELSE LastOf(StopAt(n)).finish
        /\ StopReason(n + 1) = IF LastOf(StopAt(n + 1)) = Nil THEN "none"
                                                        ELSE LastOf(StopAt(n + 1)).finish
    BY ReportDef
  <2>3. LastOf(StopAt(n) \cup {n + 1}) = e
    BY <1>2, <1>3
  <2>. QED
    BY <1>1, <2>1, <2>2, <2>3
<1>6. ASSUME api = "openai"
      PROVE  TokenCounts(n + 1) = IF e.formed /\ e.usage # Nil THEN e.usage ELSE TokenCounts(n)
  <2>1. BlockAt(n + 1) = IF e.formed /\ e.usage # Nil THEN BlockAt(n) \cup {n + 1} ELSE BlockAt(n)
    BY <1>4 DEF BlockAt
  <2>2. /\ TokenCounts(n) = TokensOf(LastOf(BlockAt(n)))
        /\ TokenCounts(n + 1) = TokensOf(LastOf(BlockAt(n + 1)))
    BY <1>6, ReportDef
  <2>3. TokensOf(LastOf(BlockAt(n) \cup {n + 1})) = e.usage
    BY <1>1, <1>2, <1>3 DEF TokensOf
  <2>. QED
    BY <2>1, <2>2, <2>3
<1>7. ASSUME api # "openai"
      PROVE  TokenCounts(n + 1) =
               IF e.formed /\ e.name = "message_start"
                 THEN [e.usage EXCEPT !.completion = TokenCounts(n).completion]
               ELSE IF e.formed /\ e.name = "message_delta" /\ e.usage.completion > 0
                 THEN [TokenCounts(n) EXCEPT !.completion = e.usage.completion]
               ELSE TokenCounts(n)
  <2>. DEFINE start(k) == TokensOf(LastOf(StartAt(k)))
              count(k) == TokensOf(LastOf(CountAt(k)))
  <2>1. /\ TokenCounts(n) = [start(n) EXCEPT !.completion = count(n).completion]
        /\ TokenCounts(n + 1) = [start(n + 1) EXCEPT !.completion = count(n + 1).completion]
    BY <1>7, ReportDef
  <2>2. start(n) \in Tokens /\ count(n) \in Tokens /\ e.usage \in Tokens
    <3>1. api = "anthropic" /\ n \in 0 .. Len(stream)
      BY <1>7 DEF CallInv, TypeOK
    <3>. QED
      BY <1>1, <3>1, TokensOfFacts, EventFacts DEF CallInv
  <2>3. start(n + 1) = IF e.formed /\ e.name = "message_start" THEN e.usage ELSE start(n)
    <3>1. StartAt(n + 1) =
            IF e.formed /\ e.name = "message_start" THEN StartAt(n) \cup {n + 1} ELSE StartAt(n)
      BY <1>4 DEF StartAt
    <3>. QED
      BY <1>1, <1>2, <1>3, <3>1 DEF TokensOf
  <2>4. count(n + 1) = IF e.formed /\ e.name = "message_delta" /\ e.usage.completion > 0
                         THEN e.usage ELSE count(n)
    <3>1. CountAt(n + 1) = IF e.formed /\ e.name = "message_delta" /\ e.usage.completion > 0
                             THEN CountAt(n) \cup {n + 1} ELSE CountAt(n)
      BY <1>4 DEF CountAt
    <3>. QED
      BY <1>1, <1>2, <1>3, <3>1 DEF TokensOf
  <2>. HIDE DEF start, count
  <2>5. TokenCounts(n).completion = count(n).completion
    BY <2>1, <2>2 DEF Tokens
  <2>6. CASE e.formed /\ e.name = "message_start"
    BY <2>1, <2>3, <2>4, <2>5, <2>6
  <2>7. CASE e.formed /\ e.name = "message_delta" /\ e.usage.completion > 0
    <3>1. [[start(n) EXCEPT !.completion = count(n).completion] EXCEPT
             !.completion = e.usage.completion]
            = [start(n) EXCEPT !.completion = e.usage.completion]
      BY <2>2 DEF Tokens
    <3>. QED
      BY <2>1, <2>3, <2>4, <2>7, <3>1
  <2>8. CASE /\ ~(e.formed /\ e.name = "message_start")
             /\ ~(e.formed /\ e.name = "message_delta" /\ e.usage.completion > 0)
    BY <2>1, <2>3, <2>4, <2>8
  <2>. QED
    BY <2>6, <2>7, <2>8
<1>. QED
  BY <1>5, <1>6, <1>7

\* A flush leaves the parser with what the event it handles adds to the report.
LEMMA FlushReport ==
  ASSUME CallInv, ReportInv, NEW next, Flush(next), at = "reading", at' # "returned"
  PROVE  finish' = StopReason(Len(stream)) /\ usage' = TokenCounts(Len(stream))
<1>1. /\ finish = StopReason(Handled) /\ usage = TokenCounts(Handled)
      /\ stream \in Seq(Events) /\ Len(stream) \in Nat
  BY DEF ReportInv, CallInv, TypeOK
<1>2. CASE sent # "data"
  <2>1. Handled = Len(stream)
    BY <1>2 DEF Handled
  <2>2. ~Complete
    <3>1. dataParts = <<>> \/ dataParts = <<"first">>
      BY <1>2 DEF CallInv, TypeOK, ScanInv
    <3>2. CASE dataParts = <<>>
      BY <3>2 DEF Complete
    <3>3. CASE dataParts = <<"first">>
      BY <3>3 DEF Complete
    <3>. QED
      BY <3>1, <3>2, <3>3
  <2>3. UNCHANGED parser
    <3>1. Verdict # "read"
      BY <2>2 DEF Verdict, OpenAIVerdict, AnthropicVerdict, Decodes
    <3>. QED
      BY <3>1 DEF Flush, Handle
  <2>. QED
    BY <1>1, <2>1, <2>3 DEF parser
<1>3. CASE sent = "data"
  <2>. DEFINE n == Len(stream) - 1
  <2>1. /\ Handled = n /\ n \in Nat /\ n + 1 = Len(stream) /\ n + 1 \in 1 .. Len(stream)
        /\ cur = stream[n + 1] /\ cur \in Events /\ eventName = cur.name /\ Complete
        /\ dataParts # <<>>
    <3>1. cur \in Events /\ eventName = cur.name /\ Complete /\ stream # <<>> /\ Last(stream) = cur
      BY <1>3 DEF CallInv, TypeOK, UsageInv, ScanInv
    <3>2. dataParts # <<>>
      BY <3>1 DEF Complete
    <3>3. Len(stream) # 0
      BY <1>1, <3>1
    <3>. QED
      BY <1>1, <1>3, <3>1, <3>2, <3>3 DEF Handled, Last
  <2>. HIDE DEF n
  <2>2. Handle(next) /\ ~Fail
    BY <2>1 DEF Flush, Fail
  <2>3. CASE api = "openai"
    <3>1. /\ StopReason(n + 1) = IF cur.formed /\ cur.finish # "none" THEN cur.finish
                                                                     ELSE StopReason(n)
          /\ TokenCounts(n + 1) = IF cur.formed /\ cur.usage # Nil THEN cur.usage
                                                                   ELSE TokenCounts(n)
          /\ cur.marker => ~cur.formed
      BY <2>1, <2>3, ReportNext, EventFacts DEF CallInv
    <3>2. CASE Verdict = "read"
      <4>1. cur.formed /\ OpenAIRecord
        BY <2>2, <2>3, <3>2 DEF Verdict, OpenAIVerdict, Decodes, Handle, Record
      <4>. QED
        BY <1>1, <2>1, <3>1, <4>1 DEF OpenAIRecord, LastFinish
    <3>3. CASE Verdict # "read"
      <4>1. ~cur.formed
        BY <2>1, <2>3, <3>1, <3>3 DEF Verdict, OpenAIVerdict, Decodes
      <4>2. UNCHANGED parser
        BY <2>2, <3>3 DEF Handle
      <4>. QED
        BY <1>1, <2>1, <3>1, <4>1, <4>2 DEF parser
    <3>. QED
      BY <3>2, <3>3
  <2>4. CASE api = "anthropic"
    <3>1. /\ StopReason(n + 1) =
               IF cur.formed /\ cur.finish # "none" /\ cur.name = "message_delta"
                 THEN cur.finish ELSE StopReason(n)
          /\ TokenCounts(n + 1) =
               IF cur.formed /\ cur.name = "message_start"
                 THEN [cur.usage EXCEPT !.completion = TokenCounts(n).completion]
               ELSE IF cur.formed /\ cur.name = "message_delta" /\ cur.usage.completion > 0
                 THEN [TokenCounts(n) EXCEPT !.completion = cur.usage.completion]
               ELSE TokenCounts(n)
      BY <2>1, <2>4, ReportNext
    <3>2. CASE Verdict = "read"
      <4>1. cur.formed /\ AnthropicRecord
        BY <2>2, <2>4, <3>2 DEF Verdict, AnthropicVerdict, Decodes, Handle, Record
      <4>. QED
        BY <1>1, <2>1, <3>1, <4>1 DEF AnthropicRecord, LastFinish
    <3>3. CASE Verdict # "read"
      <4>1. ~cur.formed \/ cur.name \notin {"message_start", "message_delta"}
        BY <2>1, <2>4, <3>3 DEF Verdict, AnthropicVerdict, Decodes, BlockEvents
      <4>2. UNCHANGED parser
        BY <2>2, <3>3 DEF Handle
      <4>. QED
        BY <1>1, <2>1, <3>1, <4>1, <4>2 DEF parser
    <3>. QED
      BY <3>2, <3>3
  <2>. QED
    BY <2>3, <2>4 DEF CallInv, TypeOK
<1>. QED
  BY <1>2, <1>3

\* Every step keeps the parser's locals in step with what was handled.
LEMMA ReportStep ==
  ASSUME CallInv, ReportInv, Reported, [Next]_vars
  PROVE  ReportInv' /\ Reported'
<1>1. /\ stream \in Seq(Events) /\ Len(stream) \in Nat
      /\ result = "open" <=> at # "returned"
  BY DEF CallInv, TypeOK, ScanInv
<1>2. CASE CallFails \/ BodyBreaks
  BY <1>2 DEF CallFails, BodyBreaks, Fail, ReportInv, Reported
<1>3. CASE UNCHANGED vars
  <2>1. Handled' = Handled /\ Len(stream)' = Len(stream)
    BY <1>3 DEF vars, upstream, Handled
  <2>2. \A n \in Nat : StopReason(n)' = StopReason(n) /\ TokenCounts(n)' = TokenCounts(n)
    BY <1>3, ReportKept DEF vars, upstream
  <2>3. sent = "data" => Len(stream) # 0
    BY <1>1 DEF CallInv, UsageInv
  <2>4. Handled \in Nat
    BY <1>1, <2>3 DEF Handled
  <2>. QED
    BY <1>1, <1>3, <2>1, <2>2, <2>4
       DEF ReportInv, Reported, vars, parser, outcome, sink, ToFinish, ToUsage,
           AnthropicUsage, OpenAIUsage
<1>4. ASSUME at # "returned", at' # "returned", UNCHANGED <<api, parser, outcome>>,
             Handled \in Nat, Handled' = Handled,
             \A i \in 1 .. Handled : stream'[i] = stream[i]
      PROVE  ReportInv' /\ Reported'
  <2>1. StopReason(Handled)' = StopReason(Handled) /\ TokenCounts(Handled)' = TokenCounts(Handled)
    <3>. DEFINE n == Handled
    <3>. HIDE DEF n
    <3>. QED
      BY <1>4, ReportKept DEF n
  <2>. QED
    BY <1>1, <1>4, <2>1 DEF ReportInv, Reported, parser, outcome
<1>5. CASE CallAnswered
  <2>1. Handled = Len(stream) /\ Handled' = Len(stream)
    BY <1>5 DEF CallAnswered, Handled, CallInv, ScanInv
  <2>. QED
    BY <1>1, <1>4, <1>5, <2>1 DEF CallAnswered
<1>6. ASSUME Line, sent # "data",
             \/ sent' # "data" /\ stream' = stream
             \/ sent' = "data" /\ \E e \in Events : stream' = Append(stream, e)
      PROVE  ReportInv' /\ Reported'
  <2>1. at = "reading" /\ UNCHANGED <<api, at, parser, outcome>>
    BY <1>6 DEF Line
  <2>2. Handled = Len(stream)
    BY <1>6 DEF Handled
  <2>3. Handled' = Len(stream) /\ \A i \in 1 .. Len(stream) : stream'[i] = stream[i]
    <3>1. CASE sent' # "data" /\ stream' = stream
      BY <3>1 DEF Handled
    <3>2. ASSUME sent' = "data", NEW e \in Events, stream' = Append(stream, e)
          PROVE  Handled' = Len(stream) /\ \A i \in 1 .. Len(stream) : stream'[i] = stream[i]
      <4>1. /\ Len(stream') = Len(stream) + 1
            /\ \A i \in 1 .. Len(stream) : stream'[i] = stream[i]
        BY <1>1, <3>2
      <4>. QED
        BY <1>1, <2>1, <3>2, <4>1 DEF Handled
    <3>. QED
      BY <1>6, <3>1, <3>2
  <2>. QED
    BY <1>1, <1>4, <2>1, <2>2, <2>3
<1>7. ASSUME NEW e \in Events, NameLine(e) PROVE ReportInv' /\ Reported'
  BY <1>6, <1>7 DEF NameLine
<1>8. ASSUME NEW e \in Events, NEW part \in {"whole", "first"}, DataLine(e, part)
      PROVE  ReportInv' /\ Reported'
  BY <1>6, <1>8 DEF DataLine, Follows
<1>9. CASE SecondDataLine
  <2>1. cur \in Events
    BY <1>9 DEF SecondDataLine, Line, CallInv, TypeOK, ScanInv
  <2>. QED
    BY <1>6, <1>9, <2>1 DEF SecondDataLine
<1>10. ASSUME NEW next \in {"reading", "ending"}, Flush(next), at = "reading",
              UNCHANGED <<api, stream>>, next = "reading" => sent' = "none"
       PROVE  ReportInv' /\ Reported'
  <2>1. CASE at' = "returned"
    <3>1. result' = "error"
      BY <1>10, <2>1 DEF Flush, Handle, Hand, Fail
    <3>. QED
      BY <2>1, <3>1 DEF ReportInv, Reported
  <2>2. CASE at' # "returned"
    <3>1. /\ finish' = StopReason(Len(stream)) /\ usage' = TokenCounts(Len(stream))
      BY <1>10, <2>2, FlushReport
    <3>2. \A n \in Nat : StopReason(n)' = StopReason(n) /\ TokenCounts(n)' = TokenCounts(n)
      BY <1>10, ReportKept
    <3>3. Handled' = Len(stream)
      <4>1. at' = "reading" => next = "reading"
        BY <1>10, <2>2 DEF Flush, Handle, Hand, Fail
      <4>. QED
        BY <1>10, <4>1 DEF Handled
    <3>4. result' = result
      BY <1>10, <2>2 DEF Flush, Handle, Hand, Fail, outcome
    <3>5. ReportInv'
      BY <1>1, <3>1, <3>2, <3>3 DEF ReportInv
    <3>. QED
      BY <1>1, <1>10, <3>4, <3>5 DEF Reported
  <2>. QED
    BY <2>1, <2>2
<1>11. CASE BlankLine \/ EndOfBody
  BY <1>10, <1>11 DEF BlankLine, EndOfBody
<1>12. CASE End
  <2>1. /\ at = "ending" /\ at' = "returned" /\ stream' = stream /\ api' = api
        /\ done' = <<ToFinish(finish)>> /\ returned' = ToUsage(usage)
    <3>1. done = <<>> /\ done' = Append(done, ToFinish(finish))
      BY <1>12 DEF End, CallInv, ScanInv
    <3>2. Append(<<>>, ToFinish(finish)) = <<ToFinish(finish)>>
      OBVIOUS
    <3>. QED
      BY <1>12, <3>1, <3>2 DEF End, upstream
  <2>2. finish = StopReason(Len(stream)) /\ usage = TokenCounts(Len(stream))
    BY <2>1 DEF ReportInv, Handled
  <2>3. \A n \in Nat : StopReason(n)' = StopReason(n) /\ TokenCounts(n)' = TokenCounts(n)
    BY <2>1, ReportKept
  <2>4. /\ StopReason(Len(stream))' = finish
        /\ TokenCounts(Len(stream))' = usage
    BY <1>1, <2>1, <2>2, <2>3
  <2>. QED
    BY <2>1, <2>4 DEF ReportInv, Reported, ToFinish, ToUsage, AnthropicUsage, OpenAIUsage
<1>. QED
  BY <1>2, <1>3, <1>5, <1>7, <1>8, <1>9, <1>11, <1>12 DEF Next, Returned

-----------------------------------------------------------------------------
(* The theorems.                                                            *)

\* What the scanner, the parsers and the sink hold agrees with what was sent,
\* whatever the upstream sends, wherever it stops and whatever the sink refuses
\* (openai.go:285-334, anthropic.go:460-562).
THEOREM Invariance == Spec => []IInv
<1>1. CallInv /\ [Next]_vars => CallInv'
  <2>. SUFFICES ASSUME CallInv, [Next]_vars PROVE CallInv'
    OBVIOUS
  <2>1. CASE UNCHANGED vars
    BY <2>1 DEF vars, upstream, scanner, parser, sink, outcome, CallInv, TypeOK,
                ScanInv, UsageInv, WholeAnswer, UsageAddsUp, Events, Complete,
                UpstreamEnded, ConsistentStream, Consistent
  <2>2. CASE CallFails \/ CallAnswered \/ BodyBreaks \/ End
    BY <2>2, OtherCallInv
  <2>3. ASSUME NEW e \in Events, NameLine(e) PROVE CallInv'
    BY <2>3, LineCallInv DEF NameLine
  <2>4. ASSUME NEW e \in Events, NEW part \in {"whole", "first"},
               DataLine(e, part)
        PROVE  CallInv'
    BY <2>4, LineCallInv DEF DataLine
  <2>5. CASE SecondDataLine
    BY <2>5, LineCallInv DEF SecondDataLine
  <2>6. CASE BlankLine \/ EndOfBody
    BY <2>6, FlushCallInv
  <2>7. CASE Returned
    BY <2>1, <2>7 DEF Returned
  <2>. QED
    BY <2>1, <2>2, <2>3, <2>4, <2>5, <2>6, <2>7 DEF Next
<1>2. Init => NoFalseFailure /\ ReportInv /\ Reported
  <2>. SUFFICES ASSUME Init PROVE NoFalseFailure /\ ReportInv /\ Reported
    OBVIOUS
  <2>1. Handled = 0 /\ result = "open"
    BY DEF Init, Handled
  <2>2. /\ StopAt(0) = {} /\ BlockAt(0) = {} /\ StartAt(0) = {} /\ CountAt(0) = {}
    BY DEF StopAt, BlockAt, StartAt, CountAt
  <2>3. TokensOf(LastOf({})) = NoTokens /\ LastOf({}) = Nil
    BY DEF LastOf, TokensOf
  <2>4. StopReason(0) = "none"
    BY <2>2, <2>3, ReportDef
  <2>5. TokenCounts(0) = NoTokens
    <3>1. [NoTokens EXCEPT !.completion = NoTokens.completion] = NoTokens
      BY DEF NoTokens
    <3>. QED
      BY <2>2, <2>3, <3>1, ReportDef
  <2>. QED
    BY <2>1, <2>4, <2>5 DEF Init, NoFalseFailure, ReportInv, Reported
<1>3. IInv /\ [Next]_vars => IInv'
  BY <1>1, FailureStep, ReportStep DEF IInv
<1>. QED
  BY <1>2, <1>3, InitCallInv, PTL DEF Spec, IInv

\* An answer that passes for complete is complete (StreamParse.WholeAnswer).
THEOREM WholeAnswers == Spec => []WholeAnswer
BY Invariance, PTL DEF IInv, CallInv

\* The token counts of both providers add up (StreamParse.UsageAddsUp).
THEOREM UsageConserved == Spec => []UsageAddsUp
BY Invariance, PTL DEF IInv, CallInv

\* A stream without a fault never fails (StreamParse.NoFalseFailure): behind an
\* error of Stream there is always a fault of the upstream, the network or the sink
\* (openai.go:91-135, 285-334, anthropic.go:87-156, 460-562).
THEOREM NeverFalselyFails == Spec => []NoFalseFailure
BY Invariance, PTL DEF IInv

\* Done announces the last stop reason that was sent, and the usage is what the
\* usage blocks add up to, however they are spread over the stream's events
\* (StreamParse.Reported; openai.go:222-235, 285-334, anthropic.go:416-562).
THEOREM ReportsAll == Spec => []Reported
BY Invariance, PTL DEF IInv

\* A streaming call implements Provider and Sink (StreamParse.ImplementsStream):
\* every step is progress, the one call of Done, or invisible to the caller.
THEOREM Refinement == Spec => ImplementsStream
<1>1. Init => Contract!Init
  BY DEF Init, Contract!Init
<1>2. IInv /\ [Next]_vars => [Contract!Next]_Contract!vars
  <2>. SUFFICES ASSUME IInv, [Next]_vars
                PROVE  Contract!Next \/ UNCHANGED Contract!vars
    OBVIOUS
  <2>. USE DEF Contract!Next, Contract!Progress, Contract!Finish, Contract!vars,
               Contract!IsPrefix
  <2>1. /\ TypeOK /\ ScanInv /\ UsageInv
        /\ given \in Seq(Words) /\ answer \in Seq(Words)
        /\ IsPrefix(given, answer) /\ IsPrefix(given, given)
        /\ IsPrefix(answer, answer)
        /\ at # "returned" => result = "open" /\ done = <<>>
    BY PrefixConcat DEF IInv, CallInv, TypeOK, ScanInv
  \* Nobody sees a step that neither answers nor hands over anything.
  <2>2. ASSUME UNCHANGED <<answer, given, done, result>>
        PROVE  UNCHANGED Contract!vars
    BY <2>2
  <2>3. ASSUME Fail, UNCHANGED <<answer, given, done>>, at # "returned"
        PROVE  Contract!Progress
    BY <2>1, <2>3 DEF Fail, IsPrefix
  <2>4. CASE UNCHANGED vars
    BY <2>2, <2>4 DEF vars, upstream, sink, outcome
  <2>5. CASE CallFails \/ BodyBreaks
    BY <2>3, <2>5 DEF CallFails, BodyBreaks, upstream, sink
  <2>6. CASE CallAnswered
    BY <2>2, <2>6 DEF CallAnswered, sink, outcome
  \* The upstream answers.
  <2>7. ASSUME Line, NEW e \in Events, answer' = answer \o e.deltas
        PROVE  Contract!Progress
    <3>1. /\ at = "reading" /\ given' = given /\ done' = done
          /\ result' = result
      BY <2>7 DEF Line, sink, outcome
    <3>2. e.deltas \in Seq(Words)
      BY <2>1, EventFacts DEF Event
    <3>3. answer' \in Seq(Words) /\ IsPrefix(answer, answer')
      BY <2>1, <2>7, <3>2, PrefixConcat
    <3>4. IsPrefix(given, answer')
      BY <2>1, <3>3, PrefixTrans
    <3>. QED
      BY <2>1, <3>1, <3>3, <3>4 DEF IsPrefix
  <2>8. ASSUME NEW e \in Events, NameLine(e)
        PROVE  UNCHANGED Contract!vars
    BY <2>2, <2>8 DEF NameLine, Line, sink, outcome
  <2>9. ASSUME NEW e \in Events, NEW part \in {"whole", "first"},
               DataLine(e, part)
        PROVE  Contract!Progress \/ UNCHANGED Contract!vars
    <3>1. Line /\ (answer' = answer \o e.deltas \/ answer' = answer)
      BY <2>9 DEF DataLine
    <3>2. CASE answer' = answer
      BY <2>2, <3>1, <3>2 DEF Line, sink, outcome
    <3>. QED
      BY <2>7, <3>1, <3>2
  <2>10. CASE SecondDataLine
    <3>1. /\ Line /\ cur # Nil /\ cur \in Events
          /\ answer' = answer \o cur.deltas
      BY <2>1, <2>10 DEF SecondDataLine, TypeOK, ScanInv
    <3>. QED
      BY <2>7, <3>1
  \* The client hands over, or fails.
  <2>11. ASSUME NEW next \in {"reading", "ending"}, Flush(next),
                at = "reading", answer' = answer
         PROVE  Contract!Progress
    <3>1. /\ IsPrefix(given, given') /\ IsPrefix(given', answer)
          /\ done' = done
          /\ UNCHANGED outcome \/ Fail
      BY <2>1, <2>11, FlushFacts
    <3>2. result' \in {"open", "error"}
      BY <2>1, <2>11, <3>1 DEF outcome, Fail
    <3>. QED
      BY <2>1, <2>11, <3>1, <3>2, FlushFacts DEF IsPrefix
  <2>12. CASE BlankLine \/ EndOfBody
    BY <2>11, <2>12 DEF BlankLine, EndOfBody
  <2>13. CASE End
    <3>1. /\ at = "ending" /\ done' = Append(done, ToFinish(finish))
          /\ result' \in {"ok", "error"}
          /\ UNCHANGED <<answer, given>>
      BY <2>13 DEF End, upstream
    <3>2. given = answer /\ done' # <<>>
      BY <2>1, <3>1 DEF ScanInv
    <3>. QED
      BY <2>1, <3>1, <3>2
  <2>14. CASE Returned
    BY <2>4, <2>14 DEF Returned
  <2>. QED
    BY <2>4, <2>5, <2>6, <2>8, <2>9, <2>10, <2>12, <2>13, <2>14 DEF Next
<1>. QED
  BY <1>1, <1>2, Invariance, PTL DEF Spec, ImplementsStream, Contract!Spec
=============================================================================
