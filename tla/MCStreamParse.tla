--------------------------- MODULE MCStreamParse ---------------------------
(* The events of the two APIs, one of each kind a parser tells apart, two    *)
(* where their order matters.                                               *)
EXTENDS StreamParse

Ev(name, deltas, fin, use) ==
  [name |-> name, marker |-> FALSE, formed |-> TRUE, deltas |-> deltas,
   finish |-> fin, usage |-> use]
Garbled(name, use) == [Ev(name, <<>>, "none", use) EXCEPT !.formed = FALSE]

\* The prompt count includes the tokens read from the cache.
MCChunkUsage ==
  [prompt |-> 3, read |-> 2, written |-> 0, completion |-> 4, total |-> 7]
MCStartUsage == [NoTokens EXCEPT !.prompt = 3, !.read = 2, !.written = 1]
MCDeltaUsage == [NoTokens EXCEPT !.completion = 4]

MCWords ==
  {"none", "stop", "length", "tool_calls", "end_turn", "a", "b", "c", "tool",
   "message_start", "content_block_start", "content_block_delta",
   "message_delta", "message_stop", "error"}

MCOpenAIEvents ==
  {Ev("none", <<"a", "b">>, "none", Nil),
   Ev("none", <<"c">>, "stop", Nil),
   Ev("none", <<>>, "none", MCChunkUsage),
   [Ev("none", <<>>, "none", Nil) EXCEPT !.marker = TRUE,
                          !.formed = FALSE],
   Garbled("none", Nil)}

MCAnthropicEvents ==
  {Ev("message_start", <<>>, "none", MCStartUsage),
   Ev("content_block_start", <<"tool">>, "none", NoTokens),
   Ev("content_block_delta", <<"a">>, "none", NoTokens),
   Ev("message_delta", <<>>, "end_turn", MCDeltaUsage),
   Ev("message_stop", <<>>, "none", NoTokens),
   Ev("error", <<>>, "none", NoTokens),
   Garbled("content_block_delta", NoTokens),
   Garbled("message_delta", NoTokens)}
=============================================================================
