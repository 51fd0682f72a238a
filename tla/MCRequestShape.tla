-------------------------- MODULE MCRequestShape --------------------------
(* Every conversation of up to MaxMessages messages of the kinds the clients
   tell apart, with the tools, choices and budgets that matter, against two
   configurations. *)
EXTENDS RequestShape

CONSTANT MaxMessages   \* bound: messages of a conversation

MCWords ==
  {"none", "compare", "again", "prompt", "analysis", "write", "t1", "t2", "t3",
   "c1", "c2", "c3", "garbled", "unset", "large", "small"}

Texts == <<"t1", "t2", "t3">>
Calls == <<"c1", "c2", "c3">>

M(role, text, calls) ==
  [role |-> role, text |-> text, calls |-> calls, breakpoint |-> FALSE]
\* The messages that may stand at place i.
MessagesAt(i) ==
  {M(role, Texts[i], "none") : role \in {"system", "user", "tool", "developer"}}
  \cup {M("user", "none", "none"), M("assistant", "none", "none"),
         M("assistant", "none", "garbled"), M("assistant", "none", Calls[i]), M("assistant", Texts[i], Calls[i])}

Conversations ==
  UNION {{f \in [1..n -> UNION {MessagesAt(i) : i \in 1..n}] :
            \A i \in 1..n : f[i] \in MessagesAt(i)} : n \in 0..MaxMessages}

Asks(tools, choice, max) == [tools |-> tools, choice |-> choice, max |-> max]
Offers ==
  {Asks("absent", "absent", Nil), Asks("functions", "required", 12),
   Asks("functions", "none", Nil), Asks("other", "none", Nil),
   Asks("other", "absent", Nil),
   Asks("absent", "malformed", Nil)}

MCRequests ==
  {[model |-> "unset", messages |-> messages, tools |-> ask.tools,
    choice |-> ask.choice, maxTokens |-> ask.max, cache |-> FALSE] :
     messages \in Conversations, ask \in Offers}

Ep(api, model, max, cache) ==
  [api |-> api, model |-> model, maxTokens |-> max, cache |-> cache]
MCSetups ==
  {[primary |-> Ep("anthropic", "large", Nil, TRUE),
    panel |-> <<Ep("anthropic", "large", Nil, TRUE), Ep("openai", "small", 10, FALSE)>>,
    judge |-> Ep("openai", "small", Nil, FALSE)],
   [primary |-> Ep("openai", "small", 4, TRUE),
    panel |-> <<Ep("anthropic", "large", Nil, TRUE), Ep("anthropic", "large", 10, TRUE)>>,
    judge |-> Ep("anthropic", "large", 4, TRUE)]}
=============================================================================
