---------------------------- MODULE TurnContract ----------------------------
(***************************************************************************)
(* What one turn promises its client, whatever goes on behind it: the text  *)
(* the client reads comes from a single source; a client that stays reads   *)
(* the finish reason of a turn only if the turn goes on to an outcome that  *)
(* names that source, with [DONE]; and nothing is delivered after the       *)
(* finish reason, after the outcome or to a client that left.               *)
(*                                                                         *)
(* The comments of DecisionKind (pipeline.go) and of Sink (provider.go)     *)
(* state these promises; Pipeline implements this module.                   *)
(***************************************************************************)
VARIABLES
  answer,     \* the source of the text the client has read
  aside,      \* it has read a delta of the final stream that is not text
  marker,     \* what it has read of the end: nothing, the finish reason, [DONE]
  outcome,    \* how the turn ended
  connected   \* the client is there

vars == <<answer, aside, marker, outcome, connected>>

Sources == {"speculative", "fused"}

\* The outcomes that [DONE] may announce, and the source they stand for.
SourceOf == [tool_call |-> "speculative", degraded |-> "speculative",
             fusion |-> "fused"]

TypeOK ==
  /\ answer \in Sources \cup {"none"}
  /\ aside \in BOOLEAN
  /\ marker \in {"none", "finish", "done"}
  /\ outcome \in DOMAIN SourceOf \cup {"pending", "failed"}
  /\ connected \in BOOLEAN

Init ==
  /\ answer = "none" /\ aside = FALSE /\ marker = "none"
  /\ outcome = "pending" /\ connected = TRUE

Open == outcome = "pending" /\ connected /\ marker = "none"

Deliver(source) ==
  /\ Open
  /\ answer \in {"none", source}
  /\ answer' = source
  /\ UNCHANGED <<aside, marker, outcome, connected>>

\* A final stream's tool-call or reasoning delta: never behind speculative text.
DeliverAside ==
  /\ Open
  /\ answer # "speculative"
  /\ aside' = TRUE
  /\ UNCHANGED <<answer, marker, outcome, connected>>

Announce ==
  /\ Open
  /\ marker' = "finish"
  /\ UNCHANGED <<answer, aside, outcome, connected>>

\* A passthrough comes without asides: no final stream has been asked for.  The
\* end of a turn whose client left is not read by anybody.
Finish(kind) ==
  /\ outcome = "pending"
  /\ answer \in {"none", SourceOf[kind]}
  /\ kind = "tool_call" => ~aside
  /\ connected => marker = "finish"
  /\ marker' = IF connected THEN "done" ELSE marker
  /\ outcome' = kind
  /\ UNCHANGED <<answer, aside, connected>>

Fail ==
  /\ outcome = "pending"
  /\ marker = "finish" => ~connected
  /\ outcome' = "failed"
  /\ UNCHANGED <<answer, aside, marker, connected>>

Leave ==
  /\ connected /\ connected' = FALSE
  /\ UNCHANGED <<answer, aside, marker, outcome>>

Next ==
  \/ \E source \in Sources : Deliver(source)
  \/ DeliverAside \/ Announce
  \/ \E kind \in DOMAIN SourceOf : Finish(kind)
  \/ Fail \/ Leave

Spec == Init /\ [][Next]_vars
=============================================================================
