--------------------------- MODULE ProviderStream ---------------------------
(***************************************************************************)
(* What Provider.Stream promises the pipeline that called it, and what the  *)
(* Sink interface asks of its caller (provider.go): the deltas handed to    *)
(* the sink are the upstream's, in order, with none skipped or repeated;    *)
(* Done is called once, after the last of them; a call that returns without *)
(* an error has handed over all there was.                                  *)
(***************************************************************************)
EXTENDS SequencesExt

VARIABLES
  answer,   \* the deltas the upstream has sent in full
  given,    \* the deltas handed to the sink, a refused last one included
  done,     \* Done has been called
  result    \* how Stream returned: open, ok or error

vars == <<answer, given, done, result>>

Init ==
  /\ answer = <<>> /\ given = <<>>
  /\ done = FALSE /\ result = "open"

\* The upstream sends, the client reads on, or gives up.
Progress ==
  /\ result = "open" /\ ~done
  /\ IsPrefix(answer, answer') /\ IsPrefix(given, given')
  /\ IsPrefix(given', answer')
  /\ result' \in {"open", "error"}
  /\ UNCHANGED done

\* Done is the last call, and the sink may refuse it.
Finish ==
  /\ result = "open" /\ ~done
  /\ given = answer
  /\ done' = TRUE /\ result' \in {"ok", "error"}
  /\ UNCHANGED <<answer, given>>

Next == Progress \/ Finish

Spec == Init /\ [][Next]_vars
=============================================================================
