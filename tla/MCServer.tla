----------------------------- MODULE MCServer -----------------------------
(* Server with one model, two providers and six files: two that load and that
   share no provider, the second with what it leaves out filled in; one that
   names an undefined provider, one whose panel is smaller than the quorum it
   leaves out, one whose key is not set, and one that cannot be built. *)
EXTENDS Server, TLC

CONSTANTS m, p1, p2, r1, r2

File(panel, quorum, providers) ==
  [parses |-> TRUE,
   models |-> m :> [primary |-> panel[1], judge |-> panel[1], panel |-> panel,
                    panelMinSuccess |-> quorum, panelTimeoutMs |-> 0],
   providers |-> providers, keyless |-> {}, unbased |-> {}]

const_Files ==
  {File(<<p1>>, 1, {p1}), File(<<p2, p2>>, 0, {p2}),
   File(<<p1, p2>>, 1, {p1}), File(<<p2>>, 0, {p1, p2}),
   [File(<<p1, p2>>, 1, {p1, p2}) EXCEPT !.keyless = {p1}],
   [File(<<p1, p2>>, 1, {p1, p2}) EXCEPT !.unbased = {p2}]}

Symmetry == Permutations({r1, r2})
=============================================================================
