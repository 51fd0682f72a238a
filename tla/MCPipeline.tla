---------------------------- MODULE MCPipeline ----------------------------
(* Pipeline on a panel of three with a quorum of two, and a complete registry *)
(* or one that lacks one of the endpoints; and what a comment says of the     *)
(* usage.                                                                     *)
EXTENDS Pipeline
CONSTANTS p1, p2, p3, primary, judge
MCPanel == {p1, p2, p3}
MCSmallPanel == {p1}
Endpoints == Panel \cup {primary, judge}
MCRegistries ==
  {Endpoints} \cup {Endpoints \ {e} : e \in {p1, primary, judge}}

\* pipeline.go:33-35: Usage is "rolled up across every upstream call made during
\* this turn: speculative, every panel member, judge, and the final-primary
\* stream".  The first answer of a member that is asked twice, and a final stream
\* that breaks, are missing.
UsageIsWhole == pc = "returned" => usage = spent
=============================================================================
