-------------------------- MODULE MCChunkedReview --------------------------
(***************************************************************************)
(* ChunkedReview on small inputs.  The answers differ where the merge      *)
(* tells answers apart: verdict given or left empty, the same finding      *)
(* reported twice with another severity, findings out of report order, and *)
(* findings that may stand in either order in the report.                  *)
(***************************************************************************)
EXTENDS ChunkedReview

Issue(severity, place, rule) == [severity |-> severity, place |-> place, rule |-> rule]

Warning  == [verdict |-> "warn",  issues |-> <<Issue("warning", 1, "r")>>]
Blocking == [verdict |-> "block", issues |-> <<Issue("error", 1, "r")>>]
Unjudged ==
  [verdict |-> "",
   issues  |-> <<Issue("info", 2, "r"), Issue("error", 2, "r"), Issue("error", 1, "s")>>]

MCBodies == {Warning, Blocking, Unjudged}

MCParallelisms == {0, 2}

=============================================================================
