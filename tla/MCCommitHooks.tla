---------------------------- MODULE MCCommitHooks ----------------------------
(***************************************************************************)
(* CommitHooks with an answer that blocks and one that quotes.             *)
(***************************************************************************)
EXTENDS CommitHooks, TLC

MCAnswers ==
  {[verdict |-> "block", mentions |-> FALSE, quotes |-> {}],
   [verdict |-> "pass",  mentions |-> TRUE,  quotes |-> {"pr"}]}

MCSymmetry == Permutations(Processes) \cup Permutations(Changes)
=============================================================================
