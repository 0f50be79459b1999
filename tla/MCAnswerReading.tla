-------------------------- MODULE MCAnswerReading --------------------------
(***************************************************************************)
(* AnswerReading with reviews that find nothing, something with awkward    *)
(* text in its message, and two things; with and without a verdict, which, *)
(* when given, is the one the issues call for.                             *)
(***************************************************************************)
EXTENDS AnswerReading

Issue(severity, message) == [severity |-> severity, message |-> message]
Review(verdict, issues) == [verdict |-> verdict, issues |-> issues]

MCReviews ==
  {Review("pass", << >>),
   Review("block", <<Issue("error", <<"word">>)>>),
   Review("", <<Issue("warning", <<"backslash", "quote", "}">>)>>),
   Review("", <<Issue("info", <<"{", "backslash", "backslash">>), Issue("error", <<"}">>)>>)}

MCLeads ==
  {<< >>, <<"fence">>, <<"word", "{">>, <<"word", "{", "}">>, <<"quote">>,
   <<"think", "{", "/think", "word", "think", "}", "/think">>,
   <<"think", "quote", "word">>, <<"think", "{", "word", "}">>}

MCTails ==
  {<< >>, <<"fence">>, <<"word", "}">>, <<"quote", "}">>, <<"/think">>,
   <<"word", "word", "word", "word", "word", "word">>,
   <<"think", "word", "info", "think", "word", "info", "think", "word", "info", "think">>}

\* Nothing but the review, or as much of it as the model got to.
MCNothing == {<< >>}

=============================================================================
