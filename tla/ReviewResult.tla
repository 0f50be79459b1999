---------------------------- MODULE ReviewResult ----------------------------
(***************************************************************************)
(* The values internal/review computes with: what the model answers, what  *)
(* Parse makes of it, how the results of several chunks become one, and    *)
(* which issues survive verification.  Pure operators, no state.           *)
(*                                                                         *)
(* An issue keeps the three things the code tells issues apart by: its     *)
(* severity, its place (file and line, one number in their sort order) and *)
(* its rule.  Messages, categories, suggestions, highlights, tech debt and *)
(* summaries are carried along by the code and decide nothing.             *)
(***************************************************************************)
EXTENDS Integers, Sequences, FiniteSets, SequencesExt

Verdicts   == {"pass", "warn", "block", "skip"}
Severities == {"error", "warning", "info"}
Issues     == [severity : STRING, place : Nat, rule : STRING]
Tallies    == [errors : Nat, warnings : Nat, infos : Nat]

\* The number of issues of one severity in a list of issues.
CountOf(issues, severity) ==
  Cardinality({i \in DOMAIN issues : issues[i].severity = severity})

\* Result.recalcStats.  An issue of an unknown severity is counted nowhere.
RecalcStats(issues) ==
  [errors   |-> CountOf(issues, "error"),
   warnings |-> CountOf(issues, "warning"),
   infos    |-> CountOf(issues, "info")]

\* Result.inferVerdict: only an empty verdict is inferred, any other one stands
\* whatever the issues are.
InferVerdict(verdict, stats) ==
  CASE verdict # ""                          -> verdict
    [] verdict = "" /\ stats.errors > 0      -> "block"
    [] verdict = "" /\ stats.errors = 0
                    /\ stats.warnings > 0    -> "warn"
    [] OTHER                                 -> "pass"

\* Parse of a readable answer: the verdict and the issues the model wrote.
Parse(body) ==
  LET stats == RecalcStats(body.issues)
  IN  [verdict |-> InferVerdict(body.verdict, stats),
       issues  |-> body.issues,
       stats   |-> stats]

\* rawStaticResult: what the analyzers' findings are worth without a model.
RawStaticResult(findings) ==
  LET stats == RecalcStats(findings)
  IN  [verdict |-> InferVerdict("", stats), issues |-> findings, stats |-> stats]

VerdictWeight(verdict) ==
  CASE verdict = "block" -> 2
    [] verdict = "warn"  -> 1
    [] OTHER             -> 0

\* Mutation of WorstVerdict: each chunk's verdict replaces the one before it.
MutLastVerdict(results) ==
  IF results = << >> THEN "pass" ELSE results[Len(results)].verdict

\* The verdict of the merge loop: it starts from "pass" and moves only to a
\* strictly heavier verdict, so the weightless ones ("skip", or a word the model
\* made up) never replace "pass".
WorstVerdict(results) ==
  LET Given(verdict) == \E i \in DOMAIN results : results[i].verdict = verdict
  IN  CASE Given("block")                    -> "block"
        [] ~Given("block") /\ Given("warn")  -> "warn"
        [] OTHER                             -> "pass"

\* Two issues with the same key are the same finding to deduplicateIssues.
IssueKey(issue) == <<issue.place, issue.rule>>

\* The orders in which a loop over all positions meets those of a set: one.
InOrder(positions) ==
  {order \in [1..Cardinality(positions) -> positions] :
     \A i, j \in DOMAIN order : i < j => order[i] < order[j]}
Selections(issues, positions) ==
  {[k \in 1..Cardinality(positions) |-> issues[order[k]]] : order \in InOrder(positions)}

\* The positions whose key is met for the first time.
FirstWithKey(issues) ==
  {i \in DOMAIN issues : \A j \in 1..(i - 1) : IssueKey(issues[j]) # IssueKey(issues[i])}

\* deduplicateIssues, as the set of the one list it returns: of the issues with one key
\* the first in the list stays.
DeduplicateIssues(issues) == Selections(issues, FirstWithKey(issues))

\* sevOrd, a Go map: a severity it does not hold reads as 0, beside "error".
SeverityOrder(severity) ==
  CASE severity = "warning" -> 1
    [] severity = "info"    -> 2
    [] OTHER                -> 0

\* Whether an issue may stand right before another in a merged report.
MayPrecede(a, b) ==
  IF a.severity # b.severity
    THEN SeverityOrder(a.severity) <= SeverityOrder(b.severity)
    ELSE a.place <= b.place

\* sort.Slice, as the set of the lists it may return: it is not stable, so that issues
\* which differ in their rule alone may stand in either order.
SortIssues(issues) ==
  {[k \in DOMAIN issues |-> issues[order[k]]] :
     order \in {o \in [DOMAIN issues -> DOMAIN issues] :
                  /\ IsInjective(o)
                  /\ \A k \in 2..Len(issues) : MayPrecede(issues[o[k - 1]], issues[o[k]])}}

\* What ChunkedReview may make of the results of its chunks, in the order given.
MergeResults(results) ==
  LET all == FlattenSeq([i \in DOMAIN results |-> results[i].issues])
  IN  {[verdict |-> WorstVerdict(results), issues |-> issues, stats |-> RecalcStats(issues)] :
         issues \in UNION {SortIssues(kept) : kept \in DeduplicateIssues(all)}}

\* The issues that a set of zero-based indices confirms.
Survivors(issues, confirmed) == {i \in DOMAIN issues : i - 1 \in confirmed}

\* Mutation of KeepConfirmed: a verifier that rejects everything is believed.
MutKeepOnlyConfirmed(issues, confirmed) == Selections(issues, Survivors(issues, confirmed))

\* VerifyIssues after a readable verifier answer, as the set of the one list it leaves: the
\* issues at the confirmed indices stay, and all of them when none is confirmed.
KeepConfirmed(issues, confirmed) ==
  IF Survivors(issues, confirmed) = {}
    THEN {issues} ELSE Selections(issues, Survivors(issues, confirmed))

=============================================================================
