-------------------------- MODULE MCReviewSources --------------------------
(***************************************************************************)
(* ReviewSources with two Go files and one that is not, requests of every  *)
(* kind, and a developer who does up to three things meanwhile.          *)
(***************************************************************************)
EXTENDS ReviewSources

MCGoFiles == {"a.go", "b.go"}
MCFiles   == MCGoFiles \cup {"d.sql"}
MCPackages == {{"a.go"}, {"b.go"}}
MCVersions == {0, 1, 2}

Versioned(a, b, d) == [f \in MCFiles |-> CASE f = "a.go" -> a [] f = "b.go" -> b [] OTHER -> d]
State(base, head, index, tree) == [base |-> base, head |-> head, index |-> index, tree |-> tree]

Old == Versioned(1, 0, 1)

\* Nothing to do; files staged, of which one is new, and one edited; something new and something deleted
\* besides a branch; a branch alone; and a staged deletion whose file is still there.
MCRepositories ==
  {State(Old, Old, Old, Old),
   State(Old, Old, Versioned(2, 1, 1), Versioned(2, 1, 2)),
   State(Old, Versioned(1, 0, 2), Versioned(1, 0, 2), Versioned(0, 2, 2)),
   State(Old, Versioned(2, 2, 0), Versioned(2, 2, 0), Versioned(2, 2, 0)),
   State(Old, Old, Versioned(0, 0, 1), Old)}

Review(mode) == [tool |-> "review", mode |-> mode]
Static(scope, synthesize, disabled, checks) ==
  [tool |-> "static", scope |-> scope, synthesize |-> synthesize,
   disabled |-> disabled, checks |-> checks]

MCRequests ==
  {Review(mode) : mode \in Modes} \cup
  {Static("repo", TRUE, {}, {"printf"}), Static("diff", TRUE, {"staticcheck"}, {"taint"}),
   Static("diff", FALSE, {"vet"}, {"printf"}), Static("pr", FALSE, {"semgrep"}, {}),
   Static("unknown", FALSE, {}, {})}

MCSources   == <<"vet", "semgrep">>
MCChecks    == [vet |-> {"assign", "printf"}, semgrep |-> {"taint"}]
MCConfig    == [disabled |-> {"semgrep"}, checks |-> {}]

Rule(always, globs) == [always |-> always, globs |-> globs]
MCRules == {Rule(TRUE, {{"d.sql"}}), Rule(FALSE, {}), Rule(FALSE, {MCGoFiles}), Rule(FALSE, {{"b.go"}}),
            Rule(FALSE, {{"d.sql"}, {}})}

=============================================================================
