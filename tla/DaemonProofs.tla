---------------------------- MODULE DaemonProofs ----------------------------
(***************************************************************************)
(* Proofs about the two sides of the daemon.  ReviewDaemon, for any        *)
(* requests, configurations and answers of the model: what the log tells   *)
(* of a review, that verification never silences one, and that no ultra    *)
(* review passes it by.  DaemonConnect, for any number of clients, of      *)
(* daemons started by hand and of failures: why a client fails to connect. *)
(***************************************************************************)
EXTENDS ReviewDaemon, DaemonConnect,
        TLAPS, FiniteSetTheorems, SequenceTheorems, FunctionTheorems

----------------------------------------------------------------------------
(* Results *)

LEMMA CountIsNat ==
  ASSUME NEW issues \in Seq(Issues), NEW severity
  PROVE  CountOf(issues, severity) \in Nat
<1>1. IsFiniteSet(DOMAIN issues)
  BY FS_Interval, LenProperties
<1>2. IsFiniteSet({i \in DOMAIN issues : issues[i].severity = severity})
  BY <1>1, FS_Subset
<1>3. QED
  BY <1>2, FS_CardinalityType DEF CountOf

LEMMA StatsType ==
  ASSUME NEW issues \in Seq(Issues)
  PROVE  RecalcStats(issues) \in Tallies
BY CountIsNat DEF RecalcStats, Tallies

LEMMA VerdictType ==
  ASSUME NEW verdict \in Words, NEW stats
  PROVE  InferVerdict(verdict, stats) \in Words
<1>1. {"block", "warn", "pass"} \subseteq Words
  BY DEF Words, Verdicts
<1>2. CASE verdict # ""
  BY <1>2 DEF InferVerdict
<1>3. CASE verdict = ""
  BY <1>1, <1>3 DEF InferVerdict
<1>4. QED
  BY <1>2, <1>3

LEMMA ParseType ==
  ASSUME NEW body \in Bodies
  PROVE  Parse(body) \in Results /\ Parse(body).issues = body.issues
<1>1. body.verdict \in Words /\ body.issues \in Seq(Issues)
  BY ReviewDaemonAssumption DEF Words
<1>2. QED
  BY <1>1, StatsType, VerdictType DEF Parse, Results

LEMMA RawResultType ==
  ASSUME NEW issues \in Seq(Issues)
  PROVE  RawStaticResult(issues) \in Results /\ RawStaticResult(issues).issues = issues
<1>1. "" \in Words
  BY DEF Words
<1>2. QED
  BY <1>1, StatsType, VerdictType DEF RawStaticResult, Results

LEMMA FailureType == Failure \in Results /\ Failure.issues = << >>
<1>1. << >> \in Seq(Issues) /\ "" \in Words
  BY EmptySeq DEF Words
<1>2. RecalcStats(<< >>) \in Tallies
  BY <1>1, StatsType
<1>3. QED
  BY <1>1, <1>2 DEF Failure, Results

\* An order of finitely many positions that has as many entries as there are meets them all.
LEMMA OrderIsComplete ==
  ASSUME NEW n \in Nat, NEW S \in SUBSET (1..n), NEW order \in InOrder(S)
  PROVE  /\ Cardinality(S) \in Nat /\ order \in [1..Cardinality(S) -> S]
         /\ \A p \in S : \E i \in 1..Cardinality(S) : order[i] = p
         /\ S # {} => Cardinality(S) > 0
<1> DEFINE m == Cardinality(S)
<1>1. IsFiniteSet(S)
  <2>1. IsFiniteSet(1..n)
    BY FS_Interval
  <2>2. QED
    BY <2>1, FS_Subset
<1>2. m \in Nat /\ (S # {} => m > 0)
  BY <1>1, FS_CardinalityType, FS_EmptySet
<1>3. order \in [1..m -> S] /\ \A i, j \in 1..m : i < j => order[i] < order[j]
  BY DEF InOrder
<1>4. \A i, j \in 1..m : order[i] = order[j] => i = j
  <2> SUFFICES ASSUME NEW i \in 1..m, NEW j \in 1..m, order[i] = order[j], i # j
               PROVE  FALSE
    OBVIOUS
  <2>1. order[i] \in 1..n /\ order[j] \in 1..n
    BY <1>3
  <2>2. order[i] < order[j] \/ order[j] < order[i]
    BY <1>2, <1>3
  <2>3. QED
    BY <2>1, <2>2
<1>5. order \in Injection(1..m, S)
  BY <1>3, <1>4 DEF Injection, IsInjective
<1>6. Cardinality(1..m) = m
  BY <1>2, FS_Interval
<1>7. order \in Surjection(1..m, S)
  BY <1>1, <1>2, <1>5, <1>6, FS_Injection, FS_Interval
<1>8. QED
  BY <1>2, <1>3, <1>7 DEF Surjection

\* A selection of positions is the list of the issues there.
LEMMA SelectionIsExact ==
  ASSUME NEW issues \in Seq(Issues), NEW S \in SUBSET (DOMAIN issues),
         NEW left \in Selections(issues, S)
  PROVE  /\ left \in Seq(Issues) /\ Len(left) = Cardinality(S)
         /\ S # {} => left # << >>
         /\ ToSet(left) = {issues[p] : p \in S}
<1> DEFINE n == Len(issues)
           m == Cardinality(S)
<1>1. n \in Nat /\ DOMAIN issues = 1..n /\ issues \in [1..n -> Issues]
  BY LenProperties
<1>2. PICK order \in InOrder(S) : left = [k \in 1..m |-> issues[order[k]]]
  BY DEF Selections
<1>3. /\ m \in Nat /\ order \in [1..m -> S] /\ (S # {} => m > 0)
      /\ \A p \in S : \E i \in 1..m : order[i] = p
  BY <1>1, OrderIsComplete
<1>4. left \in [1..m -> Issues] /\ DOMAIN left = 1..m
  BY <1>1, <1>2, <1>3
<1>5. left \in Seq(Issues) /\ Len(left) = m
  BY <1>3, <1>4
<1>6. \A k \in 1..m : left[k] = issues[order[k]]
  BY <1>2
<1>7. ToSet(left) = {left[k] : k \in 1..m}
  BY <1>4 DEF ToSet
<1>8. {left[k] : k \in 1..m} = {issues[p] : p \in S}
  <2>1. \A k \in 1..m : order[k] \in S /\ left[k] = issues[order[k]]
    BY <1>3, <1>6
  <2>2. \A k \in 1..m : left[k] \in {issues[p] : p \in S}
    BY <2>1
  <2>3. ASSUME NEW p \in S
        PROVE  issues[p] \in {left[k] : k \in 1..m}
    <3>1. PICK k \in 1..m : order[k] = p
      BY <1>3
    <3>2. issues[p] = left[k]
      BY <1>6, <3>1
    <3>3. QED
      BY <3>2
  <2>4. QED
    BY <2>2, <2>3
<1>9. S # {} => left # << >>
  BY <1>3, <1>5
<1>10. QED
  BY <1>5, <1>7, <1>8, <1>9

\* What verification leaves is a list of issues.
LEMMA KeptType ==
  ASSUME NEW issues \in Seq(Issues), NEW indices, NEW left \in KeepConfirmed(issues, indices)
  PROVE  left \in Seq(Issues)
<1>1. Survivors(issues, indices) \in SUBSET (DOMAIN issues)
  BY DEF Survivors
<1>2. QED
  BY <1>1, SelectionIsExact DEF KeepConfirmed

----------------------------------------------------------------------------
(* Types *)

\* A line that is tried is at the end of the log or among the lost.
LEMMA WriteType ==
  ASSUME NEW e \in LogEntries, audit \in Seq(LogEntries),
         lost \subseteq Requests \X {"rules", "verify", "final"}, Write(e)
  PROVE  audit' \in Seq(LogEntries) /\ lost' \subseteq Requests \X {"rules", "verify", "final"}
<1>1. e.request \in Requests /\ e.what \in {"rules", "verify", "final"}
  BY DEF LogEntries
<1>2. Append(audit, e) \in Seq(LogEntries)
  BY AppendProperties
<1>3. QED
  BY <1>1, <1>2 DEF Write

\* The lines the handlers write are lines of the log.
LEMMA EntryTypes ==
  ASSUME TypeOK, NEW r \in Requests
  PROVE  /\ RulesEntry(r) \in LogEntries
         /\ VerifyEntry(r, "configured") \in LogEntries
         /\ FinalEntry(r) \in LogEntries
<1>1. result[r] \in Results /\ model[r] \in Models
  BY DEF TypeOK
<1>2. result[r].verdict \in Words /\ Len(result[r].issues) \in Nat
  BY <1>1, LenProperties DEF Results
<1>3. "" \in Words /\ "" \in Models /\ "configured" \in Models
  BY DEF Words, Models
<1>4. QED
  BY <1>1, <1>2, <1>3 DEF RulesEntry, VerifyEntry, FinalEntry, Entry, LogEntries

\* An early return answers with an error or a skip.
LEMMA ReturnType ==
  ASSUME TypeOK, NEW r \in Requests, NEW a, ReturnEarly(r, a),
         a \in {SkipAnswer, ErrorAnswer("before")}
  PROVE  phase' \in [Requests -> Phases] /\ answer' \in [Requests -> Answers]
<1>1. a \in Answers
  BY DEF Answers
<1>2. "done" \in Phases
  BY DEF Phases
<1>3. QED
  BY <1>1, <1>2 DEF ReturnEarly, GoTo, TypeOK

\* TypeOK is an invariant: whatever the model answers and wherever a handler returns, what
\* the handlers keep, the answers they give and the lines of the log keep their form.
THEOREM TypeCorrect == Spec => []TypeOK
<1>1. Init => TypeOK
  <2> SUFFICES ASSUME Init PROVE TypeOK
    OBVIOUS
  <2>1. "new" \in Phases /\ "" \in Models /\ NoVerdict \in Confirmations /\ NoAnswer \in Answers
    BY DEF Phases, Models, Confirmations, Answers
  <2>2. << >> \in Seq(Issues) /\ << >> \in Seq(LogEntries) /\ Failure \in Results
    BY EmptySeq, FailureType
  <2>3. 0 \in 0..MaxCrashes
    BY ReviewDaemonAssumption
  <2>4. QED
    BY <2>1, <2>2, <2>3 DEF Init, TypeOK
<1>2. TypeOK /\ [Next]_vars => TypeOK'
  <2> SUFFICES ASSUME TypeOK, [Next]_vars
               PROVE  TypeOK'
    OBVIOUS
  <2>a. {"prepared", "estimating", "preloading", "sweeping", "verifying", "synthesizing",
         "snapshot", "logging", "answering", "done", "lost"} \subseteq Phases
    BY DEF Phases, BackendPhases
  <2>b. \A r \in Requests : ModelOf(r) \in Models
    BY DEF ModelOf, Models
  <2>c. {"configured", "deterministic"} \subseteq Models
    BY DEF Models
  <2>1. ASSUME NEW r \in Requests, PrepareInput(r) PROVE TypeOK'
    <3>1. phase' \in [Requests -> Phases] /\ answer' \in [Requests -> Answers]
      BY <2>1, <2>a, ReturnType DEF PrepareInput, GoTo, TypeOK
    <3>2. QED
      BY <2>1, <3>1 DEF PrepareInput, TypeOK, trail
  <2>2. ASSUME NEW r \in Requests, Configure(r) PROVE TypeOK'
    <3>1. audit' \in Seq(LogEntries) /\ lost' \subseteq Requests \X {"rules", "verify", "final"}
      BY <2>2, EntryTypes, WriteType DEF Configure, MergeRules, TypeOK, trail
    <3>2. phase' \in [Requests -> Phases]
      BY <2>2, <2>a DEF Configure, GoTo, TypeOK
    <3>3. model' \in [Requests -> Models]
      BY <2>2, <2>b DEF Configure, TypeOK
    <3>4. QED
      BY <2>2, <3>1, <3>2, <3>3 DEF Configure, TypeOK
  <2>3. ASSUME NEW r \in Requests, Estimated(r) PROVE TypeOK'
    <3>1. phase' \in [Requests -> Phases] /\ answer' \in [Requests -> Answers]
      BY <2>3, <2>a, ReturnType DEF Estimated, GoTo, TypeOK
    <3>2. QED
      BY <2>3, <3>1 DEF Estimated, TypeOK, trail
  <2>4. ASSUME NEW r \in Requests, Preloaded(r) PROVE TypeOK'
    <3>1. phase' \in [Requests -> Phases] /\ answer' \in [Requests -> Answers]
      BY <2>4, <2>a, ReturnType DEF Preloaded, GoTo, TypeOK
    <3>2. QED
      BY <2>4, <3>1 DEF Preloaded, TypeOK, trail
  <2>5. ASSUME NEW r \in Requests, Swept(r) PROVE TypeOK'
    <3>1. phase' \in [Requests -> Phases]
      BY <2>5, <2>a DEF Swept, GoTo, TypeOK
    <3>2. swept' \in [Requests -> Seq(Issues)] /\ result' \in [Requests -> Results]
      BY <2>5, ParseType, ReviewDaemonAssumption DEF Swept, TypeOK
    <3>3. QED
      BY <2>5, <3>1, <3>2 DEF Swept, TypeOK, trail
  <2>6. ASSUME NEW r \in Requests, Verified(r) PROVE TypeOK'
    <3>1. audit' \in Seq(LogEntries) /\ lost' \subseteq Requests \X {"rules", "verify", "final"}
      BY <2>6, EntryTypes, WriteType DEF Verified, TypeOK
    <3>2. phase' \in [Requests -> Phases]
      BY <2>6, <2>a DEF Verified, GoTo, TypeOK
    <3>3. model' \in [Requests -> Models]
      BY <2>6, <2>c DEF Verified, TypeOK
    <3>4. confirmed' \in [Requests -> Confirmations] /\ result' \in [Requests -> Results]
      <4>1. CASE UNCHANGED <<confirmed, result>>
        BY <4>1 DEF TypeOK
      <4>2. ASSUME NEW indices \in SUBSET (0..Len(swept[r])),
                   confirmed' = [confirmed EXCEPT ![r] = Confirmed(indices)],
                   NEW issues \in KeepConfirmed(swept[r], indices),
                   result' = [result EXCEPT ![r].issues = issues]
            PROVE  confirmed' \in [Requests -> Confirmations] /\ result' \in [Requests -> Results]
        <5>1. swept[r] \in Seq(Issues) /\ Len(swept[r]) \in Nat
          BY LenProperties DEF TypeOK
        <5>2. indices \in SUBSET Nat
          BY <5>1
        <5>3. Confirmed(indices) \in Confirmations
          BY <5>2 DEF Confirmed, Confirmations
        <5>4. issues \in Seq(Issues)
          BY <5>1, KeptType, <4>2
        <5>5. result' \in [Requests -> Results]
          BY <4>2, <5>4 DEF TypeOK, Results
        <5>6. QED
          BY <4>2, <5>3, <5>5 DEF TypeOK
      <4>3. QED
        BY <2>6, <4>1, <4>2 DEF Verified
    <3>5. QED
      BY <2>6, <3>1, <3>2, <3>3, <3>4 DEF Verified, TypeOK
  <2>7. ASSUME NEW r \in Requests, LogReview(r) PROVE TypeOK'
    <3>1. audit' \in Seq(LogEntries) /\ lost' \subseteq Requests \X {"rules", "verify", "final"}
      BY <2>7, EntryTypes, WriteType DEF LogReview, TypeOK
    <3>2. phase' \in [Requests -> Phases]
      BY <2>7, <2>a DEF LogReview, GoTo, TypeOK
    <3>3. QED
      BY <2>7, <3>1, <3>2 DEF LogReview, TypeOK
  <2>8. ASSUME NEW r \in Requests, Answer(r) PROVE TypeOK'
    <3>1. phase' \in [Requests -> Phases]
      BY <2>8, <2>a DEF Answer, GoTo, TypeOK
    <3>2. ErrorAnswer("review") \in Answers /\ ReviewAnswer(r) \in Answers
      BY DEF Answers, ReviewAnswer, TypeOK, Results
    <3>3. answer' \in [Requests -> Answers]
      BY <2>8, <3>2 DEF Answer, TypeOK
    <3>4. QED
      BY <2>8, <3>1, <3>3 DEF Answer, TypeOK, trail
  <2>9. ASSUME NEW r \in Requests, Analyzed(r) PROVE TypeOK'
    <3>1. CASE ReturnEarly(r, SkipAnswer) /\ UNCHANGED <<model, swept, result>>
      <4>1. phase' \in [Requests -> Phases] /\ answer' \in [Requests -> Answers]
        BY <3>1, ReturnType
      <4>2. QED
        BY <2>9, <3>1, <4>1 DEF Analyzed, TypeOK, trail
    <3>2. CASE /\ \E body \in Bodies :
                    /\ result' = [result EXCEPT ![r] = RawStaticResult(body.issues)]
                    /\ swept' = [swept EXCEPT ![r] = body.issues]
               /\ model' = [model EXCEPT ![r] = "deterministic"]
               /\ GoTo(r, "logging") /\ UNCHANGED answer
      <4>1. swept' \in [Requests -> Seq(Issues)] /\ result' \in [Requests -> Results]
        BY <3>2, RawResultType, ReviewDaemonAssumption DEF TypeOK
      <4>2. phase' \in [Requests -> Phases] /\ model' \in [Requests -> Models]
        BY <3>2, <2>a, <2>c DEF GoTo, TypeOK
      <4>3. QED
        BY <2>9, <3>2, <4>1, <4>2 DEF Analyzed, TypeOK, trail
    <3>3. CASE /\ model' = [model EXCEPT ![r] = ModelOf(r)]
               /\ GoTo(r, "snapshot") /\ UNCHANGED <<answer, swept, result>>
      <4>1. phase' \in [Requests -> Phases] /\ model' \in [Requests -> Models]
        BY <3>3, <2>a, <2>b DEF GoTo, TypeOK
      <4>2. QED
        BY <2>9, <3>3, <4>1 DEF Analyzed, TypeOK, trail
    <3>4. QED
      BY <2>9, <3>1, <3>2, <3>3 DEF Analyzed
  <2>10. ASSUME NEW r \in Requests, Snapshot(r) PROVE TypeOK'
    <3>1. audit' \in Seq(LogEntries) /\ lost' \subseteq Requests \X {"rules", "verify", "final"}
      BY <2>10, EntryTypes, WriteType DEF Snapshot, MergeRules, TypeOK, trail
    <3>2. phase' \in [Requests -> Phases] /\ answer' \in [Requests -> Answers]
      BY <2>10, <2>a, ReturnType DEF Snapshot, GoTo, TypeOK
    <3>3. QED
      BY <2>10, <3>1, <3>2 DEF Snapshot, TypeOK
  <2>11. ASSUME NEW r \in Requests, Synthesized(r) PROVE TypeOK'
    <3>1. phase' \in [Requests -> Phases]
      BY <2>11, <2>a DEF Synthesized, GoTo, TypeOK
    <3>2. swept' \in [Requests -> Seq(Issues)] /\ result' \in [Requests -> Results]
      BY <2>11, ParseType, ReviewDaemonAssumption DEF Synthesized, TypeOK
    <3>3. QED
      BY <2>11, <3>1, <3>2 DEF Synthesized, TypeOK, trail
  <2>12. CASE Crash
    <3>1. crashes' \in 0..MaxCrashes
      BY <2>12, ReviewDaemonAssumption DEF Crash, TypeOK
    <3>2. phase' \in [Requests -> Phases]
      BY <2>12, <2>a DEF Crash, TypeOK
    <3>3. QED
      BY <2>12, <3>1, <3>2 DEF Crash, TypeOK, trail
  <2>13. CASE UNCHANGED vars
    BY <2>13 DEF vars, TypeOK, trail
  <2>14. QED
    BY <2>1, <2>2, <2>3, <2>4, <2>5, <2>6, <2>7, <2>8, <2>9, <2>10, <2>11, <2>12, <2>13
       DEF Next, Handle
<1>3. QED
  BY <1>1, <1>2, PTL DEF Spec

----------------------------------------------------------------------------
(* What a handler has at each of its steps *)

\* The steps before the review itself has ended.
Early == {"new", "prepared", "estimating", "preloading", "sweeping", "snapshot", "synthesizing"}

Progress(r) ==
  /\ phase[r] \in {"snapshot", "synthesizing"} => kind[r].method = "static"
  /\ phase[r] \in Early => result[r] = Failure /\ swept[r] = << >>
  /\ phase[r] \in Early \cup {"verifying"} => confirmed[r] = NoVerdict
  /\ phase[r] = "verifying" => result[r].issues = swept[r]
  /\ phase[r] # "done" => answer[r] = NoAnswer
  /\ answer[r].kind = "review" => answer[r] = ReviewAnswer(r)

InProgress == \A r \in Requests : Progress(r)

\* What a request's handler left as it was.
Same(q) ==
  /\ kind'[q] = kind[q] /\ phase'[q] = phase[q] /\ model'[q] = model[q]
  /\ swept'[q] = swept[q] /\ confirmed'[q] = confirmed[q]
  /\ result'[q] = result[q] /\ answer'[q] = answer[q]

\* One handler's step leaves the other handlers alone.
LEMMA OthersKeep ==
  ASSUME TypeOK, NEW r \in Requests, Handle(r), NEW q \in Requests, q # r
  PROVE  Same(q)
<1>1. CASE PrepareInput(r)
  BY <1>1 DEF PrepareInput, ReturnEarly, GoTo, Same, TypeOK
<1>2. CASE Configure(r)
  BY <1>2 DEF Configure, GoTo, Same, TypeOK
<1>3. CASE Estimated(r)
  BY <1>3 DEF Estimated, ReturnEarly, GoTo, Same, TypeOK
<1>4. CASE Preloaded(r)
  BY <1>4 DEF Preloaded, ReturnEarly, GoTo, Same, TypeOK
<1>5. CASE Swept(r)
  BY <1>5 DEF Swept, GoTo, Same, TypeOK
<1>6. CASE Verified(r)
  BY <1>6 DEF Verified, GoTo, Same, TypeOK
<1>7. CASE LogReview(r)
  BY <1>7 DEF LogReview, GoTo, Same, TypeOK
<1>8. CASE Answer(r)
  BY <1>8 DEF Answer, GoTo, Same, TypeOK
<1>9. CASE Analyzed(r)
  BY <1>9 DEF Analyzed, ReturnEarly, GoTo, Same, TypeOK
<1>10. CASE Snapshot(r)
  BY <1>10 DEF Snapshot, ReturnEarly, GoTo, Same, TypeOK
<1>11. CASE Synthesized(r)
  BY <1>11 DEF Synthesized, GoTo, Same, TypeOK
<1>12. QED
  BY <1>1, <1>2, <1>3, <1>4, <1>5, <1>6, <1>7, <1>8, <1>9, <1>10, <1>11 DEF Handle

LEMMA ProgressKept ==
  ASSUME NEW q \in Requests, Progress(q), Same(q)
  PROVE  Progress(q)'
BY DEF Progress, Same, ReviewAnswer

\* A handler's own step.
LEMMA ProgressMade ==
  ASSUME TypeOK, NEW r \in Requests, Progress(r), Handle(r)
  PROVE  Progress(r)'
<1>a. /\ phase \in [Requests -> Phases] /\ answer \in [Requests -> Answers]
      /\ result \in [Requests -> Results] /\ swept \in [Requests -> Seq(Issues)]
      /\ confirmed \in [Requests -> Confirmations] /\ model \in [Requests -> Models]
  BY DEF TypeOK
<1>b. NoAnswer.kind # "review" /\ SkipAnswer.kind # "review"
      /\ \A stage : ErrorAnswer(stage).kind # "review"
  BY DEF NoAnswer, SkipAnswer, ErrorAnswer
<1>1. CASE PrepareInput(r)
  BY <1>1, <1>a, <1>b DEF PrepareInput, ReturnEarly, GoTo, Progress, Early
<1>2. CASE Configure(r)
  BY <1>2, <1>a, <1>b DEF Configure, GoTo, Progress, Early
<1>3. CASE Estimated(r)
  BY <1>3, <1>a, <1>b DEF Estimated, ReturnEarly, GoTo, Progress, Early
<1>4. CASE Preloaded(r)
  BY <1>4, <1>a, <1>b DEF Preloaded, ReturnEarly, GoTo, Progress, Early
<1>5. CASE Swept(r)
  BY <1>5, <1>a, <1>b, ParseType DEF Swept, GoTo, Progress, Early
<1>6. CASE Verified(r)
  BY <1>6, <1>a, <1>b DEF Verified, GoTo, Progress, Early
<1>7. CASE LogReview(r)
  BY <1>7, <1>a, <1>b DEF LogReview, GoTo, Progress, Early
<1>8. CASE Answer(r)
  BY <1>8, <1>a, <1>b DEF Answer, GoTo, Progress, Early, ReviewAnswer
<1>9. CASE Analyzed(r)
  BY <1>9, <1>a, <1>b DEF Analyzed, ReturnEarly, GoTo, Progress, Early
<1>10. CASE Snapshot(r)
  BY <1>10, <1>a, <1>b DEF Snapshot, ReturnEarly, GoTo, Progress, Early
<1>11. CASE Synthesized(r)
  BY <1>11, <1>a, <1>b DEF Synthesized, GoTo, Progress, Early
<1>12. QED
  BY <1>1, <1>2, <1>3, <1>4, <1>5, <1>6, <1>7, <1>8, <1>9, <1>10, <1>11 DEF Handle

\* A crash takes every handler that runs to the same end, and touches nothing else.
LEMMA CrashLoses ==
  ASSUME TypeOK, Crash, NEW q \in Requests
  PROVE  /\ phase'[q] \in {"lost", "new", "done"}
         /\ phase'[q] # "lost" => phase'[q] = phase[q]
         /\ phase'[q] = "lost" => phase[q] # "done"
         /\ UNCHANGED <<config, kind, model, swept, confirmed, result, answer, trail>>
<1>1. phase[q] \in Phases /\ phase'[q] = IF phase[q] \in Running THEN "lost" ELSE phase[q]
  BY DEF Crash, TypeOK
<1>2. QED
  BY <1>1 DEF Crash, Running

LEMMA ProgressAlways == Spec => []InProgress
<1>1. Init => InProgress
  <2> SUFFICES ASSUME Init, NEW q \in Requests PROVE Progress(q)
    BY DEF InProgress
  <2>1. /\ phase[q] = "new" /\ swept[q] = << >> /\ confirmed[q] = NoVerdict
        /\ result[q] = Failure /\ answer[q] = NoAnswer
    BY DEF Init
  <2>2. NoAnswer.kind # "review"
    BY DEF NoAnswer
  <2>3. QED
    BY <2>1, <2>2 DEF Progress, Early
<1>2. TypeOK /\ InProgress /\ [Next]_vars => InProgress'
  <2> SUFFICES ASSUME TypeOK, InProgress, [Next]_vars, NEW q \in Requests
               PROVE  Progress(q)'
    BY DEF InProgress
  <2>1. Progress(q)
    BY DEF InProgress
  <2>2. ASSUME NEW r \in Requests, Handle(r) PROVE Progress(q)'
    BY <2>1, <2>2, OthersKeep, ProgressKept, ProgressMade
  <2>3. CASE Crash
    BY <2>1, <2>3, CrashLoses DEF Progress, Early, ReviewAnswer
  <2>4. CASE UNCHANGED vars
    BY <2>1, <2>4 DEF vars, Progress, ReviewAnswer
  <2>5. QED
    BY <2>2, <2>3, <2>4 DEF Next
<1>3. QED
  BY <1>1, <1>2, TypeCorrect, PTL DEF Spec

----------------------------------------------------------------------------
(* Verification fails open *)

\* What verification may leave of the issues it was given, by the verifier's word.
LeftOver(issues, verdict, left) ==
  /\ issues # << >> => left # << >>
  /\ Len(left) = IF Surviving(issues, verdict) = {} THEN Len(issues)
                                                    ELSE Cardinality(Surviving(issues, verdict))
  /\ Surviving(issues, verdict) # {} =>
       ToSet(left) = {issues[i] : i \in Surviving(issues, verdict)}

Filtered(r) == LeftOver(swept[r], confirmed[r], result[r].issues)

AllFiltered == \A r \in Requests : Filtered(r)

\* Without a verifier's word every issue is reported.
LEMMA UnverifiedIsFiltered ==
  ASSUME NEW issues \in Seq(Issues)
  PROVE  LeftOver(issues, NoVerdict, issues)
<1> DEFINE n == Len(issues)
<1>1. n \in Nat /\ DOMAIN issues = 1..n
  BY LenProperties
<1>2. Surviving(issues, NoVerdict) = 1..n
  BY <1>1 DEF Surviving, NoVerdict
<1>3. Cardinality(1..n) = n
  BY <1>1, FS_Interval
<1>4. ToSet(issues) = {issues[i] : i \in 1..n}
  BY <1>1 DEF ToSet
<1>5. QED
  BY <1>1, <1>2, <1>3, <1>4 DEF LeftOver

\* What KeepConfirmed leaves is what verification should leave.
LEMMA VerifiedIsFiltered ==
  ASSUME NEW issues \in Seq(Issues), NEW indices, NEW left \in KeepConfirmed(issues, indices)
  PROVE  LeftOver(issues, Confirmed(indices), left)
<1> DEFINE S == Surviving(issues, Confirmed(indices))
<1>1. S = Survivors(issues, indices)
  BY DEF Surviving, Survivors, Confirmed
<1>2. S \in SUBSET (DOMAIN issues)
  BY DEF Surviving
<1>3. CASE S = {}
  BY <1>1, <1>3 DEF KeepConfirmed, LeftOver
<1>4. CASE S # {}
  <2>1. left \in Selections(issues, S)
    BY <1>1, <1>4 DEF KeepConfirmed
  <2>2. /\ Len(left) = Cardinality(S) /\ left # << >>
        /\ ToSet(left) = {issues[p] : p \in S}
    BY <1>2, <1>4, <2>1, SelectionIsExact
  <2>3. QED
    BY <1>4, <2>2 DEF LeftOver
<1>5. QED
  BY <1>3, <1>4

\* What a handler keeps of its issues decides whether they are filtered.
LEMMA FilteredKept ==
  ASSUME NEW q \in Requests, Filtered(q),
         swept'[q] = swept[q], confirmed'[q] = confirmed[q], result'[q] = result[q]
  PROVE  Filtered(q)'
BY DEF Filtered

LEMMA FilteredAlways == Spec => []AllFiltered
<1>1. Init => AllFiltered
  <2> SUFFICES ASSUME Init, NEW q \in Requests PROVE Filtered(q)
    BY DEF AllFiltered
  <2>1. swept[q] = << >> /\ confirmed[q] = NoVerdict /\ result[q] = Failure
    BY DEF Init
  <2>2. swept[q] \in Seq(Issues) /\ result[q].issues = swept[q]
    BY <2>1, EmptySeq, FailureType
  <2>3. QED
    BY <2>1, <2>2, UnverifiedIsFiltered DEF Filtered
<1>2. TypeOK /\ TypeOK' /\ InProgress /\ InProgress' /\ AllFiltered /\ [Next]_vars => AllFiltered'
  <2> SUFFICES ASSUME TypeOK, TypeOK', InProgress, InProgress', AllFiltered, [Next]_vars,
                      NEW q \in Requests
               PROVE  Filtered(q)'
    BY DEF AllFiltered
  <2>a. Filtered(q) /\ Progress(q) /\ Progress(q)'
    BY DEF AllFiltered, InProgress
  <2>b. /\ swept[q] \in Seq(Issues) /\ swept'[q] \in Seq(Issues)
        /\ result \in [Requests -> Results] /\ confirmed \in [Requests -> Confirmations]
        /\ swept \in [Requests -> Seq(Issues)]
    BY DEF TypeOK
  <2>1. ASSUME NEW r \in Requests, Handle(r), q # r PROVE Filtered(q)'
    BY <2>1, <2>a, OthersKeep, FilteredKept DEF Same
  <2>2. CASE PrepareInput(q) \/ Configure(q) \/ Estimated(q) \/ Preloaded(q)
             \/ LogReview(q) \/ Answer(q) \/ Snapshot(q)
    BY <2>2, <2>a, FilteredKept
       DEF PrepareInput, Configure, Estimated, Preloaded, LogReview, Answer, Snapshot
  <2>3. CASE Swept(q)
    <3>1. confirmed[q] = NoVerdict /\ UNCHANGED confirmed
      BY <2>3, <2>a DEF Progress, Early, Swept
    <3>2. CASE UNCHANGED <<result, swept>>
      BY <3>1, <3>2, <2>a, FilteredKept
    <3>3. CASE \E body \in Bodies : /\ result' = [result EXCEPT ![q] = Parse(body)]
                                    /\ swept' = [swept EXCEPT ![q] = body.issues]
      <4>1. result'[q].issues = swept'[q]
        BY <3>3, <2>b, ParseType
      <4>2. QED
        BY <4>1, <3>1, <2>b, UnverifiedIsFiltered DEF Filtered
    <3>4. QED
      BY <2>3, <3>2, <3>3 DEF Swept
  <2>4. CASE Synthesized(q)
    <3>1. confirmed[q] = NoVerdict /\ UNCHANGED confirmed
      BY <2>4, <2>a DEF Progress, Early, Synthesized
    <3>2. CASE UNCHANGED <<result, swept>>
      BY <3>1, <3>2, <2>a, FilteredKept
    <3>3. CASE \E body \in Bodies : /\ result' = [result EXCEPT ![q] = Parse(body)]
                                    /\ swept' = [swept EXCEPT ![q] = body.issues]
      <4>1. result'[q].issues = swept'[q]
        BY <3>3, <2>b, ParseType
      <4>2. QED
        BY <4>1, <3>1, <2>b, UnverifiedIsFiltered DEF Filtered
    <3>4. QED
      BY <2>4, <3>2, <3>3 DEF Synthesized
  <2>5. CASE Analyzed(q)
    <3>1. confirmed[q] = NoVerdict /\ UNCHANGED confirmed
      BY <2>5, <2>a DEF Progress, Early, Analyzed
    <3>2. CASE UNCHANGED <<result, swept>>
      BY <3>1, <3>2, <2>a, FilteredKept
    <3>3. CASE \E body \in Bodies :
                 /\ result' = [result EXCEPT ![q] = RawStaticResult(body.issues)]
                 /\ swept' = [swept EXCEPT ![q] = body.issues]
      <4>1. result'[q].issues = swept'[q]
        BY <3>3, <2>b, RawResultType, ReviewDaemonAssumption
      <4>2. QED
        BY <4>1, <3>1, <2>b, UnverifiedIsFiltered DEF Filtered
    <3>4. QED
      BY <2>5, <3>2, <3>3 DEF Analyzed
  <2>6. CASE Verified(q)
    <3>1. CASE UNCHANGED <<confirmed, result>>
      BY <2>6, <3>1, <2>a, FilteredKept DEF Verified
    <3>2. ASSUME NEW indices \in SUBSET (0..Len(swept[q])),
                 confirmed' = [confirmed EXCEPT ![q] = Confirmed(indices)],
                 NEW issues \in KeepConfirmed(swept[q], indices),
                 result' = [result EXCEPT ![q].issues = issues]
          PROVE  Filtered(q)'
      <4>1. swept' = swept
        BY <2>6 DEF Verified
      <4>2. confirmed'[q] = Confirmed(indices) /\ result'[q].issues = issues
        BY <3>2, <2>b DEF Results
      <4>3. LeftOver(swept[q], Confirmed(indices), issues)
        BY <2>b, <3>2, VerifiedIsFiltered
      <4>4. QED
        BY <4>1, <4>2, <4>3 DEF Filtered
    <3>3. QED
      BY <2>6, <3>1, <3>2 DEF Verified
  <2>7. CASE Crash
    BY <2>7, <2>a, CrashLoses, FilteredKept
  <2>8. CASE UNCHANGED vars
    BY <2>8, <2>a, FilteredKept DEF vars
  <2>9. QED
    BY <2>1, <2>2, <2>3, <2>4, <2>5, <2>6, <2>7, <2>8 DEF Next, Handle
<1>3. QED
  BY <1>1, <1>2, TypeCorrect, ProgressAlways, PTL DEF Spec

\* For any requests and answers: whatever the verifier says, a review that found something
\* reports something, exactly the confirmed issues or all of them.
THEOREM FailsOpen == Spec => []VerificationFailsOpen
<1>1. InProgress /\ AllFiltered => VerificationFailsOpen
  <2> SUFFICES ASSUME InProgress, AllFiltered
               PROVE  VerificationFailsOpen
    OBVIOUS
  <2>1. ASSUME NEW r \in Requests, answer[r].kind = "review"
        PROVE  LeftOver(swept[r], confirmed[r], answer[r].issues)
    <3>1. Progress(r) /\ Filtered(r)
      BY DEF InProgress, AllFiltered
    <3>2. answer[r] = ReviewAnswer(r)
      BY <2>1, <3>1 DEF Progress
    <3>3. answer[r].issues = result[r].issues
      BY <3>2 DEF ReviewAnswer
    <3>4. QED
      BY <3>1, <3>3 DEF Filtered
  <2>2. QED
    BY <2>1, Zenon DEF VerificationFailsOpen, LeftOver
<1>2. QED
  BY <1>1, ProgressAlways, FilteredAlways, PTL

----------------------------------------------------------------------------
(* The audit trail *)

SameTrail(q, what) ==
  /\ Entries(q, what)' = Entries(q, what)
  /\ <<q, what>> \in lost' <=> <<q, what>> \in lost
  /\ \A i \in Entries(q, what) : audit'[i] = audit[i]

LEMMA UnwrittenTrail ==
  ASSUME NEW q, NEW what, UNCHANGED trail
  PROVE  SameTrail(q, what)
BY DEF trail, SameTrail, Entries

\* A line that is written is the last of the log, whose other lines stay.
LEMMA WriteOne ==
  ASSUME NEW e \in LogEntries, audit \in Seq(LogEntries), Write(e), NEW q, NEW what
  PROVE  /\ <<q, what>> # <<e.request, e.what>> => SameTrail(q, what)
         /\ Attempted(e.request, e.what)'
         /\ \A i \in Entries(q, what) : i \in Entries(q, what)' /\ audit'[i] = audit[i]
         /\ \A i \in Entries(q, what)' :
              i \in Entries(q, what) \/ (i = Len(audit) + 1 /\ audit'[i] = e)
<1>1. Len(audit) \in Nat /\ DOMAIN audit = 1..Len(audit)
  BY LenProperties
<1>2. CASE audit' = Append(audit, e) /\ UNCHANGED lost
  <2> DEFINE n == Len(audit)
  <2>1. audit' \in Seq(LogEntries) /\ Len(audit') = n + 1
    BY <1>2, AppendProperties
  <2>2. DOMAIN audit' = 1..(n + 1)
    BY <2>1, LenProperties
  <2>3. (\A i \in 1..n : audit'[i] = audit[i]) /\ audit'[n + 1] = e
    BY <1>2, AppendProperties
  <2>4. \A i \in Entries(q, what) : i \in Entries(q, what)' /\ audit'[i] = audit[i]
    BY <1>1, <2>2, <2>3 DEF Entries
  <2>5. \A i \in Entries(q, what)' : i \in Entries(q, what) \/ (i = n + 1 /\ audit'[i] = e)
    BY <1>1, <2>2, <2>3 DEF Entries
  <2>6. n + 1 \in Entries(e.request, e.what)'
    BY <1>1, <2>2, <2>3 DEF Entries
  <2>7. ASSUME <<q, what>> # <<e.request, e.what>> PROVE Entries(q, what)' = Entries(q, what)
    <3>1. ~(e.request = q /\ e.what = what)
      BY <2>7
    <3>2. n + 1 \notin Entries(q, what)'
      BY <2>3, <3>1 DEF Entries
    <3>3. QED
      BY <2>4, <2>5, <3>2
  <2>8. QED
    BY <1>2, <2>4, <2>5, <2>6, <2>7 DEF SameTrail, Attempted
<1>3. CASE lost' = lost \cup {<<e.request, e.what>>} /\ UNCHANGED audit
  <2>1. Entries(q, what)' = Entries(q, what)
    BY <1>3 DEF Entries
  <2>2. QED
    BY <1>3, <2>1 DEF SameTrail, Attempted
<1>4. QED
  BY <1>2, <1>3 DEF Write

\* Only a verification writes of a verification, and only LogReview of a review.
LEMMA TrailKept ==
  ASSUME TypeOK, NEW r \in Requests, Handle(r), NEW q \in Requests, NEW what \in {"verify", "final"},
         q # r \/ (what = "final" /\ ~LogReview(r)) \/ (what = "verify" /\ ~Verified(r))
  PROVE  SameTrail(q, what)
<1>a. audit \in Seq(LogEntries)
  BY DEF TypeOK
<1>b. ASSUME NEW e \in LogEntries, Write(e), e.request # q \/ e.what # what
      PROVE  SameTrail(q, what)
  BY <1>a, <1>b, WriteOne
<1>1. CASE UNCHANGED trail
  BY <1>1, UnwrittenTrail
<1>2. CASE Write(RulesEntry(r))
  <2>1. RulesEntry(r) \in LogEntries /\ RulesEntry(r).what = "rules"
    BY EntryTypes DEF RulesEntry, Entry
  <2>2. QED
    BY <1>2, <1>b, <2>1
<1>3. CASE Verified(r)
  <2>1. /\ VerifyEntry(r, "configured") \in LogEntries /\ Write(VerifyEntry(r, "configured"))
        /\ VerifyEntry(r, "configured").request = r /\ VerifyEntry(r, "configured").what = "verify"
    BY <1>3, EntryTypes DEF VerifyEntry, Entry, Verified
  <2>2. QED
    BY <1>3, <1>b, <2>1
<1>4. CASE LogReview(r)
  <2>1. /\ FinalEntry(r) \in LogEntries /\ Write(FinalEntry(r))
        /\ FinalEntry(r).request = r /\ FinalEntry(r).what = "final"
    BY <1>4, EntryTypes DEF FinalEntry, Entry, LogReview
  <2>2. QED
    BY <1>4, <1>b, <2>1
<1>5. Configure(r) \/ Snapshot(r) => UNCHANGED trail \/ Write(RulesEntry(r))
  BY DEF Configure, Snapshot, MergeRules
<1>6. PrepareInput(r) \/ Estimated(r) \/ Preloaded(r) \/ Swept(r) \/ Answer(r) \/ Analyzed(r)
        \/ Synthesized(r) => UNCHANGED trail
  BY DEF PrepareInput, Estimated, Preloaded, Swept, Answer, Analyzed, Synthesized
<1>7. QED
  BY <1>1, <1>2, <1>3, <1>4, <1>5, <1>6 DEF Handle

\* What the log holds of a review at each step of its handler.
Audited(r) ==
  /\ \A i, j \in Entries(r, "final") : i = j
  /\ phase[r] \in Early \cup {"verifying", "logging"} => ~Attempted(r, "final")
  /\ phase[r] = "answering" => Attempted(r, "final")
  /\ phase[r] = "done" => (SawReview(r) <=> Attempted(r, "final"))
  /\ \A i \in Entries(r, "final") : /\ audit[i].verdict = result[r].verdict
                                    /\ audit[i].count = Len(result[r].issues)
                                    /\ audit[i].model = model[r]

AllAudited == \A r \in Requests : Audited(r)

LEMMA AuditedKept ==
  ASSUME NEW q \in Requests, Audited(q), Same(q), SameTrail(q, "final")
  PROVE  Audited(q)'
<1>1. Attempted(q, "final")' <=> Attempted(q, "final")
  BY DEF SameTrail, Attempted
<1>2. SawReview(q)' <=> SawReview(q)
  BY DEF Same, SawReview
<1>3. QED
  BY <1>1, <1>2 DEF Audited, Same, SameTrail

\* A handler that has not tried to write of its review leaves no line of it.
LEMMA NothingOfAReview ==
  ASSUME NEW r \in Requests, Audited(r), ~Attempted(r, "final"), SameTrail(r, "final")
  PROVE  Entries(r, "final")' = {} /\ ~Attempted(r, "final")'
BY DEF SameTrail, Attempted

LEMMA AuditedMade ==
  ASSUME TypeOK, NEW r \in Requests, Progress(r), Audited(r), Handle(r)
  PROVE  Audited(r)'
<1>a. /\ phase \in [Requests -> Phases] /\ answer \in [Requests -> Answers]
      /\ result \in [Requests -> Results] /\ model \in [Requests -> Models]
      /\ audit \in Seq(LogEntries)
  BY DEF TypeOK
<1>b. /\ \A a : a \in {SkipAnswer, ErrorAnswer("before")} =>
           ~(a.kind = "review" \/ (a.kind = "error" /\ a.stage = "review"))
      /\ ErrorAnswer("review").kind = "error" /\ ErrorAnswer("review").stage = "review"
      /\ ReviewAnswer(r).kind = "review"
  BY DEF SkipAnswer, ErrorAnswer, ReviewAnswer
<1>1. CASE LogReview(r)
  <2> DEFINE e == FinalEntry(r)
  <2>1. /\ e \in LogEntries /\ Write(e) /\ e.request = r /\ e.what = "final"
        /\ e.verdict = result[r].verdict /\ e.count = Len(result[r].issues) /\ e.model = model[r]
    BY <1>1, EntryTypes DEF FinalEntry, Entry, LogReview
  <2>2. Entries(r, "final") = {}
    BY <1>1 DEF LogReview, Audited, Attempted
  <2>3. Attempted(r, "final")'
    BY <1>a, <2>1, WriteOne
  <2>4. \A i \in Entries(r, "final")' : i = Len(audit) + 1 /\ audit'[i] = e
    BY <1>a, <2>1, <2>2, WriteOne
  <2>5. phase'[r] = "answering" /\ UNCHANGED <<result, model, answer>>
    BY <1>1, <1>a DEF LogReview, GoTo
  <2>6. \A i, j \in Entries(r, "final")' : i = j
    BY <2>4
  <2>7. \A i \in Entries(r, "final")' : /\ audit'[i].verdict = result'[r].verdict
                                        /\ audit'[i].count = Len(result'[r].issues)
                                        /\ audit'[i].model = model'[r]
    BY <2>1, <2>4, <2>5
  <2>8. QED
    BY <2>3, <2>5, <2>6, <2>7 DEF Audited, Early
<1>2. CASE Answer(r)
  <2>1. SameTrail(r, "final")
    BY <1>2, UnwrittenTrail DEF Answer
  <2>2. /\ phase[r] = "answering" /\ phase'[r] = "done" /\ UNCHANGED <<result, model>>
        /\ answer'[r] \in {ErrorAnswer("review"), ReviewAnswer(r)}
    BY <1>2, <1>a DEF Answer, GoTo
  <2>3. SawReview(r)'
    BY <1>b, <2>2 DEF SawReview
  <2>4. Attempted(r, "final")'
    BY <2>1, <2>2 DEF Audited, Attempted, SameTrail
  <2>5. QED
    BY <2>1, <2>2, <2>3, <2>4 DEF Audited, SameTrail, Early
<1>3. CASE ~LogReview(r) /\ ~Answer(r)
  <2>1. SameTrail(r, "final")
    BY <1>3, TrailKept
  <2>2. phase[r] \in Early \cup {"verifying"}
    BY <1>3 DEF Handle, PrepareInput, Configure, Estimated, Preloaded, Swept, Verified,
                Analyzed, Snapshot, Synthesized, Early
  <2>3. ~Attempted(r, "final")
    BY <2>2 DEF Audited
  <2>4. Entries(r, "final")' = {} /\ ~Attempted(r, "final")'
    BY <2>1, <2>3, NothingOfAReview
  <2>5. \/ phase'[r] \in Early \cup {"verifying", "logging"}
        \/ \E a \in {SkipAnswer, ErrorAnswer("before")} : phase'[r] = "done" /\ answer'[r] = a
    BY <1>3, <1>a DEF Handle, PrepareInput, Configure, Estimated, Preloaded, Swept, Verified,
                Analyzed, Snapshot, Synthesized, Early, GoTo, ReturnEarly
  <2>6. phase'[r] = "done" => ~SawReview(r)'
    BY <1>b, <2>5 DEF SawReview, Early
  <2>7. phase'[r] # "answering"
    BY <2>5 DEF Early
  <2>8. QED
    BY <2>4, <2>6, <2>7 DEF Audited
<1>4. QED
  BY <1>1, <1>2, <1>3

LEMMA AuditedAlways == Spec => []AllAudited
<1>1. Init => AllAudited
  <2> SUFFICES ASSUME Init, NEW q \in Requests PROVE Audited(q)
    BY DEF AllAudited
  <2>1. phase[q] = "new" /\ audit = << >> /\ lost = {}
    BY DEF Init
  <2>2. Entries(q, "final") = {} /\ ~Attempted(q, "final")
    BY <2>1 DEF Entries, Attempted
  <2>3. QED
    BY <2>1, <2>2 DEF Audited
<1>2. TypeOK /\ InProgress /\ AllAudited /\ [Next]_vars => AllAudited'
  <2> SUFFICES ASSUME TypeOK, InProgress, AllAudited, [Next]_vars, NEW q \in Requests
               PROVE  Audited(q)'
    BY DEF AllAudited
  <2>1. Audited(q) /\ Progress(q)
    BY DEF AllAudited, InProgress
  <2>2. ASSUME NEW r \in Requests, Handle(r), q # r PROVE Audited(q)'
    BY <2>1, <2>2, OthersKeep, TrailKept, AuditedKept
  <2>3. CASE Handle(q)
    BY <2>1, <2>3, AuditedMade
  <2>4. CASE Crash
    <3>1. SameTrail(q, "final") /\ UNCHANGED <<answer, result, model>>
      BY <2>4, UnwrittenTrail DEF Crash
    <3>2. Attempted(q, "final")' <=> Attempted(q, "final")
      BY <3>1 DEF SameTrail, Attempted
    <3>3. SawReview(q)' <=> SawReview(q)
      BY <3>1 DEF SawReview
    <3>4. phase'[q] = "lost" \/ phase'[q] = phase[q]
      BY <2>4, CrashLoses
    <3>5. QED
      BY <2>1, <3>1, <3>2, <3>3, <3>4 DEF Audited, SameTrail, Early
  <2>5. CASE UNCHANGED vars
    <3>1. Same(q) /\ SameTrail(q, "final")
      BY <2>5, UnwrittenTrail DEF vars, Same
    <3>2. QED
      BY <2>1, <3>1, AuditedKept
  <2>6. QED
    BY <2>2, <2>3, <2>4, <2>5 DEF Next
<1>3. QED
  BY <1>1, <1>2, TypeCorrect, ProgressAlways, PTL DEF Spec

\* For any requests and answers: what a client was told of its review is what the one line
\* the log may hold of it tells, and there is no line of a review no client was told of.
THEOREM AuditTrail == Spec => []AnswersAreAudited
<1>1. InProgress /\ AllAudited => AnswersAreAudited
  <2> SUFFICES ASSUME InProgress, AllAudited, NEW r \in Requests
               PROVE  LET finals == Entries(r, "final")
                      IN  /\ \A i, j \in finals : i = j
                          /\ answer[r].kind # "none" => (SawReview(r) <=> Attempted(r, "final"))
                          /\ answer[r].kind = "review" =>
                               \A i \in finals : /\ audit[i].verdict = answer[r].verdict
                                                 /\ audit[i].count = Len(answer[r].issues)
                                                 /\ audit[i].model = answer[r].model
    BY DEF AnswersAreAudited
  <2>1. Progress(r) /\ Audited(r)
    BY DEF InProgress, AllAudited
  <2>2. answer[r].kind # "none" => phase[r] = "done"
    BY <2>1 DEF Progress, NoAnswer
  <2>3. answer[r].kind = "review" => /\ answer[r].verdict = result[r].verdict
                                     /\ answer[r].issues = result[r].issues
                                     /\ answer[r].model = model[r]
    BY <2>1 DEF Progress, ReviewAnswer
  <2>4. QED
    BY <2>1, <2>2, <2>3 DEF Audited
<1>2. QED
  BY <1>1, ProgressAlways, AuditedAlways, PTL

----------------------------------------------------------------------------
(* Ultra reviews *)

\* An ultra review with something to report has been verified when it comes to its end, and
\* the log shows it.
Verifies(r) ==
  kind[r].method = "review" /\ kind[r].ultra =>
    /\ phase[r] = "logging" /\ result[r].issues # << >> => Attempted(r, "verify")
    /\ \A i \in Entries(r, "final") :
         audit[i].count > 0 => <<r, "verify">> \in lost \/ \E j \in Entries(r, "verify") : j < i

AllVerify == \A r \in Requests : Verifies(r)

\* A step that leaves the trail of a request alone and does not bring it to its end.
LEMMA VerifiesKept ==
  ASSUME NEW q \in Requests, Verifies(q), SameTrail(q, "final"), SameTrail(q, "verify"),
         kind'[q] = kind[q],
         phase'[q] # "logging" \/ (phase'[q] = phase[q] /\ result'[q] = result[q])
  PROVE  Verifies(q)'
BY DEF Verifies, SameTrail, Attempted

LEMMA VerifiesMade ==
  ASSUME TypeOK, NEW r \in Requests, Progress(r), Audited(r), Verifies(r), Handle(r)
  PROVE  Verifies(r)'
<1>a. /\ phase \in [Requests -> Phases] /\ result \in [Requests -> Results]
      /\ swept \in [Requests -> Seq(Issues)] /\ audit \in Seq(LogEntries)
  BY DEF TypeOK
<1>b. kind'[r] = kind[r]
  BY DEF Handle, PrepareInput, Configure, Estimated, Preloaded, Swept, Verified, LogReview,
         Answer, Analyzed, Snapshot, Synthesized
<1>1. CASE LogReview(r)
  <2> DEFINE e == FinalEntry(r)
  <2>1. /\ e \in LogEntries /\ Write(e) /\ e.request = r /\ e.what = "final"
        /\ e.count = Len(result[r].issues)
    BY <1>1, EntryTypes DEF FinalEntry, Entry, LogReview
  <2>2. Entries(r, "final") = {}
    BY <1>1 DEF LogReview, Audited, Attempted
  <2>3. \A i \in Entries(r, "final")' : i = Len(audit) + 1 /\ audit'[i] = e
    BY <1>a, <2>1, <2>2, WriteOne
  <2>4. SameTrail(r, "verify")
    BY <1>1, TrailKept DEF Verified, LogReview
  <2>5. phase[r] = "logging" /\ phase'[r] = "answering"
    BY <1>1, <1>a DEF LogReview, GoTo
  <2>6. \A j \in Entries(r, "verify") : j < Len(audit) + 1
    <3>1. Len(audit) \in Nat /\ DOMAIN audit = 1..Len(audit)
      BY <1>a, LenProperties
    <3>2. QED
      BY <3>1 DEF Entries
  <2>7. e.count > 0 => result[r].issues # << >>
    BY <2>1, EmptySeq
  <2>8. ASSUME kind[r].method = "review", kind[r].ultra, NEW i \in Entries(r, "final")',
               audit'[i].count > 0
        PROVE  <<r, "verify">> \in lost' \/ \E j \in Entries(r, "verify")' : j < i
    <3>1. i = Len(audit) + 1 /\ Attempted(r, "verify")
      BY <2>3, <2>5, <2>7, <2>8 DEF Verifies
    <3>2. QED
      BY <2>4, <2>6, <3>1 DEF SameTrail, Attempted
  <2>9. QED
    BY <1>b, <2>5, <2>8 DEF Verifies
<1>2. CASE Verified(r)
  <2> DEFINE e == VerifyEntry(r, "configured")
  <2>1. e \in LogEntries /\ Write(e) /\ e.request = r /\ e.what = "verify"
    BY <1>2, EntryTypes DEF VerifyEntry, Entry, Verified
  <2>2. Attempted(r, "verify")'
    BY <1>a, <2>1, WriteOne
  <2>3. Entries(r, "final")' = {}
    <3>1. phase[r] = "verifying" /\ ~LogReview(r)
      BY <1>2 DEF Verified, LogReview
    <3>2. ~Attempted(r, "final") /\ SameTrail(r, "final")
      BY <3>1, TrailKept DEF Audited
    <3>3. QED
      BY <3>2, NothingOfAReview
  <2>4. QED
    BY <2>2, <2>3 DEF Verifies
<1>3. CASE ~LogReview(r) /\ ~Verified(r)
  <2>1. SameTrail(r, "final") /\ SameTrail(r, "verify")
    BY <1>3, TrailKept
  <2>2. CASE phase'[r] # "logging"
    BY <1>b, <2>1, <2>2, VerifiesKept
  <2>3. CASE phase'[r] = "logging"
    <3>1. Swept(r) \/ Analyzed(r) \/ Synthesized(r)
      BY <1>3, <1>a, <2>3 DEF Handle, PrepareInput, Configure, Estimated, Preloaded, Answer,
                              Snapshot, GoTo, ReturnEarly
    <3>2. Entries(r, "final")' = {}
      <4>1. phase[r] \in Early
        BY <3>1 DEF Swept, Analyzed, Synthesized, Early
      <4>2. QED
        BY <2>1, <4>1, NothingOfAReview DEF Audited
    <3>3. CASE Analyzed(r) \/ Synthesized(r)
      <4>1. kind[r].method = "static"
        BY <3>3 DEF Analyzed, Synthesized, Progress
      <4>2. QED
        BY <1>b, <4>1 DEF Verifies
    <3>4. CASE Swept(r)
      <4>1. CASE UNCHANGED <<result, swept>>
        <5>1. result'[r].issues = << >>
          BY <3>4, <4>1, FailureType DEF Swept, Progress, Early
        <5>2. QED
          BY <3>2, <5>1 DEF Verifies
      <4>2. ASSUME NEW body \in Bodies, result' = [result EXCEPT ![r] = Parse(body)],
                   GoTo(r, IF NeedsVerification(r, body.issues) THEN "verifying" ELSE "logging")
            PROVE  Verifies(r)'
        <5>1. ~NeedsVerification(r, body.issues)
          BY <1>a, <2>3, <4>2 DEF GoTo
        <5>2. result'[r].issues = body.issues
          BY <1>a, <4>2, ParseType
        <5>3. QED
          BY <1>b, <3>2, <5>1, <5>2 DEF Verifies, NeedsVerification
      <4>3. QED
        BY <3>4, <4>1, <4>2 DEF Swept
    <3>5. QED
      BY <3>1, <3>3, <3>4
  <2>4. QED
    BY <2>2, <2>3
<1>4. QED
  BY <1>1, <1>2, <1>3

\* For any requests and answers: no ultra review reports a finding that was not put to the
\* verifier first.
THEOREM UltraVerified == Spec => []UltraIsVerified
<1>1. Init => AllVerify
  <2> SUFFICES ASSUME Init, NEW q \in Requests PROVE Verifies(q)
    BY DEF AllVerify
  <2>1. phase[q] = "new" /\ audit = << >>
    BY DEF Init
  <2>2. Entries(q, "final") = {}
    BY <2>1 DEF Entries
  <2>3. QED
    BY <2>1, <2>2 DEF Verifies
<1>2. TypeOK /\ InProgress /\ AllAudited /\ AllVerify /\ [Next]_vars => AllVerify'
  <2> SUFFICES ASSUME TypeOK, InProgress, AllAudited, AllVerify, [Next]_vars, NEW q \in Requests
               PROVE  Verifies(q)'
    BY DEF AllVerify
  <2>1. Audited(q) /\ Progress(q) /\ Verifies(q)
    BY DEF AllAudited, InProgress, AllVerify
  <2>2. ASSUME NEW r \in Requests, Handle(r), q # r PROVE Verifies(q)'
    <3>1. SameTrail(q, "final") /\ SameTrail(q, "verify") /\ Same(q)
      BY <2>2, OthersKeep, TrailKept
    <3>2. QED
      BY <2>1, <3>1, VerifiesKept DEF Same
  <2>3. CASE Handle(q)
    BY <2>1, <2>3, VerifiesMade
  <2>4. CASE Crash
    <3>1. SameTrail(q, "final") /\ SameTrail(q, "verify") /\ UNCHANGED <<kind, result>>
      BY <2>4, UnwrittenTrail DEF Crash
    <3>2. phase'[q] # "logging"
      BY <2>4, CrashLoses
    <3>3. QED
      BY <2>1, <3>1, <3>2, VerifiesKept
  <2>5. CASE UNCHANGED vars
    <3>1. Same(q) /\ SameTrail(q, "final") /\ SameTrail(q, "verify")
      BY <2>5, UnwrittenTrail DEF vars, Same
    <3>2. QED
      BY <2>1, <3>1, VerifiesKept DEF Same
  <2>6. QED
    BY <2>2, <2>3, <2>4, <2>5 DEF Next
<1>3. AllVerify => UltraIsVerified
  BY DEF AllVerify, Verifies, UltraIsVerified
<1>4. QED
  BY <1>1, <1>2, <1>3, TypeCorrect, ProgressAlways, AuditedAlways, PTL DEF Spec

----------------------------------------------------------------------------
(* Answers are final, and a verification can always end *)

\* Some loop over all positions meets those of a set in their order: each is met at its
\* rank, the number of positions of the set up to it.
LEMMA InOrderExists ==
  ASSUME NEW n \in Nat, NEW S \in SUBSET (1..n)
  PROVE  InOrder(S) # {}
<1> DEFINE m == Cardinality(S)
           UpTo(p) == {q \in S : q <= p}
           rank == [p \in S |-> Cardinality(UpTo(p))]
           order == [k \in 1..m |-> CHOOSE p \in S : rank[p] = k]
<1>1. IsFiniteSet(S) /\ m \in Nat
  <2>1. IsFiniteSet(1..n)
    BY FS_Interval
  <2>2. IsFiniteSet(S)
    BY <2>1, FS_Subset
  <2>3. QED
    BY <2>2, FS_CardinalityType
<1>2. ASSUME NEW p \in S
      PROVE  /\ IsFiniteSet(UpTo(p)) /\ UpTo(p) \subseteq S /\ p \in UpTo(p)
             /\ Cardinality(UpTo(p)) \in 1..m
  <2>1. UpTo(p) \subseteq S /\ p \in UpTo(p)
    <3>1. p \in 1..n
      OBVIOUS
    <3>2. p <= p
      BY <3>1
    <3>3. QED
      BY <3>2
  <2>2. IsFiniteSet(UpTo(p)) /\ Cardinality(UpTo(p)) <= m
    BY <1>1, <2>1, FS_Subset
  <2> HIDE DEF UpTo
  <2>3. Cardinality(UpTo(p)) \in Nat /\ Cardinality(UpTo(p)) # 0
    BY <2>1, <2>2, FS_CardinalityType, FS_EmptySet
  <2> DEFINE r == Cardinality(UpTo(p))
  <2>4. r \in Nat /\ r # 0 /\ r <= m
    BY <2>2, <2>3
  <2> HIDE DEF r, m
  <2>5. r \in 1..m
    BY <1>1, <2>4
  <2>6. QED
    BY <2>1, <2>2, <2>5 DEF r
<1>3. ASSUME NEW p \in S, NEW q \in S, p < q
      PROVE  rank[p] < rank[q]
  <2>1. p \in 1..n /\ q \in 1..n
    OBVIOUS
  <2>2. UpTo(p) \subseteq UpTo(q)
    <3>1. \A x \in S : x \in 1..n
      OBVIOUS
    <3>2. \A x \in S : x <= p => x <= q
      BY <1>3, <2>1, <3>1
    <3>3. QED
      BY <3>2
  <2>3. q \notin UpTo(p)
    BY <1>3, <2>1
  <2>4. /\ IsFiniteSet(UpTo(p)) /\ IsFiniteSet(UpTo(q)) /\ q \in UpTo(q)
        /\ Cardinality(UpTo(p)) \in 1..m /\ Cardinality(UpTo(q)) \in 1..m
    BY <1>2
  <2>5. rank[p] = Cardinality(UpTo(p)) /\ rank[q] = Cardinality(UpTo(q))
    OBVIOUS
  <2> HIDE DEF UpTo, rank, m
  <2>6. Cardinality(UpTo(p)) <= Cardinality(UpTo(q))
    BY <2>2, <2>4, FS_Subset
  <2>7. Cardinality(UpTo(p)) # Cardinality(UpTo(q))
    BY <2>2, <2>3, <2>4, FS_Subset
  <2>8. QED
    BY <1>1, <2>4, <2>5, <2>6, <2>7
<1>4. rank \in Surjection(S, 1..m)
  <2>1. \A p \in S : rank[p] \in 1..m
    BY <1>2
  <2>2. rank \in [S -> 1..m]
    BY <2>1
  <2>3. ASSUME NEW p \in S, NEW q \in S, rank[p] = rank[q]
        PROVE  p = q
    <3>1. p \in 1..n /\ q \in 1..n /\ rank[p] \in 1..m
      BY <2>1
    <3> HIDE DEF rank, m
    <3>2. p < q \/ q < p \/ p = q
      BY <3>1
    <3>3. ~(p < q) /\ ~(q < p)
      BY <1>1, <1>3, <2>3, <3>1
    <3>4. QED
      BY <3>2, <3>3
  <2> HIDE DEF rank
  <2>4. rank \in Injection(S, 1..m)
    BY <2>2, <2>3 DEF Injection, IsInjective
  <2>5. Cardinality(1..m) = m
    BY <1>1, FS_Interval
  <2>6. IsFiniteSet(1..m)
    BY <1>1, FS_Interval
  <2>7. QED
    BY <1>1, <2>4, <2>5, <2>6, FS_Injection
<1> HIDE DEF rank
<1>5. \A k \in 1..m : order[k] \in S /\ rank[order[k]] = k
  <2> SUFFICES ASSUME NEW k \in 1..m
               PROVE  order[k] \in S /\ rank[order[k]] = k
    OBVIOUS
  <2>1. \E p \in S : rank[p] = k
    BY <1>4 DEF Surjection
  <2>2. QED
    BY <2>1
<1>6. order \in [1..m -> S]
  BY <1>5
<1> HIDE DEF order
<1>7. ASSUME NEW i \in 1..m, NEW j \in 1..m, i < j
      PROVE  order[i] < order[j]
  <2>1. /\ order[i] \in S /\ order[j] \in S
        /\ rank[order[i]] = i /\ rank[order[j]] = j
    BY <1>5
  <2>2. order[i] \in 1..n /\ order[j] \in 1..n
    BY <2>1
  <2>3. ASSUME order[j] < order[i]
        PROVE  FALSE
    <3>1. rank[order[j]] < rank[order[i]]
      BY <1>3, <2>1, <2>3
    <3>2. j < i
      BY <2>1, <3>1
    <3> HIDE DEF m
    <3>3. QED
      BY <1>1, <1>7, <3>2
  <2>4. order[i] # order[j]
    BY <1>1, <1>7, <2>1
  <2>5. QED
    BY <2>2, <2>3, <2>4
<1>8. order \in InOrder(S)
  BY <1>6, <1>7 DEF InOrder
<1>9. QED
  BY <1>8

\* A verification that is under way can leave something, whatever the verifier answers.
CanVerify ==
  \A r \in Requests : phase[r] = "verifying" =>
    \A indices \in SUBSET (0..Len(swept[r])) : KeepConfirmed(swept[r], indices) # {}

\* For any issues and indices, those out of range included, VerifyIssues has something to
\* return: FailsOpen speaks of every answer of the verifier.
THEOREM VerificationPossible == Spec => []CanVerify
<1>1. ASSUME NEW issues \in Seq(Issues), NEW indices
      PROVE  KeepConfirmed(issues, indices) # {}
  <2> DEFINE n == Len(issues)
             S == Survivors(issues, indices)
  <2>1. n \in Nat /\ S \in SUBSET (1..n)
    BY LenProperties DEF Survivors
  <2>2. InOrder(S) # {}
    BY <2>1, InOrderExists
  <2>3. Selections(issues, S) # {}
    BY <2>2 DEF Selections
  <2>4. QED
    BY <2>3 DEF KeepConfirmed
<1>2. TypeOK => CanVerify
  BY <1>1 DEF CanVerify, TypeOK
<1>3. QED
  BY <1>2, TypeCorrect, PTL

\* What a step leaves of a request that was answered or lost: everything.
AnswersStand ==
  \A q \in Requests : phase[q] \in {"done", "lost"} =>
    Same(q) /\ SameTrail(q, "final") /\ SameTrail(q, "verify")

\* For any requests, crashes and lost lines: neither another handler nor a crash changes an
\* answer that was given or what the log says of its review, and no handler goes on after it
\* has answered (Server.Review and ReviewStatic return once).
THEOREM AnswersAreFinal == Spec => [][AnswersStand]_vars
<1>1. TypeOK /\ [Next]_vars => [AnswersStand]_vars
  <2> SUFFICES ASSUME TypeOK, Next, NEW q \in Requests, phase[q] \in {"done", "lost"}
               PROVE  Same(q) /\ SameTrail(q, "final") /\ SameTrail(q, "verify")
    BY DEF AnswersStand
  <2>1. ASSUME NEW r \in Requests, Handle(r), q # r
        PROVE  Same(q) /\ SameTrail(q, "final") /\ SameTrail(q, "verify")
    BY <2>1, OthersKeep, TrailKept
  <2>2. ~Handle(q)
    BY DEF Handle, PrepareInput, Configure, Estimated, Preloaded, Swept, Verified, LogReview,
           Answer, Analyzed, Snapshot, Synthesized
  <2>3. CASE Crash
    <3>1. phase'[q] = phase[q]
      BY <2>3 DEF Crash, Running
    <3>2. QED
      BY <2>3, <3>1, UnwrittenTrail DEF Crash, Same
  <2>4. QED
    BY <2>1, <2>2, <2>3 DEF Next
<1>2. QED
  BY <1>1, TypeCorrect, PTL DEF Spec

----------------------------------------------------------------------------
(* How clients find the daemon, and daemons take the socket (DaemonConnect) *)

\* What a step leaves in the variables of the environment, whether it is a fault or not.
LEMMA FaultEffect ==
  ASSUME ConnectTypeOK, Fault \/ NoFault
  PROVE  /\ faults' \in 0..MaxFaults
         /\ disturbed' \in [Clients -> BOOLEAN]
         /\ \A c \in Clients : disturbed[c] => disturbed'[c]
         /\ Fault => \A c \in Clients :
                      client'[c] \in Connecting \cup {"failed"} => disturbed'[c]
<1>1. CASE NoFault
  BY <1>1 DEF ConnectTypeOK, NoFault, Fault
<1>2. CASE Fault
  <2>1. faults' \in 0..MaxFaults
    BY <1>2, DaemonConnectAssumption DEF ConnectTypeOK, Fault
  <2>2. disturbed' = [c \in Clients |-> disturbed[c] \/ client'[c] \in Connecting \cup {"failed"}]
    BY <1>2 DEF Fault
  <2>3. disturbed' \in [Clients -> BOOLEAN]
    BY <2>2, Zenon DEF ConnectTypeOK
  <2>4. \A c \in Clients : disturbed'[c] <=> disturbed[c] \/ client'[c] \in Connecting \cup {"failed"}
    BY <2>2, Zenon
  <2>5. QED
    BY <2>1, <2>3, <2>4
<1>3. QED
  BY <1>1, <1>2

\* No step of a daemon or a client leaves the types, and only a daemon that has bound
\* the path is ever found there.
THEOREM ConnectTypeCorrect == ConnectSpec => []ConnectTypeOK
<1>1. ConnectInit => ConnectTypeOK
  <2> SUFFICES ASSUME ConnectInit
               PROVE  ConnectTypeOK
    OBVIOUS
  <2> USE DaemonConnectAssumption DEF ConnectInit, Daemons
  <2>1. path \in Daemons \cup {NoFile} /\ daemon \in [Daemons -> DaemonPhases]
    BY DEF DaemonPhases
  <2>2. path # NoFile => daemon[path] \in {"bound", "serving", "dead"}
    OBVIOUS
  <2>3. client \in [Clients -> ClientPhases] /\ disturbed \in [Clients -> BOOLEAN]
    BY DEF ClientPhases
  <2>4. prompt \in BOOLEAN /\ faults \in 0..MaxFaults
    OBVIOUS
  <2>5. QED
    BY <2>1, <2>2, <2>3, <2>4 DEF ConnectTypeOK
<1>2. ConnectTypeOK /\ [ConnectNext]_connectVars => ConnectTypeOK'
  <2> SUFFICES ASSUME ConnectTypeOK, [ConnectNext]_connectVars
               PROVE  ConnectTypeOK'
    OBVIOUS
  <2> USE DaemonConnectAssumption DEF ConnectTypeOK, Daemons, DaemonPhases, ClientPhases
  <2>1. ASSUME NEW d \in Daemons, Boot(d)
        PROVE  ConnectTypeOK'
    <3>1. CASE RemoveSocket(d)
      BY <3>1 DEF RemoveSocket, NoFault
    <3>2. CASE Load(d)
      BY <3>2, FaultEffect DEF Load
    <3>3. CASE Bind(d)
      BY <3>3 DEF Bind, NoFault
    <3>4. CASE Listen(d)
      BY <3>4 DEF Listen, NoFault
    <3>5. QED
      BY <2>1, <3>1, <3>2, <3>3, <3>4 DEF Boot
  <2>2. ASSUME NEW d \in Daemons, Die(d)
        PROVE  ConnectTypeOK'
    BY <2>2 DEF Die, Fault, Booting
  <2>3. ASSUME NEW d \in Daemons, StartManually(d)
        PROVE  ConnectTypeOK'
    BY <2>3 DEF StartManually, NoFault
  <2>4. ASSUME NEW c \in Clients, Connect(c)
        PROVE  ConnectTypeOK'
    <3>1. CASE StatSocket(c)
      BY <3>1, FaultEffect DEF StatSocket, StartDaemon
    <3>2. CASE SeeSocket(c)
      BY <3>2 DEF SeeSocket, NoFault
    <3>3. CASE WaitTimeout(c)
      BY <3>3 DEF WaitTimeout, NoFault
    <3>4. CASE DialReady(c)
      BY <3>4 DEF DialReady, NoFault
    <3>5. CASE DialTimeout(c)
      BY <3>5 DEF DialTimeout, NoFault
    <3>6. CASE RestartDaemon(c)
      BY <3>6, FaultEffect DEF RestartDaemon, StartDaemon
    <3>7. QED
      BY <2>4, <3>1, <3>2, <3>3, <3>4, <3>5, <3>6 DEF Connect
  <2>5. CASE UNCHANGED connectVars
    BY <2>5 DEF connectVars
  <2>6. QED
    BY <2>1, <2>2, <2>3, <2>4, <2>5 DEF ConnectNext
<1>3. QED
  BY <1>1, <1>2, PTL DEF ConnectSpec

----------------------------------------------------------------------------
(* Why Connect fails *)

\* The daemon behind the path serves or is about to.
Held == path # NoFile /\ daemon[path] \in {"bound", "serving"}

\* A daemon is on its way to the path.
Coming == \E d \in Daemons : daemon[d] \in {"starting", "loading", "binding"}

\* A client that has started a daemon and seen nothing fail since.
Hopeful(c) == client[c] \in Connecting /\ daemon[c] # "off" /\ ~disturbed[c]

\* The inductive form of FailureExplained.  A client starts a daemon only when the path
\* is clear, so for as long as nothing fails whoever takes the path keeps it alive, and
\* whoever clears it is on the way there.
Hope ==
  /\ \A c \in Clients : client[c] = "waiting" => daemon[c] # "off"
  /\ \A c \in Clients : client[c] \in {"stat", "removing"} => daemon[c] = "off"
  /\ \A c \in Clients : Hopeful(c) => (path = NoFile \/ Held) /\ (Held \/ Coming)

\* FailureExplained for any number of clients and daemons: on a host that starts
\* daemons in time, the unlocked removals of the socket never make Connect fail.
THEOREM FailuresExplained == ConnectSpec => []FailureExplained
<1>1. ConnectInit => Hope /\ FailureExplained
  BY DaemonConnectAssumption DEF ConnectInit, Hope, Hopeful, Connecting, FailureExplained, Daemons
<1>2. /\ ConnectTypeOK /\ Hope /\ FailureExplained /\ [ConnectNext]_connectVars
      => Hope' /\ FailureExplained'
  <2> SUFFICES ASSUME ConnectTypeOK, Hope, FailureExplained, [ConnectNext]_connectVars
               PROVE  Hope' /\ FailureExplained'
    OBVIOUS
  <2> USE DaemonConnectAssumption
      DEF ConnectTypeOK, Daemons, Hope, Hopeful, Held, Coming, Connecting, FailureExplained
  <2>1. ASSUME NEW d \in Daemons, Boot(d)
        PROVE  Hope' /\ FailureExplained'
    <3>1. CASE RemoveSocket(d)
      BY <3>1 DEF RemoveSocket, NoFault
    <3>2. CASE Load(d)
      BY <3>2, FaultEffect DEF Load, NoFault
    <3>3. CASE Bind(d)
      <4>1. CASE path = NoFile /\ path' = d /\ daemon' = [daemon EXCEPT ![d] = "bound"]
        BY <3>3, <4>1 DEF Bind, NoFault
      <4>2. CASE path # NoFile /\ path' = path /\ daemon' = [daemon EXCEPT ![d] = "dead"]
        BY <3>3, <4>2 DEF Bind, NoFault
      <4>3. QED
        BY <3>3, <4>1, <4>2 DEF Bind
    <3>4. CASE Listen(d)
      BY <3>4 DEF Listen, NoFault
    <3>5. QED
      BY <2>1, <3>1, <3>2, <3>3, <3>4 DEF Boot
  <2>2. ASSUME NEW d \in Daemons, Die(d)
        PROVE  Hope' /\ FailureExplained'
    BY <2>2, FaultEffect DEF Die, Booting
  <2>3. ASSUME NEW d \in Daemons, StartManually(d)
        PROVE  Hope' /\ FailureExplained'
    BY <2>3 DEF StartManually, NoFault
  <2>4. ASSUME NEW c \in Clients, Connect(c)
        PROVE  Hope' /\ FailureExplained'
    <3>1. CASE StatSocket(c)
      <4>1. CASE path = NoFile /\ NoFault
        <5>1. /\ daemon' = [daemon EXCEPT ![c] = "starting"]
              /\ client' = [client EXCEPT ![c] = "waiting"]
              /\ UNCHANGED <<path, prompt, disturbed>>
          BY <3>1, <4>1 DEF StatSocket, StartDaemon, NoFault, Fault
        <5>2. QED
          BY <4>1, <5>1
      <4>2. CASE path = NoFile /\ Fault
        <5>1. /\ client' = [client EXCEPT ![c] = "failed"]
              /\ UNCHANGED <<path, daemon, prompt>>
          BY <3>1, <4>2 DEF StatSocket, StartDaemon, NoFault, Fault
        <5>2. QED
          BY <4>2, <5>1, FaultEffect
      <4>3. CASE path # NoFile
        BY <3>1, <4>3 DEF StatSocket, NoFault
      <4>4. QED
        BY <3>1, <4>1, <4>2, <4>3 DEF StatSocket, StartDaemon
    <3>2. CASE SeeSocket(c)
      BY <3>2 DEF SeeSocket, NoFault
    <3>3. CASE WaitTimeout(c)
      BY <3>3 DEF WaitTimeout, NoFault, SomeBooting, Booting
    <3>4. CASE DialReady(c)
      BY <3>4 DEF DialReady, NoFault
    <3>5. CASE DialTimeout(c)
      BY <3>5 DEF DialTimeout, NoFault, Live, SomeBooting, Booting
    <3>6. CASE RestartDaemon(c)
      <4>1. CASE Fault
        BY <3>6, <4>1, FaultEffect DEF RestartDaemon, StartDaemon
      <4>2. CASE NoFault
        BY <3>6, <4>2 DEF RestartDaemon, StartDaemon, NoFault, Fault
      <4>3. QED
        BY <3>6, <4>1, <4>2 DEF RestartDaemon, StartDaemon
    <3>7. QED
      BY <2>4, <3>1, <3>2, <3>3, <3>4, <3>5, <3>6 DEF Connect
  <2>5. CASE UNCHANGED connectVars
    BY <2>5 DEF connectVars
  <2>6. QED
    BY <2>1, <2>2, <2>3, <2>4, <2>5 DEF ConnectNext
<1>3. QED
  BY <1>1, <1>2, ConnectTypeCorrect, PTL DEF ConnectSpec

=============================================================================
