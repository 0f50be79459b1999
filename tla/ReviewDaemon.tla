---------------------------- MODULE ReviewDaemon ----------------------------
(***************************************************************************)
(* The daemon's two review methods as gRPC runs them, one goroutine per    *)
(* request and no lock between them (internal/daemon/server.go, runReview  *)
(* and runStaticReview): what each does in which order, where it returns   *)
(* early, which backend calls it makes and what it leaves in the audit log *)
(* all requests share.                                                     *)
(*                                                                         *)
(* The sweep of a review (executeReview) is one step here, which gives an  *)
(* error or a result; ChunkedReview models what happens inside it.  Git,   *)
(* the analyzers and the backend are external and may fail at every call.  *)
(***************************************************************************)
EXTENDS ReviewResult

CONSTANTS
  Requests,    \* RPCs
  Kinds,       \* what an RPC may ask for, and whether its client would rather leave than wait for ever
  Configs,     \* the configurations the daemon may have read
  Bodies,      \* the readable answers the model may give
  MaxCrashes,  \* bound on the crashes of the daemon
  MaxLost      \* bound on the lines that can't be written to the log

ASSUME ReviewDaemonAssumption ==
  /\ Kinds \subseteq [method : {"review", "static"}, ultra : BOOLEAN,
                      synthesize : BOOLEAN, override : BOOLEAN, leaves : BOOLEAN]
  /\ Configs \subseteq [claude : BOOLEAN, preflight : BOOLEAN, preload : BOOLEAN, static : BOOLEAN]
  /\ {MaxCrashes, MaxLost} \subseteq Nat
  /\ \A b \in Bodies : b.issues \in Seq(Issues)

VARIABLES
  config,     \* read once, when the daemon starts
  kind,       \* what each RPC asks for
  phase,      \* where its handler is
  model,      \* the handler's model, the name its log entries and answer carry
  swept,      \* the issues of the result before verification
  confirmed,  \* the set the verifier confirmed, or NoVerdict when it gave none
  result,     \* the handler's result, Failure for an error
  answer,     \* what the client got
  audit,      \* the lines of audit.jsonl, oldest first
  lost,       \* the lines that could not be written
  crashes     \* crashes so far

trail == <<audit, lost>>
vars == <<config, kind, phase, model, swept, confirmed, result, answer, trail, crashes>>

\* In "estimating", "preloading", "sweeping", "verifying" and "synthesizing" a backend
\* call of the handler is under way.
BackendPhases == {"estimating", "preloading", "sweeping", "verifying", "synthesizing"}
Phases == BackendPhases \cup {"new", "prepared", "snapshot", "logging", "answering",
                              "done", "lost"}
Running == Phases \ {"new", "done", "lost"}

Failure   == [verdict |-> "", issues |-> << >>, stats |-> RecalcStats(<< >>)]
NoVerdict == [kind |-> "none"]
Confirmed(indices) == [kind |-> "confirmed", indices |-> indices]

NoAnswer    == [kind |-> "none"]
\* What an error says: "prepare review input", "LMD preflight failed", "static snapshot",
\* all from before the review, or "review failed".
ErrorAnswer(stage) == [kind |-> "error", stage |-> stage]
SkipAnswer  == [kind |-> "skip"]
ReviewAnswer(r) == [kind |-> "review", verdict |-> result[r].verdict,
                    issues |-> result[r].issues, model |-> model[r]]

Init ==
  /\ config \in Configs
  /\ kind \in [Requests -> Kinds]
  /\ phase = [r \in Requests |-> "new"]
  /\ model = [r \in Requests |-> ""]
  /\ swept = [r \in Requests |-> << >>]
  /\ confirmed = [r \in Requests |-> NoVerdict]
  /\ result = [r \in Requests |-> Failure]
  /\ answer = [r \in Requests |-> NoAnswer]
  /\ audit = << >> /\ lost = {}
  /\ crashes = 0

----------------------------------------------------------------------------
(* Steps shared by the handlers.  The definitions whose names begin with Mut are     *)
(* mutations: a run puts one in place of the definition that follows it.             *)

GoTo(r, next) == phase' = [phase EXCEPT ![r] = next]

\* A handler returns early, without a word in the audit log.
ReturnEarly(r, a) ==
  /\ GoTo(r, "done")
  /\ answer' = [answer EXCEPT ![r] = a]

\* Logger.Write: one line at a time, under the logger's mutex.  That it could not be written
\* is nobody's error.
Write(entry) ==
  \/ audit' = Append(audit, entry) /\ UNCHANGED lost
  \/ /\ Cardinality(lost) < MaxLost
     /\ lost' = lost \cup {<<entry.request, entry.what>>} /\ UNCHANGED audit

\* The entries of one request.  The log itself does not tell whose an entry is.
Entry(r, what, m, verdict, count) ==
  [request |-> r, what |-> what, model |-> m, verdict |-> verdict, count |-> count]

RulesEntry(r) == Entry(r, "rules", "", "", 0)

VerifyEntry(r, m) == Entry(r, "verify", m, "", 0)

\* The entry of the review counts the issues that went into the verification.
MutFinalEntry(r) == Entry(r, "final", model[r], result[r].verdict, Len(swept[r]))
FinalEntry(r)    == Entry(r, "final", model[r], result[r].verdict, Len(result[r].issues))

\* A project's rules file that can't be read is logged and the daemon's own rules are used.
MergeRules(r) == UNCHANGED trail \/ Write(RulesEntry(r))

\* buildClient: the request's model, else the configured one.
ModelOf(r) == IF kind[r].override THEN "override" ELSE "configured"

\* prepareReviewInput, and the early returns after it.
PrepareInput(r) ==
  /\ phase[r] = "new" /\ kind[r].method = "review"
  /\ \/ ReturnEarly(r, ErrorAnswer("before"))
     \/ ReturnEarly(r, SkipAnswer)
     \/ GoTo(r, "prepared") /\ UNCHANGED answer
  /\ UNCHANGED <<config, kind, model, swept, confirmed, result, trail, crashes>>

\* reviewConfig and buildClient.
Configure(r) ==
  /\ phase[r] = "prepared"
  /\ model' = [model EXCEPT ![r] = ModelOf(r)]
  /\ MergeRules(r)
  /\ GoTo(r, IF config.preflight THEN "estimating" ELSE "sweeping")
  /\ UNCHANGED <<config, kind, swept, confirmed, result, answer, crashes>>

\* maybePreflightLMD: the estimate fails or says the model can't load, or it may load.
Estimated(r) ==
  /\ phase[r] = "estimating"
  /\ \/ ReturnEarly(r, ErrorAnswer("before"))
     \/ GoTo(r, IF config.preload THEN "preloading" ELSE "sweeping") /\ UNCHANGED answer
  /\ UNCHANGED <<config, kind, model, swept, confirmed, result, trail, crashes>>

Preloaded(r) ==
  /\ phase[r] = "preloading"
  /\ ReturnEarly(r, ErrorAnswer("before")) \/ (GoTo(r, "sweeping") /\ UNCHANGED answer)
  /\ UNCHANGED <<config, kind, model, swept, confirmed, result, trail, crashes>>

\* A review that blocks anyway is not verified.
MutNeedsVerification(r, issues) == kind[r].ultra /\ issues # << >> /\ CountOf(issues, "error") = 0

\* Only an ultra review that found something is verified.
NeedsVerification(r, issues) == kind[r].ultra /\ issues # << >>

\* executeReview ends.
Swept(r) ==
  /\ phase[r] = "sweeping"
  /\ \/ /\ GoTo(r, "logging")
        /\ UNCHANGED <<result, swept>>
     \/ \E body \in Bodies :
          /\ result' = [result EXCEPT ![r] = Parse(body)]
          /\ swept' = [swept EXCEPT ![r] = body.issues]
          /\ GoTo(r, IF NeedsVerification(r, body.issues) THEN "verifying" ELSE "logging")
  /\ UNCHANGED <<config, kind, model, confirmed, answer, trail, crashes>>

\* The rest of verifyUltra: a failed call or an answer that can't be read keeps every
\* issue.  Only the issues of the result change, its verdict and stats stay.  The
\* verifier is the configured model, and the result goes by its name from here on.
Verified(r) ==
  /\ phase[r] = "verifying"
  /\ \/ UNCHANGED <<confirmed, result>>
     \/ \E indices \in SUBSET (0..Len(swept[r])) :
          /\ confirmed' = [confirmed EXCEPT ![r] = Confirmed(indices)]
          /\ \E issues \in KeepConfirmed(swept[r], indices) :
               result' = [result EXCEPT ![r].issues = issues]
  /\ model' = [model EXCEPT ![r] = "configured"]
  /\ Write(VerifyEntry(r, "configured"))
  /\ GoTo(r, "logging")
  /\ UNCHANGED <<config, kind, swept, answer, crashes>>

\* logReviewFailure or logReviewSuccess, and the static review's two entries.
LogReview(r) ==
  /\ phase[r] = "logging"
  /\ Write(FinalEntry(r))
  /\ GoTo(r, "answering")
  /\ UNCHANGED <<config, kind, model, swept, confirmed, result, answer, crashes>>

Answer(r) ==
  /\ phase[r] = "answering"
  /\ GoTo(r, "done")
  /\ answer' = [answer EXCEPT ![r] = IF result[r].verdict = "" THEN ErrorAnswer("review")
                                                              ELSE ReviewAnswer(r)]
  /\ UNCHANGED <<config, kind, model, swept, confirmed, result, trail, crashes>>

----------------------------------------------------------------------------
(* ReviewStatic *)

\* The analyzers run, whatever becomes of each; without synthesis their findings are
\* the result.
Analyzed(r) ==
  /\ phase[r] = "new" /\ kind[r].method = "static"
  /\ \/ /\ ~config.static
        /\ ReturnEarly(r, SkipAnswer)
        /\ UNCHANGED <<model, swept, result>>
     \/ /\ config.static /\ ~kind[r].synthesize
        /\ \E body \in Bodies :
             /\ result' = [result EXCEPT ![r] = RawStaticResult(body.issues)]
             /\ swept' = [swept EXCEPT ![r] = body.issues]
        /\ model' = [model EXCEPT ![r] = "deterministic"]
        /\ GoTo(r, "logging") /\ UNCHANGED answer
     \/ /\ config.static /\ kind[r].synthesize
        /\ model' = [model EXCEPT ![r] = ModelOf(r)]
        /\ GoTo(r, "snapshot") /\ UNCHANGED <<answer, swept, result>>
  /\ UNCHANGED <<config, kind, confirmed, trail, crashes>>

\* staticSnapshot and staticRules.
Snapshot(r) ==
  /\ phase[r] = "snapshot"
  /\ \/ ReturnEarly(r, ErrorAnswer("before")) /\ UNCHANGED trail
     \/ GoTo(r, "synthesizing") /\ MergeRules(r) /\ UNCHANGED answer
  /\ UNCHANGED <<config, kind, model, swept, confirmed, result, crashes>>

\* Reviewer.ReviewStatic ends.
Synthesized(r) ==
  /\ phase[r] = "synthesizing"
  /\ \/ UNCHANGED <<result, swept>>
     \/ \E body \in Bodies :
          /\ result' = [result EXCEPT ![r] = Parse(body)]
          /\ swept' = [swept EXCEPT ![r] = body.issues]
  /\ GoTo(r, "logging")
  /\ UNCHANGED <<config, kind, model, confirmed, answer, trail, crashes>>

----------------------------------------------------------------------------
\* The daemon dies: the handlers under way are gone, the log stays.  Later RPCs reach
\* the daemon a client starts next, which reads the same configuration.
Crash ==
  /\ crashes < MaxCrashes
  /\ \E r \in Requests : phase[r] \in Running
  /\ crashes' = crashes + 1
  /\ phase' = [r \in Requests |-> IF phase[r] \in Running THEN "lost" ELSE phase[r]]
  /\ UNCHANGED <<config, kind, model, swept, confirmed, result, answer, trail>>

Handle(r) ==
  \/ PrepareInput(r) \/ Configure(r) \/ Estimated(r) \/ Preloaded(r) \/ Swept(r)
  \/ Verified(r) \/ LogReview(r) \/ Answer(r)
  \/ Analyzed(r) \/ Snapshot(r) \/ Synthesized(r)

Next == Crash \/ \E r \in Requests : Handle(r)

(* What a handler waits for.  A call to the OpenAI-compatible client is over when its     *)
(* request timeout is.  The rest has no timeout, and clients set no deadline.            *)

\* git, a fetch among it, runs without the RPC's context.
AtGit(r) == phase[r] = "snapshot" \/ (phase[r] = "new" /\ kind[r].method = "review")

\* The load API, the command line of claude and the analyzers' programs get the RPC's context:
\* when the client goes away, the request is dropped or the process killed.
UntilClientLeaves(r) ==
  \/ phase[r] = "new" /\ kind[r].method = "static"
  \/ phase[r] \in {"estimating", "preloading"}
  \/ config.claude /\ phase[r] \in {"sweeping", "verifying", "synthesizing"}

\* The request to the load API is made without the RPC's context.
MutMayHang(r) ==
  \/ AtGit(r) \/ phase[r] \in {"estimating", "preloading"}
  \/ UntilClientLeaves(r) /\ ~kind[r].leaves

\* What the handler waits for may never end.
MayHang(r) == AtGit(r) \/ (UntilClientLeaves(r) /\ ~kind[r].leaves)

\* Handlers are scheduled, and go on when what they wait for ends.  Nothing is said of when the
\* client leaves, nor of what a call that ends with its context has come to.  A process that is
\* killed is taken to leave nobody behind who holds its output open.
Fairness == \A r \in Requests : WF_vars(~MayHang(r) /\ Handle(r))

Spec     == Init /\ [][Next]_vars
FairSpec == Spec /\ Fairness

----------------------------------------------------------------------------
Entries(r, what) == {i \in DOMAIN audit : audit[i].request = r /\ audit[i].what = what}

\* The words that may stand for a verdict: the code's own, and what the model writes.
Words       == Verdicts \cup {""} \cup {b.verdict : b \in Bodies}
Results     == [verdict : Words, issues : Seq(Issues), stats : Tallies]
Models      == {"", "override", "configured", "deterministic"}
Answers     == {NoAnswer, SkipAnswer, ErrorAnswer("before"), ErrorAnswer("review")}
               \cup [kind : {"review"}, verdict : Words, issues : Seq(Issues), model : Models]
Confirmations == {NoVerdict} \cup [kind : {"confirmed"}, indices : SUBSET Nat]
LogEntries  == [request : Requests, what : {"rules", "verify", "final"}, model : Models,
                verdict : Words, count : Nat]

\* Every variable has its type.
TypeOK ==
  /\ config \in Configs
  /\ kind \in [Requests -> Kinds]
  /\ phase \in [Requests -> Phases]
  /\ model \in [Requests -> Models]
  /\ swept \in [Requests -> Seq(Issues)]
  /\ result \in [Requests -> Results]
  /\ confirmed \in [Requests -> Confirmations]
  /\ answer \in [Requests -> Answers]
  /\ audit \in Seq(LogEntries)
  /\ lost \subseteq Requests \X {"rules", "verify", "final"}
  /\ crashes \in 0..MaxCrashes

\* Whether the code came to write a line, and whether the client was told of a review.
Attempted(r, what) == Entries(r, what) # {} \/ <<r, what>> \in lost
SawReview(r) ==
  \/ answer[r].kind = "review"
  \/ answer[r].kind = "error" /\ answer[r].stage = "review"

\* The audit trail tells of a review what its client saw: one entry with the verdict, the
\* number of issues and the model of the answer, which precedes the answer.  A request
\* that was answered without a review has none, not even when it failed; and a review has
\* none, with nothing to tell the two apart, when its line could not be written.
AnswersAreAudited ==
  \A r \in Requests :
    LET finals == Entries(r, "final")
    IN  /\ \A i, j \in finals : i = j
        /\ answer[r].kind # "none" => (SawReview(r) <=> Attempted(r, "final"))
        /\ answer[r].kind = "review" =>
             \A i \in finals : /\ audit[i].verdict = answer[r].verdict
                               /\ audit[i].count = Len(answer[r].issues)
                               /\ audit[i].model = answer[r].model

\* The positions of the issues that the verifier did not reject.
Surviving(issues, verdict) ==
  {i \in DOMAIN issues : verdict.kind = "none" \/ i - 1 \in verdict.indices}

\* Verification is a filter that fails open: it never silences a review that found
\* something, reports exactly the confirmed issues if any is, and all of them if
\* the verifier rejected all or could not be understood.
VerificationFailsOpen ==
  \A r \in Requests :
    answer[r].kind = "review" =>
      LET survivors == Surviving(swept[r], confirmed[r])
          reported  == answer[r].issues
      IN  /\ swept[r] # << >> => reported # << >>
          /\ Len(reported) = IF survivors = {} THEN Len(swept[r]) ELSE Cardinality(survivors)
          /\ survivors # {} => ToSet(reported) = {swept[r][i] : i \in survivors}

\* No finding of an ultra review is reported before it was verified: the trail shows the
\* verification before the review, unless that line could not be written.
UltraIsVerified ==
  \A r \in Requests :
    kind[r].method = "review" /\ kind[r].ultra =>
      \A i \in Entries(r, "final") :
        audit[i].count > 0 => <<r, "verify">> \in lost \/ \E j \in Entries(r, "verify") : j < i

\* A handler that never ends waits for git, which nothing stops, or for a call that only the
\* client can stop and does not: the load API, claude or an analyzer (PreflightLoad, PRDiff,
\* Client.Chat).  Any other RPC ends, in an answer or with the daemon; so does that of a client
\* that goes away, unless it is git that hangs.
EveryRequestEnds ==
  \A r \in Requests :
    \/ <>(phase[r] \in {"done", "lost"})
    \/ <>[]AtGit(r)
    \/ ~kind[r].leaves /\ <>[]UntilClientLeaves(r)
=============================================================================
