--------------------------- MODULE ChunkedReview ---------------------------
(***************************************************************************)
(* One review of prepared input (internal/review/chunked.go and            *)
(* ReviewInput of reviewer.go): the input is split into chunks, an         *)
(* errgroup limited to `limit' goroutines asks the model about each, the   *)
(* first error cancels the calls of the others, and once every goroutine   *)
(* is done the results are merged.  Input that gives a single chunk takes  *)
(* no errgroup and is held to a stricter reading of its answer.            *)
(*                                                                         *)
(* The splitting itself is abstracted to the number of chunks it gives.    *)
(* The backend is external: a call may answer anything, fail, or time out; *)
(* a call whose context is done ends without an answer.                    *)
(***************************************************************************)
EXTENDS ReviewResult

CONSTANTS
  MaxChunks,      \* bound on the number of chunks an input is split into
  Parallelisms,   \* the values config's chunk parallelism may have
  Bodies          \* the readable answers the model may give

ASSUME ChunkedReviewAssumption ==
  /\ MaxChunks \in Nat \ {0}
  /\ Parallelisms \subseteq Int
  /\ Parallelisms # {}
  /\ \A body \in Bodies : body.issues \in Seq(Issues)

VARIABLES
  total,       \* len(chunks)
  limit,       \* the errgroup's limit, SetLimit(parallelism)
  launched,    \* how many goroutines the loop has started
  stage,       \* where the goroutine of each chunk is
  reply,       \* what its chat call gave
  results,     \* the slice results: chunk indices in the order they were appended
  groupErr,    \* the chunk whose error the errgroup kept, 0 for none
  clientGone,  \* the caller's context was cancelled
  outcome      \* what ChunkedReview returned

vars == <<total, limit, launched, stage, reply, results, groupErr, clientGone, outcome>>

Chunks == 1..MaxChunks

\* waiting: not launched; started: before the chat call; calling: the backend works
\* on it; replied: the call returned; returned: the function returned, its errgroup
\* slot still held; released: the slot is free.
Stages == {"waiting", "started", "calling", "replied", "returned", "released"}

NoReply    == [kind |-> "none"]
Failed     == [kind |-> "failed"]      \* an error and no text
Cancelled  == [kind |-> "cancelled"]   \* the same, because the context is done
Garbled    == [kind |-> "garbled"]     \* text Parse can't read
\* Readable text; looped: the repetition detector returned an error beside it.
Answers    == [kind : {"result"}, body : Bodies, looped : BOOLEAN]
Reply      == {NoReply, Failed, Cancelled, Garbled} \cup Answers

NoOutcome   == [kind |-> "none"]
ErrorOf(c)  == [kind |-> "error", chunk |-> c]
ResultOf(r) == [kind |-> "result", result |-> r]

\* Goroutines that hold a slot of the errgroup's semaphore.
Active  == {c \in Chunks : stage[c] \in {"started", "calling", "replied", "returned"}}
InFlight == {c \in Chunks : stage[c] = "calling"}

\* gctx is done once the caller is gone or the group has an error.
ContextDone == clientGone \/ groupErr # 0

----------------------------------------------------------------------------
\* A parallelism below 1 counts as 1.
LimitOf(parallelism) == IF parallelism < 1 THEN 1 ELSE parallelism

Init ==
  /\ total \in Chunks
  /\ \E p \in Parallelisms : limit = LimitOf(p)
  /\ launched = IF total = 1 THEN 1 ELSE 0
  /\ stage = [c \in Chunks |-> IF total = 1 /\ c = 1 THEN "started" ELSE "waiting"]
  /\ reply = [c \in Chunks |-> NoReply]
  /\ results = << >>
  /\ groupErr = 0
  /\ clientGone = FALSE
  /\ outcome = NoOutcome

\* The definitions whose names begin with Mut are mutations: a run puts one in place of the
\* definition that follows it, to see that the properties notice.  Here, one slot more.
MutLaunchOneTooMany ==
  /\ launched < total
  /\ Cardinality(Active) <= limit
  /\ launched' = launched + 1
  /\ stage' = [stage EXCEPT ![launched + 1] = "started"]
  /\ UNCHANGED <<total, limit, reply, results, groupErr, clientGone, outcome>>

\* g.Go of the loop: it blocks while every slot is taken and does not look at
\* gctx, so the chunks after a failed one are launched too.
Launch ==
  /\ launched < total
  /\ Cardinality(Active) < limit
  /\ launched' = launched + 1
  /\ stage' = [stage EXCEPT ![launched + 1] = "started"]
  /\ UNCHANGED <<total, limit, reply, results, groupErr, clientGone, outcome>>

\* The chat call reaches the backend; with its context done it does not.
CallBackend(c) ==
  /\ stage[c] = "started"
  /\ ~ContextDone
  /\ stage' = [stage EXCEPT ![c] = "calling"]
  /\ UNCHANGED <<total, limit, launched, reply, results, groupErr, clientGone, outcome>>

\* A call ends because its context is done, before or while the backend works on it.
CallCancelled(c) ==
  /\ stage[c] \in {"started", "calling"}
  /\ ContextDone
  /\ stage' = [stage EXCEPT ![c] = "replied"]
  /\ reply' = [reply EXCEPT ![c] = Cancelled]
  /\ UNCHANGED <<total, limit, launched, results, groupErr, clientGone, outcome>>

\* The backend answers, fails, or the request timeout fires.
BackendReplies(c) ==
  /\ stage[c] = "calling"
  /\ \E r \in {Failed, Garbled} \cup Answers :
       reply' = [reply EXCEPT ![c] = r]
  /\ stage' = [stage EXCEPT ![c] = "replied"]
  /\ UNCHANGED <<total, limit, launched, results, groupErr, clientGone, outcome>>

\* An append without the mutex: one of two appends at the same time is lost.
MutReturnUnlocked(c) ==
  /\ total > 1
  /\ stage[c] = "replied"
  /\ stage' = [stage EXCEPT ![c] = "returned"]
  /\ groupErr' = IF reply[c].kind \in {"failed", "cancelled"} /\ groupErr = 0 THEN c ELSE groupErr
  /\ results' = IF \/ reply[c].kind # "result"
                   \/ \E d \in Chunks \ {c} : stage[d] = "replied" /\ reply[d].kind = "result"
                  THEN results ELSE Append(results, c)
  /\ UNCHANGED <<total, limit, launched, reply, clientGone, outcome>>

\* The group keeps the last error instead of the first.
MutReturnLastError(c) ==
  /\ total > 1
  /\ stage[c] = "replied"
  /\ stage' = [stage EXCEPT ![c] = "returned"]
  /\ groupErr' = IF reply[c].kind \in {"failed", "cancelled"} THEN c ELSE groupErr
  /\ results' = IF reply[c].kind = "result" THEN Append(results, c) ELSE results
  /\ UNCHANGED <<total, limit, launched, reply, clientGone, outcome>>

\* The goroutine of one chunk ends.  An error beside readable text is ignored; text
\* that can't be read gives neither a result nor an error.
Return(c) ==
  /\ total > 1
  /\ stage[c] = "replied"
  /\ stage' = [stage EXCEPT ![c] = "returned"]
  /\ \/ /\ reply[c].kind \in {"failed", "cancelled"}
        /\ groupErr' = IF groupErr = 0 THEN c ELSE groupErr
        /\ UNCHANGED results
     \/ /\ reply[c].kind = "garbled"
        /\ UNCHANGED <<groupErr, results>>
     \/ /\ reply[c].kind = "result"
        /\ results' = Append(results, c)
        /\ UNCHANGED groupErr
  /\ UNCHANGED <<total, limit, launched, reply, clientGone, outcome>>

\* A function that ends without a result keeps its slot.
MutReleaseLeaks(c) ==
  /\ total > 1
  /\ stage[c] = "returned"
  /\ reply[c].kind # "garbled"
  /\ stage' = [stage EXCEPT ![c] = "released"]
  /\ UNCHANGED <<total, limit, launched, reply, results, groupErr, clientGone, outcome>>

\* errgroup's deferred done(): the slot is given back.
Release(c) ==
  /\ total > 1
  /\ stage[c] = "returned"
  /\ stage' = [stage EXCEPT ![c] = "released"]
  /\ UNCHANGED <<total, limit, launched, reply, results, groupErr, clientGone, outcome>>

\* The results are merged in the order in which they came.
MutNoSort(indices) == {indices}

\* sort.Slice on results by chunk index: the orders it may leave them in.  No index is
\* there twice, so there is one.
SortByIndex(indices) ==
  {sorted \in [DOMAIN indices -> ToSet(indices)] :
     \A i, j \in DOMAIN indices : i < j => sorted[i] < sorted[j]}

\* What the merge may make of the results in their final order.
Merged(order) == MergeResults([i \in DOMAIN order |-> Parse(reply[order[i]].body)])

\* g.Wait returns when every goroutine is done; nothing else runs after it.
Finish ==
  /\ total > 1
  /\ outcome = NoOutcome
  /\ launched = total
  /\ \A c \in 1..total : stage[c] = "released"
  /\ \/ /\ groupErr # 0
        /\ outcome' = ErrorOf(groupErr)
     \/ /\ groupErr = 0
        /\ \E order \in SortByIndex(results) :
             \E merged \in Merged(order) : outcome' = ResultOf(merged)
  /\ UNCHANGED <<total, limit, launched, stage, reply, results, groupErr, clientGone>>

\* ReviewInput, the path of a single chunk: any error of the call and any text that
\* can't be read is an error of the review.
ReviewInput ==
  /\ total = 1
  /\ stage[1] = "replied"
  /\ stage' = [stage EXCEPT ![1] = "released"]
  /\ outcome' = IF reply[1].kind = "result" /\ ~reply[1].looped
                  THEN ResultOf(Parse(reply[1].body))
                  ELSE ErrorOf(1)
  /\ UNCHANGED <<total, limit, launched, reply, results, groupErr, clientGone>>

\* The caller hangs up.
ClientLeaves ==
  /\ ~clientGone
  /\ outcome = NoOutcome
  /\ clientGone' = TRUE
  /\ UNCHANGED <<total, limit, launched, stage, reply, results, groupErr, outcome>>

Step(c) ==
  CallBackend(c) \/ CallCancelled(c) \/ BackendReplies(c) \/ Return(c) \/ Release(c)

Next == Launch \/ Finish \/ ReviewInput \/ ClientLeaves \/ \E c \in Chunks : Step(c)

\* The loop and each goroutine are scheduled, and every chat call ends: the client
\* has a request timeout.  Nobody has to hang up.
Fairness == /\ WF_vars(Launch) /\ WF_vars(Finish) /\ WF_vars(ReviewInput)
            /\ \A c \in Chunks : WF_vars(Step(c))

Spec     == Init /\ [][Next]_vars
FairSpec == Spec /\ Fairness

----------------------------------------------------------------------------
\* Every variable has its type, and the errgroup's limit lets at least one
\* goroutine run.
TypeOK ==
  /\ total \in Chunks
  /\ limit \in Nat \ {0}
  /\ launched \in 0..total
  /\ stage \in [Chunks -> Stages]
  /\ reply \in [Chunks -> Reply]
  /\ results \in Seq(Chunks)
  /\ groupErr \in 0..MaxChunks
  /\ clientGone \in BOOLEAN
  /\ \/ outcome \in {NoOutcome} \cup {ErrorOf(c) : c \in Chunks}
     \/ outcome = ResultOf(outcome.result)

\* The backend never works on more chunks of one review at a time than its
\* parallelism allows, although the loop launches a goroutine for every chunk.
BackendLoadBounded == Cardinality(InFlight) <= limit

\* At every moment the slice holds exactly the chunks whose goroutine returned with
\* readable text, each once: no append is lost to another one or made twice,
\* whatever the order in which the calls return.
NoAnswerLostOrCountedTwice ==
  /\ ToSet(results) = {c \in Chunks : /\ total > 1
                                      /\ stage[c] \in {"returned", "released"}
                                      /\ reply[c].kind = "result"}
  /\ IsInjective(results)

\* The error a review fails with is one the backend gave.  An error that is only the
\* echo of another chunk's failure (its call was cancelled) never takes its
\* place, unless the caller hung up.
RootCauseReported ==
  outcome.kind = "error" /\ ~clientGone => reply[outcome.chunk].kind # "cancelled"

\* A review that succeeds reports "block" whenever the answer to some chunk did,
\* however the answers were ordered and merged.
BlockNeverLost ==
  outcome.kind = "result" =>
    \A c \in 1..total :
      reply[c].kind = "result" /\ Parse(reply[c].body).verdict = "block"
        => outcome.result.verdict = "block"

\* ChunkedReview implements the sequential promise: what the caller gets is
\* a function of the answers, not of the schedule.  The goroutines, their slots and the
\* shared slice have no counterpart there; a step of theirs is a stutter.
P == INSTANCE ReviewPromise WITH
       Bodies <- Bodies, total <- total, reply <- reply, outcome <- outcome
Promise == P!Spec

\* Every review ends: the launch loop can't wait forever for a slot, nor g.Wait for
\* a goroutine.
Concludes == <>(outcome # NoOutcome)

=============================================================================
