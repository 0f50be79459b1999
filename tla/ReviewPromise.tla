--------------------------- MODULE ReviewPromise ---------------------------
(***************************************************************************)
(* What a review of prepared input promises its caller, with no threads in *)
(* it: every chunk is answered once, in any order, and then the review     *)
(* ends once, in an error or in a result that is a function of the answers *)
(* alone.  ChunkedReview (internal/review/chunked.go) is shown to          *)
(* implement it.                                                           *)
(*                                                                         *)
(* The merged result is described here by what it must satisfy, and        *)
(* computed in ReviewResult!MergeResults the way the code does.            *)
(***************************************************************************)
EXTENDS ReviewResult

CONSTANT Bodies    \* the readable answers a model may give

VARIABLES
  total,     \* how many chunks the input was split into
  reply,     \* what came of each chunk's chat call
  outcome    \* what the caller got

vars == <<total, reply, outcome>>

Reply == {[kind |-> k] : k \in {"none", "failed", "cancelled", "garbled"}}
           \cup [kind : {"result"}, body : Bodies, looped : BOOLEAN]
NoReply == [kind |-> "none"]

NoOutcome  == [kind |-> "none"]
ErrorOf(c) == [kind |-> "error", chunk |-> c]

Parts == 1..total
Parsed(c) == Parse(reply[c].body)

\* Chunks a failed call makes the whole review fail for.  A review in one piece
\* also fails on an answer it can't read or one the repetition detector flagged.
Fatal(c) ==
  \/ reply[c].kind \in {"failed", "cancelled"}
  \/ /\ total = 1
     /\ \/ reply[c].kind = "garbled"
        \/ reply[c].kind = "result" /\ reply[c].looped

Readable == {c \in Parts : reply[c].kind = "result"}

\* Whether position i of chunk c holds the first issue with its key in the input.
IsFirstReport(c, i) ==
  \A d \in Readable : \A j \in DOMAIN Parsed(d).issues :
    (d < c \/ (d = c /\ j < i))
      => IssueKey(Parsed(d).issues[j]) # IssueKey(Parsed(c).issues[i])

\* The issues of r are the first reports of the readable chunks, each once,
\* errors first.
HasFirstReports(r) ==
  LET reports == UNION {{<<c, i>> : i \in DOMAIN Parsed(c).issues} : c \in Readable}
      kept    == {p \in reports : IsFirstReport(p[1], p[2])}
  IN  /\ {r.issues[k] : k \in DOMAIN r.issues} = {Parsed(p[1]).issues[p[2]] : p \in kept}
      /\ Len(r.issues) = Cardinality(kept)
      /\ \A k \in 2..Len(r.issues) : MayPrecede(r.issues[k - 1], r.issues[k])

\* The verdict of r is the heaviest given by a readable chunk, "pass" if none weighs.
HasHeaviestVerdict(r) ==
  /\ \A c \in Readable : VerdictWeight(Parsed(c).verdict) <= VerdictWeight(r.verdict)
  /\ r.verdict = "pass" \/ \E c \in Readable : Parsed(c).verdict = r.verdict

IsReviewOf(r) ==
  IF total = 1
    THEN r = Parsed(1)
    ELSE /\ HasFirstReports(r)
         /\ HasHeaviestVerdict(r)
         /\ r.stats = RecalcStats(r.issues)

Init ==
  /\ total \in Nat \ {0}
  /\ \A c \in DOMAIN reply : reply[c] = NoReply
  /\ outcome = NoOutcome

Answered(c) ==
  /\ reply[c] = NoReply
  /\ reply'[c] \in Reply \ {NoReply}
  /\ reply' = [reply EXCEPT ![c] = reply'[c]]
  /\ UNCHANGED <<total, outcome>>

Conclude ==
  /\ outcome = NoOutcome
  /\ \A c \in Parts : reply[c] # NoReply
  /\ \/ \E c \in Parts : Fatal(c) /\ outcome' = ErrorOf(c)
     \/ /\ ~\E c \in Parts : Fatal(c)
        /\ outcome'.kind = "result"
        /\ IsReviewOf(outcome'.result)
  /\ UNCHANGED <<total, reply>>

Next == Conclude \/ \E c \in Parts : Answered(c)

Spec == Init /\ [][Next]_vars

=============================================================================
