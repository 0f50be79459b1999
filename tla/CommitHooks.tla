----------------------------- MODULE CommitHooks -----------------------------
(***************************************************************************)
(* Reviews around a commit.  .githooks/pre-commit runs `lm-review diff' and*)
(* decides about the commit, .githooks/post-commit runs it once more in the*)
(* background, and people run the other commands by hand.  Every review is *)
(* a process of its own: runReview of cmd/lm-review/main.go asks the daemon*)
(* and posts the answer as a comment on the pull request (UpsertComment of *)
(* internal/github/comment.go), one comment per scope.                     *)
(*                                                                         *)
(* Of an answer there is its verdict, whether its text holds the word BLOCK*)
(* and the scopes whose markers the text quotes; of a comment, whose review*)
(* it shows and the markers in it.  git, GitHub, the daemon and the people *)
(* are external.                                                           *)
(***************************************************************************)
EXTENDS Integers, Sequences, FiniteSets

CONSTANTS
  Processes,    \* the runs of lm-review in one behaviour
  Changes,      \* what the developer commits, one after the other
  Answers,      \* the answers of the daemon about some input
  PageSize,     \* the comments GitHub lists on one page
  MaxComments,  \* bound of the comments other people write
  Scopes,       \* those that are in use, of "diff", "pr", "repo" and "review"
  None

Verdicts == {"pass", "warn", "block", "skip"}
Answer   == [verdict : Verdicts, mentions : BOOLEAN, quotes : SUBSET Scopes]

ASSUME CommitHooksAssumption ==
  /\ Scopes \subseteq {"diff", "pr", "repo", "review"} /\ "diff" \in Scopes
  /\ Answers \subseteq Answer
  /\ PageSize \in Nat /\ MaxComments \in Nat
  /\ None \notin Processes \cup Changes \cup Answer \cup Scopes

VARIABLES
  todo,       \* the changes that were never staged
  staged,     \* the change in the index
  hook,       \* the process pre-commit waits for
  commits,    \* the changes committed, each with the process that reviewed it
  process,    \* the runs of lm-review
  comments,   \* of the pull request, oldest first
  latest,     \* the last process that got an answer, for each scope
  disturbed   \* what has happened to the comments of a scope

vars == <<todo, staged, hook, commits, process, comments, latest, disturbed>>

Repository == <<todo, staged, hook, commits>>
Comments   == <<comments, latest, disturbed>>

----------------------------------------------------------------------------
(* A run of lm-review *)

Unused == [pc |-> "unused", scope |-> "diff", input |-> None, answer |-> None,
           target |-> 0, posted |-> FALSE, commit |-> None]

Started(scope, commit) == [Unused EXCEPT !.pc = "started", !.scope = scope, !.commit = commit]

Set(p, run) == process' = [process EXCEPT ![p] = run]

\* What the other scopes review: a branch, the repository.
Other == "other"

NoChanges == [verdict |-> "skip", mentions |-> FALSE, quotes |-> {}]

Posting(scope) == {p \in Processes : process[p].scope = scope
                                     /\ process[p].pc \in {"answered", "found"}}

\* The daemon can't be reached: the review is skipped without an error.
Unavailable(p) ==
  /\ process[p].pc = "started"
  /\ Set(p, [process[p] EXCEPT !.pc = "skipped"])
  /\ UNCHANGED <<Repository, Comments>>

\* The daemon reads what there is to review, for a diff the index of that moment.
Read(p, input) ==
  /\ process[p].pc = "started"
  /\ input \in IF process[p].scope = "diff" THEN {staged} ELSE {Other, None}
  /\ Set(p, [process[p] EXCEPT !.pc = "asked", !.input = input])
  /\ UNCHANGED <<Repository, Comments>>

Fail(p) ==
  /\ process[p].pc = "asked"
  /\ Set(p, [process[p] EXCEPT !.pc = "failed"])
  /\ UNCHANGED <<Repository, Comments>>

\* The answer is printed; where there is nothing to review it says so.
Reviewed(p, answer) ==
  LET run == process[p] IN
  /\ run.pc = "asked"
  /\ run.input = None => answer = NoChanges
  /\ Set(p, [run EXCEPT !.pc = "answered", !.answer = answer])
  /\ latest' = [latest EXCEPT ![run.scope] = p]
  /\ disturbed' = disturbed \cup
       (IF Posting(run.scope) # {} THEN {<<"together", run.scope>>} ELSE {})
  /\ UNCHANGED <<Repository, comments>>

\* There is no open pull request, its comments can't be listed or writing fails.
NotPosted(p) ==
  /\ process[p].pc \in {"answered", "found"}
  /\ Set(p, [process[p] EXCEPT !.pc = "done", !.target = 0])
  /\ UNCHANGED <<Repository, Comments>>

\* Mutation of Marked: any comment of lm-review will do.
MutMarked(scope) == {i \in DOMAIN comments : i <= PageSize /\ comments[i].marks # {}}

\* The comments on the first page with the marker of the scope.
Marked(scope) == {i \in DOMAIN comments : i <= PageSize /\ scope \in comments[i].marks}

\* The first of them, or 0 (findComment).
Comment(scope) ==
  IF Marked(scope) = {} THEN 0
  ELSE CHOOSE i \in Marked(scope) : \A j \in Marked(scope) : i <= j

Find(p) ==
  /\ process[p].pc = "answered"
  /\ Set(p, [process[p] EXCEPT !.pc = "found", !.target = Comment(process[p].scope)])
  /\ UNCHANGED <<Repository, Comments>>

\* What posting a text does to the comments of which scopes.
Posted(scope, quotes, at) ==
  disturbed \cup (IF quotes # {} THEN {"quote"} \X (quotes \cup {scope}) ELSE {})
            \cup (IF at > PageSize THEN {<<"page", scope>>} ELSE {})

Write(p, at) ==
  LET run  == process[p]
      body == [by |-> p, marks |-> {run.scope} \cup run.answer.quotes,
               first |-> IF at \in DOMAIN comments THEN comments[at].first ELSE run.scope]
  IN  /\ Set(p, [run EXCEPT !.pc = "done", !.target = 0, !.posted = TRUE])
      /\ comments' = IF at \in DOMAIN comments THEN [comments EXCEPT ![at] = body]
                                               ELSE Append(comments, body)
      /\ disturbed' = Posted(run.scope, run.answer.quotes, at)
      /\ UNCHANGED <<Repository, latest>>

\* Mutation of Update: an answer about nothing leaves the comment as it is.
MutUpdate(p) ==
  /\ process[p].pc = "found" /\ process[p].target # 0
  /\ IF process[p].answer = NoChanges
       THEN /\ Set(p, [process[p] EXCEPT !.pc = "done", !.target = 0, !.posted = TRUE])
            /\ UNCHANGED <<Repository, Comments>>
       ELSE Write(p, process[p].target)

Update(p) ==
  /\ process[p].pc = "found" /\ process[p].target # 0
  /\ Write(p, process[p].target)

\* Mutation of Create: a comment for each answer.
MutCreate(p) == process[p].pc \in {"answered", "found"} /\ Write(p, Len(comments) + 1)

Create(p) ==
  /\ process[p].pc = "found" /\ process[p].target = 0
  /\ Write(p, Len(comments) + 1)

----------------------------------------------------------------------------
(* The developer and the hooks *)

Stage(change) ==
  /\ change \in todo /\ staged = None /\ hook = None
  /\ staged' = change /\ todo' = todo \ {change}
  /\ UNCHANGED <<hook, commits, process, Comments>>

\* git commit runs pre-commit, which runs `lm-review diff'.
PreCommit(p) ==
  /\ staged # None /\ hook = None
  /\ process[p].pc = "unused"
  /\ hook' = p
  /\ Set(p, Started("diff", None))
  /\ UNCHANGED <<todo, staged, commits, Comments>>

Ended(p) == process[p].pc \in {"skipped", "failed", "done"}

\* Whether the command reports an error: the repo command does not for a verdict.
Fails(p) ==
  \/ process[p].pc = "failed"
  \/ process[p].pc = "done" /\ process[p].answer.verdict = "block" /\ process[p].scope # "repo"

\* Whether BLOCK is in the output: the verdict is printed in capitals.
SaysBlock(p) ==
  /\ process[p].answer # None
  /\ process[p].answer.verdict = "block" \/ process[p].answer.mentions

Refuse ==
  /\ hook # None
  /\ Ended(hook) /\ ~Fails(hook) /\ SaysBlock(hook)
  /\ hook' = None
  /\ UNCHANGED <<todo, staged, commits, process, Comments>>

\* An error of the command lets the commit pass; post-commit starts q and does not wait.
Commit(q) ==
  /\ hook # None
  /\ Ended(hook)
  /\ Fails(hook) \/ ~SaysBlock(hook)
  /\ process[q].pc = "unused"
  /\ commits' = Append(commits, [change |-> staged, review |-> hook])
  /\ staged' = None /\ hook' = None
  /\ Set(q, Started("diff", staged))
  /\ UNCHANGED <<todo, Comments>>

\* Somebody runs a command by hand or in the background.
Invoke(p, scope) ==
  /\ process[p].pc = "unused"
  /\ Set(p, Started(scope, None))
  /\ UNCHANGED <<Repository, Comments>>

\* Somebody else comments, and may quote.
OthersComment(marks) ==
  /\ Cardinality({i \in DOMAIN comments : comments[i].by = None}) < MaxComments
  /\ comments' = Append(comments, [by |-> None, marks |-> marks, first |-> None])
  /\ disturbed' = disturbed \cup ({"quote"} \X marks)
  /\ UNCHANGED <<Repository, process, latest>>

----------------------------------------------------------------------------
Init ==
  /\ todo = Changes /\ staged = None /\ hook = None /\ commits = <<>>
  /\ process = [p \in Processes |-> Unused]
  /\ comments = <<>>
  /\ latest = [s \in Scopes |-> None]
  /\ disturbed = {}

Step(p) ==
  \/ Unavailable(p)
  \/ \E input \in Changes \cup {Other, None} : Read(p, input)
  \/ Fail(p)
  \/ \E answer \in Answers \cup {NoChanges} : Reviewed(p, answer)
  \/ NotPosted(p)
  \/ Find(p)
  \/ Update(p)
  \/ Create(p)

Next ==
  \/ \E change \in Changes : Stage(change)
  \/ \E p \in Processes : PreCommit(p) \/ Commit(p) \/ Step(p)
  \/ Refuse
  \/ \E p \in Processes, scope \in Scopes : Invoke(p, scope)
  \/ \E marks \in SUBSET Scopes : OthersComment(marks)

Spec == Init /\ [][Next]_vars
----------------------------------------------------------------------------
(* Properties *)

Run == [pc : {"unused", "started", "asked", "answered", "found", "done", "failed", "skipped"},
        scope : Scopes, input : Changes \cup {Other, None}, answer : Answer \cup {None},
        target : Nat, posted : BOOLEAN, commit : Changes \cup {None}]

Post == [by : Processes \cup {None}, marks : SUBSET Scopes, first : Scopes \cup {None}]

\* Every variable has its type; a process that writes has an answer, and knows of no
\* comment but one that is there and on the first page.
TypeOK ==
  /\ todo \subseteq Changes /\ staged \in Changes \cup {None}
  /\ hook \in Processes \cup {None}
  /\ commits \in Seq([change : Changes, review : Processes])
  /\ process \in [Processes -> Run]
  /\ comments \in Seq(Post)
  /\ latest \in [Scopes -> Processes \cup {None}]
  /\ disturbed \subseteq {"together", "page", "quote"} \X Scopes
  /\ \A p \in Processes :
       /\ process[p].pc \in {"answered", "found", "done"} <=> process[p].answer # None
       /\ process[p].target \in 0..Len(comments) /\ process[p].target <= PageSize

Calm(scope)    == \A event \in {"together", "page", "quote"} : <<event, scope>> \notin disturbed
ShownBy(i)     == IF comments[i].by = None THEN None ELSE process[comments[i].by].scope
Shown(scope)   == {i \in DOMAIN comments : ShownBy(i) = scope}

\* A pull request has one comment for a scope, unless two reviews of the scope posted at the
\* same time, the first page was full or a text quoted its marker (UpsertComment).
OneComment ==
  \A s \in Scopes : Calm(s) => \A i, j \in Shown(s) : i = j

\* A comment stays with the scope or the person it is from: a review overwrites no comment but
\* its scope's, unless a text about that scope or from it quotes a marker (findComment,
\* updateComment).
CommentKept ==
  \A i \in DOMAIN comments :
    ShownBy(i) # comments[i].first =>
      \A s \in {ShownBy(i), comments[i].first} \cap Scopes : <<"quote", s>> \in disturbed

\* When the last answer of a scope was posted, it is the scope's comment and the one the next
\* review finds, whatever other scopes and people post meanwhile.
CommentCurrent ==
  \A s \in Scopes :
    /\ Calm(s)
    /\ latest[s] # None /\ process[latest[s]].posted
    => Comment(s) # 0 /\ comments[Comment(s)].by = latest[s]

\* .githooks/pre-commit: "Blocks the commit if verdict is block".
BlockStopsCommit ==
  \A k \in DOMAIN commits :
    LET answer == process[commits[k].review].answer
    IN  answer # None => answer.verdict # "block"

=============================================================================
