-------------------------- MODULE CommitHooksProofs --------------------------
(***************************************************************************)
(* Proofs about CommitHooks: types, and what the comments of a scope are   *)
(* while nothing has disturbed them.                                       *)
(***************************************************************************)
EXTENDS CommitHooks, WellFoundedInduction, SequenceTheorems, TLAPS

----------------------------------------------------------------------------
(* The inductive invariant *)

Quoted(s) == <<"quote", s>> \in disturbed

\* A marker in a comment is its scope's, or quoted.
MarksInv ==
  \A i \in DOMAIN comments :
    LET comment == comments[i] IN
    /\ comment.by # None =>
         /\ process[comment.by].pc = "done"
         /\ process[comment.by].scope \in comment.marks
    /\ \A s \in comment.marks :
         s # ShownBy(i) => \A t \in {s, ShownBy(i)} \cap Scopes : Quoted(t)
    /\ i > PageSize /\ comment.first # None => <<"page", comment.first>> \in disturbed

\* Who is about to overwrite a comment is of its first scope, or somebody quoted.
TargetInv ==
  \A p \in Processes :
    LET run == process[p] IN
    run.pc = "found" /\ run.target # 0 /\ run.scope # comments[run.target].first =>
      \A t \in {run.scope, comments[run.target].first} \cap Scopes : Quoted(t)

\* Who posts got the last answer of its scope, and who is about to create a comment is right
\* that there is none, unless another one posts.
PostingInv ==
  \A p \in Processes :
    LET s == process[p].scope IN
    Calm(s) /\ p \in Posting(s) =>
      /\ latest[s] = p
      /\ process[p].pc = "found" /\ process[p].target = 0 =>
           \A i \in DOMAIN comments : comments[i].first # s

\* A scope has one comment, with the last answer if that was posted.
ScopeInv ==
  \A s \in Scopes : Calm(s) =>
    /\ \A i, j \in DOMAIN comments : comments[i].first = s /\ comments[j].first = s => i = j
    /\ latest[s] # None /\ process[latest[s]].posted =>
         \E i \in DOMAIN comments : comments[i].first = s /\ comments[i].by = latest[s]

\* The bookkeeping: a commit under way has a change; who posted and who got an answer.
RunInv ==
  /\ hook # None => staged # None
  /\ \A p \in Processes : process[p].posted => process[p].pc = "done"
  /\ \A s \in Scopes : latest[s] # None =>
       process[latest[s]].scope = s /\ process[latest[s]].answer # None

IInv ==
  /\ TypeOK
  /\ MarksInv
  /\ CommentKept
  /\ TargetInv
  /\ PostingInv
  /\ ScopeInv
  /\ RunInv

----------------------------------------------------------------------------
(* Single facts *)

LEMMA Typing ==
  ASSUME IInv
  PROVE  /\ process \in [Processes -> Run]
         /\ comments \in Seq(Post)
         /\ latest \in [Scopes -> Processes \cup {None}]
         /\ Len(comments) \in Nat /\ DOMAIN comments = 1..Len(comments)
         /\ \A i \in DOMAIN comments :
              comments[i] \in Post /\ ShownBy(i) \in Scopes \cup {None}
         /\ PageSize \in Nat /\ None \notin Scopes /\ None \notin Processes
<1>1. /\ process \in [Processes -> Run] /\ comments \in Seq(Post)
      /\ latest \in [Scopes -> Processes \cup {None}]
  BY DEF IInv, TypeOK
<1>2. Len(comments) \in Nat /\ DOMAIN comments = 1..Len(comments)
  BY <1>1
<1>3. \A i \in DOMAIN comments : comments[i] \in Post
  BY <1>1, <1>2, ElementOfSeq
<1>4. \A i \in DOMAIN comments : ShownBy(i) \in Scopes \cup {None}
  BY <1>1, <1>3 DEF ShownBy, Run, Post
<1> QED
  BY <1>1, <1>2, <1>3, <1>4, CommitHooksAssumption

\* The comment a review finds carries its marker and is the first to do so.
LEMMA Found ==
  ASSUME IInv, NEW s \in Scopes
  PROVE  /\ Comment(s) = 0 => Marked(s) = {}
         /\ Comment(s) # 0 => /\ Comment(s) \in Marked(s)
                              /\ \A j \in Marked(s) : Comment(s) <= j
         /\ Comment(s) \in 0..Len(comments) /\ Comment(s) <= PageSize
<1>1. Marked(s) \subseteq 1..Len(comments) /\ Marked(s) \subseteq Nat /\ PageSize \in Nat
  BY Typing DEF Marked
<1>2. CASE Marked(s) = {}
  BY <1>1, <1>2, Typing DEF Comment
<1>3. CASE Marked(s) # {}
  <2>1. PICK i \in Marked(s) : \A j \in Marked(s) : <<j, i>> \notin OpToRel(<, Nat)
    BY <1>1, <1>3, NatLessThanWellFounded, WFMin
  <2>2. ASSUME NEW j \in Marked(s) PROVE i <= j
    <3>1. ~(j < i)
      BY <1>1, <2>1 DEF OpToRel
    <3> QED
      BY <1>1, <3>1
  <2>3. /\ Comment(s) \in Marked(s)
        /\ \A j \in Marked(s) : Comment(s) <= j
    BY <1>3, <2>2 DEF Comment
  <2> QED
    BY <1>1, <2>3 DEF Marked
<1> QED
  BY <1>2, <1>3

\* A review that finds no comment is right about a scope that nothing has disturbed.
LEMMA NothingFound ==
  ASSUME IInv, NEW s \in Scopes, Calm(s), Comment(s) = 0, NEW i \in DOMAIN comments
  PROVE  comments[i].first # s
<1> SUFFICES ASSUME comments[i].first = s PROVE FALSE
  OBVIOUS
<1>1. ShownBy(i) = s
  BY Typing DEF IInv, CommentKept, Calm
<1>2. s \in comments[i].marks
  BY <1>1, Typing DEF IInv, MarksInv, ShownBy
<1>3. i > PageSize
  BY <1>2, Found, Typing DEF Marked
<1> QED
  BY <1>3, Typing DEF IInv, MarksInv, Calm

\* A comment that a review finds is its scope's, or somebody quoted.
LEMMA SomethingFound ==
  ASSUME IInv, NEW s \in Scopes, Comment(s) # 0, s # comments[Comment(s)].first,
         NEW t \in {s, comments[Comment(s)].first} \cap Scopes
  PROVE  Quoted(t)
<1> DEFINE i == Comment(s)
<1>1. i \in DOMAIN comments /\ s \in comments[i].marks
  BY Found DEF Marked
<1>2. CASE ShownBy(i) = s
  BY <1>1, <1>2 DEF IInv, CommentKept, Quoted
<1>3. CASE ShownBy(i) # s
  <2>1. \A u \in {s, ShownBy(i)} \cap Scopes : Quoted(u)
    BY <1>1, <1>3 DEF IInv, MarksInv
  <2>2. CASE ShownBy(i) = comments[i].first
    BY <2>1, <2>2
  <2>3. CASE ShownBy(i) # comments[i].first
    BY <1>1, <2>1, <2>3 DEF IInv, CommentKept, Quoted
  <2> QED
    BY <2>2, <2>3
<1> QED
  BY <1>2, <1>3

----------------------------------------------------------------------------
(* Steps of a process that leave the comments alone *)

LEMMA TypedStep ==
  ASSUME IInv, NEW p \in Processes, NEW new \in Run, Set(p, new), comments' = comments,
         todo' \subseteq Changes, staged' \in Changes \cup {None},
         hook' \in Processes \cup {None},
         commits' \in Seq([change : Changes, review : Processes]),
         latest' \in [Scopes -> Processes \cup {None}],
         disturbed' \subseteq {"together", "page", "quote"} \X Scopes,
         new.pc \in {"answered", "found", "done"} <=> new.answer # None,
         new.target \in 0..Len(comments), new.target <= PageSize
  PROVE  TypeOK'
BY DEF IInv, TypeOK, Set

LEMMA RunStep ==
  ASSUME IInv, NEW p \in Processes, NEW new \in Run, Set(p, new), UNCHANGED Comments, TypeOK',
         process[p].pc # "done", ~new.posted, new.answer = process[p].answer,
         process[p].pc # "unused" => new.scope = process[p].scope,
         new.pc \in {"answered", "found"} => process[p].pc = "answered",
         new.pc = "found" => new.target = Comment(process[p].scope),
         hook' # None => staged' # None
  PROVE  IInv'
<1>1. /\ process' = [process EXCEPT ![p] = new] /\ process \in [Processes -> Run]
      /\ comments' = comments /\ latest' = latest /\ disturbed' = disturbed
      /\ process'[p] = new /\ \A q \in Processes \ {p} : process'[q] = process[q]
  BY Typing DEF Set, Comments
<1>2. ASSUME NEW i \in DOMAIN comments PROVE ShownBy(i)' = ShownBy(i)
  BY <1>1, <1>2, Typing DEF ShownBy, IInv, MarksInv, Post
<1>3. MarksInv'
  BY <1>1, <1>2, Typing DEF IInv, MarksInv, Quoted, Post
<1>4. CommentKept'
  BY <1>1, <1>2 DEF IInv, CommentKept
<1>5. TargetInv'
  <2> SUFFICES ASSUME NEW q \in Processes, process'[q].pc = "found", process'[q].target # 0,
                      process'[q].scope # comments[process'[q].target].first,
                      NEW t \in {process'[q].scope, comments[process'[q].target].first} \cap Scopes
               PROVE  Quoted(t)
    BY <1>1 DEF TargetInv, Quoted
  <2>1. CASE q = p
    <3>1. process[p].pc = "answered" /\ new.scope = process[p].scope /\ new.scope \in Scopes
          /\ new.target = Comment(new.scope)
      BY <1>1, <2>1 DEF Run
    <3> QED
      BY <1>1, <2>1, <3>1, SomethingFound
  <2>2. CASE q # p
    BY <1>1, <2>2 DEF IInv, TargetInv
  <2> QED
    BY <2>1, <2>2
<1>6. PostingInv'
  <2> SUFFICES ASSUME NEW q \in Processes, Calm(process'[q].scope),
                      process'[q].pc \in {"answered", "found"}
               PROVE  /\ latest[process'[q].scope] = q
                      /\ process'[q].pc = "found" /\ process'[q].target = 0 =>
                           \A i \in DOMAIN comments : comments[i].first # process'[q].scope
    BY <1>1 DEF PostingInv, Calm, Posting
  <2>1. CASE q = p
    <3>1. process[p].pc = "answered" /\ new.scope = process[p].scope /\ new.scope \in Scopes
      BY <1>1, <2>1 DEF Run
    <3>2. latest[new.scope] = p
      BY <1>1, <2>1, <3>1 DEF IInv, PostingInv, Posting
    <3> QED
      BY <1>1, <2>1, <3>1, <3>2, NothingFound
  <2>2. CASE q # p
    BY <1>1, <2>2 DEF IInv, PostingInv, Posting
  <2> QED
    BY <2>1, <2>2
<1>7. ScopeInv'
  BY <1>1, Typing DEF IInv, ScopeInv, Calm
<1>8. RunInv'
  <2>1. \A q \in Processes : process'[q].posted => process'[q].pc = "done"
    BY <1>1 DEF IInv, RunInv
  <2>2. ASSUME NEW s \in Scopes, latest[s] # None
        PROVE  process'[latest[s]].scope = s /\ process'[latest[s]].answer # None
    <3>1. /\ latest[s] \in Processes /\ process[latest[s]].scope = s
          /\ process[latest[s]].answer # None
      BY <2>2, Typing DEF IInv, RunInv
    <3>2. process[latest[s]].pc # "unused"
      BY <3>1 DEF IInv, TypeOK
    <3> QED
      BY <1>1, <3>1, <3>2
  <2> QED
    BY <1>1, <2>1, <2>2 DEF RunInv
<1> QED
  BY <1>3, <1>4, <1>5, <1>6, <1>7, <1>8 DEF IInv

\* Starting a process keeps the invariant.
LEMMA StartInv ==
  ASSUME IInv, NEW p \in Processes, NEW scope \in Scopes, NEW commit \in Changes \cup {None},
         process[p].pc = "unused", Set(p, Started(scope, commit)), UNCHANGED Comments,
         todo' \subseteq Changes, staged' \in Changes \cup {None},
         hook' \in Processes \cup {None}, hook' # None => staged' # None,
         commits' \in Seq([change : Changes, review : Processes])
  PROVE  IInv'
<1> DEFINE new == Started(scope, commit)
<1>1. /\ new \in Run /\ new.answer = None /\ ~new.posted /\ new.pc = "started" /\ new.target = 0
  BY CommitHooksAssumption DEF Run, Started, Unused
<1>2. process[p].answer = None
  BY DEF IInv, TypeOK
<1>3. TypeOK'
  <2>1. new.target \in 0..Len(comments) /\ new.target <= PageSize
    BY <1>1, Typing
  <2> QED
    BY <1>1, <2>1, TypedStep DEF IInv, TypeOK, Comments
<1> QED
  BY <1>1, <1>2, <1>3, RunStep

\* A step of a process that has been started and does not write.
LEMMA WorkInv ==
  ASSUME IInv, NEW p \in Processes,
         \/ Unavailable(p) \/ Fail(p) \/ NotPosted(p) \/ Find(p)
         \/ \E input \in Changes \cup {Other, None} : Read(p, input)
  PROVE  IInv'
<1>1. /\ process[p] \in Run /\ PageSize \in Nat
      /\ process[p].target \in 0..Len(comments) /\ process[p].target <= PageSize
      /\ Comment(process[p].scope) \in 0..Len(comments) /\ Comment(process[p].scope) <= PageSize
      /\ Comment(process[p].scope) \in Nat /\ 0 \in 0..Len(comments) /\ 0 <= PageSize
  BY Typing, Found DEF IInv, TypeOK, Run
<1>2. PICK new \in Run :
        /\ Set(p, new) /\ process[p].pc \notin {"done", "unused"}
        /\ new.scope = process[p].scope /\ new.answer = process[p].answer
        /\ new.posted = process[p].posted
        /\ new.pc \in {"answered", "found"} => process[p].pc = "answered"
        /\ new.pc = "found" => new.target = Comment(process[p].scope)
        /\ new.pc \in {"answered", "found", "done"} <=> new.answer # None
        /\ new.target \in 0..Len(comments) /\ new.target <= PageSize
  <2>1. process[p].pc \in {"answered", "found", "done"} <=> process[p].answer # None
    BY DEF IInv, TypeOK
  <2>2. CASE Unavailable(p)
    <3> DEFINE new == [process[p] EXCEPT !.pc = "skipped"]
    <3>1. new \in Run /\ Set(p, new)
      BY <1>1, <2>2 DEF Run, Unavailable
    <3> QED
      BY <1>1, <2>1, <2>2, <3>1 DEF Run, Unavailable
  <2>3. CASE Fail(p)
    <3> DEFINE new == [process[p] EXCEPT !.pc = "failed"]
    <3>1. new \in Run /\ Set(p, new)
      BY <1>1, <2>3 DEF Run, Fail
    <3> QED
      BY <1>1, <2>1, <2>3, <3>1 DEF Run, Fail
  <2>4. CASE NotPosted(p)
    <3> DEFINE new == [process[p] EXCEPT !.pc = "done", !.target = 0]
    <3>1. new \in Run /\ Set(p, new)
      BY <1>1, <2>4 DEF Run, NotPosted
    <3> QED
      BY <1>1, <2>1, <2>4, <3>1 DEF Run, NotPosted
  <2>5. CASE Find(p)
    <3> DEFINE new == [process[p] EXCEPT !.pc = "found", !.target = Comment(process[p].scope)]
    <3>1. new \in Run /\ Set(p, new)
      BY <1>1, <2>5 DEF Run, Find
    <3> QED
      BY <1>1, <2>1, <2>5, <3>1 DEF Run, Find
  <2>6. CASE \E input \in Changes \cup {Other, None} : Read(p, input)
    <3>1. PICK input \in Changes \cup {Other, None} : Read(p, input)
      BY <2>6
    <3> DEFINE new == [process[p] EXCEPT !.pc = "asked", !.input = input]
    <3>2. new \in Run /\ Set(p, new)
      BY <1>1, <3>1 DEF Run, Read
    <3> QED
      BY <1>1, <2>1, <3>1, <3>2 DEF Run, Read
  <2> QED
    BY <2>2, <2>3, <2>4, <2>5, <2>6
<1>3. UNCHANGED <<Repository, Comments>>
  BY DEF Unavailable, Fail, NotPosted, Find, Read
<1>4. ~new.posted
  BY <1>1, <1>2 DEF IInv, RunInv, Run
<1>5. TypeOK'
  BY <1>2, <1>3, TypedStep DEF IInv, TypeOK, Repository, Comments
<1>6. hook' # None => staged' # None
  BY <1>3 DEF IInv, RunInv, Repository
<1> QED
  BY <1>2, <1>3, <1>4, <1>5, <1>6, RunStep

\* An answer makes its process the last of its scope, and tells if another one was posting.
LEMMA ReviewedInv ==
  ASSUME IInv, NEW p \in Processes, NEW answer \in Answers \cup {NoChanges},
         Reviewed(p, answer)
  PROVE  IInv'
<1> DEFINE new   == [process[p] EXCEPT !.pc = "answered", !.answer = answer]
           scope == process[p].scope
<1>1. /\ process[p] \in Run /\ process[p].pc = "asked" /\ scope \in Scopes
      /\ answer \in Answer /\ answer # None
  <2>1. NoChanges \in Answer
    BY DEF NoChanges, Answer, Verdicts
  <2>2. Answers \subseteq Answer /\ None \notin Answer
    BY CommitHooksAssumption
  <2> QED
    BY <2>1, <2>2, Typing DEF Reviewed, Run
<1>2. /\ new \in Run /\ Set(p, new) /\ new.scope = scope /\ new.pc = "answered"
      /\ new.answer = answer /\ new.posted = process[p].posted /\ new.target = process[p].target
  BY <1>1 DEF Reviewed, Run
<1> HIDE DEF new
<1>3. /\ process' = [process EXCEPT ![p] = new] /\ process \in [Processes -> Run]
      /\ comments' = comments /\ latest' = [latest EXCEPT ![scope] = p]
      /\ latest \in [Scopes -> Processes \cup {None}]
      /\ disturbed \subseteq disturbed' /\ UNCHANGED Repository
      /\ process'[p] = new /\ \A q \in Processes \ {p} : process'[q] = process[q]
      /\ Posting(scope) # {} => <<"together", scope>> \in disturbed'
  BY <1>1, <1>2, Typing DEF Reviewed, Set
<1>4. TypeOK'
  <2>1. disturbed' \subseteq {"together", "page", "quote"} \X Scopes
    BY <1>1 DEF Reviewed, IInv, TypeOK
  <2>2. new.target \in 0..Len(comments) /\ new.target <= PageSize
    BY <1>2 DEF IInv, TypeOK
  <2> QED
    BY <1>1, <1>2, <1>3, <2>1, <2>2, TypedStep DEF IInv, TypeOK, Repository
<1>5. ASSUME NEW i \in DOMAIN comments PROVE ShownBy(i)' = ShownBy(i)
  BY <1>1, <1>3, <1>5, Typing DEF ShownBy, IInv, MarksInv, Post
<1>6. MarksInv'
  BY <1>1, <1>3, <1>5, Typing DEF IInv, MarksInv, Quoted, Post
<1>7. CommentKept'
  BY <1>3, <1>5 DEF IInv, CommentKept
<1>8. TargetInv'
  BY <1>2, <1>3 DEF IInv, TargetInv, Quoted
<1>9. \A s \in Scopes : Calm(s)' => Calm(s)
  BY <1>3 DEF Calm
<1>10. PostingInv'
  <2> SUFFICES ASSUME NEW q \in Processes, NEW s, s = process'[q].scope, Calm(s)',
                      process'[q].pc \in {"answered", "found"}
               PROVE  /\ latest'[s] = q
                      /\ process'[q].pc = "found" /\ process'[q].target = 0 =>
                           \A i \in DOMAIN comments : comments[i].first # s
    BY <1>3 DEF PostingInv, Posting, Calm
  <2>1. CASE q = p
    BY <1>1, <1>2, <1>3, <2>1
  <2>2. CASE q # p
    <3>1. process'[q] = process[q] /\ process[q].scope = s /\ s \in Scopes
      BY <1>3, <2>2 DEF Run
    <3>2. q \in Posting(s)
      BY <3>1 DEF Posting
    <3>3. s # scope
      BY <1>3, <3>1, <3>2 DEF Calm
    <3> QED
      BY <1>3, <1>9, <3>1, <3>2, <3>3 DEF IInv, PostingInv
  <2> QED
    BY <2>1, <2>2
<1>11. ~process[p].posted
  BY <1>1 DEF IInv, RunInv
<1>12. ScopeInv'
  <2> SUFFICES ASSUME NEW s \in Scopes, Calm(s)
               PROVE  /\ \A i, j \in DOMAIN comments :
                           comments[i].first = s /\ comments[j].first = s => i = j
                      /\ latest'[s] # None /\ process'[latest'[s]].posted =>
                           \E i \in DOMAIN comments :
                             comments[i].first = s /\ comments[i].by = latest'[s]
    BY <1>3, <1>9 DEF ScopeInv
  <2>1. CASE s = scope
    BY <1>2, <1>3, <1>11, <2>1 DEF IInv, ScopeInv
  <2>2. CASE s # scope
    BY <1>2, <1>3, <1>11, <2>2, Typing DEF IInv, ScopeInv
  <2> QED
    BY <2>1, <2>2
<1>13. RunInv'
  BY <1>1, <1>2, <1>3, <1>11, Typing DEF IInv, RunInv, Repository
<1> QED
  BY <1>4, <1>6, <1>7, <1>8, <1>10, <1>12, <1>13 DEF IInv

\* A step that changes no process keeps the invariant if it changes no comment either.
LEMMA RepositoryInv ==
  ASSUME IInv, (\E change \in Changes : Stage(change)) \/ Refuse
  PROVE  IInv'
<1>1. process' = process /\ comments' = comments /\ latest' = latest /\ disturbed' = disturbed
  BY DEF Stage, Refuse, Comments
<1>2. TypeOK' /\ RunInv'
  BY <1>1 DEF IInv, TypeOK, RunInv, Stage, Refuse
<1>3. \A i \in DOMAIN comments : ShownBy(i)' = ShownBy(i)
  BY <1>1 DEF ShownBy
<1>4. MarksInv' /\ CommentKept' /\ TargetInv'
  BY <1>1, <1>3 DEF IInv, MarksInv, CommentKept, TargetInv, Quoted
<1>5. PostingInv' /\ ScopeInv'
  BY <1>1 DEF IInv, PostingInv, ScopeInv, Posting, Calm
<1> QED
  BY <1>2, <1>4, <1>5 DEF IInv

----------------------------------------------------------------------------
(* Steps that write a comment *)

\* What a sequence of comments becomes: one changes, or there is one more.
LEMMA NewComments ==
  ASSUME IInv, NEW body \in Post, NEW at \in 1..(Len(comments) + 1),
         comments' = IF at \in DOMAIN comments THEN [comments EXCEPT ![at] = body]
                                               ELSE Append(comments, body)
  PROVE  /\ comments' \in Seq(Post)
         /\ Len(comments') \in Nat /\ Len(comments) <= Len(comments')
         /\ DOMAIN comments' = DOMAIN comments \cup {at}
         /\ comments'[at] = body
         /\ \A i \in DOMAIN comments \ {at} : comments'[i] = comments[i]
<1>1. /\ comments \in Seq(Post) /\ Len(comments) \in Nat /\ DOMAIN comments = 1..Len(comments)
  BY Typing
<1>2. CASE at \in DOMAIN comments
  BY <1>1, <1>2, ExceptSeq
<1>3. CASE at \notin DOMAIN comments
  <2>1. at = Len(comments) + 1
    <3> DEFINE L == Len(comments)
    <3>1. L \in Nat /\ at \in 1..(L + 1) /\ at \notin 1..L
      BY <1>1, <1>3
    <3> HIDE DEF L
    <3>2. at = L + 1
      BY <3>1
    <3> QED
      BY <3>2 DEF L
  <2>2. comments' = Append(comments, body)
    BY <1>3
  <2>3. /\ Append(comments, body) \in Seq(Post)
        /\ Len(Append(comments, body)) = Len(comments) + 1
        /\ \A i \in 1..Len(comments) : Append(comments, body)[i] = comments[i]
        /\ Append(comments, body)[Len(comments) + 1] = body
    BY <1>1, AppendProperties
  <2>4. DOMAIN Append(comments, body) = 1..(Len(comments) + 1)
    BY <2>3
  <2>5. 1..(Len(comments) + 1) = 1..Len(comments) \cup {Len(comments) + 1}
    BY <1>1
  <2> QED
    <3> DEFINE more == Append(comments, body)
    <3>1. DOMAIN more = DOMAIN comments \cup {at}
      BY <1>1, <2>1, <2>4, <2>5
    <3>2. \A i \in DOMAIN comments \ {at} : more[i] = comments[i]
      BY <1>1, <2>3
    <3>3. more[at] = body /\ Len(more) \in Nat /\ Len(comments) <= Len(more)
      BY <1>1, <2>1, <2>3
    <3> HIDE DEF more
    <3> QED
      BY <2>2, <2>3, <3>1, <3>2, <3>3 DEF more
<1> QED
  BY <1>2, <1>3

\* A comment of somebody else is of no scope.
LEMMA OthersCommentInv ==
  ASSUME IInv, NEW marks \in SUBSET Scopes, OthersComment(marks)
  PROVE  IInv'
<1> DEFINE body == [by |-> None, marks |-> marks, first |-> None]
<1>0. PICK at \in 1..(Len(comments) + 1) : at = Len(comments) + 1
  BY Typing
<1>1. /\ process' = process /\ latest' = latest /\ UNCHANGED Repository
      /\ disturbed' = disturbed \cup ({"quote"} \X marks)
      /\ body \in Post /\ body.by = None /\ body.first = None /\ body.marks = marks
      /\ at \notin DOMAIN comments
  BY <1>0, Typing DEF OthersComment, Post
<1>2. comments' = IF at \in DOMAIN comments THEN [comments EXCEPT ![at] = body]
                                            ELSE Append(comments, body)
  BY <1>0, <1>1 DEF OthersComment
<1> HIDE DEF body
<1>3. /\ comments' \in Seq(Post) /\ Len(comments') \in Nat /\ Len(comments) <= Len(comments')
      /\ DOMAIN comments' = DOMAIN comments \cup {at} /\ comments'[at] = body
      /\ \A i \in DOMAIN comments : comments'[i] = comments[i]
  BY <1>1, <1>2, NewComments
<1>4. \A i \in DOMAIN comments : ShownBy(i)' = ShownBy(i)
  BY <1>1, <1>3 DEF ShownBy
<1>5. ShownBy(at)' = None
  BY <1>1, <1>3 DEF ShownBy
<1>6. disturbed \subseteq disturbed' /\ \A s \in marks : Quoted(s)'
  BY <1>1 DEF Quoted
<1>7. TypeOK'
  <2>1. disturbed' \subseteq {"together", "page", "quote"} \X Scopes
    BY <1>1 DEF IInv, TypeOK
  <2>2. ASSUME NEW q \in Processes PROVE process[q].target \in 0..Len(comments')
    BY <1>3, Typing DEF IInv, TypeOK
  <2> QED
    BY <1>1, <1>3, <2>1, <2>2 DEF IInv, TypeOK, Repository
<1>8. MarksInv'
  <2>1. ASSUME NEW i \in DOMAIN comments
        PROVE  /\ comments'[i].by # None =>
                    /\ process'[comments'[i].by].pc = "done"
                    /\ process'[comments'[i].by].scope \in comments'[i].marks
               /\ \A s \in comments'[i].marks :
                    s # ShownBy(i)' => \A t \in {s, ShownBy(i)'} \cap Scopes : Quoted(t)'
               /\ i > PageSize /\ comments'[i].first # None =>
                    <<"page", comments'[i].first>> \in disturbed'
    BY <1>1, <1>3, <1>4, <1>6 DEF IInv, MarksInv, Quoted
  <2>2. /\ comments'[at].by = None /\ comments'[at].first = None
        /\ \A s \in comments'[at].marks : \A t \in {s, ShownBy(at)'} \cap Scopes : Quoted(t)'
    BY <1>1, <1>3, <1>5, <1>6, CommitHooksAssumption
  <2> QED
    BY <1>3, <2>1, <2>2 DEF MarksInv
<1>9. CommentKept'
  <2>1. \A i \in DOMAIN comments : ShownBy(i)' # comments'[i].first =>
          \A s \in {ShownBy(i)', comments'[i].first} \cap Scopes : <<"quote", s>> \in disturbed'
    BY <1>3, <1>4, <1>6 DEF IInv, CommentKept
  <2>2. ShownBy(at)' = comments'[at].first
    BY <1>1, <1>3, <1>5
  <2> QED
    BY <1>3, <2>1, <2>2 DEF CommentKept
<1>10. TargetInv'
  <2>1. \A q \in Processes : process[q].target # 0 => process[q].target \in DOMAIN comments
    BY Typing DEF IInv, TypeOK
  <2> QED
    BY <1>1, <1>3, <1>6, <2>1 DEF IInv, TargetInv, Quoted
<1>11. \A s : Calm(s)' => Calm(s)
  BY <1>6 DEF Calm
<1>12. \A s \in Scopes : comments'[at].first # s
  BY <1>1, <1>3, CommitHooksAssumption
<1>13. \A q \in Processes : process[q].scope \in Scopes
  BY Typing DEF Run
<1>14. PostingInv'
  BY <1>1, <1>3, <1>11, <1>12, <1>13 DEF IInv, PostingInv, Posting
<1>15. ScopeInv'
  BY <1>1, <1>3, <1>11, <1>12 DEF IInv, ScopeInv
<1>16. RunInv'
  BY <1>1 DEF IInv, RunInv, Repository
<1> QED
  BY <1>7, <1>8, <1>9, <1>10, <1>14, <1>15, <1>16 DEF IInv

\* A review overwrites the comment it found, or adds one where it found none.
LEMMA WriteInv ==
  ASSUME IInv, NEW p \in Processes, Update(p) \/ Create(p)
  PROVE  IInv'
<1> DEFINE run   == process[p]
           scope == run.scope
           new   == [run EXCEPT !.pc = "done", !.target = 0, !.posted = TRUE]
<1>1. /\ run \in Run /\ run.pc = "found" /\ scope \in Scopes /\ run.answer \in Answer
      /\ run.answer # None /\ run.answer.quotes \subseteq Scopes
      /\ run.target \in 0..Len(comments) /\ run.target <= PageSize
  <2>1. run \in Run /\ run.pc = "found"
    BY Typing DEF Update, Create
  <2>2. run.answer # None
    BY <2>1 DEF IInv, TypeOK
  <2>3. run.answer \in Answer
    BY <2>1, <2>2 DEF Run
  <2> QED
    BY <2>1, <2>2, <2>3 DEF IInv, TypeOK, Run, Answer
<1>2. PICK at \in 1..(Len(comments) + 1) :
        /\ Write(p, at)
        /\ at \in DOMAIN comments => at = run.target
        /\ at \notin DOMAIN comments => run.target = 0
  <2>1. CASE Update(p)
    BY <1>1, <2>1, Typing DEF Update
  <2>2. CASE Create(p)
    <3>1. Len(comments) + 1 \in 1..(Len(comments) + 1) /\ Len(comments) + 1 \notin DOMAIN comments
      BY Typing
    <3> QED
      BY <3>1, <2>2 DEF Create
  <2> QED
    BY <2>1, <2>2
<1> DEFINE first == IF at \in DOMAIN comments THEN comments[at].first ELSE scope
           body  == [by |-> p, marks |-> {scope} \cup run.answer.quotes, first |-> first]
<1>3. /\ body \in Post /\ body.by = p /\ body.first = first
      /\ body.marks = {scope} \cup run.answer.quotes
  <2>1. first \in Scopes \cup {None}
    BY <1>1, Typing DEF Post
  <2> QED
    BY <1>1, <2>1 DEF Post
<1>4. /\ new \in Run /\ new.pc = "done" /\ new.posted /\ new.target = 0
      /\ new.scope = scope /\ new.answer = run.answer
  BY <1>1 DEF Run
<1>5. /\ Set(p, new) /\ UNCHANGED <<Repository, latest>>
      /\ comments' = IF at \in DOMAIN comments THEN [comments EXCEPT ![at] = body]
                                               ELSE Append(comments, body)
      /\ disturbed' = Posted(scope, run.answer.quotes, at)
  BY <1>2 DEF Write
<1>6. \* What is posted is of the scope that the comment was first of, or somebody quoted.
      first # scope => \A t \in {scope, first} \cap Scopes : Quoted(t)
  BY <1>1, <1>2, Typing DEF IInv, TargetInv
<1>7. /\ first \in Scopes \cup {None}
      /\ at \in DOMAIN comments => comments[at].first = first
      /\ at \notin DOMAIN comments => first = scope
      /\ at \in DOMAIN comments => at <= PageSize
  BY <1>1, <1>2, Typing DEF Post
<1> HIDE DEF body, first, new
<1>8. /\ comments' \in Seq(Post) /\ Len(comments') \in Nat /\ Len(comments) <= Len(comments')
      /\ DOMAIN comments' = DOMAIN comments \cup {at} /\ comments'[at] = body
      /\ \A i \in DOMAIN comments \ {at} : comments'[i] = comments[i]
  BY <1>3, <1>5, NewComments
<1>9. \A i \in DOMAIN comments : comments'[i].first = comments[i].first
  BY <1>3, <1>7, <1>8
<1>10. /\ process' = [process EXCEPT ![p] = new] /\ process \in [Processes -> Run]
       /\ process'[p] = new /\ \A q \in Processes \ {p} : process'[q] = process[q]
       /\ \A q \in Processes : process'[q].scope = process[q].scope
  BY <1>4, <1>5, Typing DEF Set
<1>11. /\ disturbed \subseteq disturbed'
       /\ run.answer.quotes # {} => \A t \in run.answer.quotes \cup {scope} : Quoted(t)'
       /\ at > PageSize => <<"page", scope>> \in disturbed'
  BY <1>5 DEF Posted, Quoted
<1>12. \A t : Quoted(t) => Quoted(t)'
  BY <1>11 DEF Quoted
<1>13. \A s : Calm(s)' => Calm(s) /\ ~Quoted(s)
  BY <1>11 DEF Calm, Quoted
<1>14. /\ \A i \in DOMAIN comments \ {at} : ShownBy(i)' = ShownBy(i)
       /\ ShownBy(at)' = scope
  <2>1. \A i \in DOMAIN comments \ {at} : ShownBy(i)' = ShownBy(i)
    BY <1>8, <1>10, Typing DEF ShownBy, Post
  <2>2. ShownBy(at)' = scope
    BY <1>3, <1>4, <1>8, <1>10, CommitHooksAssumption DEF ShownBy
  <2> QED
    BY <2>1, <2>2
<1>15. TypeOK'
  <2>1. disturbed' \subseteq {"together", "page", "quote"} \X Scopes
    BY <1>1, <1>5 DEF IInv, TypeOK, Posted
  <2>2. ASSUME NEW q \in Processes
        PROVE  /\ process'[q].pc \in {"answered", "found", "done"} <=> process'[q].answer # None
               /\ process'[q].target \in 0..Len(comments') /\ process'[q].target <= PageSize
    <3>1. CASE q = p
      BY <1>1, <1>4, <1>8, <1>10, <3>1, Typing
    <3>2. CASE q # p
      BY <1>8, <1>10, <3>2, Typing DEF IInv, TypeOK
    <3> QED
      BY <3>1, <3>2
  <2>3. process' \in [Processes -> Run]
    BY <1>4, <1>10
  <2> QED
    BY <1>5, <1>8, <2>1, <2>2, <2>3 DEF IInv, TypeOK, Repository
<1>16. MarksInv'
  <2>1. ASSUME NEW i \in DOMAIN comments \ {at}
        PROVE  /\ comments'[i].by # None =>
                    /\ process'[comments'[i].by].pc = "done"
                    /\ process'[comments'[i].by].scope \in comments'[i].marks
               /\ \A s \in comments'[i].marks :
                    s # ShownBy(i)' => \A t \in {s, ShownBy(i)'} \cap Scopes : Quoted(t)'
               /\ i > PageSize /\ comments'[i].first # None =>
                    <<"page", comments'[i].first>> \in disturbed'
    <3>1. comments'[i] = comments[i] /\ ShownBy(i)' = ShownBy(i)
      BY <1>8, <1>14
    <3>2. comments[i].by # None =>
            /\ process'[comments[i].by].pc = "done"
            /\ process'[comments[i].by].scope \in comments[i].marks
      BY <1>4, <1>10, Typing DEF IInv, MarksInv, Post
    <3> QED
      BY <1>11, <1>12, <3>1, <3>2 DEF IInv, MarksInv
  <2>2. /\ comments'[at].by = p /\ process'[p].pc = "done"
        /\ process'[p].scope \in comments'[at].marks
    BY <1>3, <1>4, <1>8, <1>10
  <2>3. \A s \in comments'[at].marks :
          s # ShownBy(at)' => \A t \in {s, ShownBy(at)'} \cap Scopes : Quoted(t)'
    BY <1>3, <1>8, <1>11, <1>14
  <2>4. at > PageSize => <<"page", comments'[at].first>> \in disturbed'
    <3>1. at > PageSize => at \notin DOMAIN comments
      BY <1>7, Typing
    <3> QED
      BY <1>3, <1>7, <1>8, <1>11, <3>1
  <2> QED
    BY <1>8, <2>1, <2>2, <2>3, <2>4 DEF MarksInv
<1>17. CommentKept'
  <2>1. \A i \in DOMAIN comments \ {at} : ShownBy(i)' # comments'[i].first =>
          \A s \in {ShownBy(i)', comments'[i].first} \cap Scopes : <<"quote", s>> \in disturbed'
    BY <1>8, <1>11, <1>14 DEF IInv, CommentKept
  <2>2. ShownBy(at)' # comments'[at].first =>
          \A s \in {ShownBy(at)', comments'[at].first} \cap Scopes : <<"quote", s>> \in disturbed'
    BY <1>3, <1>6, <1>8, <1>11, <1>14 DEF Quoted
  <2> QED
    BY <1>8, <2>1, <2>2 DEF CommentKept
<1>18. TargetInv'
  <2> SUFFICES ASSUME NEW q \in Processes, process'[q].pc = "found", process'[q].target # 0,
                      process'[q].scope # comments'[process'[q].target].first,
                      NEW t \in {process'[q].scope, comments'[process'[q].target].first} \cap Scopes
               PROVE  Quoted(t)'
    BY DEF TargetInv
  <2>1. q # p /\ process'[q] = process[q]
    BY <1>4, <1>10
  <2>2. process[q].target \in DOMAIN comments
    BY <2>1, Typing DEF IInv, TypeOK
  <2> QED
    BY <1>9, <1>12, <2>1, <2>2 DEF IInv, TargetInv
<1>19. \* In a calm scope, this process got the last answer and knows the scope's comment.
       Calm(scope) => /\ latest[scope] = p
                      /\ at \notin DOMAIN comments =>
                           \A i \in DOMAIN comments : comments[i].first # scope
  <2>1. p \in Posting(scope)
    BY <1>1 DEF Posting
  <2> QED
    BY <1>1, <1>2, <2>1 DEF IInv, PostingInv
<1>20. PostingInv'
  <2> SUFFICES ASSUME NEW q \in Processes, NEW s, s = process'[q].scope, Calm(s)',
                      process'[q].pc \in {"answered", "found"}
               PROVE  /\ latest[s] = q
                      /\ process'[q].pc = "found" /\ process'[q].target = 0 =>
                           \A i \in DOMAIN comments' : comments'[i].first # s
    BY <1>5 DEF PostingInv, Posting
  <2>1. q # p /\ process'[q] = process[q] /\ process[q].scope = s /\ s \in Scopes
    BY <1>4, <1>10 DEF Run
  <2>2. Calm(s) /\ q \in Posting(s)
    BY <1>13, <2>1 DEF Posting
  <2>3. /\ latest[s] = q
        /\ process[q].pc = "found" /\ process[q].target = 0 =>
             \A i \in DOMAIN comments : comments[i].first # s
    BY <2>1, <2>2 DEF IInv, PostingInv
  <2>4. at \notin DOMAIN comments => first # s
    BY <1>7, <1>19, <2>1, <2>2, <2>3
  <2> QED
    BY <1>3, <1>7, <1>8, <1>9, <2>1, <2>3, <2>4
<1>21. ScopeInv'
  <2> SUFFICES ASSUME NEW s \in Scopes, Calm(s)'
               PROVE  /\ \A i, j \in DOMAIN comments' :
                           comments'[i].first = s /\ comments'[j].first = s => i = j
                      /\ latest[s] # None /\ process'[latest[s]].posted =>
                           \E i \in DOMAIN comments' :
                             comments'[i].first = s /\ comments'[i].by = latest[s]
    BY <1>5 DEF ScopeInv
  <2>1. Calm(s) /\ ~Quoted(s)
    BY <1>13
  <2>2. \A i, j \in DOMAIN comments : comments[i].first = s /\ comments[j].first = s => i = j
    BY <2>1 DEF IInv, ScopeInv
  <2>3. \A i, j \in DOMAIN comments' :
          comments'[i].first = s /\ comments'[j].first = s => i = j
    <3>1. CASE at \in DOMAIN comments
      BY <1>8, <1>9, <2>2, <3>1
    <3>2. CASE at \notin DOMAIN comments
      <4>1. comments'[at].first = scope
        BY <1>3, <1>7, <1>8, <3>2
      <4>2. s = scope => \A i \in DOMAIN comments : comments[i].first # s
        BY <1>19, <2>1, <3>2
      <4> QED
        BY <1>8, <1>9, <2>2, <4>1, <4>2
    <3> QED
      BY <3>1, <3>2
  <2>4. ASSUME latest[s] # None, process'[latest[s]].posted
        PROVE  \E i \in DOMAIN comments' :
                 comments'[i].first = s /\ comments'[i].by = latest[s]
    <3>1. CASE s = scope
      <4>1. latest[s] = p /\ first = s
        BY <1>6, <1>19, <2>1, <3>1
      <4> QED
        BY <1>3, <1>8, <4>1
    <3>2. CASE s # scope
      <4>1. latest[s] \in Processes /\ latest[s] # p
        BY <2>4, <3>2, Typing DEF IInv, RunInv
      <4>2. PICK i \in DOMAIN comments : comments[i].first = s /\ comments[i].by = latest[s]
        BY <1>10, <2>1, <2>4, <4>1 DEF IInv, ScopeInv
      <4>3. i # at
        BY <1>6, <1>7, <2>1, <3>2, <4>2
      <4> QED
        BY <1>8, <4>2, <4>3
    <3> QED
      BY <3>1, <3>2
  <2> QED
    BY <2>3, <2>4
<1>22. RunInv'
  <2>1. \A q \in Processes : process'[q].posted => process'[q].pc = "done"
    BY <1>4, <1>10 DEF IInv, RunInv
  <2>2. ASSUME NEW s \in Scopes, latest[s] # None
        PROVE  process'[latest[s]].scope = s /\ process'[latest[s]].answer # None
    BY <1>1, <1>4, <1>10, <2>2, Typing DEF IInv, RunInv
  <2> QED
    BY <1>5, <2>1, <2>2 DEF IInv, RunInv, Repository
<1> QED
  BY <1>15, <1>16, <1>17, <1>18, <1>20, <1>21, <1>22 DEF IInv

----------------------------------------------------------------------------
(* The invariant holds in every behaviour *)

LEMMA Start ==
  ASSUME Init
  PROVE  IInv
<1>1. /\ Unused \in Run /\ Unused.pc = "unused" /\ Unused.answer = None /\ Unused.target = 0
      /\ ~Unused.posted
  BY CommitHooksAssumption DEF Run, Unused
<1>2. /\ process = [p \in Processes |-> Unused] /\ comments = <<>> /\ hook = None
      /\ latest = [s \in Scopes |-> None] /\ disturbed = {}
  BY DEF Init
<1>3. comments \in Seq(Post) /\ Len(comments) = 0 /\ DOMAIN comments = {}
  BY <1>2
<1>4. \A p \in Processes : process[p] = Unused
  BY <1>2
<1>5. TypeOK
  <2>1. \A p \in Processes :
          /\ process[p].pc \in {"answered", "found", "done"} <=> process[p].answer # None
          /\ process[p].target \in 0..Len(comments) /\ process[p].target <= PageSize
    BY <1>1, <1>3, <1>4, CommitHooksAssumption
  <2>2. process \in [Processes -> Run]
    BY <1>1, <1>2
  <2>3. commits \in Seq([change : Changes, review : Processes])
    BY DEF Init
  <2> QED
    BY <1>2, <1>3, <2>1, <2>2, <2>3 DEF Init, TypeOK
<1>6. MarksInv /\ CommentKept
  BY <1>3 DEF MarksInv, CommentKept
<1>7. TargetInv /\ PostingInv
  BY <1>1, <1>4 DEF TargetInv, PostingInv, Posting
<1>8. ScopeInv /\ RunInv
  BY <1>1, <1>2, <1>3, <1>4 DEF ScopeInv, RunInv
<1> QED
  BY <1>5, <1>6, <1>7, <1>8 DEF IInv

LEMMA Keeps ==
  ASSUME IInv, [Next]_vars
  PROVE  IInv'
<1>1. ASSUME NEW p \in Processes, PreCommit(p) PROVE IInv'
  <2>1. /\ Set(p, Started("diff", None)) /\ process[p].pc = "unused" /\ UNCHANGED Comments
        /\ todo' = todo /\ staged' = staged /\ staged # None /\ hook' = p /\ commits' = commits
    BY <1>1 DEF PreCommit
  <2> QED
    BY <2>1, StartInv, CommitHooksAssumption DEF IInv, TypeOK
<1>2. ASSUME NEW q \in Processes, Commit(q) PROVE IInv'
  <2>1. /\ Set(q, Started("diff", staged)) /\ process[q].pc = "unused" /\ UNCHANGED Comments
        /\ todo' = todo /\ staged' = None /\ hook' = None /\ hook # None
        /\ commits' = Append(commits, [change |-> staged, review |-> hook])
    BY <1>2 DEF Commit
  <2>2. staged \in Changes /\ hook \in Processes
    BY <2>1 DEF IInv, TypeOK, RunInv
  <2>3. commits' \in Seq([change : Changes, review : Processes])
    <3>1. commits \in Seq([change : Changes, review : Processes])
      BY DEF IInv, TypeOK
    <3> QED
      BY <2>1, <2>2, <3>1, AppendProperties
  <2> QED
    BY <2>1, <2>2, <2>3, StartInv, CommitHooksAssumption DEF IInv, TypeOK
<1>3. ASSUME NEW p \in Processes, NEW scope \in Scopes, Invoke(p, scope) PROVE IInv'
  <2>1. /\ Set(p, Started(scope, None)) /\ process[p].pc = "unused" /\ UNCHANGED Comments
        /\ todo' = todo /\ staged' = staged /\ hook' = hook /\ commits' = commits
    BY <1>3 DEF Invoke, Repository
  <2> QED
    BY <2>1, StartInv DEF IInv, TypeOK, RunInv
<1>4. ASSUME NEW p \in Processes, Step(p) PROVE IInv'
  BY <1>4, WorkInv, ReviewedInv, WriteInv DEF Step
<1>5. CASE UNCHANGED vars
  <2>1. /\ process' = process /\ comments' = comments /\ latest' = latest
        /\ disturbed' = disturbed /\ UNCHANGED Repository
    BY <1>5 DEF vars, Repository
  <2>2. \A i \in DOMAIN comments : ShownBy(i)' = ShownBy(i)
    BY <2>1 DEF ShownBy
  <2>3. TypeOK' /\ RunInv'
    BY <2>1 DEF IInv, TypeOK, RunInv, Repository
  <2>4. MarksInv' /\ CommentKept' /\ TargetInv'
    BY <2>1, <2>2 DEF IInv, MarksInv, CommentKept, TargetInv, Quoted
  <2>5. PostingInv' /\ ScopeInv'
    BY <2>1 DEF IInv, PostingInv, ScopeInv, Posting, Calm
  <2> QED
    BY <2>3, <2>4, <2>5 DEF IInv
<1> QED
  BY <1>1, <1>2, <1>3, <1>4, <1>5, RepositoryInv, OthersCommentInv DEF Next

THEOREM Invariance == Spec => []IInv
<1>1. Init => IInv
  BY Start
<1>2. IInv /\ [Next]_vars => IInv'
  BY Keeps
<1> QED
  BY <1>1, <1>2, PTL DEF Spec

----------------------------------------------------------------------------
(* Theorems *)

\* TypeCorrect: the variables keep their types (TypeOK).
THEOREM TypeCorrect == Spec => []TypeOK
<1>1. IInv => TypeOK
  BY DEF IInv
<1> QED
  BY <1>1, Invariance, PTL

\* CommentsKept: no review overwrites a comment of another scope or of a person, unless a text
\* quotes a marker (CommentKept; findComment and updateComment).
THEOREM CommentsKept == Spec => []CommentKept
<1>1. IInv => CommentKept
  BY DEF IInv
<1> QED
  BY <1>1, Invariance, PTL

\* In a calm scope, a comment that shows or marks the scope is the scope's own.
LEMMA CalmComment ==
  ASSUME IInv, NEW s \in Scopes, Calm(s), NEW i \in DOMAIN comments,
         ShownBy(i) = s \/ s \in comments[i].marks
  PROVE  comments[i].first = s
<1>1. ShownBy(i) = s
  BY DEF IInv, MarksInv, Quoted, Calm
<1> QED
  BY <1>1 DEF IInv, CommentKept, Calm

\* OneCommentPerScope: however many reviews of all scopes run, a scope has one comment while
\* its reviews don't post at the same time, the first page has room and nobody quotes its
\* marker (OneComment; UpsertComment).
THEOREM OneCommentPerScope == Spec => []OneComment
<1>1. ASSUME IInv PROVE OneComment
  BY <1>1, CalmComment DEF OneComment, Shown, IInv, ScopeInv
<1> QED
  BY <1>1, Invariance, PTL

\* CommentsCurrent: under the same conditions the last answer that was posted is the comment
\* the next review finds (CommentCurrent; findComment).
THEOREM CommentsCurrent == Spec => []CommentCurrent
<1>1. ASSUME IInv PROVE CommentCurrent
  <2> SUFFICES ASSUME NEW s \in Scopes, Calm(s), latest[s] # None, process[latest[s]].posted
               PROVE  Comment(s) # 0 /\ comments[Comment(s)].by = latest[s]
    BY DEF CommentCurrent
  <2>1. PICK i \in DOMAIN comments : comments[i].first = s /\ comments[i].by = latest[s]
    BY <1>1 DEF IInv, ScopeInv
  <2>2. s \in comments[i].marks
    BY <1>1, <2>1 DEF IInv, MarksInv, RunInv
  <2>3. i <= PageSize
    <3>1. <<"page", s>> \notin disturbed /\ comments[i].first # None
      BY <2>1, CommitHooksAssumption DEF Calm
    <3>2. ~(i > PageSize)
      BY <1>1, <2>1, <3>1 DEF IInv, MarksInv
    <3> QED
      BY <1>1, <3>2, Typing
  <2>4. Comment(s) # 0 /\ Comment(s) \in Marked(s)
    BY <1>1, <2>2, <2>3, Found DEF Marked
  <2>5. Comment(s) \in DOMAIN comments /\ comments[Comment(s)].first = s
    BY <1>1, <2>4, CalmComment DEF Marked
  <2>6. Comment(s) = i
    BY <1>1, <2>1, <2>5 DEF IInv, ScopeInv
  <2> QED
    BY <2>1, <2>4, <2>6
<1> QED
  BY <1>1, Invariance, PTL
=============================================================================
