------------------------ MODULE ChunkedReviewProofs ------------------------
(***************************************************************************)
(* Proofs about ChunkedReview for every number of chunks, every            *)
(* parallelism and every set of answers.                                   *)
(***************************************************************************)
EXTENDS ChunkedReview, FiniteSetTheorems, SequenceTheorems, WellFoundedInduction, TLAPS

\* The functions of the goroutines (Step) and of the caller's side keep the types.
THEOREM TypeCorrect == Spec => []TypeOK
<1>1. Init => TypeOK
  <2> SUFFICES ASSUME Init
               PROVE  TypeOK
    OBVIOUS
  <2> USE ChunkedReviewAssumption DEF Init, Chunks
  <2>1. limit \in Nat \ {0}
    BY DEF LimitOf
  <2>2. stage \in [Chunks -> Stages]
    BY DEF Stages
  <2>3. launched \in 0..total
    OBVIOUS
  <2>4. reply \in [Chunks -> Reply]
    BY DEF Reply
  <2>5. results \in Seq(Chunks) /\ groupErr \in 0..MaxChunks
    OBVIOUS
  <2>6. QED
    BY <2>1, <2>2, <2>3, <2>4, <2>5 DEF TypeOK
<1>2. TypeOK /\ [Next]_vars => TypeOK'
  <2> SUFFICES ASSUME TypeOK, [Next]_vars
               PROVE  TypeOK'
    OBVIOUS
  <2> USE ChunkedReviewAssumption DEF TypeOK, Chunks
  <2>1. CASE Launch
    BY <2>1 DEF Launch, Stages
  <2>2. CASE Finish
    BY <2>2 DEF Finish, ResultOf, ErrorOf
  <2>3. CASE ReviewInput
    BY <2>3 DEF ReviewInput, Stages, ResultOf, ErrorOf
  <2>4. CASE ClientLeaves
    BY <2>4 DEF ClientLeaves
  <2>5. ASSUME NEW c \in Chunks, CallBackend(c)
        PROVE  TypeOK'
    BY <2>5 DEF CallBackend, Stages
  <2>6. ASSUME NEW c \in Chunks, CallCancelled(c)
        PROVE  TypeOK'
    BY <2>6 DEF CallCancelled, Stages, Reply
  <2>7. ASSUME NEW c \in Chunks, BackendReplies(c)
        PROVE  TypeOK'
    BY <2>7 DEF BackendReplies, Stages, Reply
  <2>8. ASSUME NEW c \in Chunks, Return(c)
        PROVE  TypeOK'
    <3>1. results' \in Seq(Chunks)
      <4>1. Append(results, c) \in Seq(Chunks)
        BY AppendProperties
      <4>2. results' = results \/ results' = Append(results, c)
        BY <2>8 DEF Return
      <4>3. QED
        BY <4>1, <4>2
    <3>2. groupErr' \in 0..MaxChunks
      BY <2>8 DEF Return
    <3>3. stage' \in [Chunks -> Stages]
      BY <2>8 DEF Return, Stages
    <3>4. QED
      BY <2>8, <3>1, <3>2, <3>3 DEF Return
  <2>9. ASSUME NEW c \in Chunks, Release(c)
        PROVE  TypeOK'
    BY <2>9 DEF Release, Stages
  <2>10. CASE UNCHANGED vars
    BY <2>10 DEF vars
  <2>11. QED
    BY <2>1, <2>2, <2>3, <2>4, <2>5, <2>6, <2>7, <2>8, <2>9, <2>10 DEF Next, Step
<1>3. QED
  BY <1>1, <1>2, PTL DEF Spec

----------------------------------------------------------------------------
(* The slots of the errgroup *)

\* Sets of chunks can be counted.
LEMMA ChunksFinite ==
  ASSUME NEW S \in SUBSET Chunks
  PROVE  IsFiniteSet(S) /\ Cardinality(S) \in Nat
<1>1. IsFiniteSet(Chunks)
  BY FS_Interval, ChunkedReviewAssumption DEF Chunks
<1>2. IsFiniteSet(S)
  BY <1>1, FS_Subset
<1>3. QED
  BY <1>2, FS_CardinalityType

\* Only the launch loop takes a slot.
LEMMA OnlyLaunchTakesSlots ==
  TypeOK /\ [Next]_vars /\ ~Launch => Active' \subseteq Active /\ limit' = limit
<1> SUFFICES ASSUME TypeOK, [Next]_vars, ~Launch
             PROVE  Active' \subseteq Active /\ limit' = limit
  OBVIOUS
<1> USE DEF TypeOK, Active
<1>1. CASE Finish
  BY <1>1 DEF Finish
<1>2. CASE ReviewInput
  BY <1>2 DEF ReviewInput
<1>3. CASE ClientLeaves
  BY <1>3 DEF ClientLeaves
<1>4. ASSUME NEW c \in Chunks, Step(c)
      PROVE  Active' \subseteq Active /\ limit' = limit
  BY <1>4 DEF Step, CallBackend, CallCancelled, BackendReplies, Return, Release
<1>5. CASE UNCHANGED vars
  BY <1>5 DEF vars
<1>6. QED
  BY <1>1, <1>2, <1>3, <1>4, <1>5 DEF Next

\* The goroutines that hold a slot are never more than the errgroup's limit.
SlotsBounded == Cardinality(Active) <= limit

\* BackendLoadBounded for every parallelism: calls are made by goroutines that hold
\* a slot, and g.Go waits for a free one.
THEOREM BackendLoad == Spec => []BackendLoadBounded
<1>1. TypeOK => InFlight \subseteq Active /\ Active \subseteq Chunks
  BY DEF InFlight, Active
<1>2. TypeOK /\ SlotsBounded => BackendLoadBounded
  BY <1>1, ChunksFinite, FS_Subset DEF TypeOK, SlotsBounded, BackendLoadBounded
<1>3. Init => SlotsBounded
  <2> SUFFICES ASSUME Init
               PROVE  SlotsBounded
    OBVIOUS
  <2>1. limit \in Nat /\ limit >= 1
    BY ChunkedReviewAssumption DEF Init, LimitOf
  <2>2. Active = {} \/ Active = {1}
    BY ChunkedReviewAssumption DEF Init, Active, Chunks
  <2>3. QED
    BY <2>1, <2>2, FS_EmptySet, FS_Singleton DEF SlotsBounded
<1>4. TypeOK /\ SlotsBounded /\ [Next]_vars => SlotsBounded'
  <2> SUFFICES ASSUME TypeOK, SlotsBounded, [Next]_vars
               PROVE  SlotsBounded'
    OBVIOUS
  <2>1. CASE Launch
    <3>1. Active' \subseteq Active \cup {launched + 1} /\ limit' = limit
      BY <2>1 DEF Launch, Active, TypeOK
    <3>2. IsFiniteSet(Active) /\ Cardinality(Active) \in Nat
      BY <1>1, ChunksFinite
    <3>3. /\ IsFiniteSet(Active \cup {launched + 1})
          /\ Cardinality(Active \cup {launched + 1}) <= Cardinality(Active) + 1
      BY <3>2, FS_AddElement
    <3>4. /\ Cardinality(Active') \in Nat
          /\ Cardinality(Active \cup {launched + 1}) \in Nat
          /\ Cardinality(Active') <= Cardinality(Active \cup {launched + 1})
      BY <3>1, <3>3, FS_Subset, FS_CardinalityType
    <3>5. Cardinality(Active) < limit
      BY <2>1 DEF Launch
    <3>6. QED
      BY <3>1, <3>2, <3>3, <3>4, <3>5 DEF SlotsBounded, TypeOK
  <2>2. CASE ~Launch
    <3>1. Active' \subseteq Active /\ limit' = limit
      BY <2>2, OnlyLaunchTakesSlots
    <3>2. IsFiniteSet(Active) /\ Cardinality(Active) \in Nat
      BY <1>1, ChunksFinite
    <3>3. Cardinality(Active') \in Nat /\ Cardinality(Active') <= Cardinality(Active)
      BY <3>1, <3>2, FS_Subset, FS_CardinalityType
    <3>4. QED
      BY <3>1, <3>2, <3>3 DEF SlotsBounded, TypeOK
  <2>3. QED
    BY <2>1, <2>2
<1>5. QED
  BY <1>2, <1>3, <1>4, TypeCorrect, PTL DEF Spec

----------------------------------------------------------------------------
(* The slice of results *)

\* The loop launches the chunks in order: one that it has not reached is untouched.
LaunchedInOrder == \A c \in Chunks : c > launched => stage[c] = "waiting"

\* The chunks whose goroutine has returned with readable text.
Collected == {c \in Chunks : /\ total > 1
                             /\ stage[c] \in {"returned", "released"}
                             /\ reply[c].kind = "result"}

\* Goroutines are started in the order of the chunks, in every reachable state.
LEMMA LaunchOrder == Spec => []LaunchedInOrder
<1>1. Init => LaunchedInOrder
  BY ChunkedReviewAssumption DEF Init, LaunchedInOrder, Chunks
<1>2. TypeOK /\ LaunchedInOrder /\ [Next]_vars => LaunchedInOrder'
  <2> SUFFICES ASSUME TypeOK, LaunchedInOrder, [Next]_vars
               PROVE  LaunchedInOrder'
    OBVIOUS
  <2> USE ChunkedReviewAssumption DEF TypeOK, LaunchedInOrder, Chunks
  <2>1. CASE Launch
    BY <2>1 DEF Launch
  <2>2. CASE Finish
    BY <2>2 DEF Finish
  <2>3. CASE ReviewInput
    BY <2>3 DEF ReviewInput
  <2>4. CASE ClientLeaves
    BY <2>4 DEF ClientLeaves
  <2>5. ASSUME NEW c \in Chunks, Step(c)
        PROVE  LaunchedInOrder'
    BY <2>5 DEF Step, CallBackend, CallCancelled, BackendReplies, Return, Release
  <2>6. CASE UNCHANGED vars
    BY <2>6 DEF vars
  <2>7. QED
    BY <2>1, <2>2, <2>3, <2>4, <2>5, <2>6 DEF Next
<1>3. QED
  BY <1>1, <1>2, TypeCorrect, PTL DEF Spec

\* A step that is no Return collects nothing and drops nothing.
LEMMA OnlyReturnCollects ==
  ASSUME TypeOK, LaunchedInOrder, [Next]_vars, ~\E c \in Chunks : Return(c)
  PROVE  Collected' = Collected /\ results' = results
<1> USE DEF TypeOK, Collected
<1>1. CASE Launch
  <2>1. launched + 1 \in Chunks /\ stage[launched + 1] = "waiting"
    BY <1>1, ChunkedReviewAssumption DEF Launch, LaunchedInOrder, Chunks
  <2>2. QED
    BY <1>1, <2>1 DEF Launch
<1>2. CASE Finish
  BY <1>2 DEF Finish
<1>3. CASE ReviewInput
  BY <1>3 DEF ReviewInput
<1>4. CASE ClientLeaves
  BY <1>4 DEF ClientLeaves
<1>5. ASSUME NEW c \in Chunks, CallBackend(c)
      PROVE  Collected' = Collected /\ results' = results
  BY <1>5 DEF CallBackend
<1>6. ASSUME NEW c \in Chunks, CallCancelled(c)
      PROVE  Collected' = Collected /\ results' = results
  BY <1>6 DEF CallCancelled
<1>7. ASSUME NEW c \in Chunks, BackendReplies(c)
      PROVE  Collected' = Collected /\ results' = results
  BY <1>7 DEF BackendReplies
<1>8. ASSUME NEW c \in Chunks, Release(c)
      PROVE  Collected' = Collected /\ results' = results
  BY <1>8 DEF Release
<1>9. CASE UNCHANGED vars
  BY <1>9 DEF vars
<1>10. QED
  BY <1>1, <1>2, <1>3, <1>4, <1>5, <1>6, <1>7, <1>8, <1>9 DEF Next, Step

\* What append does to a sequence without repetitions.
LEMMA AppendNew ==
  ASSUME NEW S, NEW s \in Seq(S), NEW e \in S, e \notin ToSet(s), IsInjective(s)
  PROVE  ToSet(Append(s, e)) = ToSet(s) \cup {e} /\ IsInjective(Append(s, e))
<1>1. /\ Append(s, e) \in Seq(S)
      /\ Len(Append(s, e)) = Len(s) + 1
      /\ \A i \in 1..Len(s) : Append(s, e)[i] = s[i]
      /\ Append(s, e)[Len(s) + 1] = e
  BY AppendProperties
<1>2. /\ Len(s) \in Nat
      /\ DOMAIN s = 1..Len(s)
      /\ DOMAIN Append(s, e) = 1..(Len(s) + 1)
  BY <1>1, LenProperties
<1>3. ToSet(Append(s, e)) = ToSet(s) \cup {e}
  <2>1. DOMAIN Append(s, e) = DOMAIN s \cup {Len(s) + 1}
    BY <1>2
  <2>2. QED
    BY <1>1, <1>2, <2>1 DEF ToSet
<1>4. IsInjective(Append(s, e))
  <2> SUFFICES ASSUME NEW i \in 1..(Len(s) + 1), NEW j \in 1..(Len(s) + 1),
                      Append(s, e)[i] = Append(s, e)[j]
               PROVE  i = j
    BY <1>2 DEF IsInjective
  <2>1. \A k \in 1..Len(s) : s[k] # e
    BY <1>2 DEF ToSet
  <2>2. CASE i \in 1..Len(s) /\ j \in 1..Len(s)
    BY <1>1, <1>2, <2>2 DEF IsInjective
  <2>3. CASE i = Len(s) + 1 /\ j \in 1..Len(s)
    BY <1>1, <2>1, <2>3
  <2>4. CASE i \in 1..Len(s) /\ j = Len(s) + 1
    BY <1>1, <2>1, <2>4
  <2>5. QED
    BY <1>2, <2>2, <2>3, <2>4
<1>5. QED
  BY <1>3, <1>4

\* NoAnswerLostOrCountedTwice for every number of chunks and every schedule of the
\* goroutines: the append under the mutex neither loses nor repeats an answer.
THEOREM AnswersCollected == Spec => []NoAnswerLostOrCountedTwice
<1> USE DEF NoAnswerLostOrCountedTwice
<1>1. Init => NoAnswerLostOrCountedTwice
  <2> SUFFICES ASSUME Init
               PROVE  NoAnswerLostOrCountedTwice
    OBVIOUS
  <2>1. DOMAIN results = {}
    BY DEF Init
  <2>2. Collected = {}
    BY DEF Init, Collected, NoReply
  <2>3. QED
    BY <2>1, <2>2 DEF Collected, ToSet, IsInjective
<1>2. /\ TypeOK /\ LaunchedInOrder /\ NoAnswerLostOrCountedTwice /\ [Next]_vars
      => NoAnswerLostOrCountedTwice'
  <2> SUFFICES ASSUME TypeOK, LaunchedInOrder, NoAnswerLostOrCountedTwice, [Next]_vars
               PROVE  NoAnswerLostOrCountedTwice'
    OBVIOUS
  <2>0. ToSet(results) = Collected /\ IsInjective(results)
    BY DEF Collected
  <2>1. ASSUME NEW c \in Chunks, Return(c), reply[c].kind = "result"
        PROVE  NoAnswerLostOrCountedTwice'
    <3>1. c \notin ToSet(results) /\ results' = Append(results, c)
      BY <2>0, <2>1 DEF Return, Collected
    <3>2. Collected' = Collected \cup {c}
      BY <2>1 DEF Return, Collected, TypeOK
    <3>3. QED
      BY <2>0, <3>1, <3>2, AppendNew DEF TypeOK, Collected
  <2>2. ASSUME NEW c \in Chunks, Return(c), reply[c].kind # "result"
        PROVE  NoAnswerLostOrCountedTwice'
    <3>1. results' = results
      BY <2>2 DEF Return
    <3>2. Collected' = Collected
      BY <2>2 DEF Return, Collected, TypeOK
    <3>3. QED
      BY <2>0, <3>1, <3>2 DEF Collected
  <2>3. CASE ~\E c \in Chunks : Return(c)
    BY <2>0, <2>3, OnlyReturnCollects DEF Collected
  <2>4. QED
    BY <2>1, <2>2, <2>3
<1>3. QED
  BY <1>1, <1>2, TypeCorrect, LaunchOrder, PTL DEF Spec

----------------------------------------------------------------------------
(* The error of a failed review *)

\* The inductive form of RootCauseReported.  The group's first error is no echo: a
\* call is cancelled because the context is done, so after the group has an error
\* or the caller is gone.  The chunk whose error was kept has returned, and what its
\* call gave can't change any more.
Blame ==
  /\ total = 1 => groupErr = 0
  /\ groupErr # 0 => /\ stage[groupErr] \in {"returned", "released"}
                     /\ clientGone \/ reply[groupErr].kind # "cancelled"
  /\ \A c \in Chunks : reply[c].kind = "cancelled" => ContextDone
  /\ outcome.kind = "error" =>
       outcome.chunk = (IF total = 1 THEN 1 ELSE groupErr) /\ (total > 1 => groupErr # 0)

\* RootCauseReported for every input and every schedule: errgroup keeps the first
\* error and cancels its context only with it.
THEOREM RootCause == Spec => []RootCauseReported
<1>1. TypeOK /\ Blame => RootCauseReported
  BY ChunkedReviewAssumption DEF TypeOK, Blame, RootCauseReported, ContextDone, Chunks
<1>2. Init => Blame
  BY DEF Init, Blame, NoReply, NoOutcome
<1>3. TypeOK /\ LaunchedInOrder /\ Blame /\ [Next]_vars => Blame'
  <2> SUFFICES ASSUME TypeOK, LaunchedInOrder, Blame, [Next]_vars
               PROVE  Blame'
    OBVIOUS
  <2> USE ChunkedReviewAssumption DEF TypeOK, Blame, ContextDone, Chunks
  <2>1. CASE Launch
    <3>1. launched + 1 \in Chunks /\ stage[launched + 1] = "waiting"
      BY <2>1 DEF Launch, LaunchedInOrder
    <3>2. QED
      BY <2>1, <3>1 DEF Launch
  <2>2. CASE Finish
    BY <2>2 DEF Finish, ErrorOf, ResultOf
  <2>3. CASE ReviewInput
    BY <2>3 DEF ReviewInput, ErrorOf, ResultOf
  <2>4. CASE ClientLeaves
    BY <2>4 DEF ClientLeaves
  <2>5. ASSUME NEW c \in Chunks, CallBackend(c)
        PROVE  Blame'
    BY <2>5 DEF CallBackend
  <2>6. ASSUME NEW c \in Chunks, CallCancelled(c)
        PROVE  Blame'
    BY <2>6 DEF CallCancelled
  <2>7. ASSUME NEW c \in Chunks, BackendReplies(c)
        PROVE  Blame'
    <3>1. reply'[c].kind # "cancelled" /\ \A d \in Chunks \ {c} : reply'[d] = reply[d]
      BY <2>7 DEF BackendReplies, Failed, Garbled, Answers
    <3>2. QED
      BY <2>7, <3>1 DEF BackendReplies
  <2>8. ASSUME NEW c \in Chunks, Return(c)
        PROVE  Blame'
    <3>1. total > 1 /\ stage[c] = "replied" /\ stage' = [stage EXCEPT ![c] = "returned"]
      BY <2>8 DEF Return
    <3>2. UNCHANGED <<total, reply, clientGone, outcome>>
      BY <2>8 DEF Return
    <3>3. groupErr' = groupErr \/ (groupErr = 0 /\ groupErr' = c)
      BY <2>8 DEF Return
    <3>4. CASE groupErr' = groupErr
      BY <3>1, <3>2, <3>4
    <3>5. CASE groupErr = 0 /\ groupErr' = c
      BY <3>1, <3>2, <3>5
    <3>6. QED
      BY <3>3, <3>4, <3>5
  <2>9. ASSUME NEW c \in Chunks, Release(c)
        PROVE  Blame'
    BY <2>9 DEF Release
  <2>10. CASE UNCHANGED vars
    BY <2>10 DEF vars
  <2>11. QED
    BY <2>1, <2>2, <2>3, <2>4, <2>5, <2>6, <2>7, <2>8, <2>9, <2>10 DEF Next, Step
<1>4. QED
  BY <1>1, <1>2, <1>3, TypeCorrect, LaunchOrder, PTL DEF Spec

----------------------------------------------------------------------------
(* The verdict of a review that succeeds *)

\* n positions of which each element of S is at one.
EachOnce(order, n, S) ==
  /\ order \in [1..n -> S]
  /\ \A i, j \in 1..n : order[i] = order[j] => i = j
  /\ \A p \in S : \E i \in 1..n : order[i] = p

\* An order in which all positions of a set are met meets each once.
LEMMA InOrderMeetsAll ==
  ASSUME NEW n \in Nat, NEW S \in SUBSET (1..n), NEW order \in InOrder(S)
  PROVE  Cardinality(S) \in Nat /\ EachOnce(order, Cardinality(S), S)
<1> DEFINE m == Cardinality(S)
<1>1. IsFiniteSet(S) /\ m \in Nat
  <2>1. IsFiniteSet(1..n)
    BY FS_Interval
  <2>2. IsFiniteSet(S)
    BY <2>1, FS_Subset
  <2>3. QED
    BY <2>2, FS_CardinalityType
<1>2. order \in [1..m -> S] /\ DOMAIN order = 1..m
  BY DEF InOrder
<1>3. \A i, j \in 1..m : order[i] = order[j] => i = j
  <2> SUFFICES ASSUME NEW i \in 1..m, NEW j \in 1..m, order[i] = order[j], i # j
               PROVE  FALSE
    OBVIOUS
  <2>1. i < j \/ j < i
    BY <1>1
  <2>2. order[i] < order[j] \/ order[j] < order[i]
    BY <1>2, <2>1 DEF InOrder
  <2>3. order[i] \in Int /\ order[j] \in Int
    <3>1. order[i] \in 1..n /\ order[j] \in 1..n
      BY <1>2
    <3>2. QED
      BY <3>1
  <2>4. QED
    BY <2>2, <2>3
<1>4. order \in Injection(1..m, S)
  BY <1>2, <1>3 DEF Injection, IsInjective
<1>5. Cardinality(1..m) = m
  BY <1>1, FS_Interval
<1>6. order \in Surjection(1..m, S)
  BY <1>1, <1>4, <1>5, FS_Injection
<1>7. QED
  BY <1>1, <1>2, <1>3, <1>6 DEF Surjection, EachOnce

\* Sorting the results by chunk index drops none and repeats none.
LEMMA SortKeepsAll ==
  ASSUME NEW s \in Seq(Chunks), IsInjective(s), NEW order \in SortByIndex(s)
  PROVE  /\ Len(s) \in Nat /\ EachOnce(order, Len(s), ToSet(s))
         /\ \A i, j \in 1..Len(s) : i < j => order[i] < order[j]
<1> DEFINE n == Len(s)
           S == ToSet(s)
<1>1. n \in Nat /\ s \in [1..n -> Chunks] /\ DOMAIN s = 1..n
  BY LenProperties
<1>2. MaxChunks \in Nat /\ S \in SUBSET (1..MaxChunks)
  BY <1>1, ChunkedReviewAssumption DEF ToSet, Chunks
<1>3. Cardinality(S) = n
  <2>1. s \in Surjection(1..n, S)
    BY <1>1 DEF Surjection, ToSet
  <2>2. s \in Injection(1..n, S)
    BY <1>1 DEF Injection, ToSet
  <2>3. IsFiniteSet(1..n) /\ Cardinality(1..n) = n
    BY <1>1, FS_Interval
  <2>4. QED
    BY <2>1, <2>2, <2>3, FS_Surjection
<1>4. order \in InOrder(S)
  BY <1>1, <1>3 DEF SortByIndex, InOrder
<1>5. EachOnce(order, n, S)
  BY <1>2, <1>3, <1>4, InOrderMeetsAll
<1>6. QED
  BY <1>1, <1>5 DEF SortByIndex

\* A review that has ended asks for nothing more: its answers stay what they are.
AllDone == outcome # NoOutcome => \A c \in 1..total : stage[c] = "released"

\* The caller gets its answer after the last goroutine is done, never before.
LEMMA NothingAfterTheEnd == Spec => []AllDone
<1>1. Init => AllDone
  BY DEF Init, AllDone
<1>2. TypeOK /\ LaunchedInOrder /\ AllDone /\ [Next]_vars => AllDone'
  <2> SUFFICES ASSUME TypeOK, LaunchedInOrder, AllDone, [Next]_vars
               PROVE  AllDone'
    OBVIOUS
  <2> USE ChunkedReviewAssumption DEF TypeOK, AllDone, Chunks
  <2>1. CASE Launch
    BY <2>1 DEF Launch, LaunchedInOrder
  <2>2. CASE Finish
    BY <2>2 DEF Finish
  <2>3. CASE ReviewInput
    BY <2>3 DEF ReviewInput
  <2>4. CASE ClientLeaves
    BY <2>4 DEF ClientLeaves
  <2>5. ASSUME NEW c \in Chunks, Step(c)
        PROVE  AllDone'
    BY <2>5 DEF Step, CallBackend, CallCancelled, BackendReplies, Return, Release
  <2>6. CASE UNCHANGED vars
    BY <2>6 DEF vars
  <2>7. QED
    BY <2>1, <2>2, <2>3, <2>4, <2>5, <2>6 DEF Next
<1>3. QED
  BY <1>1, <1>2, TypeCorrect, LaunchOrder, PTL DEF Spec

\* A merged result blocks when one of the answers that were collected does.
LEMMA MergedBlocks ==
  ASSUME TypeOK, IsInjective(results),
         NEW order \in SortByIndex(results),
         NEW c \in ToSet(results), Parse(reply[c].body).verdict = "block"
  PROVE  \A merged \in Merged(order) : merged.verdict = "block"
<1> DEFINE parsed == [i \in DOMAIN order |-> Parse(reply[order[i]].body)]
<1>1. PICK i \in DOMAIN order : order[i] = c
  BY SortKeepsAll DEF TypeOK, EachOnce
<1>2. parsed[i].verdict = "block"
  BY <1>1
<1>3. WorstVerdict(parsed) = "block"
  BY <1>1, <1>2 DEF WorstVerdict
<1>4. QED
  BY <1>3 DEF Merged, MergeResults

\* BlockNeverLost for every input, every schedule and every set of answers: no
\* schedule of the goroutines lets a merged review report less than "block" when the
\* answer to one of its chunks did.
THEOREM BlockKept == Spec => []BlockNeverLost
<1>1. Init => BlockNeverLost
  BY DEF Init, BlockNeverLost, NoOutcome
<1>2. /\ TypeOK /\ LaunchedInOrder /\ AllDone /\ NoAnswerLostOrCountedTwice
      /\ BlockNeverLost /\ [Next]_vars
      => BlockNeverLost'
  <2> SUFFICES ASSUME TypeOK, LaunchedInOrder, AllDone, NoAnswerLostOrCountedTwice,
                      BlockNeverLost, [Next]_vars
               PROVE  BlockNeverLost'
    OBVIOUS
  <2>1. CASE Finish
    <3>1. total' = total /\ reply' = reply /\ 1..total \subseteq Chunks
      BY <2>1, ChunkedReviewAssumption DEF Finish, TypeOK, Chunks
    <3> SUFFICES ASSUME outcome'.kind = "result",
                        NEW c \in 1..total, reply[c].kind = "result",
                        Parse(reply[c].body).verdict = "block"
                 PROVE  outcome'.result.verdict = "block"
      BY <3>1 DEF BlockNeverLost
    <3>2. PICK order \in SortByIndex(results) :
                  \E merged \in Merged(order) : outcome' = ResultOf(merged)
      BY <2>1 DEF Finish, ErrorOf
    <3>3. c \in ToSet(results)
      BY <2>1, <3>1 DEF Finish, NoAnswerLostOrCountedTwice
    <3>4. PICK merged \in Merged(order) : outcome' = ResultOf(merged)
      BY <3>2
    <3>5. merged.verdict = "block"
      BY <3>3, MergedBlocks DEF NoAnswerLostOrCountedTwice
    <3>6. QED
      BY <3>4, <3>5 DEF ResultOf
  <2>2. CASE ReviewInput
    BY <2>2 DEF ReviewInput, BlockNeverLost, ResultOf, ErrorOf
  <2>3. CASE Launch
    BY <2>3 DEF Launch, BlockNeverLost
  <2>4. CASE ClientLeaves
    BY <2>4 DEF ClientLeaves, BlockNeverLost
  <2>5. ASSUME NEW c \in Chunks, Step(c)
        PROVE  BlockNeverLost'
    <3>1. total' = total /\ outcome' = outcome
      BY <2>5 DEF Step, CallBackend, CallCancelled, BackendReplies, Return, Release
    <3>2. CASE outcome.kind # "result"
      BY <3>1, <3>2 DEF BlockNeverLost
    <3>3. CASE outcome.kind = "result"
      <4>1. \A d \in 1..total : stage[d] = "released"
        BY <3>3 DEF AllDone, NoOutcome
      <4>2. \A d \in 1..total : reply'[d] = reply[d]
        BY <2>5, <4>1 DEF Step, CallBackend, CallCancelled, BackendReplies, Return,
                          Release, TypeOK
      <4>3. QED
        BY <3>1, <4>2 DEF BlockNeverLost
    <3>4. QED
      BY <3>2, <3>3
  <2>6. CASE UNCHANGED vars
    BY <2>6 DEF vars, BlockNeverLost
  <2>7. QED
    BY <2>1, <2>2, <2>3, <2>4, <2>5, <2>6 DEF Next
<1>3. QED
  BY <1>1, <1>2, TypeCorrect, LaunchOrder, NothingAfterTheEnd, AnswersCollected, PTL DEF Spec

----------------------------------------------------------------------------
(* What the merge returns *)

\* The verdict of a merge is one of those given, and none of those weighs more.
LEMMA WorstVerdictIsHeaviest ==
  ASSUME NEW parsed
  PROVE  /\ \A i \in DOMAIN parsed :
              VerdictWeight(parsed[i].verdict) <= VerdictWeight(WorstVerdict(parsed))
         /\ \/ WorstVerdict(parsed) = "pass"
            \/ \E i \in DOMAIN parsed : parsed[i].verdict = WorstVerdict(parsed)
<1> DEFINE Given(v) == \E i \in DOMAIN parsed : parsed[i].verdict = v
<1>1. CASE Given("block")
  <2>1. WorstVerdict(parsed) = "block"
    BY <1>1 DEF WorstVerdict
  <2>2. QED
    BY <1>1, <2>1 DEF VerdictWeight
<1>2. CASE ~Given("block") /\ Given("warn")
  <2>1. WorstVerdict(parsed) = "warn"
    BY <1>2 DEF WorstVerdict
  <2>2. QED
    BY <1>2, <2>1 DEF VerdictWeight
<1>3. CASE ~Given("block") /\ ~Given("warn")
  <2>1. WorstVerdict(parsed) = "pass"
    BY <1>3 DEF WorstVerdict
  <2>2. QED
    BY <1>3, <2>1 DEF VerdictWeight
<1>4. QED
  BY <1>1, <1>2, <1>3

\* The operators of the promise are those of the review.
LEMMA PromiseOperators ==
  /\ \A body : P!Parse(body) = Parse(body)
  /\ \A issue : P!IssueKey(issue) = IssueKey(issue)
  /\ \A a, b : P!MayPrecede(a, b) <=> MayPrecede(a, b)
  /\ \A verdict : P!VerdictWeight(verdict) = VerdictWeight(verdict)
  /\ \A issues : P!RecalcStats(issues) = RecalcStats(issues)
<1>1. \A issues, severity : P!CountOf(issues, severity) = CountOf(issues, severity)
  <2>1. \A S : P!Cardinality(S) = Cardinality(S)
    BY DEF P!Cardinality, Cardinality
  <2>2. QED
    BY <2>1 DEF P!CountOf, CountOf
<1>2. \A issue : P!IssueKey(issue) = IssueKey(issue)
  BY DEF P!IssueKey, IssueKey
<1>3. \A a, b : P!MayPrecede(a, b) <=> MayPrecede(a, b)
  BY DEF P!MayPrecede, MayPrecede, P!SeverityOrder, SeverityOrder
<1>4. \A verdict : P!VerdictWeight(verdict) = VerdictWeight(verdict)
  BY DEF P!VerdictWeight, VerdictWeight
<1>5. \A issues : P!RecalcStats(issues) = RecalcStats(issues)
  BY <1>1 DEF P!RecalcStats, RecalcStats
<1>6. \A verdict, stats : P!InferVerdict(verdict, stats) = InferVerdict(verdict, stats)
  BY DEF P!InferVerdict, InferVerdict
<1>7. \A body : P!Parse(body) = Parse(body)
  BY <1>5, <1>6 DEF P!Parse, Parse
<1>8. QED
  BY <1>2, <1>3, <1>4, <1>5, <1>7

----------------------------------------------------------------------------
(* Concatenation *)

\* A set of numbers has a least one, which is what a proof by induction needs: of the
\* numbers for which a fact fails the least one.
LEMMA LeastNumber ==
  ASSUME NEW S \in SUBSET Nat, S # {}
  PROVE  \E x \in S : \A y \in S : x <= y
<1>1. PICK x \in S : \A y \in S : ~(<<y, x>> \in OpToRel(<, Nat))
  BY NatLessThanWellFounded, WFMin
<1>2. \A y \in S : x <= y
  <2> SUFFICES ASSUME NEW y \in S, y < x
               PROVE  FALSE
    OBVIOUS
  <2>1. <<y, x>> \in OpToRel(<, Nat)
    BY DEF OpToRel
  <2>2. QED
    BY <2>1, <1>1
<1>3. QED
  BY <1>2

\* f holds, for each of the first n of some lists, the concatenation up to it.
ConcatsTo(f, X, lists, n) ==
  /\ f \in [1..n -> Seq(X)]
  /\ \A i \in 1..n : f[i] = IF i = 1 THEN lists[i] ELSE f[i - 1] \o lists[i]

\* There is such a function.
LEMMA ConcatsExist ==
  ASSUME NEW X, NEW lists \in Seq(Seq(X)), NEW n \in 1..Len(lists)
  PROVE  \E f : ConcatsTo(f, X, lists, n)
<1> DEFINE T == {k \in 1..Len(lists) : ~\E f : ConcatsTo(f, X, lists, k)}
<1>1. Len(lists) \in Nat /\ \A k \in 1..Len(lists) : lists[k] \in Seq(X)
  OBVIOUS
<1> SUFFICES ASSUME T # {}
             PROVE  FALSE
  OBVIOUS
<1>2. T \in SUBSET Nat
  BY <1>1
<1>3. PICK k \in T : \A j \in T : k <= j
  BY <1>2, LeastNumber
<1>4. k \in 1..Len(lists) /\ ~\E f : ConcatsTo(f, X, lists, k)
  OBVIOUS
<1>5. CASE k = 1
  <2> DEFINE f == [i \in 1..1 |-> lists[1]]
  <2>1. f \in [1..1 -> Seq(X)] /\ f[1] = lists[1]
    BY <1>1, <1>4, <1>5
  <2>2. ConcatsTo(f, X, lists, 1)
    BY <2>1 DEF ConcatsTo
  <2>3. QED
    BY <1>4, <1>5, <2>2
<1>6. CASE k # 1
  <2>1. k - 1 \in 1..Len(lists) /\ k \in Nat /\ ~(k <= k - 1)
    BY <1>1, <1>4, <1>6
  <2>2. k - 1 \notin T
    BY <1>3, <2>1
  <2>3. PICK g : ConcatsTo(g, X, lists, k - 1)
    BY <2>1, <2>2
  <2>4. g[k - 1] \in Seq(X) /\ lists[k] \in Seq(X)
    BY <1>1, <1>4, <2>1, <2>3 DEF ConcatsTo
  <2> DEFINE f == [i \in 1..k |-> IF i = k THEN g[k - 1] \o lists[k] ELSE g[i]]
  <2>5. \A i \in 1..k : i # k => i \in 1..(k - 1)
    BY <2>1
  <2>6. g[k - 1] \o lists[k] \in Seq(X)
    BY <2>4
  <2>7. f \in [1..k -> Seq(X)]
    BY <2>3, <2>5, <2>6 DEF ConcatsTo
  <2>8. ASSUME NEW i \in 1..k
        PROVE  f[i] = IF i = 1 THEN lists[i] ELSE f[i - 1] \o lists[i]
    <3>1. CASE i = k
      <4>1. f[i - 1] = g[k - 1] /\ k - 1 # k /\ k - 1 \in 1..k
        BY <2>1, <3>1
      <4>2. QED
        BY <1>6, <3>1, <4>1
    <3>2. CASE i # k
      <4>1. i \in 1..(k - 1) /\ f[i] = g[i]
        BY <2>5, <3>2
      <4>2. i # 1 => i - 1 \in 1..k /\ i - 1 # k /\ f[i - 1] = g[i - 1]
        BY <2>1, <4>1
      <4>3. g[i] = IF i = 1 THEN lists[i] ELSE g[i - 1] \o lists[i]
        BY <2>3, <4>1 DEF ConcatsTo
      <4>4. QED
        BY <4>1, <4>2, <4>3
    <3>3. QED
      BY <3>1, <3>2
  <2>9. ConcatsTo(f, X, lists, k)
    BY <2>7, <2>8 DEF ConcatsTo
  <2>10. QED
    BY <1>4, <2>9
<1>7. QED
  BY <1>5, <1>6

\* FlattenSeq is the last of the concatenations.
LEMMA FlattenUnfolds ==
  ASSUME NEW X, NEW lists \in Seq(Seq(X)), Len(lists) # 0
  PROVE  \E f : ConcatsTo(f, X, lists, Len(lists)) /\ FlattenSeq(lists) = f[Len(lists)]
<1> DEFINE N == Len(lists)
           Concats(f) == [i \in 1..N |-> IF i = 1 THEN lists[i] ELSE f[i - 1] \o lists[i]]
           flatten == CHOOSE f : f = Concats(f)
<1>1. N \in Nat /\ N \in 1..N
  OBVIOUS
<1>2. PICK f : ConcatsTo(f, X, lists, N)
  BY <1>1, ConcatsExist
<1>3. f = Concats(f)
  BY <1>2 DEF ConcatsTo
<1>4. flatten = Concats(flatten)
  BY <1>3
<1>5. FlattenSeq(lists) = flatten[N]
  BY <1>1 DEF FlattenSeq
<1> HIDE DEF flatten
<1>6. \A i \in 1..N : flatten[i] = IF i = 1 THEN lists[i] ELSE flatten[i - 1] \o lists[i]
  BY <1>4
<1>7. DOMAIN flatten = 1..N
  BY <1>4
<1>8. \A i \in 1..N : flatten[i] \in Seq(X)
  <2> DEFINE T == {i \in 1..N : flatten[i] \notin Seq(X)}
  <2> SUFFICES ASSUME T # {}
               PROVE  FALSE
    OBVIOUS
  <2>1. T \in SUBSET Nat
    BY <1>1
  <2>2. PICK k \in T : \A j \in T : k <= j
    BY <2>1, LeastNumber
  <2>3. k \in 1..N /\ lists[k] \in Seq(X)
    BY <2>2
  <2>4. CASE k = 1
    BY <1>6, <2>2, <2>3, <2>4
  <2>5. CASE k # 1
    <3>1. k - 1 \in 1..N /\ ~(k <= k - 1)
      BY <2>3, <2>5
    <3>2. flatten[k - 1] \in Seq(X)
      BY <2>2, <3>1
    <3>3. flatten[k] = flatten[k - 1] \o lists[k]
      BY <1>6, <2>3, <2>5
    <3>4. flatten[k - 1] \o lists[k] \in Seq(X)
      BY <2>3, <3>2
    <3>5. QED
      BY <3>3, <3>4
  <2>6. QED
    BY <2>4, <2>5
<1>9. flatten \in [1..N -> Seq(X)]
  BY <1>4, <1>7, <1>8
<1>10. ConcatsTo(flatten, X, lists, N)
  BY <1>6, <1>9 DEF ConcatsTo
<1>11. QED
  BY <1>5, <1>10

\* The places in those of some lists whose numbers are in S, and their order.
Places(lists, S) == {p \in Nat \X Nat : p[1] \in S /\ p[2] \in DOMAIN lists[p[1]]}
Before(p, q) == p[1] < q[1] \/ (p[1] = q[1] /\ p[2] < q[2])

\* A list that holds what stands at these places, in their order.
Lists(flat, lists, S, place) ==
  /\ place \in [DOMAIN flat -> Places(lists, S)]
  /\ \A i \in DOMAIN flat : flat[i] = lists[place[i][1]][place[i][2]]
  /\ \A i, j \in DOMAIN flat : i < j => Before(place[i], place[j])
  /\ \A p \in Places(lists, S) : \E i \in DOMAIN flat : place[i] = p

\* One more list is put behind those before it.
LEMMA OneMoreList ==
  ASSUME NEW X, NEW lists \in Seq(Seq(X)), NEW n \in Nat, n + 1 \in 1..Len(lists),
         NEW flat \in Seq(X), NEW place, Lists(flat, lists, 1..n, place)
  PROVE  \E more : Lists(flat \o lists[n + 1], lists, 1..(n + 1), more)
<1> DEFINE next == lists[n + 1]
           both == flat \o next
           more == [i \in 1..(Len(flat) + Len(next)) |->
                      IF i <= Len(flat) THEN place[i] ELSE <<n + 1, i - Len(flat)>>]
<1>1. next \in Seq(X) /\ Len(next) \in Nat /\ Len(flat) \in Nat
  OBVIOUS
<1>2. /\ DOMAIN flat = 1..Len(flat) /\ DOMAIN next = 1..Len(next)
      /\ both \in Seq(X) /\ Len(both) = Len(flat) + Len(next)
      /\ \A i \in 1..(Len(flat) + Len(next)) :
            both[i] = IF i <= Len(flat) THEN flat[i] ELSE next[i - Len(flat)]
  BY <1>1
<1>3. DOMAIN both = 1..(Len(flat) + Len(next)) /\ DOMAIN more = DOMAIN both
  BY <1>1, <1>2
<1> HIDE DEF both
<1>4. \A i \in DOMAIN both : i <= Len(flat) =>
         i \in DOMAIN flat /\ more[i] = place[i] /\ both[i] = flat[i]
  BY <1>1, <1>2, <1>3
<1>5. \A i \in DOMAIN both : ~(i <= Len(flat)) =>
         /\ i - Len(flat) \in DOMAIN next /\ more[i] = <<n + 1, i - Len(flat)>>
         /\ both[i] = next[i - Len(flat)]
  BY <1>1, <1>2, <1>3
<1>6. \A i \in DOMAIN flat :
         /\ place[i] \in Nat \X Nat /\ place[i][1] \in 1..n
         /\ place[i][2] \in DOMAIN lists[place[i][1]]
  BY DEF Lists, Places
<1> HIDE DEF more
<1>7. ASSUME NEW i \in DOMAIN both
      PROVE  more[i] \in Places(lists, 1..(n + 1)) /\ both[i] = lists[more[i][1]][more[i][2]]
  <2>1. CASE i <= Len(flat)
    <3>1. i \in DOMAIN flat /\ more[i] = place[i] /\ both[i] = flat[i]
      BY <1>4, <2>1
    <3>2. place[i][1] \in 1..(n + 1)
      BY <1>6, <3>1
    <3>3. QED
      BY <1>6, <3>1, <3>2 DEF Lists, Places
  <2>2. CASE ~(i <= Len(flat))
    <3>1. /\ i - Len(flat) \in DOMAIN next /\ more[i] = <<n + 1, i - Len(flat)>>
          /\ both[i] = next[i - Len(flat)]
      BY <1>5, <2>2
    <3>2. more[i] \in Nat \X Nat /\ more[i][1] = n + 1 /\ more[i][2] = i - Len(flat)
      BY <1>1, <1>2, <3>1
    <3>3. n + 1 \in 1..(n + 1)
      OBVIOUS
    <3>4. QED
      BY <3>1, <3>2, <3>3 DEF Places
  <2>3. QED
    BY <2>1, <2>2
<1>8. ASSUME NEW i \in DOMAIN both, NEW j \in DOMAIN both, i < j
      PROVE  Before(more[i], more[j])
  <2>1. i \in Nat /\ j \in Nat
    BY <1>3
  <2>2. CASE j <= Len(flat)
    <3>1. i <= Len(flat)
      BY <1>1, <1>8, <2>1, <2>2
    <3>2. QED
      BY <1>4, <1>8, <2>2, <3>1 DEF Lists
  <2>3. CASE i <= Len(flat) /\ ~(j <= Len(flat))
    <3>1. more[i][1] \in 1..n /\ more[j][1] = n + 1
      BY <1>4, <1>5, <1>6, <2>3
    <3>2. QED
      BY <3>1 DEF Before
  <2>4. CASE ~(i <= Len(flat)) /\ ~(j <= Len(flat))
    <3>1. more[i] = <<n + 1, i - Len(flat)>> /\ more[j] = <<n + 1, j - Len(flat)>>
      BY <1>5, <2>4
    <3>2. i - Len(flat) < j - Len(flat)
      BY <1>1, <1>8, <2>1
    <3>3. QED
      BY <3>1, <3>2 DEF Before
  <2>5. QED
    BY <2>2, <2>3, <2>4
<1>9. ASSUME NEW p \in Places(lists, 1..(n + 1))
      PROVE  \E i \in DOMAIN both : more[i] = p
  <2>1. p \in Nat \X Nat /\ p[1] \in 1..(n + 1) /\ p[2] \in DOMAIN lists[p[1]]
    BY DEF Places
  <2>2. CASE p[1] = n + 1
    <3>1. p[2] \in 1..Len(next) /\ p = <<n + 1, p[2]>>
      BY <1>2, <2>1, <2>2
    <3> DEFINE i == Len(flat) + p[2]
    <3>2. i \in DOMAIN both /\ ~(i <= Len(flat)) /\ i - Len(flat) = p[2]
      BY <1>1, <1>3, <3>1
    <3>3. more[i] = p
      BY <1>5, <3>1, <3>2
    <3>4. QED
      BY <3>2, <3>3
  <2>3. CASE p[1] # n + 1
    <3>1. p[1] \in 1..n
      BY <2>1, <2>3
    <3>2. p \in Places(lists, 1..n)
      BY <2>1, <3>1 DEF Places
    <3>3. PICK i \in DOMAIN flat : place[i] = p
      BY <3>2 DEF Lists
    <3>4. i \in DOMAIN both /\ i <= Len(flat)
      BY <1>1, <1>2, <1>3
    <3>5. QED
      BY <1>4, <3>3, <3>4
  <2>4. QED
    BY <2>2, <2>3
<1>10. more \in [DOMAIN both -> Places(lists, 1..(n + 1))]
  BY <1>3, <1>7 DEF more
<1>11. Lists(both, lists, 1..(n + 1), more)
  BY <1>7, <1>8, <1>9, <1>10 DEF Lists
<1>12. QED
  BY <1>11 DEF both

\* What FlattenSeq holds: everything of every list, in the order of the lists.
LEMMA FlattenLists ==
  ASSUME NEW X, NEW lists \in Seq(Seq(X))
  PROVE  /\ FlattenSeq(lists) \in Seq(X)
         /\ \E place : Lists(FlattenSeq(lists), lists, 1..Len(lists), place)
<1> DEFINE N == Len(lists)
<1>0. Lists(<< >>, lists, 1..0, << >>)
  <2>1. Places(lists, 1..0) = {}
    BY DEF Places
  <2>2. << >> \in [{} -> Places(lists, 1..0)] /\ DOMAIN << >> = {}
    OBVIOUS
  <2>3. QED
    BY <2>1, <2>2 DEF Lists
<1>1. CASE N = 0
  <2>1. lists = << >>
    BY <1>1
  <2>2. FlattenSeq(lists) = << >>
    BY <2>1 DEF FlattenSeq
  <2>3. QED
    BY <1>0, <1>1, <2>2
<1>2. CASE N # 0
  <2>1. PICK f : ConcatsTo(f, X, lists, N) /\ FlattenSeq(lists) = f[N]
    BY <1>2, FlattenUnfolds
  <2>2. \A i \in 1..N : f[i] \in Seq(X) /\ lists[i] \in Seq(X)
    <3>1. f \in [1..N -> Seq(X)]
      BY <2>1 DEF ConcatsTo
    <3>2. \A i \in 1..N : lists[i] \in Seq(X)
      OBVIOUS
    <3>3. QED
      BY <3>1, <3>2
  <2>3. N \in Nat /\ N \in 1..N
    BY <1>2
  <2> DEFINE T == {i \in 1..N : ~\E place : Lists(f[i], lists, 1..i, place)}
  <2>4. ASSUME T # {}
        PROVE  FALSE
    <3>1. T \in SUBSET Nat
      BY <2>3
    <3>2. PICK k \in T : \A j \in T : k <= j
      BY <2>4, <3>1, LeastNumber
    <3>3. k \in 1..N
      BY <3>2
    <3>4. CASE k = 1
      <4>1. f[1] = << >> \o lists[1]
        <5>1. f[1] = lists[1]
          BY <2>1, <3>3, <3>4 DEF ConcatsTo
        <5>2. lists[1] \in Seq(X)
          BY <2>2, <3>3, <3>4
        <5>3. QED
          BY <5>1, <5>2
      <4>2. << >> \in Seq(X) /\ 0 + 1 \in 1..Len(lists) /\ 0 + 1 = 1
        BY <2>3, <3>3, <3>4
      <4>3. \E place : Lists(<< >> \o lists[0 + 1], lists, 1..(0 + 1), place)
        BY <1>0, <4>2, OneMoreList
      <4>4. QED
        BY <3>2, <3>4, <4>1, <4>2, <4>3
    <3>5. CASE k # 1
      <4>1. k - 1 \in 1..N /\ ~(k <= k - 1) /\ k - 1 \in Nat /\ (k - 1) + 1 = k
        BY <3>3, <3>5
      <4>2. PICK place : Lists(f[k - 1], lists, 1..(k - 1), place)
        BY <3>2, <4>1
      <4>3. f[k] = f[k - 1] \o lists[k]
        BY <2>1, <3>3, <3>5 DEF ConcatsTo
      <4>4. f[k - 1] \in Seq(X)
        BY <2>2, <4>1
      <4>5. \E more : Lists(f[k - 1] \o lists[(k - 1) + 1], lists, 1..((k - 1) + 1), more)
        BY <3>3, <4>1, <4>2, <4>4, OneMoreList
      <4>6. QED
        BY <3>2, <4>1, <4>3, <4>5
    <3>6. QED
      BY <3>4, <3>5
  <2>5. QED
    BY <2>1, <2>2, <2>3, <2>4
<1>3. QED
  BY <1>1, <1>2

----------------------------------------------------------------------------
(* What stays of a list, and in which order *)

\* A rearrangement of the positions of a list, none of them twice, leaves out none.
LEMMA PermutationMeetsAll ==
  ASSUME NEW m \in Nat, NEW order \in [1..m -> 1..m], IsInjective(order)
  PROVE  \A p \in 1..m : \E i \in 1..m : order[i] = p
<1>1. IsFiniteSet(1..m)
  BY FS_Interval
<1>2. order \in Injection(1..m, 1..m)
  BY DEF Injection
<1>3. order \in Surjection(1..m, 1..m)
  BY <1>1, <1>2, FS_Injection
<1>4. QED
  BY <1>3 DEF Surjection

\* m issues, sorted from a list: each comes from a position of its own, the first with its
\* key, and every such position is there.
SortedFrom(sorted, m, flat, from) ==
  /\ EachOnce(from, m, FirstWithKey(flat))
  /\ \A k \in 1..m : sorted[k] = flat[from[k]]

\* The position in a list of each issue that deduplicateIssues keeps and sort.Slice puts
\* somewhere: the first position with its key.
LEMMA KeptAndSorted ==
  ASSUME NEW X, NEW flat \in Seq(X), NEW m, m = Cardinality(FirstWithKey(flat)),
         NEW kept \in DeduplicateIssues(flat), NEW sorted \in SortIssues(kept)
  PROVE  /\ m \in Nat /\ DOMAIN sorted = 1..m /\ sorted \in Seq(X)
         /\ \A k \in 2..m : MayPrecede(sorted[k - 1], sorted[k])
         /\ \E from : SortedFrom(sorted, m, flat, from)
<1> DEFINE K == FirstWithKey(flat)
<1>1. Len(flat) \in Nat /\ DOMAIN flat = 1..Len(flat) /\ K \in SUBSET (1..Len(flat))
  BY DEF FirstWithKey
<1>2. PICK first \in InOrder(K) : kept = [k \in 1..m |-> flat[first[k]]]
  BY DEF DeduplicateIssues, Selections
<1>3. m \in Nat /\ EachOnce(first, m, K)
  BY <1>1, <1>2, InOrderMeetsAll
<1> HIDE DEF K
<1> USE DEF EachOnce
<1>4. kept \in Seq(X) /\ DOMAIN kept = 1..m /\ Len(kept) = m
  <2>1. \A k \in 1..m : first[k] \in K /\ flat[first[k]] \in X
    <3>1. \A k \in 1..m : first[k] \in K
      BY <1>3
    <3>2. \A p \in K : flat[p] \in X
      BY <1>1
    <3>3. QED
      BY <3>1, <3>2
  <2>2. kept \in [1..m -> X]
    BY <1>2, <2>1
  <2>3. QED
    BY <1>2, <1>3, <2>2
<1>5. PICK order \in [1..m -> 1..m] :
        /\ IsInjective(order)
        /\ \A k \in 2..m : MayPrecede(kept[order[k - 1]], kept[order[k]])
        /\ sorted = [k \in 1..m |-> kept[order[k]]]
  BY <1>4 DEF SortIssues
<1>6. \A p \in 1..m : \E i \in 1..m : order[i] = p
  BY <1>3, <1>5, PermutationMeetsAll
<1> DEFINE from == [k \in 1..m |-> first[order[k]]]
<1>7. \A k \in 1..m : /\ order[k] \in 1..m /\ first[order[k]] \in K
                      /\ kept[order[k]] = flat[first[order[k]]]
  BY <1>2, <1>3, <1>5
<1>8. /\ from \in [1..m -> K]
      /\ \A k \in 1..m : sorted[k] = flat[from[k]]
  BY <1>5, <1>7
<1>9. \A i, j \in 1..m : from[i] = from[j] => i = j
  <2> SUFFICES ASSUME NEW i \in 1..m, NEW j \in 1..m, from[i] = from[j]
               PROVE  i = j
    OBVIOUS
  <2>1. first[order[i]] = first[order[j]]
    OBVIOUS
  <2>2. order[i] = order[j]
    BY <1>3, <1>7, <2>1
  <2>3. QED
    BY <1>5, <2>2 DEF IsInjective
<1>10. \A p \in K : \E k \in 1..m : from[k] = p
  <2> SUFFICES ASSUME NEW p \in K
               PROVE  \E k \in 1..m : from[k] = p
    OBVIOUS
  <2>1. PICK i \in 1..m : first[i] = p
    BY <1>3
  <2>2. PICK k \in 1..m : order[k] = i
    BY <1>6
  <2>3. QED
    BY <2>1, <2>2
<1>11. DOMAIN sorted = 1..m /\ \A k \in 2..m : MayPrecede(sorted[k - 1], sorted[k])
  <2>1. \A k \in 2..m : k \in 1..m /\ k - 1 \in 1..m
    BY <1>3
  <2>2. QED
    BY <1>5, <2>1
<1>12. sorted \in Seq(X)
  <2>1. \A k \in 1..m : kept[order[k]] \in X
    BY <1>4, <1>7
  <2>2. sorted \in [1..m -> X]
    BY <1>5, <2>1
  <2>3. QED
    BY <1>3, <2>2
<1> HIDE DEF from
<1>13. EachOnce(from, m, K)
  BY <1>8, <1>9, <1>10
<1>14. SortedFrom(sorted, m, flat, from)
  BY <1>8, <1>13 DEF SortedFrom, K
<1>15. QED
  BY <1>3, <1>11, <1>12, <1>14

\* A position is the first with its key in a concatenation just where no place before it in
\* the lists holds that key.
LEMMA FirstInLists ==
  ASSUME NEW X, NEW flat \in Seq(X), NEW lists, NEW S \in SUBSET Nat, NEW place,
         Lists(flat, lists, S, place), NEW i \in DOMAIN flat
  PROVE  i \in FirstWithKey(flat) <=>
           \A p \in Places(lists, S) :
             Before(p, place[i]) => IssueKey(lists[p[1]][p[2]]) # IssueKey(flat[i])
<1>1. DOMAIN flat = 1..Len(flat) /\ Len(flat) \in Nat
  OBVIOUS
<1>2. \A j \in DOMAIN flat : place[j] \in Places(lists, S) /\ place[j] \in Nat \X Nat
  BY DEF Lists, Places
<1>3. ASSUME NEW j \in DOMAIN flat
      PROVE  Before(place[j], place[i]) <=> j < i
  <2>1. place[i][1] \in Nat /\ place[i][2] \in Nat /\ place[j][1] \in Nat /\ place[j][2] \in Nat
    BY <1>2
  <2>2. j < i => Before(place[j], place[i])
    BY DEF Lists
  <2>3. i < j => Before(place[i], place[j])
    BY DEF Lists
  <2>4. i = j \/ i < j \/ j < i
    BY <1>1
  <2>5. ~(Before(place[i], place[j]) /\ Before(place[j], place[i]))
    BY <2>1 DEF Before
  <2>6. ~Before(place[i], place[i])
    BY <2>1 DEF Before
  <2>7. QED
    BY <1>1, <2>2, <2>3, <2>4, <2>5, <2>6
<1>4. ASSUME i \in FirstWithKey(flat), NEW p \in Places(lists, S), Before(p, place[i])
      PROVE  IssueKey(lists[p[1]][p[2]]) # IssueKey(flat[i])
  <2>1. PICK j \in DOMAIN flat : place[j] = p
    BY DEF Lists
  <2>2. j < i
    BY <1>3, <1>4, <2>1
  <2>3. j \in 1..(i - 1)
    BY <1>1, <2>2
  <2>4. flat[j] = lists[p[1]][p[2]]
    BY <2>1 DEF Lists
  <2>5. QED
    BY <1>4, <2>3, <2>4 DEF FirstWithKey
<1>5. ASSUME \A p \in Places(lists, S) :
               Before(p, place[i]) => IssueKey(lists[p[1]][p[2]]) # IssueKey(flat[i])
      PROVE  i \in FirstWithKey(flat)
  <2> SUFFICES ASSUME NEW j \in 1..(i - 1)
               PROVE  IssueKey(flat[j]) # IssueKey(flat[i])
    BY DEF FirstWithKey
  <2>1. j \in DOMAIN flat /\ j < i
    BY <1>1
  <2>2. Before(place[j], place[i]) /\ place[j] \in Places(lists, S)
    BY <1>2, <1>3, <2>1
  <2>3. flat[j] = lists[place[j][1]][place[j][2]]
    BY <2>1 DEF Lists
  <2>4. QED
    BY <1>5, <2>2, <2>3
<1>6. QED
  BY <1>4, <1>5

\* The same list, by the numbers that an increasing order gives the lists.
LEMMA Renumbered ==
  ASSUME NEW S \in SUBSET Nat, NEW n \in Nat, NEW order \in [1..n -> S],
         \A i, j \in 1..n : i < j => order[i] < order[j],
         \A c \in S : \E i \in 1..n : order[i] = c,
         NEW lists, NEW X, NEW flat \in Seq(X), NEW place,
         Lists(flat, [i \in 1..n |-> lists[order[i]]], 1..n, place)
  PROVE  \E seat : Lists(flat, lists, S, seat)
<1> DEFINE some == [i \in 1..n |-> lists[order[i]]]
           seat == [k \in DOMAIN flat |-> <<order[place[k][1]], place[k][2]>>]
<1>1. ASSUME NEW k \in DOMAIN flat
      PROVE  /\ place[k][1] \in 1..n /\ place[k][2] \in Nat
             /\ place[k][2] \in DOMAIN lists[order[place[k][1]]]
             /\ flat[k] = lists[order[place[k][1]]][place[k][2]]
  <2>1. place[k] \in Places(some, 1..n) /\ flat[k] = some[place[k][1]][place[k][2]]
    BY DEF Lists
  <2>2. place[k][1] \in 1..n /\ place[k][2] \in Nat /\ place[k][2] \in DOMAIN some[place[k][1]]
    BY <2>1 DEF Places
  <2>3. some[place[k][1]] = lists[order[place[k][1]]]
    BY <2>2
  <2>4. QED
    BY <2>1, <2>2, <2>3
<1>2. \A k \in DOMAIN flat : seat[k] = <<order[place[k][1]], place[k][2]>>
  OBVIOUS
<1>3. seat \in [DOMAIN flat -> Places(lists, S)]
  <2>1. \A k \in DOMAIN flat : <<order[place[k][1]], place[k][2]>> \in Places(lists, S)
    <3> SUFFICES ASSUME NEW k \in DOMAIN flat
                 PROVE  <<order[place[k][1]], place[k][2]>> \in Places(lists, S)
      OBVIOUS
    <3>1. order[place[k][1]] \in S /\ order[place[k][1]] \in Nat
      BY <1>1
    <3>2. QED
      BY <1>1, <3>1 DEF Places
  <2>2. QED
    BY <2>1
<1> HIDE DEF seat
<1>4. \A k \in DOMAIN flat : flat[k] = lists[seat[k][1]][seat[k][2]]
  BY <1>1, <1>2
<1>5. ASSUME NEW k \in DOMAIN flat, NEW l \in DOMAIN flat, k < l
      PROVE  Before(seat[k], seat[l])
  <2>1. Before(place[k], place[l])
    BY <1>5 DEF Lists
  <2>2. CASE place[k][1] < place[l][1]
    <3>1. order[place[k][1]] < order[place[l][1]]
      BY <1>1, <2>2
    <3>2. QED
      BY <1>2, <3>1 DEF Before
  <2>3. CASE place[k][1] = place[l][1] /\ place[k][2] < place[l][2]
    BY <1>2, <2>3 DEF Before
  <2>4. QED
    BY <2>1, <2>2, <2>3 DEF Before
<1>6. ASSUME NEW p \in Places(lists, S)
      PROVE  \E k \in DOMAIN flat : seat[k] = p
  <2>1. p \in Nat \X Nat /\ p[1] \in S /\ p[2] \in DOMAIN lists[p[1]] /\ p[2] \in Nat
    BY DEF Places
  <2>2. PICK i \in 1..n : order[i] = p[1]
    BY <2>1
  <2>3. some[i] = lists[p[1]] /\ i \in Nat
    BY <2>2
  <2>4. <<i, p[2]>> \in Places(some, 1..n)
    BY <2>1, <2>3 DEF Places
  <2>5. PICK k \in DOMAIN flat : place[k] = <<i, p[2]>>
    BY <2>4 DEF Lists
  <2>6. seat[k] = <<p[1], p[2]>>
    BY <1>2, <2>2, <2>5
  <2>7. seat[k] = p
    BY <2>1, <2>6
  <2>8. QED
    BY <2>7
<1>7. QED
  BY <1>3, <1>4, <1>5, <1>6 DEF Lists

----------------------------------------------------------------------------
(* The review keeps its promise *)

\* A chunk has a reply once its call is over; only a failed call makes an error of the
\* group, and as long as the group has none, no chunk that returned failed.
Answering ==
  /\ \A c \in Chunks : reply[c] = NoReply <=> stage[c] \in {"waiting", "started", "calling"}
  /\ \A c \in Chunks : /\ total > 1
                       /\ stage[c] \in {"returned", "released"}
                       /\ reply[c].kind \in {"failed", "cancelled"}
                       => groupErr # 0
  /\ groupErr # 0 => /\ total > 1
                     /\ stage[groupErr] \in {"returned", "released"}
                     /\ reply[groupErr].kind \in {"failed", "cancelled"}

\* Answering holds in every reachable state.
LEMMA AnswersAndErrors == Spec => []Answering
<1>1. Init => Answering
  BY ChunkedReviewAssumption DEF Init, Answering, Chunks
<1>2. TypeOK /\ LaunchedInOrder /\ Answering /\ [Next]_vars => Answering'
  <2> SUFFICES ASSUME TypeOK, LaunchedInOrder, Answering, [Next]_vars
               PROVE  Answering'
    OBVIOUS
  <2> USE ChunkedReviewAssumption DEF TypeOK, Answering, Chunks
  <2>1. CASE Launch
    <3>1. launched + 1 \in Chunks /\ stage[launched + 1] = "waiting"
      BY <2>1 DEF Launch, LaunchedInOrder
    <3>2. QED
      BY <2>1, <3>1 DEF Launch
  <2>2. CASE Finish
    BY <2>2 DEF Finish
  <2>3. CASE ReviewInput
    BY <2>3 DEF ReviewInput
  <2>4. CASE ClientLeaves
    BY <2>4 DEF ClientLeaves
  <2>5. ASSUME NEW c \in Chunks, CallBackend(c)
        PROVE  Answering'
    BY <2>5 DEF CallBackend
  <2>6. ASSUME NEW c \in Chunks, CallCancelled(c)
        PROVE  Answering'
    BY <2>6 DEF CallCancelled, Cancelled, NoReply
  <2>7. ASSUME NEW c \in Chunks, BackendReplies(c)
        PROVE  Answering'
    <3>1. reply'[c] # NoReply /\ \A d \in Chunks \ {c} : reply'[d] = reply[d]
      BY <2>7 DEF BackendReplies, Failed, Garbled, Answers, NoReply
    <3>2. /\ stage[c] = "calling" /\ stage' = [stage EXCEPT ![c] = "replied"]
          /\ UNCHANGED <<total, groupErr>>
      BY <2>7 DEF BackendReplies
    <3>3. stage'[c] = "replied" /\ \A d \in Chunks \ {c} : stage'[d] = stage[d]
      BY <3>2
    <3>4. groupErr # 0 => groupErr \in Chunks \ {c}
      BY <3>2
    <3>5. \A d \in Chunks : reply'[d] = NoReply <=> stage'[d] \in {"waiting", "started", "calling"}
      BY <3>1, <3>3
    <3>6. groupErr' # 0 => /\ total' > 1
                           /\ stage'[groupErr'] \in {"returned", "released"}
                           /\ reply'[groupErr'].kind \in {"failed", "cancelled"}
      BY <3>1, <3>2, <3>3, <3>4
    <3>7. \A d \in Chunks : /\ total' > 1
                            /\ stage'[d] \in {"returned", "released"}
                            /\ reply'[d].kind \in {"failed", "cancelled"}
                            => groupErr' # 0
      BY <3>1, <3>2, <3>3
    <3>8. QED
      BY <3>5, <3>6, <3>7
  <2>8. ASSUME NEW c \in Chunks, Return(c)
        PROVE  Answering'
    <3>1. total > 1 /\ stage[c] = "replied" /\ stage' = [stage EXCEPT ![c] = "returned"]
      BY <2>8 DEF Return
    <3>2. UNCHANGED <<total, reply>>
      BY <2>8 DEF Return
    <3>3. \/ /\ reply[c].kind \in {"failed", "cancelled"}
             /\ groupErr' = IF groupErr = 0 THEN c ELSE groupErr
          \/ /\ reply[c].kind \in {"garbled", "result"}
             /\ groupErr' = groupErr
      BY <2>8 DEF Return
    <3>4. c # 0 /\ reply[c] # NoReply
      BY <3>1
    <3>5. CASE reply[c].kind \in {"failed", "cancelled"}
      BY <3>1, <3>2, <3>3, <3>4, <3>5
    <3>6. CASE reply[c].kind \in {"garbled", "result"} /\ groupErr' = groupErr
      BY <3>1, <3>2, <3>4, <3>6
    <3>7. QED
      BY <3>3, <3>5, <3>6
  <2>9. ASSUME NEW c \in Chunks, Release(c)
        PROVE  Answering'
    BY <2>9 DEF Release
  <2>10. CASE UNCHANGED vars
    BY <2>10 DEF vars
  <2>11. QED
    BY <2>1, <2>2, <2>3, <2>4, <2>5, <2>6, <2>7, <2>8, <2>9, <2>10 DEF Next, Step
<1>3. QED
  BY <1>1, <1>2, TypeCorrect, LaunchOrder, PTL DEF Spec

\* As many positions as a set has elements, when each is at one of them.
LEMMA CountedOnce ==
  ASSUME NEW m \in Nat, NEW S, NEW at, EachOnce(at, m, S)
  PROVE  Cardinality(S) = m
<1>1. at \in Injection(1..m, S) /\ at \in Surjection(1..m, S)
  BY DEF EachOnce, Injection, Surjection, IsInjective
<1>2. IsFiniteSet(1..m) /\ Cardinality(1..m) = m
  BY FS_Interval
<1>3. QED
  BY <1>1, <1>2, FS_Surjection

\* The first reports of the promise, told by their places in the lists of the chunks.
LEMMA FirstReports ==
  ASSUME NEW X, NEW lists, NEW S \in SUBSET Nat, S = P!Readable,
         \A c \in S : lists[c] = Parse(reply[c].body).issues /\ lists[c] \in Seq(X),
         NEW p \in Places(lists, S)
  PROVE  P!IsFirstReport(p[1], p[2]) <=>
           \A q \in Places(lists, S) :
             Before(q, p) => IssueKey(lists[q[1]][q[2]]) # IssueKey(lists[p[1]][p[2]])
<1>1. \A c \in S : P!Parsed(c).issues = lists[c]
  BY PromiseOperators DEF P!Parsed
<1>2. p[1] \in S
  BY DEF Places
<1>3. \A x, y : P!IssueKey(x) = P!IssueKey(y) <=> IssueKey(x) = IssueKey(y)
  BY PromiseOperators
<1>4. ASSUME P!IsFirstReport(p[1], p[2]), NEW q \in Places(lists, S), Before(q, p)
      PROVE  IssueKey(lists[q[1]][q[2]]) # IssueKey(lists[p[1]][p[2]])
  <2>1. q[1] \in S /\ q[2] \in DOMAIN lists[q[1]]
    BY DEF Places
  <2>2. P!IssueKey(P!Parsed(q[1]).issues[q[2]]) # P!IssueKey(P!Parsed(p[1]).issues[p[2]])
    BY <1>1, <1>4, <2>1 DEF P!IsFirstReport, Before
  <2>3. P!Parsed(q[1]).issues = lists[q[1]] /\ P!Parsed(p[1]).issues = lists[p[1]]
    BY <1>1, <1>2, <2>1
  <2>4. P!IssueKey(lists[q[1]][q[2]]) # P!IssueKey(lists[p[1]][p[2]])
    BY <2>2, <2>3
  <2>5. QED
    BY <1>3, <2>4
<1>5. ASSUME \A q \in Places(lists, S) :
               Before(q, p) => IssueKey(lists[q[1]][q[2]]) # IssueKey(lists[p[1]][p[2]])
      PROVE  P!IsFirstReport(p[1], p[2])
  <2> SUFFICES ASSUME NEW d \in S, NEW j \in DOMAIN P!Parsed(d).issues,
                      d < p[1] \/ (d = p[1] /\ j < p[2])
               PROVE  P!IssueKey(P!Parsed(d).issues[j]) # P!IssueKey(P!Parsed(p[1]).issues[p[2]])
    BY DEF P!IsFirstReport
  <2>1. j \in DOMAIN lists[d] /\ lists[d] \in Seq(X) /\ d \in Nat
    BY <1>1
  <2>2. j \in Nat
    BY <2>1
  <2>3. <<d, j>> \in Places(lists, S) /\ Before(<<d, j>>, p)
    BY <2>1, <2>2 DEF Places, Before
  <2>4. IssueKey(lists[d][j]) # IssueKey(lists[p[1]][p[2]])
    BY <1>5, <2>3
  <2>5. QED
    BY <1>1, <1>2, <1>3, <2>4
<1>6. QED
  BY <1>4, <1>5

\* When every goroutine is done, the slice holds just the chunks the promise calls readable.
LEMMA ResultsAreReadable ==
  ASSUME TypeOK, LaunchedInOrder, NoAnswerLostOrCountedTwice, total > 1,
         \A c \in 1..total : stage[c] = "released"
  PROVE  /\ ToSet(results) = P!Readable
         /\ ToSet(results) \in SUBSET Chunks
         /\ \A c \in ToSet(results) : reply[c].kind = "result" /\ reply[c].body \in Bodies
<1>1. 1..total \subseteq Chunks /\ Chunks \subseteq Nat
  BY ChunkedReviewAssumption DEF TypeOK, Chunks
<1>2. \A c \in Chunks : c > total => stage[c] = "waiting"
  BY <1>1 DEF TypeOK, LaunchedInOrder, Chunks
<1>3. \A c \in Chunks : stage[c] \in {"returned", "released"} => c \in 1..total
  BY <1>1, <1>2, ChunkedReviewAssumption DEF TypeOK, Chunks
<1>4. ToSet(results) = {c \in Chunks : stage[c] \in {"returned", "released"} /\ reply[c].kind = "result"}
  BY DEF NoAnswerLostOrCountedTwice
<1>5. ToSet(results) = P!Readable
  BY <1>1, <1>3, <1>4 DEF P!Readable, P!Parts
<1>6. \A c \in Chunks : reply[c].kind = "result" => reply[c].body \in Bodies
  BY DEF TypeOK, Reply, NoReply, Failed, Cancelled, Garbled, Answers
<1>7. QED
  BY <1>4, <1>5, <1>6

\* What is kept of a concatenation of the readable chunks' issues, and sorted, are the
\* promise's first reports.
LEMMA FirstReportsKept ==
  ASSUME NEW lists, NEW S \in SUBSET Nat, S = P!Readable,
         \A c \in S : lists[c] = Parse(reply[c].body).issues /\ lists[c] \in Seq(Issues),
         NEW all \in Seq(Issues), NEW seat, Lists(all, lists, S, seat),
         NEW kept \in DeduplicateIssues(all), NEW sorted \in SortIssues(kept),
         NEW r, r.issues = sorted
  PROVE  P!HasFirstReports(r)
<1> DEFINE K == FirstWithKey(all)
           m == Cardinality(K)
           reports == Places(lists, S)
           firsts == {p \in reports : P!IsFirstReport(p[1], p[2])}
<1>1. m = Cardinality(FirstWithKey(all))
  OBVIOUS
<1> HIDE DEF K, m
<1>2. /\ m \in Nat /\ DOMAIN sorted = 1..m /\ sorted \in Seq(Issues)
      /\ \A k \in 2..m : MayPrecede(sorted[k - 1], sorted[k])
      /\ \E from : SortedFrom(sorted, m, all, from)
  BY <1>1, KeptAndSorted
<1>3. PICK from : SortedFrom(sorted, m, all, from)
  BY <1>2
<1>4. EachOnce(from, m, K) /\ \A k \in 1..m : sorted[k] = all[from[k]]
  BY <1>3 DEF SortedFrom, K
<1>5. K \in SUBSET (DOMAIN all)
  BY DEF FirstWithKey, K
<1>6. \A i \in DOMAIN all : seat[i] \in reports /\ all[i] = lists[seat[i][1]][seat[i][2]]
  BY DEF Lists
<1>7. \A i \in DOMAIN all : i \in K <=> seat[i] \in firsts
  <2> SUFFICES ASSUME NEW i \in DOMAIN all
               PROVE  i \in K <=> seat[i] \in firsts
    OBVIOUS
  <2>1. i \in K <=> \A p \in reports :
                      Before(p, seat[i]) => IssueKey(lists[p[1]][p[2]]) # IssueKey(all[i])
    BY FirstInLists DEF K
  <2>2. P!IsFirstReport(seat[i][1], seat[i][2]) <=>
          \A p \in reports : Before(p, seat[i]) =>
            IssueKey(lists[p[1]][p[2]]) # IssueKey(lists[seat[i][1]][seat[i][2]])
    BY <1>6, FirstReports
  <2>3. QED
    BY <1>6, <2>1, <2>2
<1> HIDE DEF firsts, reports
<1> DEFINE at == [k \in 1..m |-> seat[from[k]]]
<1>8. \A k \in 1..m : from[k] \in K /\ from[k] \in DOMAIN all /\ at[k] = seat[from[k]]
  BY <1>4, <1>5 DEF EachOnce
<1>9. \A k \in 1..m : at[k] \in firsts /\ sorted[k] = lists[at[k][1]][at[k][2]]
  BY <1>4, <1>6, <1>7, <1>8
<1>10. EachOnce(at, m, firsts)
  <2>1. at \in [1..m -> firsts]
    BY <1>9
  <2>2. ASSUME NEW i \in 1..m, NEW j \in 1..m, at[i] = at[j]
        PROVE  i = j
    <3>1. seat[from[i]] = seat[from[j]]
      BY <1>8, <2>2
    <3>2. from[i] = from[j]
      <4>1. from[i] \in Nat /\ from[j] \in Nat
        BY <1>8
      <4>2. from[i] < from[j] => Before(seat[from[i]], seat[from[j]])
        BY <1>8 DEF Lists
      <4>3. from[j] < from[i] => Before(seat[from[j]], seat[from[i]])
        BY <1>8 DEF Lists
      <4>4. ~Before(seat[from[i]], seat[from[i]])
        <5>1. seat[from[i]] \in Nat \X Nat
          BY <1>6, <1>8 DEF reports, Places
        <5>2. QED
          BY <5>1 DEF Before
      <4>5. QED
        BY <3>1, <4>1, <4>2, <4>3, <4>4
    <3>3. QED
      BY <1>4, <3>2 DEF EachOnce
  <2>3. ASSUME NEW p \in firsts
        PROVE  \E k \in 1..m : at[k] = p
    <3>1. p \in reports
      BY DEF firsts
    <3>2. PICK i \in DOMAIN all : seat[i] = p
      BY <3>1 DEF Lists, reports
    <3>3. i \in K
      BY <1>7, <3>2
    <3>4. PICK k \in 1..m : from[k] = i
      BY <1>4, <3>3 DEF EachOnce
    <3>5. QED
      BY <1>8, <3>2, <3>4
  <2>4. QED
    BY <2>1, <2>2, <2>3 DEF EachOnce
<1> HIDE DEF at
<1>11. Cardinality(firsts) = m /\ Len(sorted) = m
  BY <1>2, <1>10, CountedOnce
<1>12. \A p \in firsts : p[1] \in S /\ P!Parsed(p[1]).issues = lists[p[1]]
  <2>1. \A p \in firsts : p[1] \in S
    BY DEF firsts, reports, Places
  <2>2. QED
    BY <2>1, PromiseOperators DEF P!Parsed
<1>13. {sorted[k] : k \in 1..m} = {P!Parsed(p[1]).issues[p[2]] : p \in firsts}
  <2>1. ASSUME NEW k \in 1..m
        PROVE  sorted[k] \in {P!Parsed(p[1]).issues[p[2]] : p \in firsts}
    BY <1>9, <1>12
  <2>2. ASSUME NEW p \in firsts
        PROVE  P!Parsed(p[1]).issues[p[2]] \in {sorted[k] : k \in 1..m}
    <3>1. PICK k \in 1..m : at[k] = p
      BY <1>10 DEF EachOnce
    <3>2. sorted[k] = P!Parsed(p[1]).issues[p[2]]
      BY <1>9, <1>12, <3>1
    <3>3. QED
      BY <3>2
  <2>3. QED
    BY <2>1, <2>2
<1>14. reports = UNION {{<<c, i>> : i \in DOMAIN P!Parsed(c).issues} : c \in P!Readable}
  <2>1. \A c \in S : P!Parsed(c).issues = lists[c] /\ DOMAIN lists[c] \subseteq Nat
    BY PromiseOperators DEF P!Parsed
  <2>2. ASSUME NEW p \in reports
        PROVE  \E c \in S : p \in {<<c, i>> : i \in DOMAIN P!Parsed(c).issues}
    <3>1. p \in Nat \X Nat /\ p[1] \in S /\ p[2] \in DOMAIN lists[p[1]]
      BY DEF reports, Places
    <3>2. p = <<p[1], p[2]>>
      BY <3>1
    <3>3. p \in {<<p[1], i>> : i \in DOMAIN P!Parsed(p[1]).issues}
      BY <2>1, <3>1, <3>2
    <3>4. QED
      BY <3>1, <3>3
  <2>3. ASSUME NEW c \in S, NEW i \in DOMAIN P!Parsed(c).issues
        PROVE  <<c, i>> \in reports
    BY <2>1 DEF reports, Places
  <2>4. QED
    BY <2>2, <2>3
<1>15. firsts = {p \in reports : P!IsFirstReport(p[1], p[2])}
  BY DEF firsts
<1>16. P!Cardinality(firsts) = Cardinality(firsts)
  BY DEF P!Cardinality, Cardinality
<1>17. \A k \in 2..Len(sorted) : P!MayPrecede(sorted[k - 1], sorted[k])
  BY <1>2, <1>11, PromiseOperators
<1>18. QED
  BY <1>2, <1>11, <1>13, <1>14, <1>15, <1>16, <1>17 DEF P!HasFirstReports

\* The promise's list of issues is what the merge returns, in whatever order its sort
\* leaves issues that may stand either way.
LEMMA MergedFirstReports ==
  ASSUME TypeOK, NEW S \in SUBSET Chunks, S = P!Readable,
         \A c \in S : reply[c].body \in Bodies,
         NEW n \in Nat, NEW order, EachOnce(order, n, S),
         \A i, j \in 1..n : i < j => order[i] < order[j],
         NEW all, all = FlattenSeq([i \in 1..n |-> Parse(reply[order[i]].body).issues]),
         NEW kept \in DeduplicateIssues(all), NEW sorted \in SortIssues(kept),
         NEW r, r.issues = sorted
  PROVE  P!HasFirstReports(r)
<1> DEFINE lists == [c \in S |-> Parse(reply[c].body).issues]
           some  == [i \in 1..n |-> lists[order[i]]]
<1>1. S \in SUBSET Nat /\ order \in [1..n -> S]
  BY ChunkedReviewAssumption DEF Chunks, EachOnce
<1>2. \A c \in S : lists[c] = Parse(reply[c].body).issues /\ lists[c] \in Seq(Issues)
  BY ChunkedReviewAssumption DEF Parse
<1>3. \A i \in 1..n : order[i] \in S
  BY <1>1
<1>4. some \in Seq(Seq(Issues)) /\ Len(some) = n
  <2>1. some \in [1..n -> Seq(Issues)]
    BY <1>2, <1>3
  <2>2. QED
    BY <2>1
<1>5. all = FlattenSeq(some)
  <2>1. some = [i \in 1..n |-> Parse(reply[order[i]].body).issues]
    BY <1>3
  <2>2. QED
    BY <2>1
<1>6. all \in Seq(Issues)
  BY <1>4, <1>5, FlattenLists
<1>7. PICK place : Lists(all, some, 1..n, place)
  BY <1>4, <1>5, FlattenLists
<1> HIDE DEF lists
<1>8. PICK seat : Lists(all, lists, S, seat)
  <2>1. \A c \in S : \E i \in 1..n : order[i] = c
    BY DEF EachOnce
  <2>2. Lists(all, [i \in 1..n |-> lists[order[i]]], 1..n, place)
    BY <1>7
  <2>3. QED
    BY <1>1, <1>6, <2>1, <2>2, Renumbered, Zenon
<1>9. QED
  BY <1>1, <1>2, <1>6, <1>8, FirstReportsKept

\* What a merged result is made of.
LEMMA MergedParts ==
  ASSUME NEW parsed, NEW all, all = FlattenSeq([i \in DOMAIN parsed |-> parsed[i].issues]),
         NEW merged \in MergeResults(parsed)
  PROVE  \E kept \in DeduplicateIssues(all) : \E issues \in SortIssues(kept) :
           /\ merged.verdict = WorstVerdict(parsed)
           /\ merged.issues = issues
           /\ merged.stats = RecalcStats(issues)
<1>1. PICK issues \in UNION {SortIssues(kept) : kept \in DeduplicateIssues(all)} :
        merged = [verdict |-> WorstVerdict(parsed), issues |-> issues,
                  stats |-> RecalcStats(issues)]
  BY DEF MergeResults
<1>2. PICK kept \in DeduplicateIssues(all) : issues \in SortIssues(kept)
  BY <1>1
<1>3. QED
  BY <1>1, <1>2

\* Whatever the merge returns is a review of the answers.
LEMMA MergeIsReview ==
  ASSUME TypeOK, LaunchedInOrder, NoAnswerLostOrCountedTwice, total > 1,
         \A c \in 1..total : stage[c] = "released",
         NEW order \in SortByIndex(results), NEW merged \in Merged(order)
  PROVE  P!IsReviewOf(merged)
<1> DEFINE S == ToSet(results)
           n == Len(results)
           parsed == [i \in 1..n |-> Parse(reply[order[i]].body)]
           all == FlattenSeq([i \in 1..n |-> Parse(reply[order[i]].body).issues])
<1>1. /\ S = P!Readable /\ S \in SUBSET Chunks
      /\ \A c \in S : reply[c].body \in Bodies
  BY ResultsAreReadable
<1>2. /\ n \in Nat /\ EachOnce(order, n, S)
      /\ \A i, j \in 1..n : i < j => order[i] < order[j]
  BY SortKeepsAll DEF TypeOK, NoAnswerLostOrCountedTwice
<1>3. DOMAIN order = 1..n
  BY <1>2 DEF EachOnce
<1>4. merged \in MergeResults(parsed)
  BY <1>3 DEF Merged
<1>5. [i \in DOMAIN parsed |-> parsed[i].issues]
        = [i \in 1..n |-> Parse(reply[order[i]].body).issues]
  OBVIOUS
<1>6. PICK kept \in DeduplicateIssues(all) : \E issues \in SortIssues(kept) :
        /\ merged.verdict = WorstVerdict(parsed)
        /\ merged.issues = issues
        /\ merged.stats = RecalcStats(issues)
  <2>1. all = FlattenSeq([i \in DOMAIN parsed |-> parsed[i].issues])
    BY <1>5
  <2> HIDE DEF all, parsed
  <2>2. QED
    BY <1>4, <2>1, MergedParts
<1>7. PICK issues \in SortIssues(kept) :
        /\ merged.verdict = WorstVerdict(parsed)
        /\ merged.issues = issues
        /\ merged.stats = RecalcStats(issues)
  BY <1>6
<1>8. /\ merged.verdict = WorstVerdict(parsed) /\ merged.issues = issues
      /\ merged.stats = RecalcStats(issues)
  BY <1>7
<1>9. P!HasFirstReports(merged)
  <2> HIDE DEF S, n
  <2>1. all = FlattenSeq([i \in 1..n |-> Parse(reply[order[i]].body).issues])
    OBVIOUS
  <2> HIDE DEF all
  <2>2. QED
    BY <1>1, <1>2, <1>8, <2>1, MergedFirstReports
<1>10. P!HasHeaviestVerdict(merged)
  <2>1. \A i \in 1..n : order[i] \in S /\ parsed[i] = P!Parsed(order[i])
    BY <1>2, PromiseOperators DEF EachOnce, P!Parsed
  <2>2. \A c \in S : \E i \in 1..n : order[i] = c
    BY <1>2 DEF EachOnce
  <2>3. DOMAIN parsed = 1..n
    OBVIOUS
  <2> HIDE DEF parsed, S, n
  <2>4. ASSUME NEW c \in S
        PROVE  VerdictWeight(P!Parsed(c).verdict) <= VerdictWeight(merged.verdict)
    <3>1. PICK i \in 1..n : order[i] = c
      BY <2>2
    <3>2. i \in DOMAIN parsed /\ parsed[i] = P!Parsed(c)
      BY <2>1, <2>3, <3>1
    <3>3. VerdictWeight(parsed[i].verdict) <= VerdictWeight(WorstVerdict(parsed))
      BY <3>2, WorstVerdictIsHeaviest
    <3>4. QED
      BY <1>8, <3>2, <3>3
  <2>5. merged.verdict = "pass" \/ \E c \in S : P!Parsed(c).verdict = merged.verdict
    BY <1>8, <2>1, <2>3, WorstVerdictIsHeaviest
  <2>6. QED
    BY <1>1, <2>4, <2>5, PromiseOperators DEF P!HasHeaviestVerdict
<1>11. merged.stats = P!RecalcStats(merged.issues)
  BY <1>8, PromiseOperators
<1>12. total # 1
  BY DEF TypeOK
<1>13. QED
  BY <1>9, <1>10, <1>11, <1>12 DEF P!IsReviewOf

\* A chunk that gets its answer does so in the promise too.
LEMMA AnswerIsAnswered ==
  ASSUME TypeOK, LaunchedInOrder, Answering, NEW c \in Chunks,
         stage[c] \in {"started", "calling"},
         NEW r \in Reply \ {NoReply}, reply' = [reply EXCEPT ![c] = r],
         UNCHANGED <<total, outcome>>
  PROVE  P!Next
<1>1. reply[c] = P!NoReply
  BY DEF Answering, NoReply, P!NoReply
<1>2. c \in P!Parts
  <2>1. ~(c > launched)
    BY DEF LaunchedInOrder
  <2>2. QED
    BY <2>1, ChunkedReviewAssumption DEF TypeOK, Chunks, P!Parts
<1>3. reply'[c] = r
  BY DEF TypeOK
<1>4. r \in P!Reply \ {P!NoReply}
  BY DEF Reply, NoReply, Failed, Cancelled, Garbled, Answers, P!Reply, P!NoReply
<1>5. P!Answered(c)
  BY <1>1, <1>3, <1>4 DEF P!Answered
<1>6. QED
  BY <1>2, <1>5 DEF P!Next

\* The end of a review in several chunks is the end the promise allows.
LEMMA FinishConcludes ==
  ASSUME TypeOK, LaunchedInOrder, NoAnswerLostOrCountedTwice, Answering, Finish
  PROVE  P!Conclude
<1>1. /\ total > 1 /\ outcome = P!NoOutcome /\ UNCHANGED <<total, reply>>
      /\ \A c \in 1..total : stage[c] = "released"
  BY DEF Finish, NoOutcome, P!NoOutcome
<1>2. 1..total \subseteq Chunks /\ total # 1
  BY <1>1, ChunkedReviewAssumption DEF TypeOK, Chunks
<1>3. \A c \in P!Parts : reply[c] # P!NoReply
  BY <1>1, <1>2 DEF Answering, P!Parts, NoReply, P!NoReply
<1>4. \A c \in P!Parts : P!Fatal(c) <=> reply[c].kind \in {"failed", "cancelled"}
  BY <1>2 DEF P!Fatal
<1>5. CASE groupErr # 0
  <2>1. /\ groupErr \in Chunks /\ stage[groupErr] # "waiting"
        /\ reply[groupErr].kind \in {"failed", "cancelled"}
    BY <1>5, ChunkedReviewAssumption DEF Answering, TypeOK, Chunks
  <2>2. groupErr \in P!Parts
    <3>1. ~(groupErr > launched)
      BY <2>1 DEF LaunchedInOrder
    <3>2. QED
      BY <2>1, <3>1, ChunkedReviewAssumption DEF TypeOK, Chunks, P!Parts
  <2>3. outcome' = P!ErrorOf(groupErr)
    BY <1>5 DEF Finish, ErrorOf, P!ErrorOf
  <2>4. QED
    BY <1>1, <1>3, <1>4, <2>1, <2>2, <2>3 DEF P!Conclude
<1>6. CASE groupErr = 0
  <2>1. \A c \in P!Parts : ~P!Fatal(c)
    BY <1>1, <1>2, <1>4, <1>6 DEF Answering, P!Parts
  <2>2. PICK order \in SortByIndex(results) :
          \E merged \in Merged(order) : outcome' = ResultOf(merged)
    BY <1>6 DEF Finish
  <2>3. PICK merged \in Merged(order) : outcome' = ResultOf(merged)
    BY <2>2
  <2>4. P!IsReviewOf(merged)
    BY <1>1, MergeIsReview
  <2>5. outcome'.kind = "result" /\ outcome'.result = merged
    BY <2>3 DEF ResultOf
  <2>6. QED
    BY <1>1, <1>3, <2>1, <2>4, <2>5 DEF P!Conclude
<1>7. QED
  BY <1>5, <1>6

\* So is the end of a review in one piece.
LEMMA ReviewInputConcludes ==
  ASSUME TypeOK, Answering, AllDone, ReviewInput
  PROVE  P!Conclude
<1>1. total = 1 /\ stage[1] = "replied" /\ UNCHANGED <<total, reply>> /\ 1 \in Chunks
  BY ChunkedReviewAssumption DEF ReviewInput, Chunks
<1>2. P!Parts = {1}
  BY <1>1 DEF P!Parts
<1>3. outcome = P!NoOutcome
  BY <1>1 DEF AllDone, NoOutcome, P!NoOutcome
<1>4. reply[1] # P!NoReply
  BY <1>1 DEF Answering, NoReply, P!NoReply
<1>5. reply[1] \in Reply \ {NoReply}
  BY <1>1 DEF TypeOK, Answering
<1>6. CASE reply[1].kind = "result" /\ ~reply[1].looped
  <2>1. ~P!Fatal(1)
    BY <1>6 DEF P!Fatal
  <2>2. outcome' = ResultOf(Parse(reply[1].body))
    BY <1>6 DEF ReviewInput
  <2>3. P!IsReviewOf(Parse(reply[1].body))
    BY <1>1, PromiseOperators DEF P!IsReviewOf, P!Parsed
  <2>4. outcome'.kind = "result" /\ outcome'.result = Parse(reply[1].body)
    BY <2>2 DEF ResultOf
  <2>5. QED
    BY <1>1, <1>2, <1>3, <1>4, <2>1, <2>3, <2>4 DEF P!Conclude
<1>7. CASE ~(reply[1].kind = "result" /\ ~reply[1].looped)
  <2>1. P!Fatal(1)
    BY <1>1, <1>5, <1>7 DEF P!Fatal, Reply, NoReply, Failed, Cancelled, Garbled, Answers
  <2>2. outcome' = P!ErrorOf(1)
    BY <1>7 DEF ReviewInput, ErrorOf, P!ErrorOf
  <2>3. QED
    BY <1>1, <1>2, <1>3, <1>4, <2>1, <2>2 DEF P!Conclude
<1>8. QED
  BY <1>6, <1>7

\* Promise for every number of chunks, every parallelism, every set of answers and every
\* schedule: ChunkedReview with its errgroup, its shared slice and its sort implements
\* the review with no threads in it.  What the caller gets depends on the answers alone.
THEOREM KeepsPromise == Spec => Promise
<1>1. Init => P!Init
  BY ChunkedReviewAssumption
     DEF Init, Chunks, NoReply, NoOutcome, P!Init, P!NoReply, P!NoOutcome
<1>2. /\ TypeOK /\ LaunchedInOrder /\ AllDone /\ NoAnswerLostOrCountedTwice /\ Answering
      /\ [Next]_vars
      => [P!Next]_(P!vars)
  <2> SUFFICES ASSUME TypeOK, LaunchedInOrder, AllDone, NoAnswerLostOrCountedTwice, Answering,
                      [Next]_vars
               PROVE  P!Next \/ UNCHANGED P!vars
    OBVIOUS
  <2>1. CASE Launch
    BY <2>1 DEF Launch, P!vars
  <2>2. CASE Finish
    BY <2>2, FinishConcludes DEF P!Next
  <2>3. CASE ReviewInput
    BY <2>3, ReviewInputConcludes DEF P!Next
  <2>4. CASE ClientLeaves
    BY <2>4 DEF ClientLeaves, P!vars
  <2>5. ASSUME NEW c \in Chunks, CallBackend(c)
        PROVE  UNCHANGED P!vars
    BY <2>5 DEF CallBackend, P!vars
  <2>6. ASSUME NEW c \in Chunks, CallCancelled(c)
        PROVE  P!Next
    <3>1. /\ stage[c] \in {"started", "calling"} /\ UNCHANGED <<total, outcome>>
          /\ reply' = [reply EXCEPT ![c] = Cancelled]
      BY <2>6 DEF CallCancelled
    <3>2. Cancelled \in Reply \ {NoReply}
      BY DEF Reply, Cancelled, NoReply
    <3>3. QED
      BY <3>1, <3>2, AnswerIsAnswered
  <2>7. ASSUME NEW c \in Chunks, BackendReplies(c)
        PROVE  P!Next
    <3>1. PICK r \in {Failed, Garbled} \cup Answers : reply' = [reply EXCEPT ![c] = r]
      BY <2>7 DEF BackendReplies
    <3>2. stage[c] \in {"started", "calling"} /\ UNCHANGED <<total, outcome>>
      BY <2>7 DEF BackendReplies
    <3>3. r \in Reply \ {NoReply}
      BY DEF Reply, Failed, Garbled, Answers, NoReply
    <3>4. QED
      BY <3>1, <3>2, <3>3, AnswerIsAnswered
  <2>8. ASSUME NEW c \in Chunks, Return(c) \/ Release(c)
        PROVE  UNCHANGED P!vars
    BY <2>8 DEF Return, Release, P!vars
  <2>9. CASE UNCHANGED vars
    BY <2>9 DEF vars, P!vars
  <2>10. QED
    BY <2>1, <2>2, <2>3, <2>4, <2>5, <2>6, <2>7, <2>8, <2>9 DEF Next, Step
<1>3. QED
  BY <1>1, <1>2, TypeCorrect, LaunchOrder, NothingAfterTheEnd, AnswersCollected,
     AnswersAndErrors, PTL DEF Spec, Promise, P!Spec


----------------------------------------------------------------------------
(* The merge has a result *)

\* Some loop over all positions meets those of a set in their order: each is met at its
\* rank, the number of positions of the set up to it.
LEMMA InOrderExists ==
  ASSUME NEW n \in Nat, NEW S \in SUBSET (1..n)
  PROVE  InOrder(S) # {}
<1> DEFINE m == Cardinality(S)
           UpTo(p) == {q \in S : q <= p}
           rank == [p \in S |-> Cardinality(UpTo(p))]
           order == [k \in 1..m |-> CHOOSE p \in S : rank[p] = k]
<1>1. IsFiniteSet(S) /\ m \in Nat
  <2>1. IsFiniteSet(1..n)
    BY FS_Interval
  <2>2. IsFiniteSet(S)
    BY <2>1, FS_Subset
  <2>3. QED
    BY <2>2, FS_CardinalityType
<1>2. ASSUME NEW p \in S
      PROVE  /\ IsFiniteSet(UpTo(p)) /\ UpTo(p) \subseteq S /\ p \in UpTo(p)
             /\ Cardinality(UpTo(p)) \in 1..m
  <2>1. UpTo(p) \subseteq S /\ p \in UpTo(p)
    <3>1. p \in 1..n
      OBVIOUS
    <3>2. p <= p
      BY <3>1
    <3>3. QED
      BY <3>2
  <2>2. IsFiniteSet(UpTo(p)) /\ Cardinality(UpTo(p)) <= m
    BY <1>1, <2>1, FS_Subset
  <2> HIDE DEF UpTo
  <2>3. Cardinality(UpTo(p)) \in Nat /\ Cardinality(UpTo(p)) # 0
    BY <2>1, <2>2, FS_CardinalityType, FS_EmptySet
  <2> DEFINE r == Cardinality(UpTo(p))
  <2>4. r \in Nat /\ r # 0 /\ r <= m
    BY <2>2, <2>3
  <2> HIDE DEF r, m
  <2>5. r \in 1..m
    BY <1>1, <2>4
  <2>6. QED
    BY <2>1, <2>2, <2>5 DEF r
<1>3. ASSUME NEW p \in S, NEW q \in S, p < q
      PROVE  rank[p] < rank[q]
  <2>1. p \in 1..n /\ q \in 1..n
    OBVIOUS
  <2>2. UpTo(p) \subseteq UpTo(q)
    <3>1. \A x \in S : x \in 1..n
      OBVIOUS
    <3>2. \A x \in S : x <= p => x <= q
      BY <1>3, <2>1, <3>1
    <3>3. QED
      BY <3>2
  <2>3. q \notin UpTo(p)
    BY <1>3, <2>1
  <2>4. /\ IsFiniteSet(UpTo(p)) /\ IsFiniteSet(UpTo(q)) /\ q \in UpTo(q)
        /\ Cardinality(UpTo(p)) \in 1..m /\ Cardinality(UpTo(q)) \in 1..m
    BY <1>2
  <2>5. rank[p] = Cardinality(UpTo(p)) /\ rank[q] = Cardinality(UpTo(q))
    OBVIOUS
  <2> HIDE DEF UpTo, rank, m
  <2>6. Cardinality(UpTo(p)) <= Cardinality(UpTo(q))
    BY <2>2, <2>4, FS_Subset
  <2>7. Cardinality(UpTo(p)) # Cardinality(UpTo(q))
    BY <2>2, <2>3, <2>4, FS_Subset
  <2>8. QED
    BY <1>1, <2>4, <2>5, <2>6, <2>7
<1>4. rank \in Surjection(S, 1..m)
  <2>1. \A p \in S : rank[p] \in 1..m
    BY <1>2
  <2>2. rank \in [S -> 1..m]
    BY <2>1
  <2>3. ASSUME NEW p \in S, NEW q \in S, rank[p] = rank[q]
        PROVE  p = q
    <3>1. p \in 1..n /\ q \in 1..n /\ rank[p] \in 1..m
      BY <2>1
    <3> HIDE DEF rank, m
    <3>2. p < q \/ q < p \/ p = q
      BY <3>1
    <3>3. ~(p < q) /\ ~(q < p)
      BY <1>1, <1>3, <2>3, <3>1
    <3>4. QED
      BY <3>2, <3>3
  <2> HIDE DEF rank
  <2>4. rank \in Injection(S, 1..m)
    BY <2>2, <2>3 DEF Injection, IsInjective
  <2>5. Cardinality(1..m) = m
    BY <1>1, FS_Interval
  <2>6. IsFiniteSet(1..m)
    BY <1>1, FS_Interval
  <2>7. QED
    BY <1>1, <2>4, <2>5, <2>6, FS_Injection
<1> HIDE DEF rank
<1>5. \A k \in 1..m : order[k] \in S /\ rank[order[k]] = k
  <2> SUFFICES ASSUME NEW k \in 1..m
               PROVE  order[k] \in S /\ rank[order[k]] = k
    OBVIOUS
  <2>1. \E p \in S : rank[p] = k
    BY <1>4 DEF Surjection
  <2>2. QED
    BY <2>1
<1>6. order \in [1..m -> S]
  BY <1>5
<1> HIDE DEF order
<1>7. ASSUME NEW i \in 1..m, NEW j \in 1..m, i < j
      PROVE  order[i] < order[j]
  <2>1. /\ order[i] \in S /\ order[j] \in S
        /\ rank[order[i]] = i /\ rank[order[j]] = j
    BY <1>5
  <2>2. order[i] \in 1..n /\ order[j] \in 1..n
    BY <2>1
  <2>3. ASSUME order[j] < order[i]
        PROVE  FALSE
    <3>1. rank[order[j]] < rank[order[i]]
      BY <1>3, <2>1, <2>3
    <3>2. j < i
      BY <2>1, <3>1
    <3> HIDE DEF m
    <3>3. QED
      BY <1>1, <1>7, <3>2
  <2>4. order[i] # order[j]
    BY <1>1, <1>7, <2>1
  <2>5. QED
    BY <2>2, <2>3, <2>4
<1>8. order \in InOrder(S)
  BY <1>6, <1>7 DEF InOrder
<1>9. QED
  BY <1>8


\* A list with its first n issues arranged so that each may stand before the next.
Arranges(order, issues, n) ==
  /\ order \in [1..n -> 1..n] /\ IsInjective(order)
  /\ \A k \in 2..n : MayPrecede(issues[order[k - 1]], issues[order[k]])

\* One issue more goes before the first that it may precede, or to the end.
LEMMA OneMoreIssue ==
  ASSUME NEW n \in Nat, NEW issues,
         \A i, j \in 1..(n + 1) : \/ MayPrecede(issues[i], issues[j])
                                  \/ MayPrecede(issues[j], issues[i]),
         NEW order, Arranges(order, issues, n)
  PROVE  \E more : Arranges(more, issues, n + 1)
<1> DEFINE x == n + 1
           After == {k \in 1..n : MayPrecede(issues[x], issues[order[k]])} \cup {x}
<1>1. After \in SUBSET Nat /\ After # {}
  OBVIOUS
<1>2. PICK j \in After : \A k \in After : j <= k
  BY <1>1, LeastNumber
<1>3. j \in 1..(n + 1)
  BY <1>2
<1>4. \A k \in 1..n : order[k] \in 1..n /\ order[k] \in 1..(n + 1) /\ order[k] # x
  BY DEF Arranges
<1>5. j # x => MayPrecede(issues[x], issues[order[j]])
  BY <1>2
<1>6. ASSUME NEW k \in 1..n, k < j
      PROVE  MayPrecede(issues[order[k]], issues[x])
  <2>1. k \notin After
    BY <1>2, <1>3, <1>6
  <2>2. ~MayPrecede(issues[x], issues[order[k]])
    BY <2>1
  <2>3. x \in 1..(n + 1) /\ order[k] \in 1..(n + 1)
    BY <1>4
  <2>4. QED
    BY <2>2, <2>3
<1> HIDE DEF After
<1> DEFINE more == [k \in 1..(n + 1) |->
                      IF k < j THEN order[k] ELSE IF k = j THEN x ELSE order[k - 1]]
<1>7. /\ \A k \in 1..(n + 1) : k < j => k \in 1..n /\ more[k] = order[k]
      /\ more[j] = x
      /\ \A k \in 1..(n + 1) : k > j => k - 1 \in 1..n /\ more[k] = order[k - 1]
  BY <1>3
<1>8. \A k \in 1..(n + 1) : k < j \/ k = j \/ k > j
  BY <1>3
<1>9. more \in [1..(n + 1) -> 1..(n + 1)]
  <2>1. x \in 1..(n + 1)
    OBVIOUS
  <2>2. \A k \in 1..(n + 1) : more[k] \in 1..(n + 1)
    BY <1>4, <1>7, <1>8, <2>1
  <2>3. QED
    BY <2>2
<1> HIDE DEF more, x
<1>10. ASSUME NEW k \in 1..(n + 1), NEW l \in 1..(n + 1), k < l, more[k] = more[l]
       PROVE  FALSE
  <2>1. \A a, b \in 1..n : order[a] = order[b] => a = b
    BY DEF Arranges, IsInjective
  <2>2. CASE l < j
    <3>1. k < j
      BY <1>3, <1>10, <2>2
    <3>2. k \in 1..n /\ l \in 1..n /\ order[k] = order[l]
      BY <1>7, <1>10, <2>2, <3>1
    <3>3. QED
      BY <1>10, <2>1, <3>2
  <2>3. CASE l = j
    <3>1. k \in 1..n /\ order[k] = x
      BY <1>7, <1>10, <2>3
    <3>2. QED
      BY <1>4, <3>1
  <2>4. CASE l > j
    <3>1. l - 1 \in 1..n /\ more[l] = order[l - 1]
      BY <1>7, <2>4
    <3>2. CASE k < j
      <4>1. k \in 1..n /\ order[k] = order[l - 1]
        BY <1>7, <1>10, <3>1, <3>2
      <4>2. k = l - 1
        BY <2>1, <3>1, <4>1
      <4>3. QED
        BY <1>3, <2>4, <3>2, <4>2
    <3>3. CASE k = j
      BY <1>4, <1>7, <1>10, <3>1, <3>3
    <3>4. CASE k > j
      <4>1. k - 1 \in 1..n /\ order[k - 1] = order[l - 1]
        BY <1>7, <1>10, <3>1, <3>4
      <4>2. k - 1 = l - 1
        BY <2>1, <3>1, <4>1
      <4>3. QED
        BY <1>10, <4>2
    <3>5. QED
      BY <1>8, <3>2, <3>3, <3>4
  <2>5. QED
    BY <1>8, <2>2, <2>3, <2>4
<1>11. \A k, l \in 1..(n + 1) : more[k] = more[l] => k = l
  <2>1. \A k, l \in 1..(n + 1) : k < l \/ k = l \/ l < k
    OBVIOUS
  <2>2. QED
    BY <1>10, <2>1
<1>12. IsInjective(more)
  BY <1>9, <1>11 DEF IsInjective
<1>13. ASSUME NEW k \in 2..(n + 1)
       PROVE  MayPrecede(issues[more[k - 1]], issues[more[k]])
  <2>0. k \in 1..(n + 1) /\ k - 1 \in 1..(n + 1)
    OBVIOUS
  <2>1. CASE k < j
    <3>1. k - 1 < j /\ k \in 2..n
      BY <1>3, <2>1
    <3>2. more[k - 1] = order[k - 1] /\ more[k] = order[k]
      BY <1>7, <2>0, <2>1, <3>1
    <3>3. QED
      BY <3>1, <3>2 DEF Arranges
  <2>2. CASE k = j
    <3>1. k - 1 < j /\ k - 1 \in 1..n
      BY <1>3, <2>2
    <3>2. more[k - 1] = order[k - 1] /\ more[k] = x
      BY <1>7, <2>0, <2>2, <3>1
    <3>3. QED
      BY <1>6, <3>1, <3>2
  <2>3. CASE k > j
    <3>1. more[k] = order[k - 1] /\ k - 1 \in 1..n
      BY <1>7, <2>0, <2>3
    <3>2. CASE k - 1 = j
      <4>1. j # x
        BY <3>1, <3>2 DEF x
      <4>2. more[k - 1] = x
        BY <1>7, <3>2
      <4>3. QED
        BY <1>5, <3>1, <3>2, <4>1, <4>2
    <3>3. CASE k - 1 # j
      <4>1. k - 1 > j
        BY <1>3, <2>3, <3>3
      <4>2. more[k - 1] = order[(k - 1) - 1] /\ k - 1 \in 2..n
        BY <1>3, <1>7, <2>0, <3>1, <4>1
      <4>3. QED
        BY <3>1, <4>2 DEF Arranges
    <3>4. QED
      BY <3>2, <3>3
  <2>4. QED
    BY <1>8, <2>0, <2>1, <2>2, <2>3
<1>14. Arranges(more, issues, n + 1)
  BY <1>9, <1>12, <1>13 DEF Arranges
<1>15. QED
  BY <1>14

\* So a list of issues has an order in which sort.Slice may leave it, whatever their
\* severities.
LEMMA SortExists ==
  ASSUME NEW issues \in Seq(Issues)
  PROVE  SortIssues(issues) # {}
<1> DEFINE n == Len(issues)
           T == {k \in 0..n : ~\E order : Arranges(order, issues, k)}
<1>1. n \in Nat /\ DOMAIN issues = 1..n /\ \A i \in 1..n : issues[i] \in Issues
  OBVIOUS
<1>2. \A i, j \in 1..n : MayPrecede(issues[i], issues[j]) \/ MayPrecede(issues[j], issues[i])
  <2> SUFFICES ASSUME NEW i \in 1..n, NEW j \in 1..n
               PROVE  MayPrecede(issues[i], issues[j]) \/ MayPrecede(issues[j], issues[i])
    OBVIOUS
  <2>1. issues[i].place \in Nat /\ issues[j].place \in Nat
    BY <1>1 DEF Issues
  <2>2. \A severity : SeverityOrder(severity) \in 0..2
    BY DEF SeverityOrder
  <2>3. SeverityOrder(issues[i].severity) \in Int /\ SeverityOrder(issues[j].severity) \in Int
    <3>1. SeverityOrder(issues[i].severity) \in 0..2 /\ SeverityOrder(issues[j].severity) \in 0..2
      BY <2>2
    <3>2. QED
      BY <3>1
  <2>4. QED
    BY <2>1, <2>3 DEF MayPrecede
<1>3. T = {}
  <2> SUFFICES ASSUME T # {}
               PROVE  FALSE
    OBVIOUS
  <2>1. T \in SUBSET Nat
    BY <1>1
  <2>2. PICK k \in T : \A l \in T : k <= l
    BY <2>1, LeastNumber
  <2>3. k \in 0..n /\ ~\E order : Arranges(order, issues, k)
    BY <2>2
  <2>4. CASE k = 0
    <3>1. << >> \in [1..0 -> 1..0] /\ DOMAIN << >> = {}
      OBVIOUS
    <3>2. Arranges(<< >>, issues, 0)
      BY <3>1 DEF Arranges, IsInjective
    <3>3. QED
      BY <2>3, <2>4, <3>2
  <2>5. CASE k # 0
    <3>1. k - 1 \in 0..n /\ ~(k <= k - 1) /\ k - 1 \in Nat /\ (k - 1) + 1 = k
      BY <1>1, <2>3, <2>5
    <3>2. PICK order : Arranges(order, issues, k - 1)
      BY <2>2, <3>1
    <3>3. \A i, j \in 1..((k - 1) + 1) : \/ MayPrecede(issues[i], issues[j])
                                         \/ MayPrecede(issues[j], issues[i])
      <4>1. \A i \in 1..((k - 1) + 1) : i \in 1..n
        BY <1>1, <2>3, <3>1
      <4>2. QED
        BY <1>2, <4>1
    <3>4. \E more : Arranges(more, issues, (k - 1) + 1)
      BY <3>1, <3>2, <3>3, OneMoreIssue
    <3>5. QED
      BY <2>3, <3>1, <3>4
  <2>6. QED
    BY <2>4, <2>5
<1>4. PICK order : Arranges(order, issues, n)
  BY <1>1, <1>3
<1>5. [k \in DOMAIN issues |-> issues[order[k]]] \in SortIssues(issues)
  BY <1>1, <1>4 DEF Arranges, SortIssues
<1>6. QED
  BY <1>5


\* What deduplication keeps of a list is a list.
LEMMA KeptExists ==
  ASSUME NEW X, NEW flat \in Seq(X)
  PROVE  DeduplicateIssues(flat) # {} /\ DeduplicateIssues(flat) \subseteq Seq(X)
<1> DEFINE K == FirstWithKey(flat)
           m == Cardinality(K)
<1>1. Len(flat) \in Nat /\ K \in SUBSET (1..Len(flat)) /\ \A p \in K : flat[p] \in X
  BY DEF FirstWithKey
<1>2. PICK first : first \in InOrder(K)
  BY <1>1, InOrderExists
<1>3. ASSUME NEW order \in InOrder(K)
      PROVE  [k \in 1..m |-> flat[order[k]]] \in Seq(X)
  <2>1. m \in Nat /\ order \in [1..m -> K]
    BY <1>1, InOrderMeetsAll DEF EachOnce
  <2> HIDE DEF m, K
  <2>2. \A k \in 1..m : flat[order[k]] \in X
    BY <1>1, <2>1
  <2>3. QED
    BY <2>1, <2>2
<1>4. DeduplicateIssues(flat) = {[k \in 1..m |-> flat[order[k]]] : order \in InOrder(K)}
  BY DEF DeduplicateIssues, Selections
<1> HIDE DEF m, K
<1>5. QED
  BY <1>2, <1>3, <1>4

\* When every goroutine is done, the results can be sorted by their chunks and merged.
CanMerge ==
  total > 1 /\ (\A c \in 1..total : stage[c] = "released") =>
    \E order \in SortByIndex(results) : Merged(order) # {}

\* A review whose goroutines are done has something to report, whichever chunks are readable
\* and whatever is in them: the merge of the code is described by what it may return, and
\* that is never nothing.
THEOREM MergePossible == Spec => []CanMerge
<1>1. TypeOK /\ LaunchedInOrder /\ NoAnswerLostOrCountedTwice => CanMerge
  <2> SUFFICES ASSUME TypeOK, LaunchedInOrder, NoAnswerLostOrCountedTwice, total > 1,
                      \A c \in 1..total : stage[c] = "released"
               PROVE  \E order \in SortByIndex(results) : Merged(order) # {}
    BY DEF CanMerge
  <2> DEFINE S == ToSet(results)
             n == Len(results)
  <2>1. S \in SUBSET Chunks /\ \A c \in S : reply[c].body \in Bodies
    BY ResultsAreReadable
  <2>2. results \in Seq(Chunks) /\ IsInjective(results)
    BY DEF TypeOK, NoAnswerLostOrCountedTwice
  <2>3. n \in Nat /\ DOMAIN results = 1..n /\ S \in SUBSET (1..MaxChunks) /\ MaxChunks \in Nat
    BY <2>1, <2>2, ChunkedReviewAssumption DEF Chunks
  <2>4. PICK order : order \in InOrder(S)
    BY <2>3, InOrderExists
  <2>5. EachOnce(order, Cardinality(S), S)
    BY <2>3, <2>4, InOrderMeetsAll
  <2>6. Cardinality(S) = n
    <3>1. results \in [1..n -> S]
      BY <2>2, <2>3 DEF ToSet
    <3>2. \A p \in S : \E i \in 1..n : results[i] = p
      BY <2>3 DEF ToSet
    <3>3. \A i, j \in 1..n : results[i] = results[j] => i = j
      BY <2>2, <2>3 DEF IsInjective
    <3> HIDE DEF S, n
    <3>4. EachOnce(results, n, S)
      BY <3>1, <3>2, <3>3 DEF EachOnce
    <3>5. QED
      BY <2>3, <3>4, CountedOnce
  <2>7. order \in SortByIndex(results)
    BY <2>3, <2>4, <2>6 DEF SortByIndex, InOrder
  <2>8. order \in [1..n -> S]
    BY <2>5, <2>6 DEF EachOnce
  <2> DEFINE lists == [i \in 1..n |-> reply[order[i]].body.issues]
             parsed == [i \in DOMAIN order |-> Parse(reply[order[i]].body)]
             all == FlattenSeq([i \in DOMAIN parsed |-> parsed[i].issues])
  <2>9. lists \in Seq(Seq(Issues))
    <3>1. \A i \in 1..n : reply[order[i]].body \in Bodies
      BY <2>1, <2>8
    <3>2. \A body \in Bodies : body.issues \in Seq(Issues)
      BY ChunkedReviewAssumption
    <3> HIDE DEF S, n
    <3>3. lists \in [1..n -> Seq(Issues)]
      BY <3>1, <3>2
    <3>4. QED
      BY <2>3, <3>3
  <2>10. [i \in DOMAIN parsed |-> parsed[i].issues] = lists
    <3>1. DOMAIN order = 1..n
      BY <2>8
    <3>2. QED
      BY <3>1 DEF Parse
  <2>11. all \in Seq(Issues)
    BY <2>9, <2>10, FlattenLists
  <2>12. PICK kept \in DeduplicateIssues(all) : kept \in Seq(Issues)
    BY <2>11, KeptExists
  <2>13. PICK issues : issues \in SortIssues(kept)
    BY <2>12, SortExists
  <2>14. issues \in UNION {SortIssues(list) : list \in DeduplicateIssues(all)}
    BY <2>12, <2>13
  <2>15. [verdict |-> WorstVerdict(parsed), issues |-> issues, stats |-> RecalcStats(issues)]
           \in MergeResults(parsed)
    BY <2>14 DEF MergeResults
  <2>16. Merged(order) # {}
    BY <2>15 DEF Merged
  <2>17. QED
    BY <2>7, <2>16
<1>2. QED
  BY <1>1, TypeCorrect, LaunchOrder, AnswersCollected, PTL

=============================================================================
