------------------------ MODULE ReviewSourcesProofs ------------------------
(***************************************************************************)
(* Proofs about ReviewSources, for any repository, developer, requests,    *)
(* analyzers and rules: no change is passed over, snapshots are complete,  *)
(* rules fit the input, and findings match the request.                    *)
(***************************************************************************)
EXTENDS ReviewSources, TLAPS, FiniteSetTheorems, SequenceTheorems, FunctionTheorems

----------------------------------------------------------------------------
(* Lists *)

LEMMA SetToSeqExact ==
  ASSUME NEW S, IsFiniteSet(S)
  PROVE  /\ SetToSeq(S) \in Seq(S)
         /\ ToSet(SetToSeq(S)) = S
         /\ IsInjective(SetToSeq(S))
<1> DEFINE n == Cardinality(S)
           s == SetToSeq(S)
<1>1. n \in Nat /\ ExistsBijection(1..n, S)
  BY FS_CardinalityType
<1>2. PICK b \in Bijection(1..n, S) : TRUE
  BY <1>1 DEF ExistsBijection
<1>3. b \in [1..n -> S] /\ IsInjective(b)
  BY <1>2 DEF Bijection, Injection, IsInjective
<1>4. s \in [1..n -> S] /\ IsInjective(s)
  BY <1>3 DEF SetToSeq
<1>5. s \in Injection(1..n, S)
  BY <1>4 DEF Injection, IsInjective
<1>6. Cardinality(1..n) = n
  BY <1>1, FS_Interval
<1>7. s \in Surjection(1..n, S)
  BY <1>5, <1>6, FS_Injection
<1>8. \A e \in S : \E i \in 1..n : s[i] = e
  BY <1>7 DEF Surjection
<1>9. s \in Seq(S)
  BY <1>1, <1>4, SeqDef
<1>10. ToSet(s) = S
  BY <1>4, <1>8 DEF ToSet
<1> HIDE DEF n, s
<1>11. QED
  BY <1>4, <1>9, <1>10 DEF s

LEMMA FilesToSeq ==
  ASSUME NEW S \in SUBSET Files
  PROVE  /\ SetToSeq(S) \in Seq(Files)
         /\ ToSet(SetToSeq(S)) = S
         /\ IsInjective(SetToSeq(S))
<1>1. IsFiniteSet(S)
  BY FS_Subset, ReviewSourcesAssumption
<1>2. QED
  BY <1>1, SetToSeqExact, SeqMonotonic

LEMMA HeadAndTail ==
  ASSUME NEW S, NEW s \in Seq(S), s # << >>
  PROVE  /\ Head(s) \in S /\ Tail(s) \in Seq(S)
         /\ ToSet(s) = {Head(s)} \cup ToSet(Tail(s))
         /\ IsInjective(s) => IsInjective(Tail(s)) /\ Head(s) \notin ToSet(Tail(s))
<1>1. /\ Head(s) \in S /\ Tail(s) \in Seq(S) /\ Len(Tail(s)) = Len(s) - 1
      /\ \A i \in 1..Len(Tail(s)) : Tail(s)[i] = s[i + 1]
  BY HeadTailProperties
<1>2. Len(s) \in Nat \ {0} /\ DOMAIN s = 1..Len(s) /\ DOMAIN Tail(s) = 1..(Len(s) - 1)
  BY <1>1, EmptySeq, LenProperties
<1>3. Head(s) = s[1]
  OBVIOUS
<1>4. \A i \in 1..Len(s) : i = 1 \/ i - 1 \in 1..(Len(s) - 1)
  BY <1>2
<1>5. \A i \in 1..(Len(s) - 1) : i + 1 \in 1..Len(s) /\ i + 1 # 1 /\ Tail(s)[i] = s[i + 1]
  BY <1>1, <1>2
<1>6. ToSet(s) = {Head(s)} \cup ToSet(Tail(s))
  <2>1. ASSUME NEW i \in 1..Len(s) PROVE s[i] \in {Head(s)} \cup ToSet(Tail(s))
    <3>1. CASE i = 1
      BY <1>3, <3>1
    <3>2. CASE i - 1 \in 1..(Len(s) - 1)
      <4>1. s[i] = Tail(s)[i - 1] /\ i - 1 \in DOMAIN Tail(s)
        BY <1>2, <1>5, <3>2
      <4>2. QED
        BY <4>1 DEF ToSet
    <3>3. QED
      BY <1>4, <3>1, <3>2
  <2>2. ASSUME NEW i \in 1..(Len(s) - 1) PROVE Tail(s)[i] \in ToSet(s)
    BY <1>2, <1>5 DEF ToSet
  <2>3. Head(s) \in ToSet(s)
    BY <1>2, <1>3 DEF ToSet
  <2>4. QED
    BY <1>2, <2>1, <2>2, <2>3 DEF ToSet
<1>7. ASSUME IsInjective(s) PROVE IsInjective(Tail(s))
  <2>1. \A i, j \in 1..(Len(s) - 1) : s[i + 1] = s[j + 1] => i = j
    BY <1>2, <1>5, <1>7 DEF IsInjective
  <2>2. QED
    BY <1>2, <1>5, <2>1 DEF IsInjective
<1>8. ASSUME IsInjective(s) PROVE Head(s) \notin ToSet(Tail(s))
  <2>1. \A i \in 1..(Len(s) - 1) : s[i + 1] # s[1]
    BY <1>2, <1>5, <1>8 DEF IsInjective
  <2>2. QED
    BY <1>2, <1>3, <1>5, <2>1 DEF ToSet
<1>9. QED
  BY <1>1, <1>6, <1>7, <1>8

LEMMA Appended ==
  ASSUME NEW S, NEW s \in Seq(S), NEW e \in S
  PROVE  Append(s, e) \in Seq(S) /\ ToSet(Append(s, e)) = ToSet(s) \cup {e}
<1>1. /\ Append(s, e) \in Seq(S) /\ Len(Append(s, e)) = Len(s) + 1
      /\ \A i \in 1..Len(s) : Append(s, e)[i] = s[i]
      /\ Append(s, e)[Len(s) + 1] = e
  BY AppendProperties
<1>2. Len(s) \in Nat /\ DOMAIN s = 1..Len(s) /\ DOMAIN Append(s, e) = 1..(Len(s) + 1)
  BY <1>1, LenProperties
<1>3. 1..(Len(s) + 1) = 1..Len(s) \cup {Len(s) + 1}
  BY <1>2
<1>4. QED
  BY <1>1, <1>2, <1>3 DEF ToSet

LEMMA NothingInEmpty == ToSet(<< >>) = {} /\ IsInjective(<< >>)
BY DEF ToSet, IsInjective

LEMMA EmptyIfNothing ==
  ASSUME NEW S, NEW s \in Seq(S)
  PROVE  ToSet(s) = {} <=> s = << >>
<1>1. CASE s # << >>
  <2>1. Head(s) \in ToSet(s)
    BY <1>1, HeadAndTail
  <2>2. QED
    BY <1>1, <2>1
<1>2. QED
  BY <1>1, NothingInEmpty

LEMMA ElementsOfSeq ==
  ASSUME NEW S, NEW s \in Seq(S)
  PROVE  ToSet(s) \subseteq S
<1>1. \A i \in DOMAIN s : s[i] \in S
  BY ElementOfSeq, LenProperties
<1>2. QED
  BY <1>1 DEF ToSet

\* The two lists of files a snapshot is made of hold no file twice when put together.
LEMMA UniqueAppended ==
  ASSUME NEW first \in Seq(Files), NEW second \in Seq(Files)
  PROVE  /\ AppendUnique(first, second) \in Seq(Files)
         /\ ToSet(AppendUnique(first, second)) = ToSet(first) \cup ToSet(second)
         /\ IsInjective(first) => IsInjective(AppendUnique(first, second))
<1> DEFINE rest == SetToSeq(ToSet(second) \ ToSet(first))
           all  == first \o rest
<1>1. /\ rest \in Seq(Files) /\ IsInjective(rest)
      /\ ToSet(rest) = ToSet(second) \ ToSet(first)
  <2>1. ToSet(second) \ ToSet(first) \in SUBSET Files
    BY ElementsOfSeq
  <2>2. QED
    BY <2>1, FilesToSeq
<1> HIDE DEF rest
<1>2. /\ all \in Seq(Files) /\ Len(all) = Len(first) + Len(rest)
      /\ \A i \in 1..(Len(first) + Len(rest)) :
           all[i] = IF i <= Len(first) THEN first[i] ELSE rest[i - Len(first)]
  BY <1>1, ConcatProperties
<1>3. /\ Len(first) \in Nat /\ DOMAIN first = 1..Len(first)
      /\ Len(rest) \in Nat /\ DOMAIN rest = 1..Len(rest)
      /\ DOMAIN all = 1..(Len(first) + Len(rest))
  BY <1>1, <1>2, LenProperties
<1> HIDE DEF all
<1>4. \A i \in DOMAIN all :
        \/ i \in DOMAIN first /\ all[i] = first[i]
        \/ i \notin DOMAIN first /\ i - Len(first) \in DOMAIN rest /\ all[i] = rest[i - Len(first)]
  BY <1>2, <1>3
<1>5. \A i \in DOMAIN first : i \in DOMAIN all /\ all[i] = first[i]
  BY <1>2, <1>3
<1>6. \A i \in DOMAIN rest : i + Len(first) \in DOMAIN all /\ all[i + Len(first)] = rest[i]
  BY <1>2, <1>3
<1>7. ToSet(all) = ToSet(first) \cup ToSet(rest)
  <2>1. ToSet(all) \subseteq ToSet(first) \cup ToSet(rest)
    BY <1>4 DEF ToSet
  <2>2. ToSet(first) \subseteq ToSet(all)
    BY <1>5 DEF ToSet
  <2>3. ToSet(rest) \subseteq ToSet(all)
    BY <1>6 DEF ToSet
  <2>4. QED
    BY <2>1, <2>2, <2>3
<1>8. ASSUME IsInjective(first) PROVE IsInjective(all)
  <2> SUFFICES ASSUME NEW i \in DOMAIN all, NEW j \in DOMAIN all, all[i] = all[j] PROVE i = j
    BY DEF IsInjective
  <2>1. \A k \in DOMAIN first, l \in DOMAIN rest : first[k] # rest[l]
    BY <1>1 DEF ToSet
  <2>2. CASE i \in DOMAIN first /\ j \in DOMAIN first
    BY <1>4, <1>8, <2>2 DEF IsInjective
  <2>3. CASE i \notin DOMAIN first /\ j \notin DOMAIN first
    <3>1. i - Len(first) = j - Len(first)
      BY <1>1, <1>4, <2>3 DEF IsInjective
    <3>2. QED
      BY <1>3, <3>1
  <2>4. CASE i \in DOMAIN first /\ j \notin DOMAIN first
    BY <1>4, <2>1, <2>4
  <2>5. CASE i \notin DOMAIN first /\ j \in DOMAIN first
    BY <1>4, <2>1, <2>5
  <2>6. QED
    BY <2>2, <2>3, <2>4, <2>5
<1>9. QED
  BY <1>1, <1>2, <1>7, <1>8 DEF all, rest, AppendUnique

----------------------------------------------------------------------------
(* The inductive invariants: TypeOK and Where, and with them each of the others *)

\* What a request has by the step it is at.
Where ==
  /\ outcome # "none" => step = "done"
  /\ step = "called" => source = 1 /\ findings = {} /\ failed = {} /\ missing = {} /\ files = << >>
  /\ step \in {"called", "analyzing", "staged", "worktree", "pr", "repo", "others"} => input = << >>
  /\ step \in {"called", "analyzing", "staged", "worktree", "untracked", "reading untracked", "pr",
               "repo", "others"} => truncated = FALSE
  /\ step \in {"staged", "worktree", "untracked", "reading untracked", "pr"} => request.tool = "review"
  /\ step \in {"analyzing", "reading selected"} => request.tool = "static"
  /\ chosen = "repo" => step \in {"others", "reading files", "prepared", "done"}
  /\ step \in {"others", "reading files"} => chosen = "repo"
  /\ step \in {"untracked", "reading untracked"} => chosen = "worktree"
  /\ step = "reading selected" => chosen = "selected"
  /\ request.tool = "review" => files = << >>

\* A review limited to some files reads no other.
Limited ==
  files # << >> =>
    /\ step \in {"analyzing", "reading selected", "prepared", "done"}
    /\ step = "reading selected" => ToSet(queue) \subseteq ToSet(files)
    /\ \A x \in ToSet(input) : x.file \in ToSet(files)

\* The rules were chosen by the files of the input that is in hand still.
RulesInv == outcome = "review" => rules = {rule \in Rules : RuleApplies(rule, SelectedFiles)}

\* Sources that had their turn, and what they say where their analysis did not break.
Finished(tool) == \E k \in DOMAIN Sources : k < source /\ Sources[k] = tool
Working(tool)  == tool \notin Disabled \cup failed \cup missing
SaidAll(tool) ==
  \A part \in Parts(tool), check \in Checks[tool] :
    <<tool, <<check, part>>>> \notin silent =>
      \A f \in part : Still(f, {"tree"}) /\ repo.tree[f] # 0 /\ Selected(check) /\ Allowed(f)
                        => Finding(tool, check, f) \in findings

\* The findings so far are those of the sources so far; before it goes on all have had their turn.
Reports ==
  /\ \A tool \in failed \cup missing : Finished(tool)
  /\ \A x \in findings : Finished(x.tool) /\ Working(x.tool) /\ Selected(x.check) /\ Allowed(x.file)
  /\ \A tool \in ToSet(Sources) : Finished(tool) /\ Working(tool) => SaidAll(tool)
FindingsInv ==
  /\ Reports
  /\ request.tool = "static" /\ step \notin {"called", "analyzing"} /\ outcome # "error"
       => source > Len(Sources)

\* What the input says of a file.
Shown(f) == {x \in ToSet(input) : x.file = f}
Said(kind, f) == IF HasChange(kind, f) THEN {ChangeOf(kind, f)} ELSE {}

\* There is nothing of this kind to see, as far as the developer keeps still.
Unchanged(kind) == \A f \in Files : Still(f, Compared(kind)) => ~HasChange(kind, f)

\* The input is what there is of this kind.
Exact(kind) == \A f \in Files : Still(f, Compared(kind)) => Shown(f) = Said(kind, f)

\* On the way there: the changes of tracked files are read first, then the untracked files.
TrackedRead ==
  \A f \in Files : Still(f, {"index", "tree"}) =>
    Shown(f) = IF f \in Tracked THEN Said("worktree", f) ELSE {}
UntrackedInHand ==
  \A f \in Files : Still(f, {"index", "tree"}) =>
    /\ Shown(f) \subseteq Said("worktree", f)
    /\ f \notin ToSet(queue) => Shown(f) = Said("worktree", f)
    /\ f \in ToSet(queue) => f \in GoFiles \ Tracked

\* The steps a request may be at.
StepsOf(mode) ==
  CASE mode = "staged"   -> {"called", "staged", "prepared", "done"}
    [] mode = "worktree" -> {"called", "worktree", "untracked", "reading untracked", "prepared", "done"}
    [] OTHER             -> {"called", "staged", "worktree", "untracked", "reading untracked", "pr",
                             "repo", "others", "reading files", "prepared", "done"}

\* The input is there; auto mode has turned from a kind of change to a later one.
Read == step \in {"prepared", "done"} /\ outcome # "error"
PastStaged ==
  \/ step \in {"worktree", "untracked", "reading untracked", "pr", "repo", "others", "reading files"}
  \/ Read /\ chosen # "staged"
PastWorktree ==
  \/ step \in {"pr", "repo", "others", "reading files"}
  \/ Read /\ chosen \in {"pr", "repo"}

ChangesInv ==
  request.tool = "review" =>
    /\ step \in StepsOf(request.mode)
    /\ Read => chosen \in {"staged", "worktree", "pr", "repo"}
    /\ Read /\ request.mode \in {"staged", "worktree"} => chosen = request.mode
    /\ Read /\ chosen # "repo" => Exact(chosen)
    /\ step = "untracked" => TrackedRead
    /\ step = "reading untracked" => UntrackedInHand
    /\ AutoMode /\ PastStaged => Unchanged("staged")
    /\ AutoMode /\ PastWorktree => Unchanged("worktree")

\* The lists a snapshot is made of, and the snapshot as far as it was read.
TrackedListed ==
  /\ IsInjective(queue)
  /\ \A f \in GoFiles : Still(f, {"index", "tree"}) /\ f \in Tracked => f \in ToSet(queue)
NoneTwice ==
  /\ IsInjective(queue)
  /\ \A i, j \in DOMAIN input : i # j => input[i].file # input[j].file
  /\ \A x \in ToSet(input) : x.to # 0 /\ x.file \notin ToSet(queue)
ReadSoFar ==
  ~truncated =>
    \A f \in GoFiles : Still(f, {"index", "tree"}) /\ repo.tree[f] # 0 /\ f \notin ToSet(queue)
      => Change(f, 0, repo.tree[f]) \in ToSet(input)

SnapshotInv ==
  chosen = "repo" =>
    /\ step = "others" => TrackedListed
    /\ step = "reading files" \/ Read => NoneTwice /\ ReadSoFar
    /\ Read => queue = << >>

----------------------------------------------------------------------------
(* Types *)

LEMMA SourcesListed ==
  /\ Len(Sources) \in Nat /\ DOMAIN Sources = 1..Len(Sources)
  /\ ToSet(Sources) = {Sources[k] : k \in 1..Len(Sources)}
  /\ \A j, k \in 1..Len(Sources) : Sources[j] = Sources[k] => j = k
<1>1. Sources \in Seq(STRING) /\ IsInjective(Sources)
  BY ReviewSourcesAssumption
<1>2. Len(Sources) \in Nat /\ DOMAIN Sources = 1..Len(Sources)
  BY <1>1, LenProperties
<1>3. QED
  BY <1>1, <1>2 DEF ToSet, IsInjective

LEMMA DiffExact ==
  ASSUME NEW from \in Places, NEW to \in Places, NEW among \in SUBSET Files,
         repo \in [Places -> [Files -> Versions]]
  PROVE  /\ Changes(from, to, among) \in Seq(ChangeRecords)
         /\ ToSet(Changes(from, to, among))
              = {Change(f, repo[from][f], repo[to][f]) : f \in {g \in among : repo[from][g] # repo[to][g]}}
<1> DEFINE G == {g \in among : repo[from][g] # repo[to][g]}
           D == {Change(f, repo[from][f], repo[to][f]) : f \in G}
           d == [f \in G |-> Change(f, repo[from][f], repo[to][f])]
<1>1. IsFiniteSet(G)
  <2>1. G \in SUBSET Files
    OBVIOUS
  <2>2. QED
    BY <2>1, FS_Subset, ReviewSourcesAssumption
<1>2. D \subseteq ChangeRecords
  BY DEF Change, ChangeRecords
<1>3. d \in Surjection(G, D)
  BY DEF Surjection
<1>4. IsFiniteSet(D)
  BY <1>1, <1>3, FS_Surjection
<1>5. SetToSeq(D) \in Seq(D) /\ ToSet(SetToSeq(D)) = D
  BY <1>4, SetToSeqExact
<1>6. SetToSeq(D) \in Seq(ChangeRecords)
  BY <1>2, <1>5, SeqMonotonic
<1>7. QED
  BY <1>5, <1>6 DEF Changes

LEMMA DiffOfFile ==
  ASSUME NEW from \in Places, NEW to \in Places, NEW among \in SUBSET Files,
         repo \in [Places -> [Files -> Versions]], NEW f \in Files
  PROVE  {x \in ToSet(Changes(from, to, among)) : x.file = f}
           = IF f \in among /\ repo[from][f] # repo[to][f] THEN {Change(f, repo[from][f], repo[to][f])}
                                                           ELSE {}
<1>1. \A g \in Files : Change(g, repo[from][g], repo[to][g]).file = g
  BY DEF Change
<1>2. QED
  BY <1>1, DiffExact

LEMMA PlacesKnown ==
  /\ {"base", "head", "index", "tree"} = Places
  /\ Tracked \subseteq Files /\ Untracked \subseteq Files
BY DEF Places, Tracked, Untracked

LEMMA DiffTypes ==
  ASSUME TypeOK
  PROVE  /\ StagedDiff \in Seq(ChangeRecords)
         /\ UnstagedDiff \in Seq(ChangeRecords)
         /\ BranchDiff \in Seq(ChangeRecords)
BY PlacesKnown, DiffExact DEF TypeOK, StagedDiff, UnstagedDiff, BranchDiff

LEMMA ListingType ==
  ASSUME NEW among
  PROVE  /\ Listing(among) \in Seq(Files)
         /\ ToSet(Listing(among)) = among \cap GoFiles
         /\ IsInjective(Listing(among))
<1>1. among \cap GoFiles \in SUBSET Files
  BY ReviewSourcesAssumption
<1>2. QED
  BY <1>1, FilesToSeq DEF Listing

LEMMA StaticFilesType ==
  ASSUME NEW diff
  PROVE  StaticFiles(diff) \in Seq(Files)
<1>1. FilesFromDiff(diff) \cap GoFiles \in SUBSET Files
  BY ReviewSourcesAssumption
<1>2. QED
  BY <1>1, FilesToSeq DEF StaticFiles

LEMMA EntryType ==
  ASSUME NEW f \in Files, NEW version \in Versions, NEW s \in Seq(ChangeRecords)
  PROVE  /\ Change(f, 0, version) \in ChangeRecords
         /\ Append(s, Change(f, 0, version)) \in Seq(ChangeRecords)
         /\ ToSet(Append(s, Change(f, 0, version))) = ToSet(s) \cup {Change(f, 0, version)}
<1>1. Change(f, 0, version) \in ChangeRecords
  BY ReviewSourcesAssumption DEF Change, ChangeRecords
<1>2. QED
  BY <1>1, Appended

\* What adding an entry to a snapshot, or passing it by, does.
LEMMA ShowType ==
  ASSUME TypeOK, queue # << >>, NEW version \in Versions, Show(version)
  PROVE  /\ queue' \in Seq(Files) /\ input' \in Seq(ChangeRecords) /\ truncated' \in BOOLEAN
         /\ \/ /\ version = 0 /\ queue' = Tail(queue) /\ input' = input /\ truncated' = truncated
            \/ /\ version # 0 /\ queue' = Tail(queue) /\ truncated' = truncated
               /\ input' = Append(input, Change(Head(queue), 0, version))
               /\ ToSet(input') = ToSet(input) \cup {Change(Head(queue), 0, version)}
            \/ queue' = << >> /\ input' = input /\ truncated'
<1>1. queue \in Seq(Files) /\ input \in Seq(ChangeRecords) /\ truncated \in BOOLEAN
  BY DEF TypeOK
<1>2. Head(queue) \in Files /\ Tail(queue) \in Seq(Files) /\ << >> \in Seq(Files)
  BY <1>1, HeadAndTail, EmptySeq
<1>3. /\ Append(input, Change(Head(queue), 0, version)) \in Seq(ChangeRecords)
      /\ ToSet(Append(input, Change(Head(queue), 0, version)))
           = ToSet(input) \cup {Change(Head(queue), 0, version)}
  BY <1>1, <1>2, EntryType
<1>4. CASE version = 0
  BY <1>1, <1>2, <1>4 DEF Show
<1>5. CASE version # 0 /\ ~Full
  BY <1>1, <1>2, <1>3, <1>5 DEF Show
<1>6. CASE version # 0 /\ Full
  BY <1>1, <1>2, <1>6 DEF Show
<1>7. QED
  BY <1>4, <1>5, <1>6

LEMMA PartsAreFiles ==
  ASSUME NEW tool
  PROVE  Parts(tool) \subseteq SUBSET Files
BY ReviewSourcesAssumption DEF Parts

LEMMA FoundInParts ==
  ASSUME NEW tool, NEW analyses, NEW x
  PROVE  x \in FoundBy(tool, analyses) <=>
           \E a \in analyses : \E f \in a[2] : /\ repo.tree[f] # 0 /\ Allowed(f)
                                               /\ x = Finding(tool, a[1], f)
BY DEF FoundBy

\* A source that ran has what each of its analyses found, but for those that broke.
LEMMA SourceRan ==
  ASSUME RunSource, NEW t, t = Sources[source]
  PROVE  /\ findings \subseteq findings' /\ findings' \subseteq findings \cup FoundBy(t, Analyses(t))
         /\ silent \subseteq silent' /\ silent' \subseteq silent \cup ({t} \X Analyses(t))
         /\ \A a \in Analyses(t) : <<t, a>> \notin silent' => FoundBy(t, {a}) \subseteq findings'
<1>1. PICK broken \in SUBSET Analyses(t) :
        /\ \E early \in SUBSET FoundBy(t, broken) :
             findings' = findings \cup FoundBy(t, Analyses(t) \ broken) \cup early
        /\ silent' = silent \cup ({t} \X broken)
  BY DEF RunSource
<1>2. PICK early \in SUBSET FoundBy(t, broken) :
        findings' = findings \cup FoundBy(t, Analyses(t) \ broken) \cup early
  BY <1>1
<1>3. FoundBy(t, broken) \subseteq FoundBy(t, Analyses(t))
  BY FoundInParts
<1>4. FoundBy(t, Analyses(t) \ broken) \subseteq FoundBy(t, Analyses(t))
  BY FoundInParts
<1>5. ASSUME NEW a \in Analyses(t), <<t, a>> \notin silent'
      PROVE  FoundBy(t, {a}) \subseteq findings'
  <2>1. a \in Analyses(t) \ broken
    BY <1>1, <1>5
  <2>2. FoundBy(t, {a}) \subseteq FoundBy(t, Analyses(t) \ broken)
    BY <2>1, FoundInParts
  <2>3. QED
    BY <1>2, <2>2
<1>6. QED
  BY <1>1, <1>2, <1>3, <1>4, <1>5

LEMMA FoundType ==
  ASSUME TypeOK, NEW tool \in ToSet(Sources)
  PROVE  /\ FoundBy(tool, Analyses(tool)) \subseteq Findings
         /\ Analyses(tool) \subseteq AllChecks \X SUBSET Files
<1>1. \A f \in Files : repo.tree[f] \in Versions
  BY PlacesKnown DEF TypeOK
<1>2. Analyses(tool) \subseteq AllChecks \X SUBSET Files
  BY PartsAreFiles DEF Analyses, AllChecks
<1>3. ASSUME NEW check \in AllChecks, NEW f \in Files
      PROVE  Finding(tool, check, f) \in Findings
  BY <1>1 DEF Finding, Findings
<1>4. ASSUME NEW x \in FoundBy(tool, Analyses(tool)) PROVE x \in Findings
  <2>1. PICK a \in Analyses(tool) : \E f \in a[2] : x = Finding(tool, a[1], f)
    BY FoundInParts
  <2>2. a[1] \in AllChecks /\ a[2] \subseteq Files
    BY <1>2
  <2>3. QED
    BY <1>3, <2>1, <2>2
<1>5. QED
  BY <1>2, <1>4

\* For any developer and requests: all of the state keeps its type.
THEOREM TypeCorrect == Spec => []TypeOK
<1>1. Init => TypeOK
  <2> SUFFICES ASSUME Init PROVE TypeOK
    OBVIOUS
  <2>1. << >> \in Seq(Files) /\ << >> \in Seq(ChangeRecords)
    BY EmptySeq
  <2>2. 1 \in 1..(Len(Sources) + 1) /\ 0 \in 0..MaxMoves
    BY SourcesListed, ReviewSourcesAssumption
  <2>3. repo \in [Places -> [Files -> Versions]]
    BY ReviewSourcesAssumption DEF Init
  <2>4. QED
    BY <2>1, <2>2, <2>3 DEF Init, TypeOK, NoRules
<1>2. TypeOK /\ [Next]_vars => TypeOK'
  <2> SUFFICES ASSUME TypeOK, [Next]_vars PROVE TypeOK'
    OBVIOUS
  <2>1. CASE UNCHANGED vars
    BY <2>1 DEF vars, developer, reading, analysis, TypeOK
  <2>2. CASE CallReview
    <3>1. request.mode \in Modes
      BY <2>2, ReviewSourcesAssumption DEF CallReview, TypeOK
    <3>2. QED
      BY <2>2, <3>1 DEF CallReview, Understood, Modes, GoTo, developer, reading, analysis, TypeOK
  <2>3. CASE CallStatic
    <3>1. request.scope \in {"repo", "diff", "pr"}
      BY <2>3, ReviewSourcesAssumption DEF CallStatic, Understood, Scopes, TypeOK
    <3>2. files' \in Seq(Files)
      BY <2>3, <3>1, StaticFilesType, EmptySeq DEF CallStatic
    <3>3. QED
      BY <2>3, <3>2 DEF CallStatic, GoTo, developer, reading, TypeOK
  <2>4. CASE Fail
    BY <2>4 DEF Fail, End, GoTo, developer, reading, analysis, TypeOK
  <2>5. CASE ReadStaged \/ ReadPR
    BY <2>5, DiffTypes DEF ReadStaged, ReadPR, Take, GoTo, developer, analysis, TypeOK
  <2>6. CASE ReadUnstaged
    BY <2>6, DiffTypes DEF ReadUnstaged, GoTo, developer, analysis, TypeOK
  <2>7. CASE ListUntracked \/ ListTracked
    BY <2>7, ListingType DEF ListUntracked, ListTracked, GoTo, developer, analysis, TypeOK
  <2>8. CASE ReadUntracked
    <3>1. Head(queue) \in Files /\ Tail(queue) \in Seq(Files)
      BY <2>8, HeadAndTail DEF ReadUntracked, TypeOK
    <3>2. repo.tree[Head(queue)] \in Versions
      BY <3>1, PlacesKnown DEF TypeOK
    <3>3. input' \in Seq(ChangeRecords)
      BY <2>8, <3>1, <3>2, EntryType DEF ReadUntracked, TypeOK
    <3>4. QED
      BY <2>8, <3>1, <3>3 DEF ReadUntracked, developer, analysis, TypeOK
  <2>9. CASE WorktreeRead
    BY <2>9 DEF WorktreeRead, Take, GoTo, developer, analysis, TypeOK
  <2>10. CASE NoPR \/ SnapshotRead
    BY <2>10 DEF NoPR, SnapshotRead, GoTo, developer, reading, analysis, TypeOK
  <2>11. CASE ListOthers
    <3>1. queue' \in Seq(Files)
      BY <2>11, ListingType, UniqueAppended DEF ListOthers, TypeOK
    <3>2. QED
      BY <2>11, <3>1 DEF ListOthers, GoTo, developer, analysis, TypeOK
  <2>12. CASE ReadFile \/ ReadSelected
    <3>1. Head(queue) \in Files
      BY <2>12, HeadAndTail DEF ReadFile, ReadSelected, TypeOK
    <3>2. repo.tree[Head(queue)] \in Versions /\ VersionOf(Head(queue)) \in Versions
      BY <3>1, PlacesKnown DEF VersionOf, TypeOK
    <3>3. /\ queue' \in Seq(Files) /\ input' \in Seq(ChangeRecords) /\ truncated' \in BOOLEAN
      BY <2>12, <3>2, ShowType DEF ReadFile, ReadSelected
    <3>4. QED
      BY <2>12, <3>3 DEF ReadFile, ReadSelected, developer, analysis, TypeOK
  <2>13. ASSUME NextSource,
                findings' \subseteq findings \cup FoundBy(Sources[source], Analyses(Sources[source])),
                silent' \subseteq silent \cup ({Sources[source]} \X Analyses(Sources[source])),
                failed' \subseteq failed \cup {Sources[source]},
                missing' \subseteq missing \cup {Sources[source]}
         PROVE  TypeOK'
    <3>1. Sources[source] \in ToSet(Sources) /\ source + 1 \in 1..(Len(Sources) + 1)
      BY <2>13, SourcesListed DEF NextSource
    <3>2. findings' \subseteq Findings
      BY <2>13, <3>1, FoundType DEF TypeOK
    <3>3. failed' \subseteq ToSet(Sources) /\ missing' \subseteq ToSet(Sources)
      BY <2>13, <3>1 DEF TypeOK
    <3>4. silent' \subseteq ToSet(Sources) \X (AllChecks \X SUBSET Files)
      BY <2>13, <3>1, FoundType DEF TypeOK
    <3>5. QED
      BY <2>13, <3>1, <3>2, <3>3, <3>4 DEF NextSource, developer, reading, TypeOK
  <2>14. CASE RunSource
    <3>1. NextSource /\ failed' = failed /\ missing' = missing
      BY <2>14 DEF RunSource
    <3>2. QED
      BY <2>13, <2>14, <3>1, SourceRan
  <2>15. CASE SkipSource
    BY <2>13, <2>15 DEF SkipSource
  <2>16. CASE SourceMissing
    BY <2>13, <2>16 DEF SourceMissing
  <2>17. CASE SourceFails
    BY <2>13, <2>17 DEF SourceFails
  <2>18. CASE ReportRaw \/ NothingToReview
    BY <2>18 DEF ReportRaw, NothingToReview, End, GoTo, developer, reading, analysis, TypeOK
  <2>19. CASE Synthesize
    BY <2>19 DEF Synthesize, GoTo, developer, analysis, TypeOK
  <2>20. CASE FilterRules
    BY <2>20 DEF FilterRules, End, GoTo, developer, reading, analysis, TypeOK
  <2>21. ASSUME NEW changed \in [Places -> [Files -> Versions]], Move(changed)
         PROVE  TypeOK'
    <3>1. moves' \in 0..MaxMoves
      <4>1. moves \in 0..MaxMoves /\ moves < MaxMoves /\ moves' = moves + 1
        BY <2>21 DEF Move, TypeOK
      <4>2. MaxMoves \in Nat
        BY ReviewSourcesAssumption
      <4>3. QED
        BY <4>1, <4>2
    <3>2. touched' \subseteq Places \X Files
      BY <2>21 DEF Move, TypeOK
    <3>3. QED
      BY <2>21, <3>1, <3>2 DEF Move, reading, analysis, TypeOK
  <2>22. CASE Edit \/ Stage \/ Unstage \/ Commit
    <3>1. \E changed \in [Places -> [Files -> Versions]] : Move(changed)
      BY <2>22, PlacesKnown DEF Edit, Stage, Unstage, Commit, TypeOK
    <3>2. QED
      BY <2>21, <3>1
  <2>23. QED
    BY <2>1, <2>2, <2>3, <2>4, <2>5, <2>6, <2>7, <2>8, <2>9, <2>10, <2>11, <2>12, <2>14, <2>15, <2>16,
       <2>17, <2>18, <2>19, <2>20, <2>22
       DEF Next, Call, CallFails, Prepare, UntrackedGone, ReadFails, Analyze, Finish
<1>3. QED
  BY <1>1, <1>2, PTL DEF Spec

----------------------------------------------------------------------------
(* Steps *)

\* The developer leaves the request alone.
LEMMA DeveloperMoves ==
  ASSUME TypeOK, Edit \/ Stage \/ Unstage \/ Commit
  PROVE  \E changed \in [Places -> [Files -> Versions]] : Move(changed)
BY PlacesKnown DEF Edit, Stage, Unstage, Commit, TypeOK

\* What is still after a move was so before, and its versions are the same.
LEMMA StillKept ==
  ASSUME TypeOK, NEW changed \in [Places -> [Files -> Versions]], Move(changed),
         NEW f \in Files, NEW places \in SUBSET Places, Still(f, places)'
  PROVE  Still(f, places) /\ \A place \in places : repo'[place][f] = repo[place][f]
<1>1. \A place \in places : <<place, f>> \notin touched'
  BY DEF Still
<1>2. touched \subseteq touched'
  BY DEF Move
<1>3. Still(f, places)
  <2>1. \A place \in places : <<place, f>> \notin touched
    BY <1>1, <1>2
  <2>2. QED
    BY <2>1 DEF Still
<1>4. ASSUME NEW place \in places PROVE repo'[place][f] = repo[place][f]
  <2>1. <<place, f>> \in Places \X Files
    OBVIOUS
  <2>2. repo[place][f] # changed[place][f] => <<place, f>> \in touched'
    BY <2>1 DEF Move
  <2>3. QED
    BY <1>1, <2>2 DEF Move
<1>5. QED
  BY <1>3, <1>4

\* A step that is not the developer's leaves the repository alone.
LEMMA RepositoryKept ==
  ASSUME Call \/ Prepare \/ Analyze \/ Finish \/ UNCHANGED vars
  PROVE  UNCHANGED developer
BY DEF Call, CallReview, CallStatic, CallFails, Fail, Prepare, ReadStaged, ReadUnstaged, ListUntracked,
       ReadUntracked, UntrackedGone, WorktreeRead, ReadPR, NoPR, ListTracked, ListOthers, ReadFile,
       ReadSelected, SnapshotRead, ReadFails, Analyze, NextSource, RunSource, SkipSource, SourceMissing,
       SourceFails, ReportRaw, Synthesize, Finish, NothingToReview, FilterRules, vars, developer

LEMMA ToolsAndModes ==
  ASSUME TypeOK
  PROVE  /\ request.tool \in {"review", "static"}
         /\ request.tool = "review" => request.mode \in Modes
BY ReviewSourcesAssumption DEF TypeOK

LEMMA WhereStep ==
  ASSUME TypeOK, Where, [Next]_vars
  PROVE  Where'
<1>1. CASE UNCHANGED vars
  BY <1>1 DEF vars, reading, analysis, Where
<1>2. CASE CallReview
  BY <1>2, ToolsAndModes DEF CallReview, Understood, Modes, GoTo, reading, analysis, Where
<1>3. CASE CallStatic
  BY <1>3 DEF CallStatic, GoTo, reading, Where
<1>4. CASE Fail
  BY <1>4 DEF Fail, End, GoTo, reading, analysis, Where
<1>5. CASE ReadStaged \/ ReadPR
  BY <1>5 DEF ReadStaged, ReadPR, Take, GoTo, analysis, Where
<1>6. CASE ReadUnstaged \/ ListUntracked \/ ReadUntracked \/ WorktreeRead
  BY <1>6 DEF ReadUnstaged, ListUntracked, ReadUntracked, WorktreeRead, Take, GoTo, analysis, Where
<1>7. CASE ListTracked \/ ListOthers
  BY <1>7 DEF ListTracked, ListOthers, GoTo, analysis, Where
<1>8. CASE ReadFile \/ ReadSelected
  BY <1>8 DEF ReadFile, ReadSelected, analysis, Where
<1>9. CASE NoPR \/ SnapshotRead
  BY <1>9 DEF NoPR, SnapshotRead, GoTo, reading, analysis, Where
<1>10. CASE NextSource
  BY <1>10 DEF NextSource, reading, Where
<1>11. CASE ReportRaw \/ NothingToReview
  BY <1>11 DEF ReportRaw, NothingToReview, End, GoTo, reading, analysis, Where
<1>12. CASE Synthesize
  BY <1>12 DEF Synthesize, GoTo, analysis, Where, Analyzed
<1>13. CASE FilterRules
  BY <1>13 DEF FilterRules, End, GoTo, reading, analysis, Where
<1>14. CASE Edit \/ Stage \/ Unstage \/ Commit
  BY <1>14, DeveloperMoves DEF Move, reading, analysis, Where
<1>15. QED
  BY <1>1, <1>2, <1>3, <1>4, <1>5, <1>6, <1>7, <1>8, <1>9, <1>10, <1>11, <1>12, <1>13, <1>14
     DEF Next, Call, CallFails, Prepare, UntrackedGone, ReadFails, Analyze, Finish, RunSource, SkipSource,
         SourceMissing, SourceFails

LEMMA WhereAlways == Spec => []Where
<1>1. Init => Where
  BY DEF Init, Where
<1>2. QED
  BY <1>1, WhereStep, TypeCorrect, PTL DEF Spec

----------------------------------------------------------------------------
(* Rules *)

LEMMA LimitedStep ==
  ASSUME TypeOK, Where, Limited, [Next]_vars
  PROVE  Limited'
<1> SUFFICES ASSUME files' # << >> PROVE Limited'
  BY DEF Limited
<1> USE DEF Limited
<1>1. CASE UNCHANGED vars
  BY <1>1 DEF vars, reading, analysis
<1>2. CASE CallStatic
  BY <1>2, NothingInEmpty DEF CallStatic, GoTo, reading, Where
<1>3. CASE CallReview \/ CallFails
  BY <1>3 DEF CallReview, CallFails, Fail, analysis
<1>4. CASE \/ ReadStaged \/ ReadUnstaged \/ ListUntracked \/ ReadUntracked \/ UntrackedGone \/ WorktreeRead
           \/ ReadPR \/ NoPR \/ ListTracked \/ ListOthers \/ ReadFile \/ ReadFails
  BY <1>4 DEF ReadStaged, ReadUnstaged, ListUntracked, ReadUntracked, UntrackedGone, WorktreeRead, ReadPR,
     NoPR, ListTracked, ListOthers, ReadFile, ReadFails, Fail, analysis
<1>5. CASE ReadSelected
  <2>1. /\ files' = files /\ step' = step /\ step = "reading selected"
        /\ queue # << >> /\ Show(VersionOf(Head(queue)))
    BY <1>5 DEF ReadSelected, analysis
  <2>2. Head(queue) \in Files /\ ToSet(queue) = {Head(queue)} \cup ToSet(Tail(queue))
    BY <2>1, HeadAndTail DEF TypeOK
  <2>3. VersionOf(Head(queue)) \in Versions
    BY <2>2, PlacesKnown DEF VersionOf, TypeOK
  <2>4. Head(queue) \in ToSet(files) /\ ToSet(Tail(queue)) \subseteq ToSet(files)
    BY <2>1, <2>2
  <2>5. ToSet(queue') \subseteq ToSet(files)
    BY <2>1, <2>3, <2>4, ShowType, NothingInEmpty
  <2>6. \A x \in ToSet(input') : x.file \in ToSet(files)
    <3>1. \/ ToSet(input') = ToSet(input)
          \/ ToSet(input') = ToSet(input) \cup {Change(Head(queue), 0, VersionOf(Head(queue)))}
      BY <2>1, <2>3, ShowType
    <3>2. Change(Head(queue), 0, VersionOf(Head(queue))).file \in ToSet(files)
      BY <2>4 DEF Change
    <3>3. \A x \in ToSet(input) : x.file \in ToSet(files)
      BY <2>1
    <3>4. QED
      BY <3>1, <3>2, <3>3
  <2>7. QED
    BY <2>1, <2>5, <2>6
<1>6. CASE SnapshotRead
  BY <1>6 DEF SnapshotRead, GoTo, reading, analysis
<1>7. CASE NextSource
  BY <1>7 DEF NextSource, reading
<1>8. CASE ReportRaw \/ NothingToReview \/ FilterRules
  BY <1>8 DEF ReportRaw, NothingToReview, FilterRules, End, GoTo, reading, analysis
<1>9. CASE Synthesize
  BY <1>9 DEF Synthesize, GoTo, analysis
<1>10. CASE Edit \/ Stage \/ Unstage \/ Commit
  BY <1>10, DeveloperMoves DEF Move, reading, analysis
<1>11. QED
  BY <1>1, <1>2, <1>3, <1>4, <1>5, <1>6, <1>7, <1>8, <1>9, <1>10
     DEF Next, Call, Prepare, Analyze, Finish, RunSource, SkipSource, SourceMissing, SourceFails

LEMMA SelectionKept ==
  ASSUME UNCHANGED <<files, input>>
  PROVE  UNCHANGED SelectedFiles
BY DEF SelectedFiles, FilesShown, FilesFromDiff

LEMMA RulesStep ==
  ASSUME TypeOK, Where, RulesInv, [Next]_vars
  PROVE  RulesInv'
<1> SUFFICES ASSUME outcome' = "review" PROVE RulesInv'
  BY DEF RulesInv
<1>1. CASE FilterRules
  <2>1. UNCHANGED SelectedFiles
    BY <1>1, SelectionKept DEF FilterRules, reading, analysis
  <2>2. QED
    BY <1>1, <2>1 DEF FilterRules, RulesInv
<1>2. ASSUME outcome = "review", UNCHANGED <<files, input, rules>> PROVE RulesInv'
  <2>1. UNCHANGED SelectedFiles
    BY <1>2, SelectionKept
  <2>2. QED
    BY <1>2, <2>1 DEF RulesInv
<1>3. CASE Edit \/ Stage \/ Unstage \/ Commit
  BY <1>2, <1>3, DeveloperMoves DEF Move, reading, analysis
<1>4. CASE UNCHANGED vars
  BY <1>2, <1>4 DEF vars, reading, analysis
<1>5. CASE CallFails \/ UntrackedGone \/ ReadFails \/ ReportRaw \/ NothingToReview
  BY <1>5 DEF CallFails, UntrackedGone, ReadFails, Fail, ReportRaw, NothingToReview, End
<1>6. CASE Call \/ Prepare \/ Analyze
  <2>1. step # "done" /\ (outcome' = outcome \/ CallFails \/ UntrackedGone \/ ReadFails \/ ReportRaw)
    BY <1>6 DEF Call, CallReview, CallStatic, CallFails, Prepare, ReadStaged, ReadUnstaged, ListUntracked,
       ReadUntracked, UntrackedGone, WorktreeRead, ReadPR, NoPR, ListTracked, ListOthers, ReadFile,
       ReadSelected, SnapshotRead, ReadFails, Analyze, NextSource, RunSource, SkipSource, SourceMissing,
       SourceFails, ReportRaw, Synthesize, Analyzed
  <2>2. QED
    BY <1>5, <2>1 DEF Where
<1>7. QED
  BY <1>1, <1>3, <1>4, <1>5, <1>6 DEF Next, Finish

\* For any rules, files and requests: every rule that is meant for a file whose code is shown is in the
\* prompt, also when the names of the files come from the request instead of the input.
THEOREM RulesFit == Spec => []RulesFitInput
<1>1. Init => Limited /\ RulesInv
  BY DEF Init, Limited, RulesInv
<1>2. TypeOK /\ Limited /\ RulesInv => RulesFitInput
  <2> SUFFICES ASSUME TypeOK, Limited, RulesInv, outcome = "review",
                      NEW rule \in Rules, RuleApplies(rule, FilesShown)
               PROVE  rule \in rules
    BY DEF RulesFitInput
  <2>1. FilesShown \subseteq SelectedFiles
    <3>1. CASE files = << >>
      BY <3>1 DEF SelectedFiles
    <3>2. CASE files # << >>
      <4>1. \A x \in ToSet(input) : x.file \in ToSet(files)
        BY <3>2 DEF Limited
      <4>2. \A i \in DOMAIN input : input[i].file \in ToSet(files)
        BY <4>1 DEF ToSet
      <4>3. FilesShown \subseteq ToSet(files)
        BY <4>2 DEF FilesShown, FilesFromDiff
      <4>4. QED
        BY <3>2, <4>3 DEF SelectedFiles
    <3>3. QED
      BY <3>1, <3>2
  <2>2. RuleApplies(rule, SelectedFiles)
    BY <2>1 DEF RuleApplies
  <2>3. QED
    BY <2>2 DEF RulesInv
<1>3. QED
  BY <1>1, <1>2, LimitedStep, RulesStep, WhereAlways, TypeCorrect, PTL DEF Spec

----------------------------------------------------------------------------
(* Findings *)

LEMMA SettingsKept ==
  ASSUME UNCHANGED <<request, files>>
  PROVE  /\ UNCHANGED <<Disabled, Enabled>>
         /\ \A check : Selected(check)' = Selected(check)
         /\ \A f : Allowed(f)' = Allowed(f)
BY DEF Disabled, Enabled, Selected, Allowed

\* Where nothing but the step changes.
LEMMA ReportsKept ==
  ASSUME Reports, UNCHANGED <<repo, touched, request, analysis>>
  PROVE  Reports'
BY DEF Reports, Finished, Working, SaidAll, Finding, Still, Disabled, Enabled, Selected, Allowed, analysis

LEMMA ReportsMoved ==
  ASSUME TypeOK, Reports, NEW changed \in [Places -> [Files -> Versions]], Move(changed)
  PROVE  Reports'
<1>1. UNCHANGED <<request, files, source, findings, failed, missing, silent>>
  BY DEF Move, analysis
<1>2. /\ UNCHANGED <<Disabled, Enabled>>
      /\ \A check : Selected(check)' = Selected(check)
      /\ \A f : Allowed(f)' = Allowed(f)
  BY <1>1, SettingsKept
<1>3. \A tool : Finished(tool)' = Finished(tool) /\ Working(tool)' = Working(tool)
  BY <1>1, <1>2 DEF Finished, Working
<1>4. ASSUME NEW tool \in ToSet(Sources), SaidAll(tool) PROVE SaidAll(tool)'
  <2> SUFFICES ASSUME NEW part \in Parts(tool), NEW check \in Checks[tool],
                      <<tool, <<check, part>>>> \notin silent', NEW f \in part,
                      Still(f, {"tree"})', repo'.tree[f] # 0, Selected(check)', Allowed(f)'
               PROVE  Finding(tool, check, f)' \in findings'
    BY DEF SaidAll, Parts
  <2>1. f \in Files /\ {"tree"} \subseteq Places
    BY PartsAreFiles, PlacesKnown
  <2>2. Still(f, {"tree"}) /\ repo'["tree"][f] = repo["tree"][f]
    BY <2>1, StillKept
  <2>3. Finding(tool, check, f) \in findings
    BY <1>1, <1>2, <1>4, <2>2 DEF SaidAll
  <2>4. QED
    BY <1>1, <2>2, <2>3 DEF Finding
<1>5. QED
  BY <1>1, <1>2, <1>3, <1>4 DEF Reports

\* A source has its turn.
LEMMA ReportsAdded ==
  ASSUME TypeOK, Reports, RunSource \/ SkipSource \/ SourceMissing \/ SourceFails
  PROVE  Reports'
<1>0. PICK t : t = Sources[source]
  OBVIOUS
<1>1. /\ NextSource /\ source \in 1..Len(Sources) /\ source' = source + 1
      /\ UNCHANGED <<repo, touched, request, files>>
  BY SourcesListed DEF RunSource, SkipSource, SourceMissing, SourceFails, NextSource, developer
<1>2. /\ UNCHANGED <<Disabled, Enabled>>
      /\ \A check : Selected(check)' = Selected(check)
      /\ \A f : Allowed(f)' = Allowed(f)
  BY <1>1, SettingsKept
<1>3. \A tool : Finished(tool)' <=> Finished(tool) \/ tool = t
  <2>1. \A k \in 1..Len(Sources) : k < source + 1 <=> k < source \/ k = source
    BY <1>1, SourcesListed
  <2>2. QED
    BY <1>0, <1>1, <2>1, SourcesListed DEF Finished
<1>4. ~Finished(t)
  <2>1. \A k \in 1..Len(Sources) : k < source => Sources[k] # t
    BY <1>0, <1>1, SourcesListed
  <2>2. QED
    BY <2>1, SourcesListed DEF Finished
<1>5. \/ RunSource /\ failed' = failed /\ missing' = missing /\ t \notin Disabled
      \/ /\ findings' = findings /\ silent' = silent /\ failed' \subseteq failed \cup {t} /\ missing' \subseteq missing \cup {t}
         /\ failed \subseteq failed' /\ missing \subseteq missing'
         /\ t \in Disabled \cup failed' \cup missing'
  BY <1>0 DEF RunSource, SkipSource, SourceMissing, SourceFails, SourceOff
<1>6. /\ findings \subseteq findings' /\ silent \subseteq silent'
      /\ RunSource => findings' \subseteq findings \cup FoundBy(t, Analyses(t))
  BY <1>0, <1>5, SourceRan
<1>7. \A tool : tool # t => Working(tool)' = Working(tool)
  BY <1>2, <1>5 DEF Working
<1>8. \A tool \in (failed \cup missing)' : Finished(tool)'
  BY <1>3, <1>5 DEF Reports
<1>9. ASSUME NEW x \in findings'
      PROVE  Finished(x.tool)' /\ Working(x.tool)' /\ Selected(x.check)' /\ Allowed(x.file)'
  <2>1. CASE x \in findings
    <3>1. Finished(x.tool) /\ Working(x.tool) /\ Selected(x.check) /\ Allowed(x.file)
      BY <2>1 DEF Reports
    <3>2. x.tool # t
      BY <1>4, <3>1
    <3>3. QED
      BY <1>2, <1>3, <1>7, <3>1, <3>2
  <2>2. CASE x \in FoundBy(t, Analyses(t)) /\ findings' # findings
    <3>1. x.tool = t /\ Selected(x.check) /\ Allowed(x.file)
      <4>1. PICK a \in Analyses(t) : \E f \in a[2] : Allowed(f) /\ x = Finding(t, a[1], f)
        BY <2>2, FoundInParts
      <4>2. Selected(a[1])
        BY <4>1 DEF Analyses
      <4>3. QED
        BY <4>1, <4>2 DEF Finding
    <3>2. t \notin failed \cup missing
      BY <1>4 DEF Reports
    <3>3. Working(t)'
      BY <1>2, <1>5, <2>2, <3>2 DEF Working
    <3>4. QED
      BY <1>2, <1>3, <3>1, <3>3
  <2>3. QED
    BY <1>5, <1>6, <1>9, <2>1, <2>2
<1>10. ASSUME NEW tool \in ToSet(Sources), Finished(tool)', Working(tool)' PROVE SaidAll(tool)'
  <2> SUFFICES ASSUME NEW part \in Parts(tool), NEW check \in Checks[tool],
                      <<tool, <<check, part>>>> \notin silent', NEW f \in part,
                      Still(f, {"tree"})', repo'.tree[f] # 0, Selected(check)', Allowed(f)'
               PROVE  Finding(tool, check, f)' \in findings'
    BY DEF SaidAll, Parts
  <2>1. Still(f, {"tree"}) /\ repo.tree[f] # 0 /\ Selected(check) /\ Allowed(f)
    BY <1>1, <1>2 DEF Still
  <2>2. Finding(tool, check, f)' = Finding(tool, check, f)
    BY <1>1 DEF Finding
  <2>3. CASE tool = t
    <3>1. RunSource
      <4>1. t \notin Disabled' \cup failed' \cup missing'
        BY <1>10, <2>3 DEF Working
      <4>2. QED
        BY <1>2, <1>5, <4>1
    <3>2. <<check, part>> \in Analyses(t)
      BY <2>1, <2>3 DEF Analyses
    <3>3. Finding(t, check, f) \in FoundBy(t, {<<check, part>>})
      BY <2>1, FoundInParts
    <3>4. FoundBy(t, {<<check, part>>}) \subseteq findings'
      BY <1>0, <2>3, <3>1, <3>2, SourceRan
    <3>5. QED
      BY <2>2, <2>3, <3>3, <3>4
  <2>4. CASE tool # t
    <3>1. SaidAll(tool)
      BY <1>3, <1>7, <1>10, <2>4 DEF Reports
    <3>2. QED
      BY <1>6, <2>1, <2>2, <3>1 DEF SaidAll
  <2>5. QED
    BY <2>3, <2>4
<1>11. QED
  BY <1>8, <1>9, <1>10 DEF Reports

LEMMA FindingsStep ==
  ASSUME TypeOK, Where, FindingsInv, [Next]_vars
  PROVE  FindingsInv'
<1>1. CASE RunSource \/ SkipSource \/ SourceMissing \/ SourceFails
  <2>1. step' = "analyzing"
    BY <1>1 DEF RunSource, SkipSource, SourceMissing, SourceFails, NextSource
  <2>2. QED
    BY <1>1, <2>1, ReportsAdded DEF FindingsInv
<1>2. CASE CallStatic
  <2>1. findings' = {} /\ failed' = {} /\ missing' = {} /\ source' = 1 /\ step' = "analyzing"
    BY <1>2 DEF CallStatic, GoTo, Where
  <2>2. \A tool : ~Finished(tool)'
    BY <2>1, SourcesListed DEF Finished
  <2>3. QED
    BY <2>1, <2>2 DEF FindingsInv, Reports
<1>3. CASE Edit \/ Stage \/ Unstage \/ Commit
  <2>1. PICK changed \in [Places -> [Files -> Versions]] : Move(changed)
    BY <1>3, DeveloperMoves
  <2>2. QED
    BY <2>1, ReportsMoved DEF Move, analysis, FindingsInv
<1>4. ASSUME UNCHANGED <<repo, touched, request, analysis>>,
             \/ step \notin {"called", "analyzing"} /\ (outcome' # "error" => outcome # "error")
             \/ step' = step /\ outcome' = outcome
             \/ request.tool # "static"
             \/ outcome' = "error"
             \/ source > Len(Sources)
      PROVE  FindingsInv'
  <2>1. Reports'
    BY <1>4, ReportsKept DEF FindingsInv
  <2>2. QED
    BY <1>4, <2>1 DEF FindingsInv, analysis
<1>5. CASE UNCHANGED vars
  BY <1>4, <1>5 DEF vars, developer
<1>6. CASE CallReview
  BY <1>4, <1>6 DEF CallReview, developer
<1>7. CASE CallFails \/ UntrackedGone \/ ReadFails
  BY <1>4, <1>7 DEF CallFails, UntrackedGone, ReadFails, Fail, End, developer
<1>8. CASE \/ ReadStaged \/ ReadUnstaged \/ ListUntracked \/ ReadUntracked \/ WorktreeRead
           \/ ReadPR \/ NoPR \/ ListTracked \/ ListOthers \/ ReadFile \/ ReadSelected \/ SnapshotRead
  BY <1>4, <1>8 DEF ReadStaged, ReadUnstaged, ListUntracked, ReadUntracked, WorktreeRead, ReadPR, NoPR,
     ListTracked, ListOthers, ReadFile, ReadSelected, SnapshotRead, developer
<1>9. CASE ReportRaw \/ Synthesize
  BY <1>4, <1>9 DEF ReportRaw, Synthesize, Analyzed, developer
<1>10. CASE Finish
  BY <1>4, <1>10 DEF Finish, NothingToReview, FilterRules, developer, Where
<1>11. QED
  BY <1>1, <1>2, <1>3, <1>5, <1>6, <1>7, <1>8, <1>9, <1>10 DEF Next, Call, Prepare, Analyze

\* For any analyzers, however many of them fail, however many analyses break, and whatever the
\* developer does: what is reported was asked for, and what was asked for is reported of every file
\* that was left alone, of every package or file whose analysis the source got through.
THEOREM FindingsMatch == Spec => []FindingsMatchRequest
<1>1. Init => FindingsInv
  <2> SUFFICES ASSUME Init PROVE FindingsInv
    OBVIOUS
  <2>1. findings = {} /\ failed = {} /\ missing = {} /\ source = 1 /\ step = "called"
    BY DEF Init
  <2>2. \A tool : ~Finished(tool)
    BY <2>1, SourcesListed DEF Finished
  <2>3. QED
    BY <2>1, <2>2 DEF FindingsInv, Reports
<1>2. TypeOK /\ Where /\ FindingsInv => FindingsMatchRequest
  <2> SUFFICES ASSUME TypeOK, Where, FindingsInv, request.tool = "static", outcome \in {"findings", "review"}
               PROVE  FindingsMatchRequest
    BY DEF FindingsMatchRequest
  <2>1. source > Len(Sources) /\ Reports
    BY DEF Where, FindingsInv
  <2>2. ASSUME NEW x \in findings
        PROVE  /\ x.tool \notin Disabled \cup failed \cup missing
               /\ Enabled # {} => x.check \in Enabled
               /\ files # << >> => x.file \in ToSet(files)
    BY <2>1, <2>2 DEF Reports, Working, Selected, Allowed
  <2>3. ASSUME NEW tool \in ToSet(Sources) \ (Disabled \cup failed \cup missing)
        PROVE  SaidAll(tool)
    <3>1. \A k \in 1..Len(Sources) : k < source
      <4>1. source \in 1..(Len(Sources) + 1)
        BY DEF TypeOK
      <4>2. QED
        BY <2>1, <4>1, SourcesListed
    <3>2. Finished(tool)
      BY <3>1, SourcesListed DEF Finished
    <3>3. QED
      BY <2>1, <3>2 DEF Reports, Working
  <2>4. QED
    BY <2>2, <2>3 DEF FindingsMatchRequest, SaidAll, Selected, Allowed
<1>3. QED
  BY <1>1, <1>2, FindingsStep, WhereAlways, TypeCorrect, PTL DEF Spec

----------------------------------------------------------------------------
(* Changes *)

LEMMA ShownInInput ==
  ASSUME NEW f
  PROVE  {input[i] : i \in {j \in DOMAIN input : input[j].file = f}} = Shown(f)
BY DEF Shown, ToSet

\* What a diff says of a file is what there is to say of it.
LEMMA DiffsExact ==
  ASSUME TypeOK, NEW f \in Files
  PROVE  /\ {x \in ToSet(StagedDiff) : x.file = f} = Said("staged", f)
         /\ {x \in ToSet(UnstagedDiff) : x.file = f} = IF f \in Tracked THEN Said("worktree", f) ELSE {}
         /\ {x \in ToSet(BranchDiff) : x.file = f} = Said("pr", f)
<1>1. repo \in [Places -> [Files -> Versions]]
  BY DEF TypeOK
<1>2. {x \in ToSet(StagedDiff) : x.file = f} = Said("staged", f)
  BY <1>1, PlacesKnown, DiffOfFile DEF StagedDiff, Said, HasChange, ChangeOf, Change
<1>3. {x \in ToSet(BranchDiff) : x.file = f} = Said("pr", f)
  BY <1>1, PlacesKnown, DiffOfFile DEF BranchDiff, Said, HasChange, ChangeOf, Change
<1>4. {x \in ToSet(UnstagedDiff) : x.file = f} = IF f \in Tracked THEN Said("worktree", f) ELSE {}
  BY <1>1, PlacesKnown, DiffOfFile DEF UnstagedDiff, Said, HasChange, ChangeOf, Change
<1>5. QED
  BY <1>2, <1>3, <1>4

LEMMA KindsKept ==
  ASSUME UNCHANGED <<repo, touched>>, NEW kind
  PROVE  /\ Unchanged(kind) => Unchanged(kind)'
         /\ input' = input => (Exact(kind) => Exact(kind)') /\ (TrackedRead => TrackedRead')
         /\ input' = input /\ queue' = queue => (UntrackedInHand => UntrackedInHand')
<1>1. \A f : (f \in Tracked)' <=> f \in Tracked
  BY DEF Tracked
<1>2. \A k, f : ChangeOf(k, f)' = ChangeOf(k, f)
  BY DEF ChangeOf
<1>3. \A k, f : HasChange(k, f)' <=> HasChange(k, f)
  BY <1>1, <1>2 DEF HasChange
<1>4. \A k, f : Said(k, f)' = Said(k, f)
  BY <1>2, <1>3 DEF Said
<1>5. \A f, places : Still(f, places)' <=> Still(f, places)
  BY DEF Still
<1>6. input' = input => \A f : Shown(f)' = Shown(f)
  BY DEF Shown
<1>7. Unchanged(kind) => Unchanged(kind)'
  BY <1>3, <1>5 DEF Unchanged, Compared
<1>8. input' = input => (Exact(kind) => Exact(kind)')
  BY <1>4, <1>5, <1>6 DEF Exact, Compared
<1>9. input' = input => (TrackedRead => TrackedRead')
  BY <1>1, <1>4, <1>5, <1>6 DEF TrackedRead
<1>10. input' = input /\ queue' = queue => (UntrackedInHand => UntrackedInHand')
  BY <1>1, <1>4, <1>5, <1>6 DEF UntrackedInHand
<1>11. QED
  BY <1>7, <1>8, <1>9, <1>10

LEMMA SaidMoved ==
  ASSUME TypeOK, NEW changed \in [Places -> [Files -> Versions]], Move(changed),
         NEW kind \in {"staged", "worktree", "pr"}, NEW f \in Files, Still(f, Compared(kind))'
  PROVE  /\ Still(f, Compared(kind))
         /\ HasChange(kind, f)' <=> HasChange(kind, f)
         /\ Said(kind, f)' = Said(kind, f)
         /\ kind = "worktree" => ((f \in Tracked)' <=> f \in Tracked)
<1>1. Compared(kind)' = Compared(kind) /\ Compared(kind) \subseteq Places
  BY PlacesKnown DEF Compared
<1>2. Still(f, Compared(kind)) /\ \A place \in Compared(kind) : repo'[place][f] = repo[place][f]
  BY <1>1, StillKept DEF Still
<1>3. kind = "worktree" => ((f \in Tracked)' <=> f \in Tracked)
  BY <1>2 DEF Tracked, Compared
<1>4. ChangeOf(kind, f)' = ChangeOf(kind, f)
  BY <1>2 DEF ChangeOf, Compared
<1>5. HasChange(kind, f)' <=> HasChange(kind, f)
  BY <1>3, <1>4 DEF HasChange
<1>6. QED
  BY <1>2, <1>3, <1>4, <1>5 DEF Said

LEMMA KindsMoved ==
  ASSUME TypeOK, NEW changed \in [Places -> [Files -> Versions]], Move(changed),
         NEW kind \in {"staged", "worktree", "pr"}
  PROVE  /\ Unchanged(kind) => Unchanged(kind)'
         /\ Exact(kind) => Exact(kind)'
         /\ TrackedRead => TrackedRead'
         /\ UntrackedInHand => UntrackedInHand'
<1>1. UNCHANGED <<input, queue>>
  BY DEF Move, reading
<1>2. \A f : Shown(f)' = Shown(f)
  BY <1>1 DEF Shown
<1>3. Unchanged(kind) => Unchanged(kind)'
  BY SaidMoved DEF Unchanged
<1>4. Exact(kind) => Exact(kind)'
  BY <1>2, SaidMoved DEF Exact
<1>5. ASSUME NEW f \in Files, Still(f, {"index", "tree"})'
      PROVE  /\ Still(f, {"index", "tree"})
             /\ Said("worktree", f)' = Said("worktree", f)
             /\ (f \in Tracked)' <=> f \in Tracked
  <2>1. Compared("worktree") = {"index", "tree"}
    BY DEF Compared
  <2>2. Still(f, Compared("worktree"))'
    BY <1>5, <2>1 DEF Compared
  <2>3. QED
    BY <2>1, <2>2, SaidMoved
<1>6. TrackedRead => TrackedRead'
  BY <1>2, <1>5 DEF TrackedRead
<1>7. UntrackedInHand => UntrackedInHand'
  <2> SUFFICES ASSUME UntrackedInHand, NEW f \in Files, Still(f, {"index", "tree"})'
               PROVE  /\ Shown(f)' \subseteq Said("worktree", f)'
                      /\ (f \notin ToSet(queue))' => Shown(f)' = Said("worktree", f)'
                      /\ (f \in ToSet(queue))' => (f \in GoFiles \ Tracked)'
    BY DEF UntrackedInHand
  <2>1. (f \in ToSet(queue))' <=> f \in ToSet(queue)
    BY <1>1
  <2>2. QED
    BY <1>2, <1>5, <2>1 DEF UntrackedInHand
<1>8. QED
  BY <1>3, <1>4, <1>6, <1>7

\* Where nothing of a kind was found, there is nothing.
LEMMA NoneOfKind ==
  ASSUME NEW kind, Exact(kind), input = << >>
  PROVE  Unchanged(kind)
<1>1. \A f : Shown(f) = {}
  BY NothingInEmpty DEF Shown
<1>2. QED
  BY <1>1 DEF Exact, Said, Unchanged

LEMMA NothingStaged ==
  ASSUME TypeOK, StagedDiff = << >>
  PROVE  Unchanged("staged")
<1>1. \A f \in Files : Said("staged", f) = {}
  BY DiffsExact, NothingInEmpty
<1>2. QED
  BY <1>1 DEF Unchanged, Said

LEMMA DiffTaken ==
  ASSUME TypeOK, UNCHANGED <<repo, touched>>
  PROVE  /\ input' = StagedDiff => Exact("staged")'
         /\ input' = BranchDiff => Exact("pr")'
         /\ input' = UnstagedDiff => TrackedRead'
<1>1. \A kind, f : Said(kind, f)' = Said(kind, f)
  BY DEF Said, HasChange, ChangeOf, Tracked
<1>2. \A f : (f \in Tracked)' <=> f \in Tracked
  BY DEF Tracked
<1>3. ASSUME NEW diff, input' = diff PROVE \A f : Shown(f)' = {x \in ToSet(diff) : x.file = f}
  BY <1>3 DEF Shown
<1>4. input' = StagedDiff => Exact("staged")'
  BY <1>1, <1>3, DiffsExact DEF Exact
<1>5. input' = BranchDiff => Exact("pr")'
  BY <1>1, <1>3, DiffsExact DEF Exact
<1>6. input' = UnstagedDiff => TrackedRead'
  BY <1>1, <1>2, <1>3, DiffsExact DEF TrackedRead
<1>7. QED
  BY <1>4, <1>5, <1>6

\* The untracked files are listed after the changes of the tracked ones were read.
LEMMA UntrackedListed ==
  ASSUME TypeOK, TrackedRead, ListUntracked
  PROVE  UntrackedInHand'
<1>1. UNCHANGED <<repo, touched, input>> /\ queue' = Listing(Untracked)
  BY DEF ListUntracked, developer
<1>2. ToSet(queue') = Untracked \cap GoFiles
  BY <1>1, ListingType
<1>3. \A f : /\ Said("worktree", f)' = Said("worktree", f) /\ Shown(f)' = Shown(f)
             /\ Still(f, {"index", "tree"})' <=> Still(f, {"index", "tree"})
             /\ (f \in Tracked)' <=> f \in Tracked
  BY <1>1 DEF Said, HasChange, ChangeOf, Tracked, Shown, Still
<1>4. ASSUME NEW f \in Files, Still(f, {"index", "tree"})
      PROVE  /\ Shown(f) \subseteq Said("worktree", f)
             /\ f \notin Untracked \cap GoFiles => Shown(f) = Said("worktree", f)
             /\ f \in Untracked \cap GoFiles => f \in GoFiles \ Tracked
  <2>1. Shown(f) = IF f \in Tracked THEN Said("worktree", f) ELSE {}
    BY <1>4 DEF TrackedRead
  <2>2. f \notin Tracked /\ f \notin Untracked \cap GoFiles => Said("worktree", f) = {}
    BY DEF Said, HasChange, ChangeOf, Change, Tracked, Untracked
  <2>3. QED
    BY <2>1, <2>2 DEF Untracked
<1>5. QED
  BY <1>2, <1>3, <1>4 DEF UntrackedInHand

\* One of them is read.
LEMMA UntrackedAdded ==
  ASSUME TypeOK, UntrackedInHand, ReadUntracked
  PROVE  UntrackedInHand'
<1> DEFINE h == Head(queue)
           e == Change(h, 0, repo.tree[h])
<1>1. /\ UNCHANGED <<repo, touched>> /\ queue # << >> /\ repo.tree[h] # 0
      /\ input' = Append(input, e) /\ queue' = Tail(queue)
  BY DEF ReadUntracked, developer
<1>2. /\ h \in Files
      /\ ToSet(queue) = {h} \cup ToSet(Tail(queue))
  BY <1>1, HeadAndTail DEF TypeOK
<1>3. repo.tree[h] \in Versions
  BY <1>2, PlacesKnown DEF TypeOK
<1>4. ToSet(input') = ToSet(input) \cup {e}
  BY <1>1, <1>2, <1>3, EntryType DEF TypeOK
<1>5. \A f : /\ Said("worktree", f)' = Said("worktree", f)
             /\ Still(f, {"index", "tree"})' <=> Still(f, {"index", "tree"})
             /\ (f \in Tracked)' <=> f \in Tracked
  BY <1>1 DEF Said, HasChange, ChangeOf, Tracked, Still
<1>6. \A f : Shown(f)' = IF f = h THEN Shown(f) \cup {e} ELSE Shown(f)
  <2>1. e.file = h
    BY DEF Change
  <2> HIDE DEF e, h
  <2>2. \A f : Shown(f)' = {x \in ToSet(input) \cup {e} : x.file = f}
    BY <1>4 DEF Shown
  <2>3. QED
    BY <2>1, <2>2 DEF Shown
<1>7. ASSUME Still(h, {"index", "tree"}) PROVE Said("worktree", h) = {e}
  <2>1. h \in GoFiles \ Tracked
    BY <1>2, <1>7 DEF UntrackedInHand
  <2>2. repo.index[h] = 0
    BY <1>2, <2>1 DEF Tracked
  <2>3. QED
    BY <1>1, <2>1, <2>2 DEF Said, HasChange, ChangeOf, Change
<1> HIDE DEF e, h
<1>8. ASSUME NEW f \in Files, Still(f, {"index", "tree"})'
      PROVE  /\ Shown(f)' \subseteq Said("worktree", f)'
             /\ f \notin ToSet(queue') => Shown(f)' = Said("worktree", f)'
             /\ f \in ToSet(queue') => f \in GoFiles /\ ~(f \in Tracked)'
  <2>1. /\ Shown(f) \subseteq Said("worktree", f)
        /\ f \notin ToSet(queue) => Shown(f) = Said("worktree", f)
        /\ f \in ToSet(queue) => f \in GoFiles \ Tracked
    BY <1>5, <1>8 DEF UntrackedInHand
  <2>2. CASE f = h
    BY <1>1, <1>2, <1>5, <1>6, <1>7, <1>8, <2>1, <2>2
  <2>3. CASE f # h
    BY <1>1, <1>2, <1>5, <1>6, <2>1, <2>3
  <2>4. QED
    BY <2>2, <2>3
<1>9. QED
  BY <1>8 DEF UntrackedInHand

\* All of them are.
LEMMA UntrackedDone ==
  ASSUME UntrackedInHand, queue = << >>
  PROVE  Exact("worktree")
<1>1. Compared("worktree") = {"index", "tree"}
  BY DEF Compared
<1>2. QED
  BY <1>1, NothingInEmpty DEF UntrackedInHand, Exact

LEMMA ChangesStep ==
  ASSUME TypeOK, Where, ChangesInv, [Next]_vars
  PROVE  ChangesInv'
<1> SUFFICES ASSUME request'.tool = "review" PROVE ChangesInv'
  BY DEF ChangesInv
<1> DEFINE mode == request.mode
<1>1. CASE Edit \/ Stage \/ Unstage \/ Commit
  <2>1. PICK changed \in [Places -> [Files -> Versions]] : Move(changed)
    BY <1>1, DeveloperMoves
  <2>2. UNCHANGED <<request, step, chosen, outcome>>
    BY <2>1 DEF Move
  <2>3. \A kind \in {"staged", "worktree", "pr"} :
          /\ Unchanged(kind) => Unchanged(kind)'
          /\ Exact(kind) => Exact(kind)'
          /\ TrackedRead => TrackedRead'
          /\ UntrackedInHand => UntrackedInHand'
    BY <2>1, KindsMoved
  <2>4. (Read <=> Read') /\ (AutoMode <=> AutoMode') /\ StepsOf(mode)' = StepsOf(mode)
    BY <2>2 DEF Read, AutoMode, StepsOf
  <2>5. Read /\ chosen # "repo" => Exact(chosen)'
    <3>1. ASSUME NEW kind, kind = chosen PROVE Exact(kind)' = Exact(chosen)'
      BY <2>2, <3>1
    <3>2. QED
      BY <2>2, <2>3 DEF ChangesInv
  <2>6. QED
    BY <2>2, <2>3, <2>4, <2>5 DEF ChangesInv, PastStaged, PastWorktree
<1>2. CASE \/ UNCHANGED vars \/ NothingToReview \/ FilterRules
  <2>1. /\ UNCHANGED <<repo, touched, request, chosen, input, queue>>
        /\ \/ step' = step /\ outcome' = outcome
           \/ step = "prepared" /\ step' = "done" /\ outcome' # "error" /\ outcome = "none"
    BY <1>2 DEF NothingToReview, FilterRules, End, GoTo, vars, developer, reading, Where
  <2>2. (Read <=> Read') /\ (AutoMode <=> AutoMode') /\ StepsOf(mode)' = StepsOf(mode)
    BY <2>1 DEF Read, AutoMode, StepsOf
  <2>3. \A kind : /\ Unchanged(kind) => Unchanged(kind)'
                  /\ Exact(kind) => Exact(kind)'
                  /\ TrackedRead => TrackedRead'
                  /\ UntrackedInHand => UntrackedInHand'
    BY <2>1, KindsKept
  <2>4. step \in StepsOf(mode) => step' \in StepsOf(mode)
    BY <2>1 DEF StepsOf
  <2>5. QED
    BY <2>1, <2>2, <2>3, <2>4 DEF ChangesInv, PastStaged, PastWorktree
<1>3. CASE Fail
  BY <1>3 DEF Fail, End, GoTo, Read, StepsOf, ChangesInv, PastStaged, PastWorktree
<1>4. CASE CallStatic \/ NextSource \/ ReportRaw \/ Synthesize \/ ReadSelected
  BY <1>4 DEF CallStatic, NextSource, ReportRaw, Synthesize, ReadSelected, Analyzed, Where
<1> USE DEF ChangesInv, PastStaged, PastWorktree, Read, GoTo, developer
<1>5. CASE CallReview
  <2>1. /\ request' = request /\ mode \in Modes \ {"unknown"}
        /\ step' = IF mode = "auto" THEN "staged" ELSE mode
    BY <1>5, ToolsAndModes DEF CallReview, Understood
  <2>2. QED
    BY <2>1 DEF StepsOf, AutoMode, Modes
<1>6. ASSUME UNCHANGED <<repo, touched, request, outcome>>
      PROVE  /\ request.tool = "review" /\ (AutoMode' <=> AutoMode) /\ StepsOf(mode)' = StepsOf(mode)
             /\ \A kind : /\ Unchanged(kind) => Unchanged(kind)'
                          /\ input' = input => (Exact(kind) => Exact(kind)') /\ (TrackedRead => TrackedRead')
                          /\ input' = input /\ queue' = queue => (UntrackedInHand => UntrackedInHand')
  BY <1>6, KindsKept DEF AutoMode, StepsOf
<1>7. CASE ReadStaged
  <2>1. /\ UNCHANGED <<repo, touched, request, outcome>> /\ step = "staged" /\ chosen' = "staged"
        /\ input' = StagedDiff /\ step' = IF AutoMode /\ StagedDiff = << >> THEN "worktree" ELSE "prepared"
    BY <1>7 DEF ReadStaged, Take
  <2>2. Exact("staged")' /\ (StagedDiff = << >> => Unchanged("staged")')
    BY <1>6, <2>1, DiffTaken, NothingStaged
  <2>3. mode # "worktree" /\ step' \in StepsOf(mode)
    BY <1>6, <2>1 DEF StepsOf, AutoMode
  <2>4. QED
    BY <1>6, <2>1, <2>2, <2>3
<1>8. CASE ReadUnstaged
  <2>1. /\ UNCHANGED <<repo, touched, request, outcome>> /\ step = "worktree" /\ chosen' = "worktree"
        /\ input' = UnstagedDiff /\ step' = "untracked"
    BY <1>8 DEF ReadUnstaged
  <2>2. TrackedRead'
    BY <2>1, DiffTaken
  <2>3. step' \in StepsOf(mode)
    BY <1>6, <2>1 DEF StepsOf
  <2>4. AutoMode' => Unchanged("staged")'
    BY <1>6, <2>1
  <2>5. QED
    BY <1>6, <2>1, <2>2, <2>3, <2>4
<1>9. CASE ListUntracked
  <2>1. /\ UNCHANGED <<repo, touched, request, outcome, chosen>> /\ step = "untracked"
        /\ step' = "reading untracked"
    BY <1>9 DEF ListUntracked
  <2>2. UntrackedInHand'
    BY <1>6, <1>9, <2>1, UntrackedListed
  <2>3. step' \in StepsOf(mode)
    BY <1>6, <2>1 DEF StepsOf
  <2>4. QED
    BY <1>6, <2>1, <2>2, <2>3
<1>10. CASE ReadUntracked
  <2>1. /\ UNCHANGED <<repo, touched, request, outcome, chosen, step>> /\ step = "reading untracked"
    BY <1>10 DEF ReadUntracked
  <2>2. UntrackedInHand'
    BY <1>6, <1>10, <2>1, UntrackedAdded
  <2>3. QED
    BY <1>6, <2>1, <2>2
<1>11. CASE WorktreeRead
  <2>1. /\ UNCHANGED <<repo, touched, request, outcome, input>> /\ step = "reading untracked"
        /\ chosen' = "worktree" /\ queue = << >>
        /\ step' = IF AutoMode /\ input = << >> THEN "pr" ELSE "prepared"
    BY <1>11 DEF WorktreeRead, Take
  <2>2. Exact("worktree") /\ (input = << >> => Unchanged("worktree"))
    BY <1>6, <2>1, UntrackedDone, NoneOfKind
  <2>3. mode # "staged" /\ step' \in StepsOf(mode)
    BY <1>6, <2>1 DEF StepsOf, AutoMode
  <2>4. /\ AutoMode' => Unchanged("staged")'
        /\ Exact("worktree")' /\ (input = << >> => Unchanged("worktree")')
    BY <1>6, <2>1, <2>2
  <2>5. QED
    BY <1>6, <2>1, <2>3, <2>4
<1>12. CASE ReadPR
  <2>1. /\ UNCHANGED <<repo, touched, request, outcome>> /\ step = "pr" /\ chosen' = "pr"
        /\ input' = BranchDiff /\ step' = IF AutoMode /\ BranchDiff = << >> THEN "repo" ELSE "prepared"
    BY <1>12 DEF ReadPR, Take
  <2>2. Exact("pr")'
    BY <2>1, DiffTaken
  <2>3. mode \notin {"staged", "worktree"} /\ step' \in StepsOf(mode)
    BY <1>6, <2>1 DEF StepsOf
  <2>4. AutoMode' => Unchanged("staged")' /\ Unchanged("worktree")'
    BY <1>6, <2>1
  <2>5. QED
    BY <1>6, <2>1, <2>2, <2>3, <2>4
<1>13. CASE NoPR \/ ListTracked \/ ListOthers \/ ReadFile
  <2>1. /\ UNCHANGED <<repo, touched, request, outcome>>
        /\ step \in {"pr", "repo", "others", "reading files"}
        /\ step' \in {"repo", "others", "reading files"}
    BY <1>13 DEF NoPR, ListTracked, ListOthers, ReadFile
  <2>2. mode \notin {"staged", "worktree"} /\ step' \in StepsOf(mode)
    BY <1>6, <2>1 DEF StepsOf
  <2>3. AutoMode' => Unchanged("staged")' /\ Unchanged("worktree")'
    BY <1>6, <2>1
  <2>4. QED
    BY <1>6, <2>1, <2>2, <2>3
<1>14. CASE SnapshotRead
  <2>1. /\ UNCHANGED <<repo, touched, request, outcome, chosen>> /\ step' = "prepared"
        /\ step \in {"reading files", "reading selected"}
    BY <1>14 DEF SnapshotRead
  <2>2. step = "reading files" /\ chosen = "repo"
    BY <1>6, <2>1 DEF Where
  <2>3. mode \notin {"staged", "worktree"} /\ step' \in StepsOf(mode)
    BY <1>6, <2>1, <2>2 DEF StepsOf
  <2>4. QED
    BY <1>6, <2>1, <2>2, <2>3
<1>15. QED
  BY <1>1, <1>2, <1>3, <1>4, <1>5, <1>7, <1>8, <1>9, <1>10, <1>11, <1>12, <1>13, <1>14
     DEF Next, Call, CallFails, Prepare, UntrackedGone, ReadFails, Analyze, Finish, RunSource, SkipSource,
         SourceMissing, SourceFails

LEMMA Ranks ==
  Rank("staged") = 1 /\ Rank("worktree") = 2 /\ Rank("pr") = 3 /\ Rank("repo") = 4
<1>1. /\ DOMAIN Kinds = 1..4
      /\ Kinds[1] = "staged" /\ Kinds[2] = "worktree" /\ Kinds[3] = "pr" /\ Kinds[4] = "repo"
  BY DEF Kinds
<1>2. \A n \in 1..4 : n = 1 \/ n = 2 \/ n = 3 \/ n = 4
  OBVIOUS
<1>3. QED
  BY <1>1, <1>2 DEF Rank

\* For any repository and any number of things the developer does between the commands: a change that was
\* left alone is shown to the model as it is, and auto mode prefers no later kind of change to it.
THEOREM NoChangePassedOver == Spec => []ChangesNotPassedOver
<1>1. Init => ChangesInv
  BY DEF Init, ChangesInv, Read, StepsOf, PastStaged, PastWorktree
<1>2. TypeOK /\ Where /\ ChangesInv => ChangesNotPassedOver
  <2> SUFFICES ASSUME TypeOK, Where, ChangesInv, Reviewed, NEW f \in Files
               PROVE  /\ \A kind \in {"staged", "worktree"} :
                           Still(f, Compared(kind)) /\ HasChange(kind, f) /\ request.mode \in {kind, "auto"}
                             => Rank(chosen) <= Rank(kind)
                      /\ chosen # "repo" /\ Still(f, Compared(chosen)) => Shown(f) = Said(chosen, f)
    BY ShownInInput DEF ChangesNotPassedOver, Said
  <2>1. Read /\ chosen \in {"staged", "worktree", "pr", "repo"} /\ request.tool = "review"
    BY DEF Reviewed, Where, Read, ChangesInv
  <2>2. ASSUME NEW kind \in {"staged", "worktree"}, Still(f, Compared(kind)), HasChange(kind, f),
               request.mode \in {kind, "auto"}
        PROVE  Rank(chosen) <= Rank(kind)
    <3>1. CASE request.mode = kind
      <4>1. chosen = kind
        BY <2>1, <2>2, <3>1 DEF ChangesInv
      <4>2. QED
        BY <2>2, <4>1, Ranks
    <3>2. CASE request.mode = "auto"
      <4>1. AutoMode
        BY <2>1, <3>2 DEF AutoMode
      <4>2. ~Unchanged(kind)
        BY <2>2 DEF Unchanged
      <4>3. chosen = "staged" \/ (chosen = "worktree" /\ kind = "worktree")
        BY <2>1, <4>1, <4>2 DEF ChangesInv, PastStaged, PastWorktree
      <4>4. QED
        BY <4>3, Ranks
    <3>3. QED
      BY <2>2, <3>1, <3>2
  <2>3. chosen # "repo" /\ Still(f, Compared(chosen)) => Shown(f) = Said(chosen, f)
    BY <2>1 DEF ChangesInv, Exact
  <2>4. QED
    BY <2>2, <2>3
<1>3. QED
  BY <1>1, <1>2, ChangesStep, WhereAlways, TypeCorrect, PTL DEF Spec

----------------------------------------------------------------------------
(* Snapshots *)

LEMMA SnapshotMoved ==
  ASSUME TypeOK, NEW changed \in [Places -> [Files -> Versions]], Move(changed)
  PROVE  /\ TrackedListed => TrackedListed'
         /\ NoneTwice => NoneTwice'
         /\ ReadSoFar => ReadSoFar'
<1>1. UNCHANGED <<input, queue, truncated>>
  BY DEF Move, reading
<1>2. ASSUME NEW f \in GoFiles, Still(f, {"index", "tree"})'
      PROVE  /\ Still(f, {"index", "tree"})
             /\ repo'.tree[f] = repo.tree[f]
             /\ (f \in Tracked)' <=> f \in Tracked
  <2>1. f \in Files /\ {"index", "tree"} \subseteq Places
    BY PlacesKnown, ReviewSourcesAssumption
  <2>2. /\ Still(f, {"index", "tree"})
        /\ repo'["tree"][f] = repo["tree"][f] /\ repo'["index"][f] = repo["index"][f]
    BY <1>2, <2>1, StillKept
  <2>3. QED
    BY <2>2 DEF Tracked
<1>3. TrackedListed => TrackedListed'
  BY <1>1, <1>2 DEF TrackedListed
<1>4. NoneTwice => NoneTwice'
  BY <1>1 DEF NoneTwice
<1>5. ReadSoFar => ReadSoFar'
  <2> SUFFICES ASSUME ReadSoFar, ~truncated', NEW f \in GoFiles, Still(f, {"index", "tree"})',
                      repo'.tree[f] # 0, f \notin ToSet(queue')
               PROVE  Change(f, 0, repo'.tree[f]) \in ToSet(input')
    BY DEF ReadSoFar, Change
  <2>1. Still(f, {"index", "tree"}) /\ repo.tree[f] # 0 /\ f \notin ToSet(queue) /\ ~truncated
    BY <1>1, <1>2
  <2>2. Change(f, 0, repo.tree[f]) \in ToSet(input)
    BY <2>1 DEF ReadSoFar
  <2>3. QED
    BY <1>1, <1>2, <2>2
<1>6. QED
  BY <1>3, <1>4, <1>5

\* A file that goes from one list to the other in between is in one of them or in both.
LEMMA OthersListed ==
  ASSUME TypeOK, input = << >>, TrackedListed, ListOthers
  PROVE  NoneTwice' /\ ReadSoFar'
<1>1. /\ UNCHANGED <<repo, touched, input, truncated>>
      /\ queue' = AppendUnique(queue, Listing(Untracked))
  BY DEF ListOthers, developer
<1>2. /\ ToSet(queue') = ToSet(queue) \cup (Untracked \cap GoFiles)
      /\ IsInjective(queue')
  BY <1>1, ListingType, UniqueAppended DEF TypeOK, TrackedListed
<1>3. NoneTwice'
  <2>1. input' = << >> /\ ToSet(input') = {}
    BY <1>1, NothingInEmpty
  <2>2. QED
    BY <1>2, <2>1 DEF NoneTwice
<1>4. ASSUME NEW f \in GoFiles, Still(f, {"index", "tree"})', repo'.tree[f] # 0
      PROVE  f \in ToSet(queue')
  <2>1. Still(f, {"index", "tree"}) /\ repo.tree[f] # 0 /\ f \in Files
    BY <1>1, <1>4, ReviewSourcesAssumption DEF Still
  <2>2. f \in Tracked => f \in ToSet(queue)
    BY <2>1 DEF TrackedListed
  <2>3. f \notin Tracked => f \in Untracked
    BY <2>1 DEF Untracked
  <2>4. QED
    BY <1>2, <2>2, <2>3
<1>5. ReadSoFar'
  BY <1>4 DEF ReadSoFar
<1>6. QED
  BY <1>3, <1>5

\* One file of the list is read.
LEMMA FileRead ==
  ASSUME TypeOK, NoneTwice, ReadSoFar, ReadFile
  PROVE  NoneTwice' /\ ReadSoFar'
<1>0. PICK h : h = Head(queue)
  OBVIOUS
<1>1. /\ UNCHANGED <<repo, touched>> /\ queue # << >>
      /\ Show(repo.tree[Head(queue)])
  BY DEF ReadFile, developer
<1>2. /\ h \in Files /\ ToSet(queue) = {h} \cup ToSet(Tail(queue))
      /\ IsInjective(Tail(queue)) /\ h \notin ToSet(Tail(queue))
  BY <1>0, <1>1, HeadAndTail DEF TypeOK, NoneTwice
<1>3. repo.tree[h] \in Versions
  BY <1>2, PlacesKnown DEF TypeOK
<1>4. PICK e : e = Change(h, 0, repo.tree[h])
  OBVIOUS
<1>5. e.file = h /\ e.to = repo.tree[h] /\ e \in ChangeRecords
  BY <1>2, <1>3, <1>4, EntryType, EmptySeq DEF Change
<1>6. \/ /\ repo.tree[h] = 0 /\ queue' = Tail(queue) /\ input' = input /\ truncated' = truncated
      \/ /\ repo.tree[h] # 0 /\ queue' = Tail(queue) /\ truncated' = truncated
         /\ input' = Append(input, e) /\ ToSet(input') = ToSet(input) \cup {e}
      \/ queue' = << >> /\ input' = input /\ truncated'
  BY <1>0, <1>1, <1>3, <1>4, ShowType
<1>7. CASE repo.tree[h] = 0 /\ queue' = Tail(queue) /\ input' = input /\ truncated' = truncated
  <2>1. NoneTwice'
    BY <1>2, <1>7 DEF NoneTwice
  <2>2. ASSUME ~truncated', NEW f \in GoFiles, Still(f, {"index", "tree"})', repo'.tree[f] # 0,
               f \notin ToSet(queue')
        PROVE  Change(f, 0, repo'.tree[f]) \in ToSet(input')
    <3>1. Still(f, {"index", "tree"}) /\ repo.tree[f] # 0 /\ f # h /\ f \notin ToSet(queue) /\ ~truncated
      BY <1>1, <1>2, <1>7, <2>2 DEF Still
    <3>2. QED
      BY <1>1, <1>7, <3>1 DEF ReadSoFar
  <2>3. QED
    BY <2>1, <2>2 DEF ReadSoFar, Change
<1>8. CASE /\ repo.tree[h] # 0 /\ queue' = Tail(queue) /\ truncated' = truncated
           /\ input' = Append(input, e) /\ ToSet(input') = ToSet(input) \cup {e}
  <2>1. /\ Len(input) \in Nat /\ DOMAIN input = 1..Len(input) /\ DOMAIN input' = 1..(Len(input) + 1)
        /\ \A i \in 1..Len(input) : input'[i] = input[i]
        /\ input'[Len(input) + 1] = e
    <3>1. input \in Seq(ChangeRecords)
      BY DEF TypeOK
    <3>2. /\ input' \in Seq(ChangeRecords) /\ Len(input') = Len(input) + 1
          /\ \A i \in 1..Len(input) : input'[i] = input[i]
          /\ input'[Len(input) + 1] = e
      BY <1>5, <1>8, <3>1, AppendProperties
    <3>3. QED
      BY <3>1, <3>2, LenProperties
  <2>2. \A i \in 1..Len(input) : input[i].file # h
    <3>1. \A i \in 1..Len(input) : input[i] \in ToSet(input)
      BY <2>1 DEF ToSet
    <3>2. h \in ToSet(queue)
      BY <1>2
    <3>3. QED
      BY <3>1, <3>2 DEF NoneTwice
  <2>3. \A i, j \in DOMAIN input' : i # j => input'[i].file # input'[j].file
    <3>1. \A i, j \in 1..Len(input) : i # j => input'[i].file # input'[j].file
      BY <2>1 DEF NoneTwice
    <3>2. \A i \in DOMAIN input' : i \in 1..Len(input) \/ i = Len(input) + 1
      BY <2>1
    <3>3. \A i \in 1..Len(input) : input'[i].file # h
      BY <2>1, <2>2
    <3>4. input'[Len(input) + 1].file = h
      BY <1>5, <2>1
    <3>5. QED
      BY <3>1, <3>2, <3>3, <3>4
  <2>4. \A x \in ToSet(input') : x.to # 0 /\ x.file \notin ToSet(queue')
    BY <1>2, <1>5, <1>8 DEF NoneTwice
  <2>5. NoneTwice'
    BY <1>2, <1>8, <2>3, <2>4 DEF NoneTwice
  <2>6. ASSUME ~truncated', NEW f \in GoFiles, Still(f, {"index", "tree"})', repo'.tree[f] # 0,
               f \notin ToSet(queue')
        PROVE  Change(f, 0, repo'.tree[f]) \in ToSet(input')
    <3>1. CASE f = h
      BY <1>1, <1>4, <1>8, <3>1
    <3>2. CASE f # h
      <4>1. Still(f, {"index", "tree"}) /\ repo.tree[f] # 0 /\ f \notin ToSet(queue) /\ ~truncated
        BY <1>1, <1>2, <1>8, <2>6, <3>2 DEF Still
      <4>2. QED
        BY <1>1, <1>8, <4>1 DEF ReadSoFar
    <3>3. QED
      BY <3>1, <3>2
  <2>7. QED
    BY <2>5, <2>6 DEF ReadSoFar, Change
<1>9. CASE queue' = << >> /\ input' = input /\ truncated'
  <2>1. ToSet(queue') = {} /\ IsInjective(queue')
    BY <1>9, NothingInEmpty
  <2>2. NoneTwice'
    BY <1>9, <2>1 DEF NoneTwice
  <2>3. QED
    BY <1>9, <2>2 DEF ReadSoFar
<1>10. QED
  BY <1>6, <1>7, <1>8, <1>9

LEMMA SnapshotStep ==
  ASSUME TypeOK, Where, SnapshotInv, [Next]_vars
  PROVE  SnapshotInv'
<1> SUFFICES ASSUME chosen' = "repo" PROVE SnapshotInv'
  BY DEF SnapshotInv
<1>1. CASE Edit \/ Stage \/ Unstage \/ Commit
  <2>1. PICK changed \in [Places -> [Files -> Versions]] : Move(changed)
    BY <1>1, DeveloperMoves
  <2>2. UNCHANGED <<step, chosen, outcome, queue>>
    BY <2>1 DEF Move, reading
  <2>3. QED
    BY <2>1, <2>2, SnapshotMoved DEF SnapshotInv, Read
<1>2. ASSUME UNCHANGED <<repo, touched, queue, input, truncated, chosen>>,
             \/ step' = step /\ outcome' = outcome
             \/ step = "reading files" /\ step' = "prepared" /\ queue = << >>
             \/ step = "prepared" /\ step' = "done" /\ outcome # "error"
             \/ step' = "done" /\ outcome' = "error"
      PROVE  SnapshotInv'
  <2>1. /\ TrackedListed => TrackedListed'
        /\ NoneTwice => NoneTwice'
        /\ ReadSoFar => ReadSoFar'
    <3>1. /\ \A f : (f \in Tracked)' <=> f \in Tracked
          /\ \A f, places : Still(f, places)' <=> Still(f, places)
      BY <1>2 DEF Tracked, Still
    <3>2. TrackedListed => TrackedListed'
      BY <1>2, <3>1 DEF TrackedListed
    <3>3. NoneTwice => NoneTwice'
      BY <1>2 DEF NoneTwice
    <3>4. ReadSoFar => ReadSoFar'
      BY <1>2, <3>1 DEF ReadSoFar, Change
    <3>5. QED
      BY <3>2, <3>3, <3>4
  <2>2. QED
    BY <1>2, <2>1 DEF SnapshotInv, Read
<1>3. CASE UNCHANGED vars
  BY <1>2, <1>3 DEF vars, developer, reading
<1>4. CASE Fail
  BY <1>2, <1>4 DEF Fail, End, GoTo, developer, reading
<1>5. CASE NothingToReview \/ FilterRules
  BY <1>2, <1>5 DEF NothingToReview, FilterRules, End, GoTo, developer, reading, Where
<1>6. CASE SnapshotRead
  BY <1>2, <1>6 DEF SnapshotRead, GoTo, developer, reading, Where
<1>7. CASE ListTracked
  <2>1. /\ UNCHANGED <<repo, touched>> /\ queue' = Listing(Tracked) /\ step' = "others"
    BY <1>7 DEF ListTracked, GoTo, developer
  <2>2. ToSet(queue') = Tracked \cap GoFiles /\ IsInjective(queue')
    BY <2>1, ListingType
  <2>3. TrackedListed'
    BY <2>1, <2>2 DEF TrackedListed, Tracked
  <2>4. QED
    BY <2>1, <2>3 DEF SnapshotInv, Read
<1>8. CASE ListOthers
  <2>1. step = "others" /\ step' = "reading files" /\ chosen = "repo" /\ input = << >>
    BY <1>8 DEF ListOthers, GoTo, Where
  <2>2. NoneTwice' /\ ReadSoFar'
    BY <1>8, <2>1, OthersListed DEF SnapshotInv
  <2>3. QED
    BY <2>1, <2>2 DEF SnapshotInv, Read
<1>9. CASE ReadFile
  <2>1. step = "reading files" /\ step' = "reading files" /\ chosen = "repo"
    BY <1>9 DEF ReadFile, Where
  <2>2. NoneTwice' /\ ReadSoFar'
    BY <1>9, <2>1, FileRead DEF SnapshotInv
  <2>3. QED
    BY <2>1, <2>2 DEF SnapshotInv, Read
<1>10. CASE ReadStaged \/ ReadUnstaged \/ WorktreeRead \/ ReadPR
  BY <1>10 DEF ReadStaged, ReadUnstaged, WorktreeRead, ReadPR, Take
<1>11. CASE \/ CallReview \/ CallStatic \/ ListUntracked \/ ReadUntracked \/ NoPR \/ ReadSelected
            \/ NextSource \/ ReportRaw \/ Synthesize
  BY <1>11 DEF CallReview, CallStatic, ListUntracked, ReadUntracked, NoPR, ReadSelected, NextSource,
     ReportRaw, Synthesize, Analyzed, Where
<1>12. QED
  BY <1>1, <1>3, <1>4, <1>5, <1>6, <1>7, <1>8, <1>9, <1>10, <1>11
     DEF Next, Call, CallFails, Prepare, UntrackedGone, ReadFails, Analyze, Finish, RunSource, SkipSource,
         SourceMissing, SourceFails

\* For any files and any number of moves from one list to the other: a snapshot that was not cut off
\* holds every Go file that was left alone, and none of them twice.
THEOREM SnapshotsComplete == Spec => []SnapshotComplete
<1>1. Init => SnapshotInv
  BY DEF Init, SnapshotInv
<1>2. TypeOK /\ Where /\ SnapshotInv => SnapshotComplete
  <2> SUFFICES ASSUME SnapshotInv, chosen = "repo", step = "done", outcome # "error"
               PROVE  SnapshotComplete
    BY DEF SnapshotComplete
  <2>1. NoneTwice /\ ReadSoFar /\ queue = << >> /\ ToSet(queue) = {}
    BY NothingInEmpty DEF SnapshotInv, Read
  <2>2. ASSUME ~truncated, NEW f \in GoFiles, Still(f, Compared("repo"))
        PROVE  repo.tree[f] # 0 <=> Change(f, 0, repo.tree[f]) \in ToSet(input)
    <3>1. Still(f, {"index", "tree"})
      BY <2>2 DEF Compared
    <3>2. Change(f, 0, repo.tree[f]) \in ToSet(input) => repo.tree[f] # 0
      BY <2>1 DEF NoneTwice, Change
    <3>3. QED
      BY <2>1, <2>2, <3>1, <3>2 DEF ReadSoFar
  <2>3. QED
    BY <2>1, <2>2 DEF SnapshotComplete, NoneTwice
<1>3. QED
  BY <1>1, <1>2, SnapshotStep, WhereAlways, TypeCorrect, PTL DEF Spec

=============================================================================
