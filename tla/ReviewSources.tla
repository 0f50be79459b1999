---------------------------- MODULE ReviewSources ----------------------------
(***************************************************************************)
(* What a review is a review of: how a tool call of the MCP server or a    *)
(* command becomes a request (internal/mcpserver/server.go), how the       *)
(* daemon chooses and reads its input (prepareReviewInput of               *)
(* internal/daemon/server.go, internal/gitutil), which analyzers run and   *)
(* on what (internal/analyzer), and which rules go along                   *)
(* (internal/review/prompt.go).                                            *)
(*                                                                         *)
(* All of this reads the repository command by command and file by file    *)
(* while a developer edits, stages and commits in it.  One request is      *)
(* modelled; requests share nothing but the repository, and only read it.  *)
(*                                                                         *)
(* A file has a version, 0 where it does not exist, in HEAD, in the index, *)
(* in the working tree and at the merge base of the pull request.          *)
(***************************************************************************)
EXTENDS Integers, Sequences, FiniteSets, SequencesExt

CONSTANTS
  Files, GoFiles,
  Versions,      \* contents a file may have
  Repositories,  \* the states of the repository when the request is made
  Requests,      \* what may be asked for
  Sources,       \* the analyzers, in the order of DefaultSources
  Checks,        \* the checks of each source
  Packages,      \* the Go packages `./...' stands for, as sets of files; tests are in none
  Config,        \* the lists of the daemon's configuration
  Rules,         \* its review rules
  MaxEntries,    \* what fits into a snapshot for synthesis, in files
  MaxMoves       \* bound on what the developer does

Places == {"base", "head", "index", "tree"}
Modes  == {"auto", "staged", "worktree", "pr", "repo", "unknown"}
Scopes == {"diff", "pr", "repo", "unknown"}

ASSUME ReviewSourcesAssumption ==
  /\ GoFiles \subseteq Files /\ Packages \subseteq SUBSET GoFiles
  /\ IsFiniteSet(Files)
  /\ Versions \subseteq Nat /\ 0 \in Versions
  /\ Repositories \subseteq [Places -> [Files -> Versions]]
  /\ Sources \in Seq(STRING) /\ IsInjective(Sources)
  /\ \A r \in Requests :
       \/ r.tool = "review" /\ r.mode \in Modes
       \/ /\ r.tool = "static" /\ r.scope \in Scopes /\ r.synthesize \in BOOLEAN
          /\ r.disabled \subseteq STRING /\ r.checks \subseteq STRING
  /\ Config.disabled \subseteq STRING /\ Config.checks \subseteq STRING
  /\ \A rule \in Rules : rule.always \in BOOLEAN /\ rule.globs \subseteq SUBSET Files
  /\ MaxEntries \in Nat \ {0} /\ MaxMoves \in Nat

VARIABLES
  repo,      \* the versions of the files in each place
  moves,     \* what the developer has done since the request was made
  touched,   \* the places it changed, and the files it changed there
  request,
  step,      \* what is done next
  chosen,    \* the kind of input in hand
  queue,     \* files still to be read
  input,     \* the changes or files read so far
  files,     \* the files a static review is limited to, none for no limit
  source,    \* the analyzer whose turn it is
  findings,  \* what the analyzers found
  failed,    \* the analyzers that failed
  missing,   \* those that are not there
  silent,    \* the analyses that ended in an error nobody looks at
  truncated, \* the snapshot was cut off
  rules,     \* the rules of the prompt
  outcome

developer == <<repo, moves, touched>>
reading   == <<queue, input, truncated>>
analysis  == <<files, source, findings, failed, missing, silent>>
vars == <<developer, request, step, chosen, reading, analysis, rules, outcome>>

NoRules == {}

Init ==
  /\ repo \in Repositories
  /\ moves = 0 /\ touched = {}
  /\ request \in Requests
  /\ step = "called"
  /\ chosen = "none"
  /\ queue = << >> /\ input = << >> /\ truncated = FALSE
  /\ files = << >> /\ source = 1 /\ findings = {} /\ failed = {} /\ missing = {}
  /\ silent = {}
  /\ rules = NoRules
  /\ outcome = "none"

----------------------------------------------------------------------------
(* What git says of the repository *)

Change(file, from, to) == [file |-> file, from |-> from, to |-> to]
Changes(from, to, among) ==
  SetToSeq({Change(f, repo[from][f], repo[to][f]) : f \in {g \in among : repo[from][g] # repo[to][g]}})

Tracked   == {f \in Files : repo.index[f] # 0}
Untracked == {f \in Files \ Tracked : repo.tree[f] # 0}

\* git diff HEAD in place of git diff.
MutUnstagedDiff == Changes("head", "tree", Tracked)

StagedDiff   == Changes("head", "index", Files)
UnstagedDiff == Changes("index", "tree", Tracked)
BranchDiff   == Changes("base", "head", Files)

\* gitGoFiles: paths with the suffix .go.
Listing(among) == SetToSeq(among \cap GoFiles)

\* FilesFromDiff: the names behind "+++ b/", which a deleted file does not have.
FilesFromDiff(diff) == {diff[i].file : i \in {j \in DOMAIN diff : diff[j].to # 0}}

FilesShown == FilesFromDiff(input)

GoTo(next) == step' = next

\* The request ends: in an error, with nothing to review, or with a review.
End(o) == outcome' = o /\ GoTo("done")
Fail ==
  /\ End("error")
  /\ UNCHANGED <<developer, request, chosen, reading, analysis, rules>>

----------------------------------------------------------------------------
(* The MCP server.  What can't be understood never gets to the daemon; Connect, the  *)
(* subject of DaemonConnect, may fail.                                               *)

Understood ==
  \/ request.tool = "review" /\ request.mode # "unknown"
  \/ request.tool = "static" /\ request.scope # "unknown"

\* The tool `review' is passed on as it is.
CallReview ==
  /\ step = "called" /\ Understood /\ request.tool = "review"
  /\ GoTo(IF request.mode = "auto" THEN "staged" ELSE request.mode)
  /\ UNCHANGED <<developer, request, chosen, reading, analysis, rules, outcome>>

\* staticFilesForScope.
StaticFiles(diff) == SetToSeq(FilesFromDiff(diff) \cap GoFiles)

CallStatic ==
  /\ step = "called" /\ Understood /\ request.tool = "static"
  /\ files' = CASE request.scope = "repo" -> << >>
                [] request.scope = "diff" -> StaticFiles(StagedDiff)
                [] request.scope = "pr"   -> StaticFiles(BranchDiff)
  /\ GoTo("analyzing")
  /\ UNCHANGED <<developer, request, chosen, reading, source, findings, failed, missing, silent,
                 rules, outcome>>

\* No repository, no such mode, no diff, no daemon.
CallFails == step = "called" /\ Fail

----------------------------------------------------------------------------
(* prepareReviewInput *)

AutoMode == request.tool = "review" /\ request.mode = "auto"

\* The input is taken, or in auto mode, if it is empty, the next kind of input is tried.
Take(kind, text, next) ==
  /\ chosen' = kind
  /\ input' = text
  /\ GoTo(IF AutoMode /\ text = << >> THEN next ELSE "prepared")

\* git diff --cached.
ReadStaged ==
  /\ step = "staged"
  /\ Take("staged", StagedDiff, "worktree")
  /\ UNCHANGED <<developer, request, queue, truncated, analysis, rules, outcome>>

\* WorktreeDiff: git diff, then the list of untracked Go files, then each of them.
ReadUnstaged ==
  /\ step = "worktree"
  /\ chosen' = "worktree"
  /\ input' = UnstagedDiff
  /\ GoTo("untracked")
  /\ UNCHANGED <<developer, request, queue, truncated, analysis, rules, outcome>>

ListUntracked ==
  /\ step = "untracked"
  /\ queue' = Listing(Untracked)
  /\ GoTo("reading untracked")
  /\ UNCHANGED <<developer, request, chosen, input, truncated, analysis, rules, outcome>>

ReadUntracked ==
  /\ step = "reading untracked" /\ queue # << >>
  /\ repo.tree[Head(queue)] # 0
  /\ input' = Append(input, Change(Head(queue), 0, repo.tree[Head(queue)]))
  /\ queue' = Tail(queue)
  /\ UNCHANGED <<developer, request, step, chosen, truncated, analysis, rules, outcome>>

\* A file that has gone since it was listed fails the review.
UntrackedGone ==
  /\ step = "reading untracked" /\ queue # << >>
  /\ repo.tree[Head(queue)] = 0
  /\ Fail

WorktreeRead ==
  /\ step = "reading untracked" /\ queue = << >>
  /\ Take("worktree", input, "pr")
  /\ UNCHANGED <<developer, request, queue, truncated, analysis, rules, outcome>>

\* PRDiff, without the fetch: the merge base stays where it is.
ReadPR ==
  /\ step = "pr"
  /\ Take("pr", BranchDiff, "repo")
  /\ UNCHANGED <<developer, request, queue, truncated, analysis, rules, outcome>>

\* Fetching fails or there is no base.  Auto mode goes on.
NoPR ==
  /\ step = "pr" /\ AutoMode
  /\ GoTo("repo")
  /\ UNCHANGED <<developer, request, chosen, reading, analysis, rules, outcome>>

\* RepoSnapshot: the tracked Go files, the untracked ones, and then each of them.
ListTracked ==
  /\ step = "repo"
  /\ chosen' = "repo"
  /\ queue' = Listing(Tracked)
  /\ GoTo("others")
  /\ UNCHANGED <<developer, request, input, truncated, analysis, rules, outcome>>

\* The two lists are put together as they are.
MutAppendUnique(first, second) == first \o second

AppendUnique(first, second) == first \o SetToSeq(ToSet(second) \ ToSet(first))

ListOthers ==
  /\ step = "others"
  /\ queue' = AppendUnique(queue, Listing(Untracked))
  /\ GoTo("reading files")
  /\ UNCHANGED <<developer, request, chosen, input, truncated, analysis, rules, outcome>>

\* A review reads everything, a synthesis as much as fits.
Full == request.tool = "static" /\ Len(input) = MaxEntries

\* An entry is added to the snapshot, unless the file is gone, or the snapshot is full.
Show(version) ==
  \/ /\ version = 0
     /\ queue' = Tail(queue) /\ UNCHANGED <<input, truncated>>
  \/ /\ version # 0 /\ ~Full
     /\ input' = Append(input, Change(Head(queue), 0, version))
     /\ queue' = Tail(queue) /\ UNCHANGED truncated
  \/ /\ version # 0 /\ Full
     /\ queue' = << >> /\ truncated' = TRUE /\ UNCHANGED input

ReadFile ==
  /\ step = "reading files" /\ queue # << >>
  /\ Show(repo.tree[Head(queue)])
  /\ UNCHANGED <<developer, request, step, chosen, analysis, rules, outcome>>

\* FilesSnapshot: git show HEAD, else the index, else the working tree.
VersionOf(file) ==
  CASE repo.head[file] # 0                           -> repo.head[file]
    [] repo.head[file] = 0 /\ repo.index[file] # 0   -> repo.index[file]
    [] OTHER                                         -> repo.tree[file]

ReadSelected ==
  /\ step = "reading selected" /\ queue # << >>
  /\ Show(VersionOf(Head(queue)))
  /\ UNCHANGED <<developer, request, step, chosen, analysis, rules, outcome>>

SnapshotRead ==
  /\ step \in {"reading files", "reading selected"} /\ queue = << >>
  /\ GoTo("prepared")
  /\ UNCHANGED <<developer, request, chosen, reading, analysis, rules, outcome>>

\* Every command of git may fail, and reading a file.
ReadFails ==
  /\ \/ step \in {"staged", "worktree", "untracked", "repo", "others"}
     \/ step = "pr" /\ ~AutoMode
     \/ step \in {"reading untracked", "reading files"} /\ queue # << >>
  /\ Fail

----------------------------------------------------------------------------
(* analyzer.Run *)

\* staticAnalyzerConfig: a list of the request replaces that of the configuration.
Disabled == IF request.disabled # {} THEN request.disabled ELSE Config.disabled
Enabled  == IF request.checks # {} THEN request.checks ELSE Config.checks

Allowed(file)      == files = << >> \/ file \in ToSet(files)
MutSelected(check) == check \in Enabled
Selected(check)    == Enabled = {} \/ check \in Enabled

\* Every version of a file has something for each check to find.  The place of a
\* finding in the file stands for the version it was found in.
Finding(tool, check, file) ==
  [tool |-> tool, check |-> check, file |-> file, version |-> repo.tree[file]]

\* What is analysed at a time: a package, and by semgrep a file.
Parts(tool)    == IF tool = "semgrep" THEN {{f} : f \in Files} ELSE Packages
Analyses(tool) == {check \in Checks[tool] : Selected(check)} \X Parts(tool)

\* collectFindings: what the analyses have found, in files that are asked for.
FoundBy(tool, analyses) ==
  UNION {{Finding(tool, a[1], f) : f \in {g \in a[2] : repo.tree[g] # 0 /\ Allowed(g)}} : a \in analyses}

SourceOff == Sources[source] \in Disabled
NextSource ==
  /\ step = "analyzing" /\ source \in DOMAIN Sources
  /\ source' = source + 1
  /\ UNCHANGED <<developer, request, step, chosen, reading, files, rules, outcome>>

\* One source after the other; what one finds is added to what there is.  An analysis may
\* break, as that of a package does that has errors itself (Action.Err; in semgrep's answer,
\* its errors), with only some of its findings or none.  That is nobody's error.
RunSource ==
  /\ NextSource /\ ~SourceOff
  /\ LET tool == Sources[source]
     IN  \E broken \in SUBSET Analyses(tool) :
           /\ \E early \in SUBSET FoundBy(tool, broken) :
                findings' = findings \cup FoundBy(tool, Analyses(tool) \ broken) \cup early
           /\ silent' = silent \cup ({tool} \X broken)
  /\ UNCHANGED <<failed, missing>>

SkipSource == NextSource /\ SourceOff /\ UNCHANGED <<findings, failed, missing, silent>>

\* semgrep is not installed, or the repository has no configuration for it.
SourceMissing ==
  /\ NextSource /\ ~SourceOff
  /\ Sources[source] = "semgrep"
  /\ missing' = missing \cup {Sources[source]}
  /\ UNCHANGED <<findings, failed, silent>>

\* The findings of the others are kept.  An analyzer of Go packages does not load them if
\* none of its checks is selected.
SourceFails ==
  /\ NextSource /\ ~SourceOff
  /\ Sources[source] = "semgrep" \/ \E check \in Checks[Sources[source]] : Selected(check)
  /\ failed' = failed \cup {Sources[source]}
  /\ UNCHANGED <<findings, missing, silent>>

Analyzed == step = "analyzing" /\ source > Len(Sources)

ReportRaw ==
  /\ Analyzed /\ ~request.synthesize
  /\ End("findings")
  /\ UNCHANGED <<developer, request, chosen, reading, analysis, rules>>

\* staticSnapshot.
Synthesize ==
  /\ Analyzed /\ request.synthesize
  /\ IF files = << >>
       THEN GoTo("repo") /\ UNCHANGED <<chosen, queue>>
       ELSE GoTo("reading selected") /\ chosen' = "selected" /\ queue' = files
  /\ UNCHANGED <<developer, request, input, truncated, analysis, rules, outcome>>

----------------------------------------------------------------------------
(* Rules *)

\* ruleApplies; a glob stands for the files it matches.
RuleApplies(rule, among) ==
  rule.always \/ rule.globs = {} \/ \E glob \in rule.globs : glob \cap among # {}

\* A static review goes by the files of the request, though it may have none.
MutSelectedFiles == IF request.tool = "static" THEN ToSet(files) ELSE FilesShown

SelectedFiles == IF files # << >> THEN ToSet(files) ELSE FilesShown

\* An empty input is not reviewed.  A static review goes on with an empty snapshot.
NothingToReview ==
  /\ step = "prepared" /\ request.tool = "review" /\ input = << >>
  /\ End("skip")
  /\ UNCHANGED <<developer, request, chosen, reading, analysis, rules>>

FilterRules ==
  /\ step = "prepared" /\ (request.tool = "static" \/ input # << >>)
  /\ rules' = {rule \in Rules : RuleApplies(rule, SelectedFiles)}
  /\ End("review")
  /\ UNCHANGED <<developer, request, chosen, reading, analysis>>

----------------------------------------------------------------------------
(* The developer *)

\* One thing is done in the repository.
Move(changed) ==
  /\ step # "done" /\ moves < MaxMoves
  /\ changed # repo
  /\ repo' = changed
  /\ touched' = touched \cup {pf \in Places \X Files : repo[pf[1]][pf[2]] # changed[pf[1]][pf[2]]}
  /\ moves' = moves + 1
  /\ UNCHANGED <<request, step, chosen, reading, analysis, rules, outcome>>

Edit    == \E f \in Files, v \in Versions : Move([repo EXCEPT !.tree[f] = v])
Stage   == \E f \in Files : Move([repo EXCEPT !.index[f] = repo.tree[f]])
Unstage == \E f \in Files : Move([repo EXCEPT !.index[f] = repo.head[f]])
Commit  == Move([repo EXCEPT !.head = repo.index])

Call    == CallReview \/ CallStatic \/ CallFails
Prepare == \/ ReadStaged \/ ReadUnstaged \/ ListUntracked \/ ReadUntracked \/ UntrackedGone
           \/ WorktreeRead \/ ReadPR \/ NoPR \/ ListTracked \/ ListOthers \/ ReadFile
           \/ ReadSelected \/ SnapshotRead \/ ReadFails
Analyze == RunSource \/ SkipSource \/ SourceMissing \/ SourceFails \/ ReportRaw \/ Synthesize
Finish  == NothingToReview \/ FilterRules
Next    == Call \/ Prepare \/ Analyze \/ Finish \/ Edit \/ Stage \/ Unstage \/ Commit

Spec == Init /\ [][Next]_vars

----------------------------------------------------------------------------
(* Properties.  What the developer changes while the request is served may be seen       *)
(* before or after, or slip through between two commands; they speak of what is still.   *)

ChangeRecords == [file : Files, from : Versions, to : Versions]
AllChecks == UNION {Checks[tool] : tool \in ToSet(Sources)}
Findings  == [tool : ToSet(Sources), check : AllChecks, file : Files, version : Versions]

\* Types (prepareReviewInput, analyzer.Run): what is listed are files, what is read are changes,
\* and the sources come one after the other.
TypeOK ==
  /\ repo \in [Places -> [Files -> Versions]]
  /\ moves \in 0..MaxMoves /\ touched \subseteq Places \X Files
  /\ request \in Requests
  /\ step \in {"called", "staged", "worktree", "untracked", "reading untracked", "pr", "repo",
               "others", "reading files", "reading selected", "analyzing", "prepared", "done"}
  /\ chosen \in {"none", "staged", "worktree", "pr", "repo", "selected"}
  /\ queue \in Seq(Files) /\ files \in Seq(Files)
  /\ input \in Seq(ChangeRecords) /\ truncated \in BOOLEAN
  /\ source \in 1..(Len(Sources) + 1)
  /\ findings \subseteq Findings
  /\ failed \subseteq ToSet(Sources) /\ missing \subseteq ToSet(Sources)
  /\ silent \subseteq ToSet(Sources) \X (AllChecks \X SUBSET Files)
  /\ rules \subseteq Rules
  /\ outcome \in {"none", "error", "findings", "skip", "review"}

Still(f, places) == places \X {f} \cap touched = {}

Reviewed == request.tool = "review" /\ outcome \in {"review", "skip"}

Kinds == <<"staged", "worktree", "pr", "repo">>
Rank(kind) == CHOOSE n \in DOMAIN Kinds : Kinds[n] = kind

ChangeOf(kind, f) ==
  CASE kind = "staged"   -> Change(f, repo.head[f], repo.index[f])
    [] kind = "worktree" -> Change(f, repo.index[f], repo.tree[f])
    [] kind = "pr"       -> Change(f, repo.base[f], repo.head[f])
Compared(kind) ==
  CASE kind = "staged"               -> {"head", "index"}
    [] kind \in {"worktree", "repo"} -> {"index", "tree"}
    [] kind = "pr"                   -> {"base", "head"}
HasChange(kind, f) ==
  /\ ChangeOf(kind, f).from # ChangeOf(kind, f).to
  /\ kind = "worktree" => f \in Tracked \cup GoFiles

\* No change is passed over: a review of one kind of change shows each change of this kind
\* as it is and none that is not there, and auto mode (prepareAutoInput) turns to a later
\* kind, or to nothing at all, only if there is no change of the earlier kinds,
\* however long the commands in between take.
ChangesNotPassedOver ==
  Reviewed =>
    \A f \in Files :
      /\ \A kind \in {"staged", "worktree"} :
           Still(f, Compared(kind)) /\ HasChange(kind, f) /\ request.mode \in {kind, "auto"}
             => Rank(chosen) <= Rank(kind)
      /\ chosen # "repo" /\ Still(f, Compared(chosen)) =>
           {input[i] : i \in {j \in DOMAIN input : input[j].file = f}}
             = IF HasChange(chosen, f) THEN {ChangeOf(chosen, f)} ELSE {}

\* A snapshot of the repository (RepoSnapshot) that was not cut off holds every Go file
\* with its content, and no file is in it twice, although a file may go from one of the
\* two lists it is made of to the other between them.
SnapshotComplete ==
  chosen = "repo" /\ step = "done" /\ outcome # "error" =>
    /\ \A i, j \in DOMAIN input : i # j => input[i].file # input[j].file
    /\ ~truncated =>
         \A f \in GoFiles : Still(f, Compared("repo")) =>
           (repo.tree[f] # 0 <=> Change(f, 0, repo.tree[f]) \in ToSet(input))

\* Every rule that is meant for a file whose code the model is shown is in the prompt
\* (FilterRules, filteredRules, staticRules), for whichever of the ways in which the names of
\* the files come about.
RulesFitInput ==
  outcome = "review" =>
    \A rule \in Rules : RuleApplies(rule, FilesShown) => rule \in rules

\* What analyzers report (analyzer.Run): nothing from a source or check that is off, nothing
\* about another file when there is a list of files, and what a check has found in a package (for
\* semgrep, a file) in full, unless the source failed or is missing or this analysis broke.  Only
\* the first leaves a trace, so no findings does not mean that everything was looked at: a
\* package that does not type-check may have none (collectFindings), tests are not loaded.
FindingsMatchRequest ==
  request.tool = "static" /\ outcome \in {"findings", "review"} =>
    /\ \A x \in findings : /\ x.tool \notin Disabled \cup failed \cup missing
                           /\ Enabled # {} => x.check \in Enabled
                           /\ files # << >> => x.file \in ToSet(files)
    /\ \A tool \in ToSet(Sources) \ (Disabled \cup failed \cup missing) :
         \A part \in Parts(tool), check \in Checks[tool] :
           <<tool, <<check, part>>>> \notin silent =>
             \A f \in part :
               /\ Still(f, {"tree"}) /\ repo.tree[f] # 0
               /\ Enabled = {} \/ check \in Enabled
               /\ files = << >> \/ f \in ToSet(files)
               => Finding(tool, check, f) \in findings

=============================================================================
