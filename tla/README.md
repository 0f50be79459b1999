# lm-review in TLA+

lm-review reviews Go changes and repositories with a language model. A command-line tool, two git
hooks and an MCP server talk over a Unix socket to one background daemon; the daemon prepares the
input, cuts it into chunks, asks an OpenAI-compatible backend (or the `claude` command) about each,
merges the answers, writes an audit log and answers with a verdict. A second gRPC service,
`inference`, runs under systemd or launchd and answers structured-output requests.

This directory models the parts of the program whose correctness depends on order, concurrency or
failure. TLC checks them on small instances, TLAPS proves every safety invariant of the runs, and the
refinement of the abstract specification, for every instance.

    tlc -config MCChunkedReview.cfg MCChunkedReview     # model-check one run
    tlapm ChunkedReviewProofs.tla                       # check the proofs of one module

## 1. Inventory

| Part | Code | State | Operations | Depends on |
|---|---|---|---|---|
| Review engine | `internal/review/chunked.go`, `reviewer.go` | per review: chunks, shared slice of results, errgroup | `ChunkedReview`, `reviewChunk`, `ReviewInput`, `ReviewStatic` | chat client |
| Results, verification | `internal/review/result.go`, `verify.go` | none | `Parse`, `recalcStats`, `inferVerdict`, merge, `VerifyIssues` | chat client |
| Daemon requests | `internal/daemon/server.go` | configuration, audit logger; one goroutine per RPC | `Review`, `ReviewStatic` | git, analyzers, engine, backend, log |
| Daemon discovery | `internal/daemon/client.go`, `Run` of `server.go` | the file at the socket path, processes | `Connect`, `startDaemon`, `waitForSocket`, `dialDaemon`, `Run` | operating system |
| Audit log | `internal/audit/audit.go` | an append-only file, a mutex | `New`, `Write`, `Close` | |
| Chat clients | `internal/lmstudio`, `internal/claude` | none that outlives a call | `Chat`, `ChatReview`, `ChatSchemaDetailed`, `PreflightLoad`, repetition detection | backend |
| Command line, hooks | `cmd/lm-review`, `.githooks/pre-commit`, `post-commit` | exit code; git's index and history | `diff`, `pr`, `repo`, `review`, `daemon`, `inference` | daemon client, pull request comment |
| MCP server | `internal/mcpserver` | none | tools `review` and `review_static` | daemon client, git |
| Pull request comment | `internal/github/comment.go` | comments on GitHub | find, update or create | `gh` |
| Inference service | `internal/inference` | backends by model; health status | `Infer`, `Serve`, graceful stop | backend |
| Service check, deployment | `internal/inferenceservicecheck`, `scripts`, `Makefile` | the TCP listener, the supervisor's PID | preflight, restart, post-restart | operating system |
| Configuration | `internal/config` | none after loading | `Load`, `ResolveModel`, `ResolveBackends`, credentials | files |
| Static analyzers | `internal/analyzer` | none | `Run`, one source after the other | `go vet`, `staticcheck`, `semgrep` |
| Git access, prompts, helpers | `internal/gitutil`, `review/prompt.go`, `requestmeta`, `xdg`, `tokenutil`, `clock` | none | | `git` |
| Self-update, init, version | `cmd/lm-review/update.go`, `init.go`, `internal/updateopts`, `version` | files | | library |
| Generated code | `api` | | | |

How they interact: the command line, the hook and the MCP server call `Connect`, which may start a
daemon process, and then one RPC. Handlers of RPCs run concurrently and share the configuration
(read only), the audit logger and the backend. Inside a handler, `ChunkedReview` starts goroutines
that share a slice and a context.

What is hard about it:

- goroutines that append to one slice, share one cancellation and compete for slots;
- answers that come in any order and must give a report that does not depend on it;
- failures of some calls and not others, and answers that are unreadable or flagged;
- daemons and clients that remove each other's socket files without a lock;
- daemons that die and leave their socket file behind;
- early returns that bypass the audit log, lines of it that can't be written, and a verification that
  changes a finished result;
- answers of models: thoughts, fences, prose with braces, loops, and texts that stop in the middle;
- a repository that is read command by command while somebody edits, stages and commits in it;
- a deployment that inspects processes and sockets while they come and go;
- reviews of one pull request that look for a comment and then write it, each at its own pace.

What makes each part correct:

- *Engine*: every readable answer counts once; a block is never lost; the report is a function of
  the answers and not of the schedule; the backend gets no more chunks at a time than allowed; the
  error of a failed review is its cause; every review ends.
- *Results*: what a model wrote is what is read, whatever surrounds it; statistics agree with issues;
  verification never silences a review.
- *Daemon requests*: no change is passed over and every file is shown; the rules fit what is shown;
  answer and audit log agree; ultra reviews are verified before they are reported; every request ends, as far
  as what it waits for does.
- *Static analyzers, MCP server*: findings are about what was asked for, all of it as far as it could be
  analysed, and one failing analyzer takes nothing from the others.
- *Discovery*: Connect ends; it fails only for a reason; a removed socket gets a successor.
- *Deployment*: success is reported only if the supervised process owned the listener and the
  service answered; a deployment ends.
- *Inference*: every answer matches the caller's schema; a model goes to its own backend; a stop
  drains the calls under way.
- *Comment, hooks*: one comment per scope, with the last answer; nobody else's comment is touched; what
  the hooks say about a commit is about that commit.

## 2. Modules

| Module | What it is |
|---|---|
| `ReviewResult` | pure operators: answers, results, merging, verification |
| `ReviewPromise` | abstract specification of one review: answers in any order, then one outcome |
| `ChunkedReview` | the engine: goroutines, errgroup, mutex, context; refines `ReviewPromise` |
| `ChunkedReviewProofs` | proofs about `ChunkedReview` |
| `InputSplit` | the chunk plan and the splitting of input into chunks |
| `InputSplitProofs` | proofs about `InputSplit` |
| `DaemonConnect` | clients and daemons around the socket path |
| `AnswerReading` | from the text of a model to a result: repetition detector, stripping, scan for JSON |
| `AnswerReadingProofs` | proofs about `AnswerReading` |
| `ReviewSources` | from a tool call to the input, the findings and the rules of a review, in a repository that changes |
| `ReviewSourcesProofs` | proofs about `ReviewSources` |
| `ReviewDaemon` | the two RPC handlers, the backend calls they make and the audit log |
| `DaemonProofs` | proofs about `ReviewDaemon` and `DaemonConnect` |
| `InferenceService` | the inference service from its configuration to its end, and its calls |
| `InferenceServiceProofs` | proofs about `InferenceService` |
| `ServiceHandoff` | a deployment of the inference service against supervisor and other listeners |
| `ServiceHandoffProofs` | proofs about `ServiceHandoff` |
| `CommitHooks` | the review commands, the hooks around a commit and the comments of the pull request |
| `CommitHooksProofs` | proofs about `CommitHooks` |
| `MC...` | instances of these for TLC, with their `.cfg` files |

### ReviewResult

An issue keeps its severity, its place (file and line, as one number in their sort order) and its
rule: what the code tells issues apart by. Messages, categories, suggestions, highlights, tech debt
and summaries are carried along and decide nothing. An answer of the model is a verdict, possibly
empty, and a list of issues; `Parse` infers an empty verdict and always recounts the statistics.
`MergeResults` is the merge of `ChunkedReview`, step by step in the code's order: concatenate,
weigh verdicts, deduplicate, sort, recount. `KeepConfirmed` is what `VerifyIssues` makes of a
readable verifier answer, indices out of range included.

A loop that leaves some positions of a list is the set of the one list it leaves, in which the
positions keep their order (`InOrder`, `Selections`); so is `deduplicateIssues`, which leaves the first
position with each key (`FirstWithKey`). Go's `sort.Slice` is not stable. The results are sorted by distinct
indices, so there is one order. Issues that compare equal differ in their rule alone; `SortIssues` is the
set of all lists the sort may return, `MergeResults` the set of all results, and `ReviewPromise` allows
all of them. That such a set is never empty is a theorem (`MergePossible`). No recursion stands in
the way of a proof.

### ChunkedReview

`stage` is where each chunk's goroutine is: waiting, started, calling, replied, returned, released.
The two last are apart because errgroup gives a slot back after the function has returned, and
`g.Wait` returns after that. `reply` is what its call gave: readable text (perhaps beside the error
of the repetition detector), text that can't be read, an error, or the error of a cancelled
context. `results` is the shared slice, as chunk indices in the order of the appends. `groupErr` is
the chunk whose error errgroup kept. `Launch` is one turn of the loop: it waits for a slot and does
not look at the context, so the chunks after a failed one are launched as well and their calls end
at once. `Return` is the rest of the function after the call, `Finish` is `g.Wait` and the merge,
`ReviewInput` the stricter path of a review in one piece. `ClientLeaves` cancels the caller's
context at any time.

Abstracted: `splitIntoChunks`, which `InputSplit` models, gives any number of chunks from 1 to
`MaxChunks`.

`ReviewPromise` has no goroutines: chunks are answered one at a time in any order and then the
review concludes. Its merged result is described by what it must satisfy (the first report of each
place, each once, errors first, the heaviest verdict, the right statistics) and not by how the code
computes it. `ChunkedReview` refines it with its own `total`, `reply` and `outcome`; launching,
calling, returning and releasing are stutters.

### InputSplit

The bytes of the input are offsets: a piece `<<from, to>>` is the input between two of them, and of
the content only the offsets of the file markers matter. `maxBytes` is what `buildReviewChunkPlan`
chooses from the configuration and the length of the prompt without input. `splitIntoChunks` is one
action per turn of its loop: `Whole` (input that fits), `TakePart` (a file joins the chunk or begins
the next), `TakeTooLarge` and then `HardSplit` (a file that no chunk can hold, cut into pieces of
the limit), `Finish`. Markers may be anywhere, the start included; what precedes the first file
belongs to its part.

The code's limits (256 tokens of reserve, 256 tokens and 1024 bytes at the least, 4 bytes a token)
are constants: TLC takes small ones, the proofs any that satisfy `InputSplitAssumption`, which asks
that the least chunk fits the least budget, as 1024 bytes do 256 tokens. The least size of a chunk
is positive, so `splitIntoChunks`'s case of a limit that is not positive can't occur.
`RequestFitsContext` excludes contexts without room for the least chunk: there the code asks
nevertheless, and the request is too long. The few digits by which the chunk numbers in the prompt can
exceed the estimate come out of the reserve.

### DaemonConnect

The module's initial predicate, next-state relation and specification are `ConnectInit`, `ConnectNext` and
`ConnectSpec`, so that one module can hold the proofs about both sides of the daemon.

`path` is the daemon that bound the file at the socket path, or `NoFile`; a file whose daemon is
dead stays. `daemon` follows `Run`: `RemoveSocket` (whatever is there), `Load` (configuration and
audit log, which may fail), `Bind` (fails when a file is there again), `Listen`, then it serves.
`client` follows `Connect`: `StatSocket`, starting a daemon, `SeeSocket` or `WaitTimeout` of
`waitForSocket`, `DialReady` or `DialTimeout` of `dialDaemon`, and once `RestartDaemon`, which
removes the file and starts another daemon. Removal and bind are steps of their own since nothing
in the code locks them together.

`Fault` is a failure of the environment: a daemon dies, its configuration can't be read, a process
can't be started, a file can't be removed. `disturbed` remembers which clients were connecting
when one happened. A host is either *prompt* or not. On a prompt host a daemon that is starting
gets ready before a client's timeout fires (the timeouts are 5 s for the file and 2 s for the dial,
a daemon starts in milliseconds); on the others timeouts may fire at any moment. Both are
checked; the property about failures speaks of prompt hosts. A daemon that fails before it removes
the old socket is one that dies in `starting`.

### AnswerReading

A text is a sequence of tokens: braces, brackets, quotes, backslashes, the tags of a thought, lines
that are fences, and words. A member of an object that holds no free text, such as a verdict, is one
word; a message is between two quotes and may hold any token. `sent` is what the model wrote: a lead,
a review in one of three forms (the object, the object without its opening brace, the bare list of
issues) that may stop anywhere, and a tail. `text` is what `Parse` has made of it.

`DetectRepetition` is the test of the client, which hands the text on in either case. `StripThought` is
one match of `reThinkBlock`, which is not greedy and takes any closing tag for any opening one, as the
code's does. `StripFences`, `DecodeWhole`, then `extractFirstJSONObject`: `TryBrace` is a turn of its outer
loop, the `Scan` actions the branches of its inner one in their order, `Unbalanced` the end of the text,
`DecodeMatch` the second decoding, `Retry` and `GiveUp` the rest of `extractReviewJSON`.

`Unmarshal` is `encoding/json` for the texts that can occur: a whole review decodes to itself, and an
object without a member of a review, such as an issue or `{}`, to a result with nothing in it; nothing
else is valid. A message may hold anything that can stand in a JSON string (`Escaped`: its quotes are
escaped, and its last token escapes nothing). `FirstObjectRead` compares the scan with a definition of its own:
what a JSON lexer that begins at a brace takes each position for (`Lexed`, a recursive function on the positions,
one token at a time by `ModeAfter`), and the positions at which braces in plain text balance. The detector's
window of 80 bytes and its threshold of 4 are constants.

### ReviewSources

A file has a version in each of four places: the merge base, HEAD, the index and the working tree, 0
where it does not exist. `developer` actions change one of them at a time, at any moment until the
request ends: `Edit` (which may create or delete), `Stage`, `Unstage`, `Commit`. Each action of the request is
one command of git or one file read, or an analyzer.

`step` leads through `callStaticReview` or the tool `review`, `prepareReviewInput` with its modes, `analyzer.Run`
and the rule filter. `StagedDiff`, `UnstagedDiff` and `BranchDiff` are what git says at that moment. A
worktree diff is git's, then a list of untracked Go files, then each of them; a snapshot is two lists, put
together by `AppendUnique`, and then each file. A snapshot of selected files takes HEAD before the index
before the working tree (`VersionOf`). `truncated` marks a snapshot that did not fit (`MaxEntries`).

An analyzer finds something for each of its checks in every version of every file it looks at, so that a finding
that is missing or out of place shows; the version in a finding stands for its lines. A check is an
`analysis.Analyzer`, or a rule of semgrep; that a finding may go by a category's name instead (`checkName`) is
left out. Go code is analysed package by package (`Packages`, what `./...` loads, without tests), by semgrep
file by file (`Parts`). `RunSource` lets any of a source's analyses break, as `checker.Analyze` says of a
package with errors of its own in `Action.Err`: it contributes some of its findings or none, `collectFindings`
does not look at the error, and the source counts as one that has worked. `silent` remembers these analyses for
the property and is nothing the program knows. A glob of a rule is the set of the files it matches. The command
line's requests are those of the tool `review`.

Left out: the fetch before the diff of a pull request (the merge base does not move), renames, ignored
files, a path with `..` in a list of files, and files that are not Go in an RPC's list of files, which the MCP
server never sends.

### ReviewDaemon

One handler per RPC, each step between two backend calls or writes an action: `PrepareInput`,
`Configure`, `Estimated` and `Preloaded` (preflight), `Swept` (the review itself, one step),
`Verified`, `LogReview`, `Answer`; `Analyzed`, `Snapshot` and `Synthesized` for static reviews.
`ReturnEarly` is every early return: it answers and writes nothing to the log. `swept` and
`confirmed` record what went into the verification. `audit` is the log in the order of the writes;
its entries carry the request they came from, which the file does not. A line that can't be written is
dropped without an error (`lost`). An error says whether it came before the review or from it, as its
text does; only the second kind has an entry. `Crash` kills the daemon: its
handlers are lost, the log stays, and later RPCs reach the daemon a client starts next. The log of a
`MergeProjectRules` failure has no model or verdict (`RulesEntry`).

What a handler waits for may have no end. `AtGit` holds where it runs git, which nobody can stop;
`UntilClientLeaves` where it asks the load API, runs `claude` (`config.claude`) or analyzers, which end with the
RPC's context if not by themselves; a chat call to the OpenAI-compatible server has a time limit. `leaves` says of
an RPC that its client goes away rather than wait for ever; when it does makes no difference to what a handler
may do, since a call that ends with its context ends in one of the ways the step has anyway. `MayHang` puts
this together, and `Fairness` asks nothing of a handler where it holds.

Abstracted: which input a mode selects and the rule filters, which are in `ReviewSources`, the chunk plan
(`InputSplit`), the sweep (`ChunkedReview`), prompts. Git, the analyzers and the backend may fail at every call.

### ServiceHandoff

`step` follows `deploy-inference` of the Makefile and, inside it, the script and `Check`: install;
preflight (`ReadPid`, `ProbeBind`, `CloseProbe` or `ReadTable` and `CompareOwners`); service-install
(`Register`); service-restart (`StopService`, `StartService`); then attempts of the post-restart check
(`ReadPid`, `ReadTable`, `CompareOwners`, `CheckHealth`). `CheckFails` is what a failing check means: the
end in preflight, another attempt after the restart. Each reads the world at its own moment: the
supervisor's PID, the table of listeners, the owners of their sockets and the health answer are
four steps. That `/proc` is scanned process by process is one step, `CompareOwners`: only the
process that has the table's socket open matters, a socket has one owner, and every other
outcome (none, another, no permission) is an error.

The supervisor starts the service when it ends (`Restart=always`, `KeepAlive`) and gives up after
`MaxStarts` (systemd's start limit). An instance that can't bind exits. `Others` bind and leave the port
at any time; `Wildcards` listen on all its addresses, block a bind and are not in the table under the
configured one; `Inferences` answer health checks with SERVING, such as an `lm-review inference` started
by hand. service-install and service-restart come from the shared Makefile, which is not in this
repository: they are modelled by what the supervisors do. A PID is not reused.

`disturbed` says that something went wrong: somebody else listened, an instance crashed, a check timed
out. On a *prompt* host the probe is shorter than the supervisor's delay (a second) and a service that
is not kept from it has started before the script's last attempt (five seconds). `foreign` is the
process that has listened since before the deployment, as long as it does.

### InferenceService

`config` is the configuration file, `server` what `newInferenceCmd` made of it, `phase` where the
process is, `calls` the RPCs. `Start` is everything up to `Serve`: `Load` with its default URL and the
old name of the global section, `ResolveBackends` or `ResolveBackendCredential`, and the server with
its map. Token files are read here and never again; which of them can be read is free. `Listen`,
`Serve`, `Cancel`, `GracefulStop`, `ServeReturns` and `ServeFails` are `ServeListener` and its goroutine.

A call is `Infer` up to the request to the backend, with every early return; then `Answer` (a usable
answer, validated, normalised and validated again in the same step, as the code does without
waiting), or a failure (`RequestFails`, `RequestTimesOut`, `AnswerUnusable`) followed by `ReportError`.
The last two are apart since `newChatRequestError` looks at the context when the error is made and
`modelStatusError` looks again when it is reported, and `ContextEnds` may come between.

What the data keeps. A token is known by where it was written, so that "which token went where" can
be asked; a token file stands for its content. The name of a model keeps whether white space
surrounds it, as names in requests are trimmed and names of backends are not: a backend's padded name
can never be asked for. That is what the code does; no document says otherwise. An output is a text, bare or as the value of
the only property of an object; a schema is the enum that `normalizeBareEnumObjectOutput` reads from
it (empty if the schema has another form) and the set of outputs the validator accepts, which may be
less than the enum, as other keywords can narrow it. The five checks of a request are one `flaw`,
since all of them give `InvalidArgument`. The retries of the client library count as one request.

A health watch is a stream that only its client closes, and `GracefulStop` waits for it. `StopEnds`
therefore speaks of watchers that go away. In production nobody cancels the context of
`ServeListener` (`root.Execute` has none that ends); the code offers it and its tests use it.

### CommitHooks

Every run of `lm-review` is a process of its own, and nothing but GitHub and the repository connects
them. `process` follows `runReview`: `Unavailable` (the daemon can't be reached, which is not an error),
`Read` and `Fail` or `Reviewed` (the RPC), `Find`, then `Update` or `Create` (`UpsertComment`, each call of
`gh` a step), or `NotPosted` at any of them, since an error there is dropped. `Read` is the moment at which
the daemon reads the index: until then it may change. It reads it once, so an answer is about one
input; without input it is `NoChanges`.

`PreCommit` starts a process that git waits for, with the index kept as it is; `Commit` and `Refuse` are what the
hook makes of its exit code and output. `Commit` also runs post-commit, whose process nobody waits for. `Invoke`
is a command by hand, or the background process of `repo --async`. `git commit -a` and
`--no-verify` are left out. Without the command in the path both hooks do nothing, which is a
commit without a review.

Of an answer there is its verdict, whether the text holds the word BLOCK for which the hook
searches (for a verdict other than block, that is the summary or a message), and the scopes whose markers it
quotes, as a review of this repository may. A comment has its author, the markers in it and, only for the
properties, the scope it was created for (`first`). `Marked` is what a request without a page parameter
lists: the oldest comments, up to `PageSize` (30 on GitHub). Nobody deletes comments.

`disturbed` remembers, for each scope, what the code cannot cope with: an answer that arrives while
another review of the scope is posting (`together`), a comment that was created beyond the first page
(`page`), a text with a quoted marker (`quote`). The properties say what holds otherwise. `CommentKept`
needs only that nobody quotes: reviews that post together make too many comments but take none from
another scope or a person.

## 3. Runs

| Run | Module, cfg | Bounds | What it shows |
|---|---|---|---|
| `chunked_review` | `MCChunkedReview` | 3 chunks, parallelism 0 or 2, 3 readable answers | bounded load, answers kept, root cause, block kept, refinement of `ReviewPromise`, termination |
| `input_split` | `MCInputSplit` | 7 bytes, 3 configurations, prompts of 0 to 2 tokens, any markers | nothing lost, chunks within the limit, requests within the context, files kept whole, no chunk cut short |
| `daemon_connect` | `MCDaemonConnect` | 2 clients, 1 daemon by hand, 1 old daemon, 2 faults | failures have a cause, Connect ends, removed sockets get a successor |
| `daemon_orphan` | `MCDaemonOrphan.cfg` | 2 clients, no faults, prompt host | two daemons serve (finding 2) |
| `service_handoff` | `MCServiceHandoff` | 4 starts, 2 attempts and the last one, 2 other processes, 1 fault | what success means, old listeners block, failures have a cause, deployment ends, service comes up |
| `inference_service` | `MCInferenceService` | 2 calls, 3 requests, 8 files, 1 token file, 2 models, 2 texts | where credentials and requests go, replies conform, statuses are explained, a stop cuts nothing off, calls and stop end |
| `review_daemon` | `MCReviewDaemon` | 2 RPCs of 4 kinds, 2 of whose clients leave, 2 configurations, 1 crash, 1 line lost | answers agree with the log, verification fails open, ultra is verified, every request ends that does not wait for git or, with its client, for what has no time limit |
| `commit_hooks` | `MCCommitHooks` | 3 processes, 2 changes, 2 scopes, an answer that blocks and one that quotes, 2 comments a page, 1 comment by others | one comment per scope, no comment of another overwritten, the comment shows the last answer |
| `block_stops_commit` | `MCBlockStopsCommit.cfg` | the same | a commit after a block (finding 3) |
| `answer_reading` | `MCAnswerReading` | 4 reviews in 3 forms, cut anywhere, 8 leads, 7 tails, window 2, threshold 3 | a complete review is read, the scan takes the first object and all of it, loops are flagged |
| `truncated_answer` | `MCTruncatedAnswer.cfg` | the same without leads and tails | a finding is read as a pass (finding 1) |
| `review_sources` | `MCReviewSources` | 2 Go files, each a package, and another, 3 versions, 5 repositories, 11 requests, 2 analyzers, 5 rules, 3 moves of the developer | no change passed over, snapshots complete, rules fit, findings match the request but for analyses that broke |

Why the bounds are enough to be interesting. Three chunks with two slots is the least where one call fails, one
is cancelled and one is launched late. The three answers give a block with an error, a milder report of the same
place, and an empty verdict with issues out of order, so that merging in another order, deduplicating or
weighing wrongly shows. Parallelism 0 is the case the code corrects. Seven bytes with limits of 2 to 5 give
inputs that fit, files that are cut into three pieces, files that share a chunk and files that just do not,
under each of the three terms that can decide the limit. Two clients and a daemon started by hand are three
processes that can remove and bind the path in any order, with a dead or serving file from before. For the
deployment, the other processes are one that answers health checks and one that is invisible to the table; four
starts are one more than an undisturbed deployment can cause, so that crashes and the supervisor's limit occur
too; two attempts are the first one and one that is followed by the last. Of the inference service there is a
file for each way a URL, a token and a model come about or are refused, two outputs of which each is right for
one schema and wrong for the other, and two calls, so that one may be answered or cut off while the other is
under way. Two RPCs meet at every pair of steps; the request with a model of its own is the ultra one, where the
model changes on the way. Three reviews are two of one scope with one of another between them, or a pre-commit
review, its post-commit review and one by hand; two comments a page and a third by somebody else put a scope's
comment on the first page, at its end or beyond. The reviews a model means find nothing, one thing, one thing in
awkward words, and two things; the leads and tails hold each token the code looks for, balanced and not, and a
loop of three tokens, which is longer than the window. A repository may have nothing to review, or changes in
one or several of the places, new and deleted files among them; three moves let a file be created, staged and
edited while the daemon is between two commands. Two packages let one of them break and the other not. Of the
RPCs, an ordinary and an ultra review may hang at every call, the one with a client that stays and the other
with one that leaves. A line of the log that is lost may be any of a request's three.

Fairness. Goroutines and processes are scheduled (weak fairness of each one's steps together, not of
each branch: which answer comes is free). Chat calls to the OpenAI-compatible server end because
`requestOptions` gives them a timeout. Nothing else a review waits for has one: `PreflightLoad` uses Go's default
HTTP client and `claude.Chat` a command, both with the RPC's context, to which clients give no deadline, and
git is run without any context. So a handler of `ReviewDaemon` is fair only where `MayHang` does not hold, and
`EveryRequestEnds` names the two exceptions: git, and one of the others while its client stays. In
`ChunkedReview`, which has no such distinction, `Concludes` is about the OpenAI-compatible client.
A process that was killed is taken to leave no child behind that holds its output open.
`waitForSocket` and `dialDaemon` have deadlines, and so has every check of a deployment. A backend need not
answer an inference call: `RequestTimesOut` is fair because of `WithRequestTimeout`.
The supervisor restarts the service. Nobody has to hang up, die, or start a daemon by
hand. Deadlock checking is off because every model comes to a proper end.

Each property of a passing run has a mutant: a definition with a plausible mistake in it (names
that begin with `Mut`, each placed before the definition it stands in for) under which TLC finds
the property violated. `PROJECT.json` lists them, with the source lines of every definition.

## 4. Findings

1. `result.go:587`: the outer brace of an answer that was cut off at the limit of response tokens never
   balances, and a bare list of issues has none; `extractFirstJSONObject` then returns the first complete
   issue. That decodes to a result without verdict and issues, `inferVerdict` makes it a pass, and what the
   model found is gone. `result.go:17` says that a pass means no actionable issues were found. The finish
   reason, which would tell, is not read there.
2. `client.go:39`: two clients that find no socket both start a daemon. The second daemon removes the
   socket the first has bound; both serve from then on, the first unreachable for new clients and
   never stopped. The package comment calls the daemon the single point of contact.
3. `.githooks/pre-commit:11`: for a block the command exits with 1 (`main.go:407`), and the hook lets every
   commit pass whose review exits with an error. Line 3 says that it blocks the commit for a block. What it
   does refuse are commits whose review does not block and mentions the word BLOCK.

Also noticed, without a run of its own:

- `chunked.go:102`: deduplication keeps the first of two reports with the same file, line and rule, whatever
  their severities, after the verdicts were weighed. A merged review can say "block" with no error among its
  issues; `result.go:22` says a block means at least one. `Promise` describes the result as it is.
- `check.go:121`: health is asked of the address after the owner of the address was checked. If the service
  dies in between and another inference service takes its place, that one answers, and
  `scripts/inference-service-check.sh:58` reports the dead PID as healthy.
- `.githooks/post-commit:5`: the review after a commit is of the staged diff, which the commit has emptied; the
  answer "No changes to review." replaces the comment with the review from before the commit. If the next
  change is staged by then, it is that one which is reviewed.
- `README.md:16` and `server.go:2` say that the daemon serializes backend calls, while handlers run concurrently
  (in `ReviewDaemon`, two of them may be `sweeping` at once); `README.md:141` says that every review is logged,
  while errors of preparation, preflight and snapshot return before the log is written (`ReturnEarly`).
- `gitutil.go:47`: a pull request's diff begins with `git fetch --all --prune`, which has neither a timeout nor the
  RPC's context. A remote that does not answer holds the request and its goroutine for good, although the client has gone.
  `lmd_preflight.go:51` and `claude/client.go:37` wait until the client goes away.
- `driver.go:85`: errors of the analysis of a package (`Action.Err`), which are how `checker.Analyze` reports
  packages that do not type-check, are dropped, and so are the errors in semgrep's answer (`semgrep.go:69`): the review
  does not say that it has not looked at these files. Tests are not loaded (`driver.go:61`).
- `server.go:387`: an ultra review for a model of the client's choice is verified by the configured model, and
  then logged and answered under its name.
- `mcpserver/server.go:275`: a static review of a diff without Go files sends an empty list of files, which is a
  review of the whole repository. `FindingsMatchRequest` speaks of the list as the daemon reads it.
- `gitutil.go:161`: the code that is shown beside the findings of a diff is that of HEAD, while the analyzers ran
  on the working tree and the files were chosen from the index.
- `gitutil.go:110`: an untracked file that is staged between the two listings of a snapshot is in neither, and a
  change that is staged between two looks of auto mode is seen by neither; the properties speak of files that
  stay as they are.

## 5. Proofs

`ChunkedReviewProofs` proves for every number of chunks, parallelism and set of answers:

- `TypeCorrect`: `TypeOK` is inductive.
- `BackendLoad`: `BackendLoadBounded` is not inductive, since `Launch` and `CallBackend` are apart.
  The invariant is `SlotsBounded`: the goroutines that hold a slot are at most `limit`. Only `Launch`
  adds one, and it waits for room.
- `AnswersCollected`: `NoAnswerLostOrCountedTwice` with `LaunchedInOrder` (chunks not yet launched
  have not returned); only `Return` changes either side of the equation, by one chunk that is new.
- `RootCause`: by the invariant `Blame`: while the caller is there, a cancelled reply implies that
  the group already has an error, and the chunk it names was not cancelled. This holds because the context is
  done only after the first error was kept, and the first is never replaced.
- `BlockKept`: by `AllDone` (a review that ended asks for nothing more), the chain that every released
  readable chunk is in the slice, that sorting by chunk drops none (`InOrderMeetsAll`, `SortKeepsAll`: an
  increasing enumeration of n elements by n positions meets each), and that `WorstVerdict` of a list
  that contains a block is a block.
- `KeepsPromise`: the refinement `Spec => Promise`. A `Return` of a chunk's call answers the chunk in the promise
  (`AnswerIsAnswered`, by the invariant `Answering`), `Finish` and `ReviewInput` conclude it, everything else is a
  stutter. What makes this long is that the merge computes what the promise describes: `FlattenSeq` holds every
  issue of every list once, in the order of the lists (`FlattenLists`); what is kept of it and sorted are
  the first reports of each place, each once (`KeptAndSorted`, `FirstReportsKept`); and the verdict is the
  heaviest (`WorstVerdictIsHeaviest`).
- `MergePossible`: whatever the answers, the set of results of the merge is not empty. A set of positions has an
  enumeration in order (`InOrderExists`, by rank), and a list can be arranged so that each issue may stand before
  the next (`SortExists`, by inserting one issue after the other) although `MayPrecede` is not transitive where
  severities are unknown to `sevOrd`. So `KeepsPromise` and `BlockKept` speak of every review that ends.

`InputSplitProofs` proves for every input, marker, configuration and prompt:

- `TypeCorrect`: offsets stay within the part and the input; the least element of a set of
  numbers (`PartEnd`) exists by well-foundedness.
- `EveryChunkFits`: `ChunksFit` is not inductive, since the chunk that is being filled becomes a chunk
  later. `FitInv` adds that it is within the limit and ends where the input is dealt with up to.
- `EveryRequestFits`: from `FitInv`, the rounding up of the token estimate (`EstimateWithin`) and the
  choice of the limit (`ChunkBytesWithin`).
- `InputComplete`: `NothingLost` by `CoverInv`: the finished chunks reach to where the one being
  filled begins, which is empty while a file is cut up and after the end.
- `EveryFileWhole`: `FilesStayWhole` by `WholeInv`: whatever cuts a chunk off lies at the end of a part, or in one
  that is larger than the limit.
- `NoChunkNeedless`: `NoNeedlessChunk` by `NeedInv`: where a chunk was closed in front of a part, that part would not
  have fitted, and until it is taken it is the next.

`InferenceServiceProofs` proves for every configuration file, request, schema, output and number of calls:

- `TypeCorrect`, `RepliesConform`, `StatusesExplained` and `StopsGracefully` by `IInv`: the server is
  what the file resolves to, a call's model and target are what that server gives its request, a
  failing call's cause was there (`Caused`), and nothing is under way at the end. `RepliesConform` needs
  that an output is either bare or wrapped, so that normalising changes each at most once.
- `CredentialsStayHome` from `IInv` and the forms of `SingleBackend` and `Routes`.
- `ModelsReachTheirBackends` from `IInv` and `ServerOf`: where every name occurs once, the map of the
  server holds for each name the backend that lists it.

`DaemonProofs` proves about `ReviewDaemon`, for any number of RPCs, of any kind, configurations, answers, crashes
and lost lines:

- `TypeCorrect`. That a result keeps its type through the verification needs that the loop over the indices
  leaves a sequence (`OrderIsComplete`, `SelectionIsExact`: an increasing enumeration of a finite set
  meets each of its elements).
- `FailsOpen`: `VerificationFailsOpen` by `AllFiltered`: from the verification on, the result is what the
  verifier left of the issues that went in, and the answer is made of it.
- `AuditTrail`: `AnswersAreAudited` by `InProgress` (what a request has by its phase: no answer before the end,
  a final line only from "answering" on) and `AllAudited`: the line of a request in "answering" says what
  its result and model are, which do not change any more, and lines are never changed (`TrailKept`).
- `UltraVerified`: `UltraIsVerified` by `AllVerify`: an ultra review with issues gets to "logging" only through
  the verification, whose line, or its loss, is there by then.
- `VerificationPossible`: a verification under way can leave something, whatever the verifier answers, so
  `FailsOpen` speaks of every answer of the verifier.
- `AnswersAreFinal`, an action property: no handler goes on after it has answered, and neither another one nor a
  crash changes an answer that was given or what the log says of its review (`OthersKeep`, `TrailKept`).

and about `DaemonConnect`, for any number of clients, daemons and faults:

- `ConnectTypeCorrect`, with the fact that the file at the path was bound by a daemon that got that far.
- `FailuresExplained`: `FailureExplained` by the invariant `Hope`. An undisturbed client that is past
  its start always has something to hope for: either the path is held by a daemon that is bound or
  serving, or a daemon is coming that will take it. Removing a socket is done by a daemon that is
  itself coming; a bind fails only when somebody else holds the path; so hope is never lost
  without a fault, and on a prompt host a timeout fires only when there is none.

`AnswerReadingProofs` proves for any reviews, with any messages, any text around them, wherever the model
stops, and any window and threshold of the repetition detector:

- `TypeCorrect`, by `TextInv`: what is stripped is still text; and only the review that was meant, one with nothing
  in it, or an error is ever returned.
- `LoopsAreFlagged`: `LoopFlagged` by `FlagInv`. In a text that repeats a block, going back by whole blocks changes
  nothing (`RepeatsBack`), so the last window stands at `Threshold` places that do not overlap (`LoopIsSeen`).
- `FirstObjectIsRead`: `FirstObjectRead` by `ScanInv`. While it scans, the flags are what a lexer that began at the
  brace would take the position for, the depth is the number of braces that are open there, and one was open all
  the way (`Tracking`); where it seeks, no object begins behind it. The lexer exists and moves by one token
  (`LexesExist`, `LexedFollows`), so do the counts of braces (`CountFollows`), and one lemma for each kind of
  step keeps the scan in line with them (`TryBraceTracks`, `ScanKeepsTrack`, `UnbalancedIsNone`).
- `WholeReviewIsRead`: `WholeReviewRead` by `WholeInv` and `ScanInv`: the review stands in the text from step to
  step. While thoughts are stripped, every opening brace before it is in a thought that is closed, and no part of it is
  (`Held`); a thought that is cut out lies before the review or behind it, and what remains hides the same
  (`StillHidden`, `StripHeld`). Afterwards no opening brace stands before it (`Bare`, `FencesLeave`). A review is an
  object wherever it stands, and its last brace is the first at which its braces balance (`ReviewReads`, from
  `MessageReads`: a quote in an escaped message ends no string); so it is the first object of the text, which is
  what the scan finds (`MatchIsReview`).

`ReviewSourcesProofs` proves for any files, versions, states of the repository, requests, analyzers and rules, and
any number of things the developer does:

- `TypeCorrect`, and `Where`: what a request has by the step it is at. All others rest on the two. The lists
  of the model are `SetToSeq` of finite sets, which hold each element once (`SetToSeqExact`).
- `NoChangePassedOver`: `ChangesNotPassedOver` by `ChangesInv`: once a kind of change was read, the input is
  what there is of this kind in the files that were left alone (`Exact`), and if auto mode has turned to a later
  kind, there was none (`Unchanged`). In between, the changes of tracked files are in the input first, and an
  untracked file is in the queue or in the input (`UntrackedInHand`). A move of the developer keeps this, as
  what is still after it was so before, with the same versions (`StillKept`).
- `SnapshotsComplete`: `SnapshotComplete` by `SnapshotInv`: a file is in the queue or, if it was there to be read, in
  the input, and in neither twice; one that goes from one list to the other was put together once
  (`UniqueAppended`).
- `RulesFit`: `RulesFitInput` by `Limited` and `RulesInv`: a review limited to some files shows no others, so
  the files the rules go by include those shown.
- `FindingsMatch`: `FindingsMatchRequest` by `FindingsInv`: the findings are those of the sources that had
  their turn and did not fail, and of each of these everything its analyses found, but for those that broke
  (`SourceRan`).

`ServiceHandoffProofs` proves for any number of starts, attempts, faults and other processes:

- `TypeCorrect`, by `TypeInv`: of all instances only the supervisor's last one can live or listen.
- `ForeignBlocks`: `ForeignListenerBlocks` by `ForeignInv`: such a process keeps the probe from binding,
  and neither a table that shows it nor one that does not passes the comparison.
- `SuccessReplaced`: `SuccessMeansReplaced` by `SuccessInv`: after the restart the supervisor runs new
  instances alone, and the owner that was found listened.
- `FailuresExplained`: `FailureHasCause` by `CalmInv`: undisturbed, whoever listens is the probe or the
  service, the probe costs at most one start and the restart one more, and from the last attempt's
  `ReadPid` on the service listens.

`CommitHooksProofs` proves for any number of processes, scopes, answers and comments:

- `TypeCorrect`, `CommentsKept`, `OneCommentPerScope` and `CommentsCurrent` by `IInv`. `CommentKept` alone is
  not inductive: a process that has found a comment writes later (`TargetInv`: what it found is its scope's, or
  somebody quoted), and finds by markers (`MarksInv`: a marker in a comment is its scope's, or quoted). For the
  other two, `PostingInv`: in a calm scope only the process with the last answer is posting, and if it is about to
  create a comment there is none; `ScopeInv`: there is at most one comment, the one with the last answer if that was
  posted. One lemma for each kind of step: starting a process (`StartInv`), its work up to the write
  (`WorkInv`, `ReviewedInv`), the write (`WriteInv`), other people (`OthersCommentInv`) and git
  (`RepositoryInv`).

Assumptions on constants: `ChunkedReviewAssumption` (at least one chunk, parallelisms are integers, the issues
of an answer are well formed), `InputSplitAssumption` (numbers, a token of at least one byte, the least chunk
within the least budget), `ServiceHandoffAssumption` (distinct names; the supervisor allows three starts,
systemd five), `InferenceServiceAssumption` (files and requests are well formed, `None` is none of the other
values), `ReviewSourcesAssumption` (finitely many files, packages of Go files; requests, rules and repositories
are well formed; the analyzers have distinct names, as those of `DefaultSources`; the bounds are numbers),
`ReviewDaemonAssumption` (requests, configurations and answers are well formed, the bounds are numbers),
`DaemonConnectAssumption` (the names of clients, daemons and `NoFile` are distinct), `AnswerReadingAssumption`
(texts are made of the tokens, verdicts and severities are those of the schema, messages are escaped as JSON
writes them, window and threshold are positive), `CommitHooksAssumption` (the code's four scopes or some of
them, "diff" included; answers are well formed; `None` is none of the other values).

Type invariants are proved and not repeated in the runs, whose properties they precede.

Functions that compute along a list or a text (`FlattenSeq`, the lexer, an order for a sort) are reasoned about
without an induction principle, which the provers can't instantiate: if a fact fails for some position or length, it
fails for a least one (`LeastNumber`, `LeastExists`, from the well-foundedness of the numbers), and there it follows
from the one before.

Only model-checked: the liveness properties (`Concludes`, `ConnectEnds`, `SocketReplaced`, `DeploymentEnds`,
`ServiceComesUp`, `CallsEnd`, `StopEnds`, `EveryRequestEnds`) and the fairness they rest on, for which the proof
system has no rules; and the three properties that are violated.

## 6. Not modelled

The parts with status `not_modelled` in `PROJECT.json`, each with its reason there. In short: prompts and
the formatting of answers, parsing of configuration files, what the analyzers look for in a syntax tree, the
traffic between the chat clients and their backends, self-update and init, generated code. None of these
keeps state between two calls, and their correctness is a matter of the text they handle.

## 7. Plan

What would come next:

1. A composition of `ReviewDaemon` with `ChunkedReview` in place of the one-step sweep.
2. The result slice of the engine as an action property of its own: it is appended to and never rewritten.
