-------------------------- MODULE InferenceService --------------------------
(***************************************************************************)
(* The inference service: newInferenceCmd of cmd/lm-review/main.go resolves*)
(* the backends of the configuration file, ServeListener of                *)
(* internal/inference/service.go serves until its context is cancelled or  *)
(* accepting fails, and Infer routes a request to a backend and returns    *)
(* what that answers only if it matches the caller's schema.               *)
(*                                                                         *)
(* A token is known by where it was written, that of a token file by the   *)
(* file.  Names of models keep whether white space surrounds them.  What a *)
(* model writes is a text, bare or as the value of the one property of an  *)
(* object.  The gRPC server, the backends and the callers are external.    *)
(***************************************************************************)
EXTENDS Integers, Sequences

CONSTANTS
  Calls,         \* the RPCs of one behaviour
  Requests,      \* what callers send
  Files,         \* the configuration files the service may find
  Urls, DefaultUrl,
  Tokens, TokenFiles,
  Models,
  Texts,         \* what a model may write
  JSONTexts,     \* those of them that are JSON as they stand
  None

Written == [name : Models \cup {None}, padded : BOOLEAN]
Outputs == [text : Texts, wrapped : BOOLEAN]
Section == [url : Urls \cup {None}, token : Tokens \cup {None}]
Backend == [url : Urls \cup {None}, token : Tokens \cup {None},
            file : TokenFiles \cup {None}, models : Seq(Written)]
Config  == [openai : Section, lmstudio : Section, model : Written,
            inference : [url : Urls \cup {None}, token : Tokens \cup {None},
                         file : TokenFiles \cup {None}],
            backends : Seq(Backend)]

\* values: the enum of a schema with one required string property and no others, else {}.
Schema  == [values : SUBSET Texts, accepts : SUBSET Outputs]
Flaws   == {"prompt", "input", "output_schema", "context", "generation_options"}
Request == [flaw : Flaws \cup {None}, model : Written, schema : Schema]

ASSUME InferenceServiceAssumption ==
  /\ Files \subseteq Config /\ Requests \subseteq Request
  /\ DefaultUrl \in Urls
  /\ JSONTexts \subseteq Texts
  /\ None \notin Urls \cup Tokens \cup TokenFiles \cup Models \cup Requests \cup Outputs
               \cup Flaws

VARIABLES
  config,     \* the configuration file
  phase,      \* of the service
  server,     \* the default model and the backends it was built with
  cancelled,  \* the context of ServeListener
  watched,    \* somebody watches the health of the service
  calls       \* the RPCs

vars == <<config, phase, server, cancelled, watched, calls>>

Phases == {"loading", "refused", "resolved", "listening", "serving",
           "stopped", "draining", "ended", "failed"}

----------------------------------------------------------------------------
(* Configuration *)

\* Load: without a URL the old name of the section counts, with all that is in it.
Global(file) ==
  LET section == IF file.openai.url # None THEN file.openai ELSE file.lmstudio
  IN  [url   |-> IF section.url # None THEN section.url ELSE DefaultUrl,
       token |-> section.token]

Target   == [url : Urls \cup {None}, token : Tokens \cup TokenFiles \cup {None}]
NoTarget == [url |-> None, token |-> None]

\* Both ways of naming a credential exclude each other; a token file must be readable.
CredentialOk(from, readable) ==
  /\ from.token = None \/ from.file = None
  /\ from.file # None => from.file \in readable

Credential(from) == IF from.file # None THEN from.file ELSE from.token

\* Mutation of BackendsOk: a model may be named more than once.
MutBackendsOk(file, readable) ==
  LET B == file.backends IN
  \A i \in DOMAIN B :
    /\ B[i].url # None /\ B[i].models # <<>> /\ CredentialOk(B[i], readable)
    /\ \A k \in DOMAIN B[i].models : B[i].models[k].name # None

\* ResolveBackends: every model is named, and by one backend.
BackendsOk(file, readable) ==
  LET B == file.backends IN
  \A i \in DOMAIN B :
    /\ B[i].url # None /\ B[i].models # <<>> /\ CredentialOk(B[i], readable)
    /\ \A k \in DOMAIN B[i].models :
         /\ B[i].models[k].name # None
         /\ \A j \in DOMAIN B : \A l \in DOMAIN B[j].models :
              B[i].models[k] = B[j].models[l] => i = j /\ k = l

\* The map of newRoutingInferenceServer; of one name's backends the last stays in it.
Routes(file) ==
  LET B     == file.backends
      Of(w) == {i \in DOMAIN B : \E k \in DOMAIN B[i].models : B[i].models[k] = w}
      b(w)  == B[CHOOSE i \in Of(w) : \A j \in Of(w) : j <= i]
  IN  [w \in {v \in Written : Of(v) # {}} |->
         [url |-> b(w).url, token |-> Credential(b(w))]]

\* Mutation of SingleBackend: a URL of its own keeps the global token.
MutSingleBackend(file) ==
  LET own == file.inference
  IN  [url   |-> IF own.url # None THEN own.url ELSE Global(file).url,
       token |-> IF Credential(own) # None THEN Credential(own) ELSE Global(file).token]

\* ResolveBackendCredential: a URL of its own starts without the global token.
SingleBackend(file) ==
  LET own == file.inference
  IN  [url   |-> IF own.url # None THEN own.url ELSE Global(file).url,
       token |-> IF Credential(own) # None THEN Credential(own)
                 ELSE IF own.url # None THEN None ELSE Global(file).token]

Resolves(file, readable) ==
  IF file.backends # <<>> THEN BackendsOk(file, readable)
                          ELSE CredentialOk(file.inference, readable)

Server(file) ==
  [model  |-> file.model,
   routes |-> Routes(file),
   single |-> IF file.backends # <<>> THEN NoTarget ELSE SingleBackend(file)]

Unresolved == [model |-> [name |-> None, padded |-> FALSE], routes |-> <<>>, single |-> NoTarget]

----------------------------------------------------------------------------
(* One call *)

Trim(written) == [written EXCEPT !.padded = FALSE]

\* The model a request is for, and the backend of that model (clientForModel).
ModelOf(request) ==
  IF request.model.name # None THEN Trim(request.model) ELSE Trim(server.model)

ClientFor(model) ==
  IF DOMAIN server.routes = {} THEN server.single
  ELSE IF model \in DOMAIN server.routes THEN server.routes[model] ELSE NoTarget

Parses(output)           == output.wrapped \/ output.text \in JSONTexts
Conforms(schema, output) == Parses(output) /\ output \in schema.accepts

\* normalizeBareEnumObjectOutput
Normalized(schema, raw) ==
  IF ~raw.wrapped /\ raw.text \in schema.values THEN [raw EXCEPT !.wrapped = TRUE] ELSE None

Reply(status, output, normalized) ==
  [status |-> status, output |-> output, normalized |-> normalized]
Error(status) == Reply(status, None, FALSE)

\* Mutation of Validated: what was normalised is not validated again.
MutValidated(schema, raw) ==
  IF Conforms(schema, raw) THEN Reply("OK", raw, FALSE)
  ELSE IF Normalized(schema, raw) # None THEN Reply("OK", Normalized(schema, raw), TRUE)
  ELSE Error("DataLoss")

\* Infer after the backend's answer.
Validated(schema, raw) ==
  LET normalized == Normalized(schema, raw) IN
  IF Conforms(schema, raw) THEN Reply("OK", raw, FALSE)
  ELSE IF normalized # None /\ Conforms(schema, normalized) THEN Reply("OK", normalized, TRUE)
  ELSE Error("DataLoss")

\* newChatRequestError: what a failed request wraps, under the state of the call's context.
CauseOf(context, error) ==
  IF "deadline" \in {context, error} THEN "deadline"
  ELSE IF "canceled" \in {context, error} THEN "canceled" ELSE "other"

\* Mutation of ModelStatus: only the error counts.
MutModelStatus(context, cause) ==
  CASE cause = "canceled" -> "Canceled"
    [] cause = "deadline" -> "DeadlineExceeded"
    [] OTHER              -> "Unavailable"

\* modelStatusError: the context is looked at again.
ModelStatus(context, cause) ==
  IF "canceled" \in {context, cause} THEN "Canceled"
  ELSE IF "deadline" \in {context, cause} THEN "DeadlineExceeded" ELSE "Unavailable"

Idle == [pc |-> "idle", request |-> None, target |-> NoTarget, model |-> None,
         context |-> "live", raw |-> None, error |-> "none", cause |-> "none",
         reply |-> Error("none")]

Set(c, call) == calls' = [calls EXCEPT ![c] = call]
Calling(c)   == calls[c].pc = "calling" /\ phase \in {"serving", "draining"}
Failing(c)   == calls[c].pc = "failing" /\ phase \in {"serving", "draining"}
InFlight     == {c \in Calls : calls[c].pc \in {"calling", "failing"}}

SameService == UNCHANGED <<config, phase, server, cancelled, watched>>

----------------------------------------------------------------------------
(* Calls *)

\* Infer until the backend is asked, or the request is refused.  A server that drains still
\* takes the streams that were on their way when it said so.
Infer(c, request) ==
  /\ phase \in {"serving", "draining"} /\ calls[c].pc = "idle"
  /\ LET model  == ModelOf(request)
         target == ClientFor(model)
         asked  == [Idle EXCEPT !.request = request, !.model = model]
     IN  \/ /\ request.flaw # None
            /\ Set(c, [asked EXCEPT !.pc = "done", !.reply = Error("InvalidArgument")])
         \/ /\ request.flaw = None
            /\ model.name = None \/ target = NoTarget
            /\ Set(c, [asked EXCEPT !.pc = "done", !.reply = Error("FailedPrecondition")])
         \/ /\ request.flaw = None
            /\ model.name # None /\ target # NoTarget
            /\ Set(c, [asked EXCEPT !.pc = "calling", !.target = target])
  /\ SameService

\* The caller gives up, or its deadline passes, while the backend or the handler works.
ContextEnds(c, how) ==
  /\ Calling(c) \/ Failing(c)
  /\ calls[c].context = "live"
  /\ Set(c, [calls[c] EXCEPT !.context = how])
  /\ SameService

\* The backend answers with raw.
Answer(c, raw) ==
  /\ Calling(c)
  /\ Set(c, [calls[c] EXCEPT !.pc = "done", !.raw = raw,
                             !.reply = Validated(calls[c].request.schema, raw)])
  /\ SameService

Fail(c, error, cause) ==
  /\ Calling(c)
  /\ Set(c, [calls[c] EXCEPT !.pc = "failing", !.error = error, !.cause = cause])
  /\ SameService

\* The request is cancelled with the call's context, or fails (a status, no connection).
RequestFails(c) ==
  \/ \E error \in {"canceled", "deadline"} :
       /\ calls[c].context = error
       /\ Fail(c, error, CauseOf(calls[c].context, error))
  \/ Fail(c, "other", CauseOf(calls[c].context, "other"))

\* Mutation of RequestTimesOut: a request has no timeout but its caller's deadline.
MutRequestTimesOut(c) ==
  calls[c].context = "deadline" /\ Fail(c, "deadline", CauseOf(calls[c].context, "deadline"))

\* WithRequestTimeout
RequestTimesOut(c) == Fail(c, "deadline", CauseOf(calls[c].context, "deadline"))

\* An answer without choices or that repeats itself: an error that wraps nothing.
AnswerUnusable(c) == Fail(c, "unusable", "other")

ReportError(c) ==
  /\ Failing(c)
  /\ Set(c, [calls[c] EXCEPT !.pc = "done",
                             !.reply = Error(ModelStatus(calls[c].context, calls[c].cause))])
  /\ SameService

----------------------------------------------------------------------------
(* The service *)

\* newInferenceCmd up to Serve; the token files are read once, here.
Start(readable) ==
  /\ phase = "loading"
  /\ IF Resolves(config, readable)
       THEN phase' = "resolved" /\ server' = Server(config)
       ELSE phase' = "refused" /\ UNCHANGED server
  /\ UNCHANGED <<config, cancelled, watched, calls>>

Listen ==
  /\ phase = "resolved"
  /\ phase' \in {"listening", "failed"}
  /\ UNCHANGED <<config, server, cancelled, watched, calls>>

Serve ==
  /\ phase = "listening"
  /\ phase' = "serving"
  /\ UNCHANGED <<config, server, cancelled, watched, calls>>

Cancel ==
  /\ phase \in {"listening", "serving"} /\ ~cancelled
  /\ cancelled' = TRUE
  /\ UNCHANGED <<config, phase, server, watched, calls>>

\* Mutation of GracefulStop: the goroutine waits only for Serve to return.
MutGracefulStop ==
  /\ phase = "ended" /\ cancelled
  /\ phase' = "stopped"
  /\ UNCHANGED <<config, server, cancelled, watched, calls>>

\* The goroutine of ServeListener, before Serve or while it serves.
GracefulStop ==
  /\ phase \in {"listening", "serving"} /\ cancelled
  /\ phase' = IF phase = "serving" THEN "draining" ELSE "stopped"
  /\ UNCHANGED <<config, server, cancelled, watched, calls>>

\* Mutation of ServeReturns: the calls under way are not waited for.
MutServeReturns ==
  /\ phase \in {"stopped", "draining"}
  /\ ~watched
  /\ phase' = "ended"
  /\ UNCHANGED <<config, server, cancelled, watched, calls>>

\* Serve after GracefulStop, which waits for every stream.
ServeReturns ==
  /\ phase \in {"stopped", "draining"}
  /\ InFlight = {} /\ ~watched
  /\ phase' = "ended"
  /\ UNCHANGED <<config, server, cancelled, watched, calls>>

\* Accepting fails: the command returns the error and the process ends with its calls.
ServeFails ==
  /\ phase = "serving"
  /\ phase' = "failed" /\ watched' = FALSE
  /\ calls' = [c \in Calls |-> IF c \in InFlight THEN [calls[c] EXCEPT !.pc = "dropped"]
                                                 ELSE calls[c]]
  /\ UNCHANGED <<config, server, cancelled>>

\* A health watch is a stream that only its client closes.
Watch ==
  /\ phase \in {"serving", "draining"} /\ ~watched
  /\ watched' = TRUE
  /\ UNCHANGED <<config, phase, server, cancelled, calls>>

Unwatch ==
  /\ watched
  /\ watched' = FALSE
  /\ UNCHANGED <<config, phase, server, cancelled, calls>>

----------------------------------------------------------------------------
Init ==
  /\ config \in Files
  /\ phase = "loading" /\ server = Unresolved
  /\ cancelled = FALSE /\ watched = FALSE
  /\ calls = [c \in Calls |-> Idle]

CallStep(c) ==
  \/ \E request \in Requests : Infer(c, request)
  \/ \E how \in {"canceled", "deadline"} : ContextEnds(c, how)
  \/ \E raw \in Outputs : Answer(c, raw)
  \/ RequestFails(c)
  \/ RequestTimesOut(c)
  \/ AnswerUnusable(c)
  \/ ReportError(c)

ServiceStep ==
  \/ \E readable \in SUBSET TokenFiles : Start(readable)
  \/ Listen
  \/ Serve
  \/ Cancel
  \/ GracefulStop
  \/ ServeReturns
  \/ ServeFails
  \/ Watch
  \/ Unwatch

Next == ServiceStep \/ \E c \in Calls : CallStep(c)

Spec == Init /\ [][Next]_vars

\* The process runs and its goroutines are scheduled; a request that isn't answered times out.
Fairness ==
  /\ WF_vars(\E readable \in SUBSET TokenFiles : Start(readable))
  /\ WF_vars(Listen)
  /\ WF_vars(Serve)
  /\ WF_vars(GracefulStop)
  /\ WF_vars(ServeReturns)
  /\ \A c \in Calls : WF_vars(RequestTimesOut(c)) /\ WF_vars(ReportError(c))

FairSpec == Spec /\ Fairness

----------------------------------------------------------------------------
(* Properties *)

Statuses == {"none", "OK", "InvalidArgument", "FailedPrecondition", "DataLoss",
             "Canceled", "DeadlineExceeded", "Unavailable"}

Call == [pc : {"idle", "calling", "failing", "done", "dropped"},
         request : Requests \cup {None}, model : Written \cup {None}, target : Target,
         context : {"live", "canceled", "deadline"}, raw : Outputs \cup {None},
         error : {"none", "canceled", "deadline", "other", "unusable"},
         cause : {"none", "canceled", "deadline", "other"},
         reply : [status : Statuses, output : Outputs \cup {None}, normalized : BOOLEAN]]

\* Every variable has its type.
TypeOK ==
  /\ config \in Files
  /\ phase \in Phases
  /\ server.model \in Written /\ server.single \in Target
  /\ \A w \in DOMAIN server.routes : w \in Written /\ server.routes[w] \in Target
  /\ cancelled \in BOOLEAN /\ watched \in BOOLEAN
  /\ calls \in [Calls -> Call]

Done(c)  == calls[c].pc = "done"
Asked(c) == calls[c].target # NoTarget

Names(declared, model) == \E k \in DOMAIN declared.models : declared.models[k] = model

\* A request goes to a URL only with a credential the file writes beside that URL, or in the
\* section for inference when that has no URL of its own; the global token never leaves the
\* global URL (Inference.ResolveBackend, InferenceBackend.Resolve).
CredentialStaysHome ==
  LET own == config.inference IN
  \A c \in Calls : Asked(c) =>
    LET sent == calls[c].target IN
    \/ \E i \in DOMAIN config.backends :
         LET b == config.backends[i] IN sent.url = b.url /\ sent.token \in {b.token, b.file}
    \/ own.url # None /\ sent.url = own.url /\ sent.token \in {own.token, own.file, None}
    \/ /\ own.url = None /\ sent.url = Global(config).url
       /\ sent.token \in {own.token, own.file, Global(config).token} \ {None}
    \/ own.url = None /\ sent = Global(config)

\* With backends of their own, a model's requests reach the one backend that names it, and a
\* request that names a model nobody serves reaches none (ResolveBackends, clientForModel).
ModelReachesItsBackend ==
  config.backends # <<>> =>
    \A c \in Calls : Asked(c) =>
      \E i \in DOMAIN config.backends :
        /\ calls[c].target.url = config.backends[i].url
        /\ \A j \in DOMAIN config.backends : Names(config.backends[j], calls[c].model) <=> i = j

Faithful(c) ==
  LET call   == calls[c]
      schema == call.request.schema
      object == [call.raw EXCEPT !.wrapped = TRUE]
  IN  IF call.reply.status = "OK"
        THEN /\ Conforms(schema, call.reply.output)
             /\ call.reply.output \in {call.raw, object}
             /\ call.reply.normalized <=> call.reply.output # call.raw
        ELSE /\ call.reply.status = "DataLoss"
             /\ ~Conforms(schema, call.raw)
             /\ call.raw.text \in schema.values => ~Conforms(schema, object)

\* A reply conforms to its caller's schema, and says of itself exactly when it isn't what
\* the backend wrote; an answer is refused only if nothing in it conforms (Infer).
ReplyConforms == \A c \in Calls : Done(c) /\ calls[c].raw # None => Faithful(c)

Explained(c) ==
  LET call   == calls[c]
      status == call.reply.status
  IN  /\ status = "InvalidArgument" <=> call.request.flaw # None
      /\ status \in {"InvalidArgument", "FailedPrecondition"} <=> ~Asked(c)
      /\ status = "FailedPrecondition" =>
           \/ call.model.name = None
           \/ ~\E i \in DOMAIN config.backends : Names(config.backends[i], call.model)
      /\ status \in {"OK", "DataLoss"} <=> call.raw # None
      /\ status = "Canceled" <=> call.error # "none" /\ call.context = "canceled"
      /\ status = "DeadlineExceeded" =>
           call.context # "canceled" /\ "deadline" \in {call.context, call.error}
      /\ status = "Unavailable" => call.context = "live" /\ call.error \in {"other", "unusable"}
      /\ status # "none"

\* A status names its reason: a caller that gave up is told so whatever the backend did, a
\* deadline is the caller's or the request's, and a refused request has reached no backend
\* (Infer, newChatRequestError, modelStatusError).
StatusExplained == \A c \in Calls : Done(c) => Explained(c)

\* A service that was asked to stop ends with every call answered; calls are cut off only
\* when accepting fails (ServeListener).
NoCallCutOff ==
  /\ phase = "ended" => cancelled /\ InFlight = {}
  /\ \A c \in Calls : calls[c].pc = "dropped" => phase = "failed"

\* Every call that reached a backend ends, answered or with the service.
CallsEnd == \A c \in Calls : c \in InFlight ~> c \notin InFlight

\* A service that was asked to stop ends, if its watchers go away.
StopEnds == <>[]~watched => (cancelled ~> phase \in {"ended", "failed"})

=============================================================================
