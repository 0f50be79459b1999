----------------------- MODULE InferenceServiceProofs -----------------------
(***************************************************************************)
(* Proofs about InferenceService for any configuration files, requests,    *)
(* models and answers, and any number of calls.                            *)
(***************************************************************************)
EXTENDS InferenceService, TLAPS

----------------------------------------------------------------------------
(* Configuration *)

\* Backends that resolve give each model they name the backend that names it.
LEMMA RouteOf ==
  ASSUME NEW file \in Config, NEW readable, BackendsOk(file, readable),
         NEW i \in DOMAIN file.backends, NEW k \in DOMAIN file.backends[i].models
  PROVE  LET b == file.backends[i]
             w == b.models[k]
         IN  /\ w \in Written /\ w \in DOMAIN Routes(file)
             /\ Routes(file)[w] = [url |-> b.url, token |-> Credential(b)]
             /\ b \in Backend /\ b.url # None
             /\ \A j \in DOMAIN file.backends : Names(file.backends[j], w) <=> i = j
<1> DEFINE B     == file.backends
           b     == B[i]
           w     == b.models[k]
           Of(v) == {j \in DOMAIN B : \E l \in DOMAIN B[j].models : B[j].models[l] = v}
<1>1. B \in Seq(Backend) /\ DOMAIN B \subseteq Int
  BY DEF Config
<1>2. b \in Backend
  BY <1>1
<1>3. b.models \in Seq(Written)
  BY <1>2 DEF Backend
<1>4. w \in Written
  BY <1>3
<1>5. b.url # None
  BY DEF BackendsOk
<1>6. \A j \in DOMAIN B : \A l \in DOMAIN B[j].models : b.models[k] = B[j].models[l] => i = j
  BY DEF BackendsOk
<1>7. \A j \in DOMAIN B : Names(B[j], w) <=> i = j
  BY <1>6 DEF Names
<1>8. Of(w) = {i}
  BY <1>6
<1>9. (CHOOSE j \in Of(w) : \A l \in Of(w) : l <= j) = i
  <2>1. i <= i
    BY <1>1
  <2> QED
    BY <1>8, <2>1
<1>10. w \in DOMAIN Routes(file) /\ Routes(file)[w] = [url |-> b.url, token |-> Credential(b)]
  BY <1>4, <1>8, <1>9 DEF Routes
<1> QED
  BY <1>2, <1>4, <1>5, <1>7, <1>10

\* Every route is that of some backend's model.
LEMMA RouteFrom ==
  ASSUME NEW file, NEW w \in DOMAIN Routes(file)
  PROVE  \E i \in DOMAIN file.backends : \E k \in DOMAIN file.backends[i].models :
           file.backends[i].models[k] = w
BY DEF Routes

\* The one backend of a configuration without others.
LEMMA SingleOf ==
  ASSUME NEW file \in Config
  PROVE  /\ Global(file) \in [url : Urls, token : Tokens \cup {None}]
         /\ SingleBackend(file) \in Target
<1>1. file.openai \in Section /\ file.lmstudio \in Section
  BY DEF Config
<1>2. Global(file) \in [url : Urls, token : Tokens \cup {None}]
  BY <1>1, InferenceServiceAssumption DEF Global, Section
<1>3. file.inference \in [url : Urls \cup {None}, token : Tokens \cup {None},
                          file : TokenFiles \cup {None}]
  BY DEF Config
<1> QED
  BY <1>2, <1>3 DEF SingleBackend, Target, Credential

\* The server of a file that resolves has its types, and routes for the models named.
LEMMA ServerOf ==
  ASSUME NEW file \in Config, NEW readable, Resolves(file, readable)
  PROVE  LET made == Server(file)
         IN  /\ made.model \in Written /\ made.single \in Target
             /\ \A w \in DOMAIN made.routes : w \in Written /\ made.routes[w] \in Target
             /\ \A i \in DOMAIN file.backends : \A w :
                  Names(file.backends[i], w) =>
                    w \in DOMAIN made.routes /\ made.routes[w] # NoTarget
<1> DEFINE made == Server(file)
<1>1. made.model \in Written /\ made.single \in Target /\ made.routes = Routes(file)
  BY SingleOf DEF Server, Config, NoTarget, Target
<1>2. CASE file.backends = <<>>
  <2>1. DOMAIN file.backends = {}
    BY <1>2
  <2>2. DOMAIN made.routes = {}
    BY <1>1, <2>1, RouteFrom
  <2> QED
    BY <1>1, <2>1, <2>2
<1>3. CASE file.backends # <<>>
  <2>1. BackendsOk(file, readable)
    BY <1>3 DEF Resolves
  <2>2. ASSUME NEW i \in DOMAIN file.backends, NEW k \in DOMAIN file.backends[i].models
        PROVE  LET w == file.backends[i].models[k]
               IN  /\ w \in Written /\ w \in DOMAIN made.routes
                   /\ made.routes[w] \in Target /\ made.routes[w] # NoTarget
    <3> DEFINE b == file.backends[i]
    <3>1. /\ b.models[k] \in Written /\ b \in Backend /\ b.url # None
          /\ b.models[k] \in DOMAIN Routes(file)
          /\ Routes(file)[b.models[k]] = [url |-> b.url, token |-> Credential(b)]
      BY <2>1, RouteOf
    <3>2. [url |-> b.url, token |-> Credential(b)] \in Target
      BY <3>1 DEF Backend, Target, Credential
    <3>3. [url |-> b.url, token |-> Credential(b)] # NoTarget
      BY <3>1 DEF NoTarget
    <3> QED
      BY <1>1, <3>1, <3>2, <3>3
  <2>3. ASSUME NEW w \in DOMAIN made.routes
        PROVE  w \in Written /\ made.routes[w] \in Target
    <3>1. PICK i \in DOMAIN file.backends : \E k \in DOMAIN file.backends[i].models :
            file.backends[i].models[k] = w
      BY <1>1, <2>3, RouteFrom
    <3> QED
      BY <2>2, <3>1
  <2>4. ASSUME NEW i \in DOMAIN file.backends, NEW w, Names(file.backends[i], w)
        PROVE  w \in DOMAIN made.routes /\ made.routes[w] # NoTarget
    BY <2>2, <2>4 DEF Names
  <2> QED
    BY <1>1, <2>3, <2>4
<1> QED
  BY <1>2, <1>3

----------------------------------------------------------------------------
(* The inductive invariant *)

\* The server is the one the configuration file resolves to.
ServerInv ==
  IF phase \in {"loading", "refused"} THEN server = Unresolved
  ELSE /\ server = Server(config)
       /\ \E readable \in SUBSET TokenFiles : Resolves(config, readable)

\* What a call asks, and of whom.
Addressed(call) ==
  /\ call.request \in Requests
  /\ call.model = ModelOf(call.request)
  /\ call.target = IF call.request.flaw = None /\ call.model.name # None
                     THEN ClientFor(call.model) ELSE NoTarget

\* What an error says of the request and of the call's context, while it is under way.
Caused(call) ==
  /\ call.error # "none"
  /\ call.error = "deadline" => call.cause = "deadline"
  /\ call.error = "canceled" => call.context = "canceled"
  /\ call.cause = "canceled" => call.context = "canceled"
  /\ call.cause = "deadline" => "deadline" \in {call.context, call.error}

CallInv(c) ==
  LET call == calls[c] IN
  /\ call.pc = "idle" => call = Idle
  /\ call.pc # "idle" =>
       phase \in {"serving", "draining", "ended", "failed"} /\ Addressed(call)
  /\ call.pc \in {"calling", "failing"} => Asked(c) /\ call.raw = None
  /\ call.pc = "calling" => call.error = "none"
  /\ call.pc = "failing" => Caused(call)
  /\ call.pc = "done" => Explained(c) /\ (call.raw # None => Faithful(c))
  /\ call.pc = "dropped" => phase = "failed"

IInv ==
  /\ TypeOK
  /\ ServerInv
  /\ \A c \in Calls : CallInv(c)
  /\ phase \in {"stopped", "draining", "ended"} => cancelled
  /\ phase = "ended" => InFlight = {}

\* A server that resolved has a backend for every model the file names.
LEMMA ServerSound ==
  ASSUME config \in Files, ServerInv, phase \notin {"loading", "refused"},
         NEW i \in DOMAIN config.backends, NEW w, Names(config.backends[i], w)
  PROVE  ClientFor(w) # NoTarget
<1>1. PICK readable \in SUBSET TokenFiles : Resolves(config, readable)
  BY DEF ServerInv
<1>2. server = Server(config) /\ config \in Config
  BY InferenceServiceAssumption DEF ServerInv
<1>3. w \in DOMAIN server.routes /\ server.routes[w] # NoTarget
  BY <1>1, <1>2, ServerOf
<1> QED
  BY <1>3 DEF ClientFor

\* The model of a request is trimmed, and a client is a target.
LEMMA Addressing ==
  ASSUME TypeOK, NEW request \in Requests
  PROVE  /\ request \in Request
         /\ ModelOf(request) \in Written
         /\ ClientFor(ModelOf(request)) \in Target
<1>1. request \in Request
  BY InferenceServiceAssumption
<1>2. ModelOf(request) \in Written
  BY <1>1 DEF TypeOK, ModelOf, Trim, Request, Written
<1> QED
  BY <1>1, <1>2 DEF TypeOK, ClientFor, NoTarget, Target

----------------------------------------------------------------------------
(* Calls *)

\* A step of one call keeps the invariant if that call comes out of it well.
LEMMA OneCall ==
  ASSUME IInv, NEW c \in Calls, NEW new \in Call, Set(c, new), SameService,
         phase \in {"serving", "draining"}, CallInv(c)'
  PROVE  IInv'
<1>1. calls' \in [Calls -> Call] /\ calls'[c] = new
  BY DEF IInv, TypeOK, Set
<1>2. TypeOK'
  BY <1>1 DEF IInv, TypeOK, SameService
<1>3. ServerInv'
  BY DEF IInv, ServerInv, SameService
<1>4. ASSUME NEW d \in Calls, d # c
      PROVE  CallInv(d)'
  <2>1. calls'[d] = calls[d] /\ CallInv(d)
    BY <1>4 DEF IInv, TypeOK, Set
  <2>2. server' = server /\ config' = config /\ phase' = phase
    BY DEF SameService
  <2> QED
    BY <2>1, <2>2 DEF CallInv, Addressed, Caused, ModelOf, ClientFor, Trim, Asked, Explained,
                      Faithful, Names, Conforms, Parses
<1> QED
  BY <1>2, <1>3, <1>4 DEF IInv, SameService

LEMMA InferInv ==
  ASSUME IInv, NEW c \in Calls, NEW request \in Requests, Infer(c, request)
  PROVE  IInv'
<1> DEFINE model  == ModelOf(request)
           target == ClientFor(model)
           asked  == [Idle EXCEPT !.request = request, !.model = model]
<1>1. /\ request \in Request /\ model \in Written /\ target \in Target
      /\ NoTarget \in Target /\ Idle \in Call
  BY Addressing DEF IInv, NoTarget, Target, Idle, Call, Error, Reply, Statuses
<1>2. /\ SameService /\ phase \in {"serving", "draining"}
      /\ server' = server /\ config' = config /\ phase' = phase
  BY DEF Infer, SameService
<1>3. calls \in [Calls -> Call]
  BY DEF IInv, TypeOK
<1>4. CASE /\ request.flaw # None
           /\ Set(c, [asked EXCEPT !.pc = "done", !.reply = Error("InvalidArgument")])
  <2> DEFINE new == [asked EXCEPT !.pc = "done", !.reply = Error("InvalidArgument")]
  <2>1. new \in Call
    BY <1>1 DEF Call, Idle, Error, Reply, Statuses
  <2>2. calls'[c] = new
    BY <1>3, <1>4 DEF Set
  <2>3. CallInv(c)'
    BY <1>1, <1>2, <1>4, <2>2 DEF CallInv, Idle, Addressed, ModelOf, Trim, Asked, Explained,
                             Error, Reply
  <2> QED
    BY <1>2, <1>4, <2>1, <2>3, OneCall
<1>5. CASE /\ request.flaw = None
           /\ model.name = None \/ target = NoTarget
           /\ Set(c, [asked EXCEPT !.pc = "done", !.reply = Error("FailedPrecondition")])
  <2> DEFINE new == [asked EXCEPT !.pc = "done", !.reply = Error("FailedPrecondition")]
  <2>1. new \in Call
    BY <1>1 DEF Call, Idle, Error, Reply, Statuses
  <2>2. calls'[c] = new
    BY <1>3, <1>5 DEF Set
  <2>3. model.name # None =>
          ~\E i \in DOMAIN config.backends : Names(config.backends[i], model)
    BY <1>2, <1>5, ServerSound DEF IInv, TypeOK
  <2>4. new.request = request /\ new.model = model /\ new.target = NoTarget /\ new.pc = "done"
        /\ new.raw = None /\ new.error = "none" /\ new.reply.status = "FailedPrecondition"
        /\ new.context = "live"
    BY DEF Idle, Error, Reply
  <2>5. Addressed(calls[c])'
    BY <1>2, <1>5, <2>2, <2>4 DEF Addressed, ModelOf, ClientFor, Trim
  <2>6. Explained(c)'
    BY <1>2, <1>5, <2>2, <2>3, <2>4 DEF Explained, Asked, Names
  <2>7. CallInv(c)'
    BY <1>2, <2>2, <2>4, <2>5, <2>6 DEF CallInv
  <2> QED
    BY <1>2, <1>5, <2>1, <2>7, OneCall
<1>6. CASE /\ request.flaw = None
           /\ model.name # None /\ target # NoTarget
           /\ Set(c, [asked EXCEPT !.pc = "calling", !.target = target])
  <2> DEFINE new == [asked EXCEPT !.pc = "calling", !.target = target]
  <2>1. new \in Call
    BY <1>1 DEF Call, Idle
  <2>2. calls'[c] = new
    BY <1>3, <1>6 DEF Set
  <2>3. CallInv(c)'
    BY <1>2, <1>6, <2>2 DEF CallInv, Idle, Addressed, ModelOf, ClientFor, Trim, Asked
  <2> QED
    BY <1>2, <1>6, <2>1, <2>3, OneCall
<1> QED
  BY <1>4, <1>5, <1>6 DEF Infer

\* The next step of a call that is under way leaves its request and its target alone.
LEMMA CallGoesOn ==
  ASSUME IInv, NEW c \in Calls, calls[c].pc \in {"calling", "failing"},
         phase \in {"serving", "draining"}, SameService,
         calls'[c].request = calls[c].request, calls'[c].model = calls[c].model,
         calls'[c].target = calls[c].target
  PROVE  /\ calls[c] \in Call /\ calls[c].request \in Request
         /\ Asked(c)' /\ calls[c].request.flaw = None /\ calls[c].model.name # None
         /\ Addressed(calls[c])' /\ phase' = phase /\ config' = config
<1>1. calls[c] \in Call /\ CallInv(c)
  BY DEF IInv, TypeOK
<1>2. Addressed(calls[c]) /\ Asked(c)
  BY <1>1 DEF CallInv
<1>3. calls[c].request \in Request
  BY <1>2, InferenceServiceAssumption DEF Addressed
<1>4. calls[c].request.flaw = None /\ calls[c].model.name # None
  BY <1>2 DEF Addressed, Asked
<1>5. server' = server
  BY DEF SameService
<1>6. ModelOf(calls[c].request)' = ModelOf(calls[c].request)
  BY <1>5 DEF ModelOf, Trim
<1>7. Addressed(calls[c])'
  BY <1>2, <1>5 DEF Addressed, ModelOf, Trim, ClientFor
<1> QED
  BY <1>1, <1>2, <1>3, <1>4, <1>7 DEF SameService, Asked

LEMMA ContextEndsInv ==
  ASSUME IInv, NEW c \in Calls, NEW how \in {"canceled", "deadline"}, ContextEnds(c, how)
  PROVE  IInv'
<1> DEFINE new == [calls[c] EXCEPT !.context = how]
<1>1. /\ Set(c, new) /\ SameService /\ calls[c].context = "live"
      /\ calls[c].pc \in {"calling", "failing"} /\ phase \in {"serving", "draining"}
  BY DEF ContextEnds, Calling, Failing
<1>2. calls[c] \in Call /\ calls'[c] = new /\ CallInv(c)
  BY <1>1 DEF IInv, TypeOK, Set
<1>3. new \in Call
  BY <1>2 DEF Call
<1>4. /\ calls'[c].request = calls[c].request /\ calls'[c].model = calls[c].model
      /\ calls'[c].target = calls[c].target /\ calls'[c].pc = calls[c].pc
      /\ calls'[c].raw = calls[c].raw /\ calls'[c].error = calls[c].error
      /\ calls'[c].cause = calls[c].cause /\ calls'[c].context = how
  BY <1>2 DEF Call
<1>5. /\ Addressed(calls[c])' /\ Asked(c)' /\ phase' = phase
  BY <1>1, <1>4, CallGoesOn
<1>6. calls[c].pc = "failing" => Caused(calls[c])'
  BY <1>1, <1>2, <1>4 DEF CallInv, Caused
<1>7. CallInv(c)'
  BY <1>1, <1>2, <1>4, <1>5, <1>6 DEF CallInv
<1> QED
  BY <1>1, <1>3, <1>7, OneCall

LEMMA FailInv ==
  ASSUME IInv, NEW c \in Calls, NEW error \in {"canceled", "deadline", "other", "unusable"},
         NEW cause \in {"canceled", "deadline", "other"}, Fail(c, error, cause),
         error = "canceled" => calls[c].context = "canceled",
         error = "deadline" => cause = "deadline",
         cause = "canceled" => calls[c].context = "canceled",
         cause = "deadline" => "deadline" \in {calls[c].context, error}
  PROVE  IInv'
<1> DEFINE new == [calls[c] EXCEPT !.pc = "failing", !.error = error, !.cause = cause]
<1>1. /\ Set(c, new) /\ SameService
      /\ calls[c].pc = "calling" /\ phase \in {"serving", "draining"}
  BY DEF Fail, Calling
<1>2. calls[c] \in Call /\ calls'[c] = new /\ CallInv(c)
  BY <1>1 DEF IInv, TypeOK, Set
<1>3. new \in Call
  BY <1>2 DEF Call
<1>4. /\ calls'[c].request = calls[c].request /\ calls'[c].model = calls[c].model
      /\ calls'[c].target = calls[c].target /\ calls'[c].pc = "failing"
      /\ calls'[c].raw = calls[c].raw /\ calls'[c].error = error
      /\ calls'[c].cause = cause /\ calls'[c].context = calls[c].context
  BY <1>2 DEF Call
<1>5. /\ Addressed(calls[c])' /\ Asked(c)' /\ phase' = phase
  BY <1>1, <1>4, CallGoesOn
<1>6. Caused(calls[c])'
  BY <1>4 DEF Caused
<1>7. CallInv(c)'
  BY <1>1, <1>2, <1>4, <1>5, <1>6 DEF CallInv
<1> QED
  BY <1>1, <1>3, <1>7, OneCall

\* What is validated is faithful to what the backend wrote.
LEMMA AnswerInv ==
  ASSUME IInv, NEW c \in Calls, NEW raw \in Outputs, Answer(c, raw)
  PROVE  IInv'
<1> DEFINE schema == calls[c].request.schema
           reply  == Validated(schema, raw)
           new    == [calls[c] EXCEPT !.pc = "done", !.raw = raw, !.reply = reply]
           object == [raw EXCEPT !.wrapped = TRUE]
<1>1. /\ Set(c, new) /\ SameService
      /\ calls[c].pc = "calling" /\ phase \in {"serving", "draining"}
  BY DEF Answer, Calling
<1>2. calls[c] \in Call /\ calls'[c] = new /\ CallInv(c)
  BY <1>1 DEF IInv, TypeOK, Set
<1>3. raw # None /\ object \in Outputs /\ object # None
  BY InferenceServiceAssumption DEF Outputs
<1>4. reply \in [status : {"OK", "DataLoss"}, output : Outputs \cup {None},
                  normalized : BOOLEAN]
  BY <1>3 DEF Validated, Normalized, Reply, Error
<1>5. new \in Call
  BY <1>2, <1>4 DEF Call, Statuses
<1>6. /\ calls'[c].request = calls[c].request /\ calls'[c].model = calls[c].model
      /\ calls'[c].target = calls[c].target /\ calls'[c].pc = "done"
      /\ calls'[c].raw = raw /\ calls'[c].error = "none"
      /\ calls'[c].reply = reply
  BY <1>1, <1>2 DEF Call, CallInv
<1>7. /\ Addressed(calls[c])' /\ Asked(c)' /\ phase' = phase /\ config' = config
      /\ calls[c].request.flaw = None /\ calls[c].model.name # None
  BY <1>1, <1>6, CallGoesOn
<1>8. Explained(c)'
  BY <1>3, <1>4, <1>6, <1>7 DEF Explained
<1>9. Faithful(c)'
  <2>1. CASE Conforms(schema, raw)
    BY <1>6, <2>1 DEF Faithful, Validated, Reply, Error, Conforms, Parses
  <2>2. CASE ~Conforms(schema, raw) /\ Normalized(schema, raw) # None
             /\ Conforms(schema, Normalized(schema, raw))
    <3>1. ~raw.wrapped /\ raw.text \in schema.values /\ Normalized(schema, raw) = object
      BY <2>2 DEF Normalized
    <3>2. reply = Reply("OK", object, TRUE) /\ Conforms(schema, object)
      BY <2>2, <3>1 DEF Validated
    <3>3. object # raw
      BY <3>1 DEF Outputs
    <3>4. /\ calls'[c].reply.status = "OK" /\ calls'[c].reply.output = object
          /\ calls'[c].reply.normalized = TRUE /\ calls'[c].request.schema = schema
      BY <1>6, <3>2 DEF Reply
    <3> HIDE DEF schema, reply, new
    <3> QED
      BY <1>6, <3>2, <3>3, <3>4 DEF Faithful
  <2>3. CASE ~Conforms(schema, raw) /\ ~(Normalized(schema, raw) # None
             /\ Conforms(schema, Normalized(schema, raw)))
    <3>1. reply = Error("DataLoss")
      BY <2>3 DEF Validated
    <3>2. ASSUME raw.text \in schema.values
          PROVE  ~Conforms(schema, object)
      <4>1. CASE raw.wrapped
        <5>1. object = raw
          BY <4>1 DEF Outputs
        <5> QED
          BY <2>3, <5>1
      <4>2. CASE ~raw.wrapped
        <5>1. Normalized(schema, raw) = object
          BY <3>2, <4>2 DEF Normalized
        <5> QED
          BY <1>3, <2>3, <5>1
      <4> QED
        BY <4>1, <4>2
    <3> QED
      BY <1>6, <2>3, <3>1, <3>2 DEF Faithful, Reply, Error, Conforms, Parses
  <2> QED
    BY <2>1, <2>2, <2>3
<1>10. CallInv(c)'
  BY <1>1, <1>6, <1>7, <1>8, <1>9 DEF CallInv
<1> QED
  BY <1>1, <1>5, <1>10, OneCall

LEMMA ReportErrorInv ==
  ASSUME IInv, NEW c \in Calls, ReportError(c)
  PROVE  IInv'
<1> DEFINE reply == Error(ModelStatus(calls[c].context, calls[c].cause))
           new   == [calls[c] EXCEPT !.pc = "done", !.reply = reply]
<1>1. /\ Set(c, new) /\ SameService
      /\ calls[c].pc = "failing" /\ phase \in {"serving", "draining"}
  BY DEF ReportError, Failing
<1>2. calls[c] \in Call /\ calls'[c] = new /\ CallInv(c)
  BY <1>1 DEF IInv, TypeOK, Set
<1>3. reply.status \in {"Canceled", "DeadlineExceeded", "Unavailable"}
  BY DEF ModelStatus, Error, Reply
<1>4. new \in Call
  BY <1>2, <1>3 DEF Call, Statuses, Error, Reply
<1>5. /\ calls'[c].request = calls[c].request /\ calls'[c].model = calls[c].model
      /\ calls'[c].target = calls[c].target /\ calls'[c].pc = "done"
      /\ calls'[c].raw = None /\ calls'[c].error = calls[c].error
      /\ calls'[c].context = calls[c].context /\ calls'[c].reply = reply
  BY <1>1, <1>2 DEF Call, CallInv
<1>6. /\ Addressed(calls[c])' /\ Asked(c)' /\ phase' = phase /\ config' = config
      /\ calls[c].request.flaw = None /\ calls[c].model.name # None
  BY <1>1, <1>5, CallGoesOn
<1>7. Caused(calls[c])
  BY <1>1, <1>2 DEF CallInv
<1>8. /\ reply.status = "Canceled" <=> calls[c].context = "canceled"
      /\ reply.status = "DeadlineExceeded" =>
           calls[c].context # "canceled" /\ "deadline" \in {calls[c].context, calls[c].error}
      /\ reply.status = "Unavailable" =>
           calls[c].context = "live" /\ calls[c].error \in {"other", "unusable"}
  BY <1>2, <1>7 DEF ModelStatus, Error, Reply, Caused, Call
<1>9. Explained(c)'
  BY <1>3, <1>5, <1>6, <1>7, <1>8 DEF Explained, Caused
<1>10. CallInv(c)'
  BY <1>1, <1>5, <1>6, <1>9 DEF CallInv
<1> QED
  BY <1>1, <1>4, <1>10, OneCall

LEMMA CallStepInv ==
  ASSUME IInv, NEW c \in Calls, CallStep(c)
  PROVE  IInv'
<1>1. CASE \E request \in Requests : Infer(c, request)
  BY <1>1, InferInv
<1>2. CASE \E how \in {"canceled", "deadline"} : ContextEnds(c, how)
  BY <1>2, ContextEndsInv
<1>3. CASE \E raw \in Outputs : Answer(c, raw)
  BY <1>3, AnswerInv
<1>4. CASE RequestFails(c)
  <2>1. PICK error \in {"canceled", "deadline", "other"} :
          /\ Fail(c, error, CauseOf(calls[c].context, error))
          /\ error \in {"canceled", "deadline"} => calls[c].context = error
    BY <1>4 DEF RequestFails
  <2> DEFINE cause == CauseOf(calls[c].context, error)
  <2>2. /\ cause \in {"canceled", "deadline", "other"}
        /\ error = "deadline" => cause = "deadline"
        /\ cause = "canceled" => calls[c].context = "canceled"
        /\ cause = "deadline" => "deadline" \in {calls[c].context, error}
    BY <2>1 DEF CauseOf
  <2> HIDE DEF cause
  <2> QED
    BY <2>1, <2>2, FailInv DEF cause
<1>5. CASE RequestTimesOut(c)
  <2>1. CauseOf(calls[c].context, "deadline") = "deadline"
    BY DEF CauseOf
  <2>2. Fail(c, "deadline", "deadline")
    BY <1>5, <2>1 DEF RequestTimesOut
  <2> QED
    BY <2>2, FailInv
<1>6. CASE AnswerUnusable(c)
  BY <1>6, FailInv DEF AnswerUnusable
<1>7. CASE ReportError(c)
  BY <1>7, ReportErrorInv
<1> QED
  BY <1>1, <1>2, <1>3, <1>4, <1>5, <1>6, <1>7 DEF CallStep

----------------------------------------------------------------------------
(* The service *)

\* Calls that nothing happens to stay good while the service stays up or ends.
LEMMA CallsKept ==
  ASSUME IInv, NEW c \in Calls, UNCHANGED <<config, server>>, calls'[c] = calls[c],
         calls[c].pc # "idle" => phase' \in {"serving", "draining", "ended", "failed"},
         calls[c].pc = "dropped" => phase' = "failed"
  PROVE  CallInv(c)'
<1>1. CallInv(c)
  BY DEF IInv
<1>2. Addressed(calls[c]) => Addressed(calls[c])'
  BY DEF Addressed, ModelOf, Trim, ClientFor
<1>3. (Explained(c) => Explained(c)') /\ (Asked(c) => Asked(c)')
  BY DEF Explained, Asked, Names
<1>4. Faithful(c) => Faithful(c)'
  BY DEF Faithful, Conforms, Parses
<1>5. Caused(calls[c]) => Caused(calls[c])'
  BY DEF Caused
<1> QED
  BY <1>1, <1>2, <1>3, <1>4, <1>5 DEF CallInv

LEMMA StartInv ==
  ASSUME IInv, NEW readable \in SUBSET TokenFiles, Start(readable)
  PROVE  IInv'
<1>1. /\ phase = "loading" /\ phase' \in {"resolved", "refused"}
      /\ UNCHANGED <<config, cancelled, watched, calls>>
  BY DEF Start
<1>2. ServerInv'
  BY <1>1 DEF Start, IInv, ServerInv
<1>3. config' \in Files
  BY <1>1 DEF IInv, TypeOK
<1>4. /\ server'.model \in Written /\ server'.single \in Target
      /\ \A w \in DOMAIN server'.routes : w \in Written /\ server'.routes[w] \in Target
  <2>1. CASE Resolves(config, readable)
    <3>1. server' = Server(config) /\ config \in Config
      BY <1>3, <1>1, <2>1, InferenceServiceAssumption DEF Start
    <3> QED
      BY <2>1, <3>1, ServerOf
  <2>2. CASE ~Resolves(config, readable)
    BY <2>2 DEF Start, IInv, TypeOK
  <2> QED
    BY <2>1, <2>2
<1>5. TypeOK'
  BY <1>1, <1>3, <1>4 DEF IInv, TypeOK, Phases
<1>6. ASSUME NEW c \in Calls
      PROVE  CallInv(c)'
  <2>1. calls[c] = Idle
    BY <1>1 DEF IInv, CallInv, TypeOK, Call
  <2> QED
    BY <1>1, <2>1 DEF CallInv, Idle
<1> QED
  BY <1>1, <1>2, <1>5, <1>6 DEF IInv

\* Opening, serving and watching change neither the server nor a call.
LEMMA UpInv ==
  ASSUME IInv, Listen \/ Serve \/ Cancel \/ Watch \/ Unwatch
  PROVE  IInv'
<1>1. /\ UNCHANGED <<config, server, calls>>
      /\ phase' \in Phases /\ cancelled' \in BOOLEAN /\ watched' \in BOOLEAN
      /\ cancelled => cancelled'
  BY DEF Listen, Serve, Cancel, Watch, Unwatch, IInv, TypeOK, Phases
<1>2. \/ phase' = phase
      \/ phase \in {"resolved", "listening"} /\ phase' \in {"listening", "failed", "serving"}
  BY DEF Listen, Serve, Cancel, Watch, Unwatch
<1>3. TypeOK'
  BY <1>1 DEF IInv, TypeOK
<1>4. ServerInv'
  BY <1>1, <1>2 DEF IInv, ServerInv
<1>5. ASSUME NEW c \in Calls
      PROVE  CallInv(c)'
  <2>1. CallInv(c)
    BY DEF IInv
  <2> QED
    BY <1>1, <1>2, <2>1, CallsKept DEF CallInv
<1> QED
  BY <1>1, <1>2, <1>3, <1>4, <1>5 DEF IInv, InFlight

LEMMA StopInv ==
  ASSUME IInv, GracefulStop \/ ServeReturns
  PROVE  IInv'
<1>1. UNCHANGED <<config, server, cancelled, watched, calls>>
  BY DEF GracefulStop, ServeReturns
<1>2. \/ /\ phase = "listening" /\ phase' = "stopped" /\ cancelled
      \/ /\ phase = "serving" /\ phase' = "draining" /\ cancelled
      \/ /\ phase \in {"stopped", "draining"} /\ phase' = "ended" /\ InFlight = {}
  BY DEF GracefulStop, ServeReturns
<1>3. TypeOK'
  BY <1>1, <1>2 DEF IInv, TypeOK, Phases
<1>4. ServerInv'
  BY <1>1, <1>2 DEF IInv, ServerInv
<1>5. ASSUME NEW c \in Calls
      PROVE  CallInv(c)'
  <2>1. CallInv(c)
    BY DEF IInv
  <2> QED
    BY <1>1, <1>2, <2>1, CallsKept DEF CallInv
<1>6. cancelled' /\ (phase' = "ended" => InFlight' = {})
  BY <1>1, <1>2 DEF IInv, InFlight
<1> QED
  BY <1>3, <1>4, <1>5, <1>6 DEF IInv

LEMMA ServeFailsInv ==
  ASSUME IInv, ServeFails
  PROVE  IInv'
<1>1. /\ UNCHANGED <<config, server, cancelled>>
      /\ phase = "serving" /\ phase' = "failed" /\ watched' = FALSE
  BY DEF ServeFails
<1>2. \A c \in Calls :
        calls'[c] = IF calls[c].pc \in {"calling", "failing"}
                      THEN [calls[c] EXCEPT !.pc = "dropped"] ELSE calls[c]
  BY DEF ServeFails, InFlight
<1>3. ASSUME NEW c \in Calls
      PROVE  calls'[c] \in Call
  <2>1. calls[c] \in Call
    BY DEF IInv, TypeOK
  <2>2. [calls[c] EXCEPT !.pc = "dropped"] \in Call
    BY <2>1 DEF Call
  <2> QED
    BY <1>2, <2>1, <2>2
<1>4. calls' \in [Calls -> Call]
  BY <1>3 DEF ServeFails
<1>5. TypeOK'
  BY <1>1, <1>4 DEF IInv, TypeOK, Phases
<1>6. ServerInv'
  BY <1>1 DEF IInv, ServerInv
<1>7. ASSUME NEW c \in Calls
      PROVE  CallInv(c)'
  <2>1. calls[c] \in Call /\ CallInv(c)
    BY DEF IInv, TypeOK
  <2>2. CASE calls[c].pc \notin {"calling", "failing"}
    BY <1>1, <1>2, <2>2, CallsKept
  <2>3. CASE calls[c].pc \in {"calling", "failing"}
    <3>1. /\ calls'[c].pc = "dropped" /\ calls'[c].request = calls[c].request
          /\ calls'[c].model = calls[c].model /\ calls'[c].target = calls[c].target
      BY <1>2, <2>1, <2>3 DEF Call
    <3>2. Addressed(calls[c])
      BY <2>1, <2>3 DEF CallInv
    <3>3. Addressed(calls[c])'
      BY <1>1, <3>1, <3>2 DEF Addressed, ModelOf, Trim, ClientFor
    <3> QED
      BY <1>1, <3>1, <3>3 DEF CallInv
  <2> QED
    BY <2>2, <2>3
<1> QED
  BY <1>1, <1>5, <1>6, <1>7 DEF IInv

----------------------------------------------------------------------------
(* Routing *)

\* A call that asked a backend asked the one of its model, or the only one.
LEMMA AskedWhom ==
  ASSUME IInv, NEW c \in Calls, Asked(c)
  PROVE  IF config.backends = <<>> THEN calls[c].target = SingleBackend(config)
         ELSE \E i \in DOMAIN config.backends :
                LET b == config.backends[i] IN
                /\ calls[c].target = [url |-> b.url, token |-> Credential(b)]
                /\ \A j \in DOMAIN config.backends :
                     Names(config.backends[j], calls[c].model) <=> i = j
<1> DEFINE call == calls[c]
<1>1. call.pc # "idle"
  BY DEF IInv, CallInv, Idle, Asked
<1>2. phase \notin {"loading", "refused"} /\ call.target = ClientFor(call.model)
  BY <1>1 DEF IInv, CallInv, Addressed, Asked
<1>3. config \in Config /\ server = Server(config)
  BY <1>2, InferenceServiceAssumption DEF IInv, TypeOK, ServerInv
<1>4. PICK readable \in SUBSET TokenFiles : Resolves(config, readable)
  BY <1>2 DEF IInv, ServerInv
<1>5. CASE config.backends = <<>>
  <2>1. DOMAIN config.backends = {}
    BY <1>5
  <2>2. DOMAIN Routes(config) = {}
    BY <2>1, RouteFrom
  <2>3. DOMAIN server.routes = {} /\ server.single = SingleBackend(config)
    BY <1>3, <1>5, <2>2 DEF Server
  <2> QED
    BY <1>2, <1>5, <2>3 DEF ClientFor
<1>6. CASE config.backends # <<>>
  <2>1. server.single = NoTarget /\ server.routes = Routes(config)
    BY <1>3, <1>6 DEF Server
  <2>2. call.model \in DOMAIN Routes(config) /\ call.target = Routes(config)[call.model]
    BY <1>2, <2>1 DEF ClientFor, Asked
  <2>3. PICK i \in DOMAIN config.backends : \E k \in DOMAIN config.backends[i].models :
          config.backends[i].models[k] = call.model
    BY <2>2, RouteFrom
  <2>4. PICK k \in DOMAIN config.backends[i].models :
          config.backends[i].models[k] = call.model
    BY <2>3
  <2> DEFINE b == config.backends[i]
  <2>5. /\ Routes(config)[b.models[k]] = [url |-> b.url, token |-> Credential(b)]
        /\ \A j \in DOMAIN config.backends :
             Names(config.backends[j], b.models[k]) <=> i = j
    BY <1>3, <1>4, <1>6, RouteOf DEF Resolves
  <2> QED
    BY <1>6, <2>2, <2>4, <2>5
<1> QED
  BY <1>5, <1>6

----------------------------------------------------------------------------
(* Theorems *)

LEMMA Inductive == Spec => []IInv
<1>1. Init => IInv
  <2> SUFFICES ASSUME Init
               PROVE  IInv
    OBVIOUS
  <2>1. NoTarget \in Target /\ Unresolved.model \in Written
    BY DEF NoTarget, Target, Unresolved, Written
  <2>2. DOMAIN server.routes = {}
    <3>1. server.routes = <<>>
      BY DEF Init, Unresolved
    <3> QED
      BY <3>1
  <2>3. Idle \in Call
    BY <2>1 DEF Idle, Call, Error, Reply, Statuses
  <2>4. TypeOK
    BY <2>1, <2>2, <2>3 DEF Init, TypeOK, Phases, Unresolved
  <2>5. \A c \in Calls : CallInv(c)
    BY DEF Init, CallInv, Idle
  <2> QED
    BY <2>4, <2>5 DEF Init, IInv, ServerInv
<1>2. IInv /\ [Next]_vars => IInv'
  <2> SUFFICES ASSUME IInv, [Next]_vars
               PROVE  IInv'
    OBVIOUS
  <2>1. CASE \E readable \in SUBSET TokenFiles : Start(readable)
    BY <2>1, StartInv
  <2>2. CASE Listen \/ Serve \/ Cancel \/ Watch \/ Unwatch
    BY <2>2, UpInv
  <2>3. CASE GracefulStop \/ ServeReturns
    BY <2>3, StopInv
  <2>4. CASE ServeFails
    BY <2>4, ServeFailsInv
  <2>5. CASE \E c \in Calls : CallStep(c)
    BY <2>5, CallStepInv
  <2>6. CASE UNCHANGED vars
    <3>1. /\ UNCHANGED <<config, server, calls, phase, cancelled, watched>>
      BY <2>6 DEF vars
    <3>2. \A c \in Calls : CallInv(c)'
      BY <3>1, CallsKept DEF IInv, CallInv
    <3> QED
      BY <3>1, <3>2 DEF IInv, TypeOK, ServerInv, InFlight
  <2> QED
    BY <2>1, <2>2, <2>3, <2>4, <2>5, <2>6 DEF Next, ServiceStep
<1> QED
  BY <1>1, <1>2, PTL DEF Spec

\* Every variable keeps its type, whatever the file, the callers and the backends say.
THEOREM TypeCorrect == Spec => []TypeOK
<1>1. IInv => TypeOK
  BY DEF IInv
<1> QED
  BY <1>1, Inductive, PTL

\* A reply conforms to its caller's schema, and says when it isn't what the backend wrote.
THEOREM RepliesConform == Spec => []ReplyConforms
<1>1. IInv => ReplyConforms
  BY DEF IInv, CallInv, ReplyConforms, Done
<1> QED
  BY <1>1, Inductive, PTL

\* Every status of a finished call names its reason, in any order of failure and giving up.
THEOREM StatusesExplained == Spec => []StatusExplained
<1>1. IInv => StatusExplained
  BY DEF IInv, CallInv, StatusExplained, Done
<1> QED
  BY <1>1, Inductive, PTL

\* A service that stops has answered every call; only a failure to accept cuts calls off.
THEOREM StopsGracefully == Spec => []NoCallCutOff
<1>1. IInv => NoCallCutOff
  BY DEF IInv, CallInv, NoCallCutOff
<1> QED
  BY <1>1, Inductive, PTL

\* No request takes a credential to a URL it wasn't written for.
THEOREM CredentialsStayHome == Spec => []CredentialStaysHome
<1>1. ASSUME IInv
      PROVE  CredentialStaysHome
  <2> SUFFICES ASSUME NEW c \in Calls, Asked(c)
               PROVE  LET own  == config.inference
                          sent == calls[c].target
                      IN  \/ \E i \in DOMAIN config.backends :
                               LET b == config.backends[i]
                               IN  sent.url = b.url /\ sent.token \in {b.token, b.file}
                          \/ /\ own.url # None /\ sent.url = own.url
                             /\ sent.token \in {own.token, own.file, None}
                          \/ /\ own.url = None /\ sent.url = Global(config).url
                             /\ sent.token \in {own.token, own.file, Global(config).token}
                                              \ {None}
                          \/ own.url = None /\ sent = Global(config)
    BY DEF CredentialStaysHome
  <2>1. CASE config.backends = <<>>
    <3>1. calls[c].target = SingleBackend(config)
      BY <1>1, <2>1, AskedWhom
    <3> QED
      BY <3>1 DEF SingleBackend, Credential, Global
  <2>2. CASE config.backends # <<>>
    <3>1. PICK i \in DOMAIN config.backends :
            calls[c].target = [url   |-> config.backends[i].url,
                               token |-> Credential(config.backends[i])]
      BY <1>1, <2>2, AskedWhom
    <3> QED
      BY <3>1 DEF Credential
  <2> QED
    BY <2>1, <2>2
<1> QED
  BY <1>1, Inductive, PTL

\* With backends of their own, a model's requests reach the one backend that names it.
THEOREM ModelsReachTheirBackends == Spec => []ModelReachesItsBackend
<1>1. ASSUME IInv
      PROVE  ModelReachesItsBackend
  <2> SUFFICES ASSUME config.backends # <<>>, NEW c \in Calls, Asked(c)
               PROVE  \E i \in DOMAIN config.backends :
                        /\ calls[c].target.url = config.backends[i].url
                        /\ \A j \in DOMAIN config.backends :
                             Names(config.backends[j], calls[c].model) <=> i = j
    BY DEF ModelReachesItsBackend
  <2>1. PICK i \in DOMAIN config.backends :
          LET b == config.backends[i] IN
          /\ calls[c].target = [url |-> b.url, token |-> Credential(b)]
          /\ \A j \in DOMAIN config.backends :
               Names(config.backends[j], calls[c].model) <=> i = j
    BY <1>1, AskedWhom
  <2> QED
    BY <2>1
<1> QED
  BY <1>1, Inductive, PTL

=============================================================================
