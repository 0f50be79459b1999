--------------------------- MODULE ServiceHandoff ---------------------------
(***************************************************************************)
(* A deployment of the inference service: the steps of deploy-inference in *)
(* the Makefile, scripts/inference-service-check.sh and Check of           *)
(* internal/inferenceservicecheck/check.go, against the supervised service *)
(* of packaging/, its supervisor and other processes that want the same    *)
(* address.  The check reads a PID, a kernel table and a process's file    *)
(* descriptors one after the other, while all of them change.              *)
(*                                                                         *)
(* The supervisor (systemd, launchd), the kernel and other processes are   *)
(* external.  Ownership is read from /proc, as on Linux.  A number names   *)
(* an instance of the service, its PID and its listening socket.           *)
(***************************************************************************)
EXTENDS Integers

CONSTANTS
  MaxStarts,     \* starts of the service after which the supervisor gives up
  MaxAttempts,   \* MAX_ATTEMPTS of the script, 20
  Others,        \* processes that are not the service
  Wildcards,     \* those of them that listen on every address of the port
  Inferences,    \* those of them that answer health checks with SERVING
  Free,          \* nobody listens
  Probe,         \* the deployment's own bind probe
  Prompts,       \* whether the host is fast against the delays of script and supervisor
  MaxFaults      \* bound on crashes and timeouts of one behaviour

NoPid == 0
Instances == 1..MaxStarts

ASSUME ServiceHandoffAssumption ==
  /\ MaxStarts \in Nat /\ MaxStarts >= 3
  /\ MaxAttempts \in Nat \ {0}
  /\ Wildcards \subseteq Others /\ Inferences \subseteq Others
  /\ Free \notin Others \cup {Probe} \cup Nat
  /\ Probe \notin Others \cup Nat
  /\ Others \cap Nat = {}
  /\ Prompts \subseteq BOOLEAN
  /\ MaxFaults \in Nat

VARIABLES
  step,        \* where the deployment is
  attempt,     \* 0 during preflight, then the attempt of the post-restart check
  expected,    \* the PID the supervisor reported last, or NoPid
  table,       \* the listener the kernel's table showed, or Free
  answered,    \* who answered the health check, or Free
  installed,   \* the new binary is in place
  active,      \* the supervisor is to keep the service running
  main,        \* the supervisor's instance, or NoPid
  starts,      \* instances started so far
  phase,       \* where each instance is
  new,         \* the instances that run the new binary
  listener,    \* who listens on the configured address, or on its port
  prompt,
  faults,      \* crashes and timeouts so far
  disturbed,   \* somebody else listened, or there was a fault
  foreign      \* the process that has listened since before the deployment, or Free

deployment == <<step, attempt, expected, table, answered, installed>>
service    == <<active, main, starts, phase, new>>
world      == <<faults, disturbed, foreign>>
vars       == <<deployment, service, listener, prompt, world>>

\* install, pid to unprobe: preflight until the probe; table to health: Check;
\* register, stop, start: service-install and service-restart.
Steps == {"install", "pid", "probe", "unprobe", "table", "owners", "health",
          "register", "stop", "start", "deployed", "failed"}

\* starting: before its bind; refused: the bind failed; gone: ended otherwise.
InstancePhases == {"unborn", "starting", "listening", "refused", "gone"}

Over    == step \in {"deployed", "failed"}
Serving == main # NoPid /\ phase[main] = "listening"

\* The service is on its way up, or the supervisor will start it again.
Settling == /\ active
            /\ IF main = NoPid THEN starts < MaxStarts ELSE phase[main] = "starting"

NoFault == UNCHANGED world
Fault   == /\ faults < MaxFaults
           /\ faults' = faults + 1
           /\ disturbed' = TRUE
           /\ UNCHANGED foreign

\* An instance ends, and what it listened on with it.
End(how) ==
  /\ phase' = [phase EXCEPT ![main] = how]
  /\ main' = NoPid
  /\ listener' = IF listener = main THEN Free ELSE listener

\* The supervisor starts the binary that is in place.
Fork ==
  /\ starts < MaxStarts
  /\ starts' = starts + 1
  /\ main' = starts + 1
  /\ phase' = [phase EXCEPT ![starts + 1] = "starting"]
  /\ new' = IF installed THEN new \cup {starts + 1} ELSE new

\* The service is unknown to the supervisor, or runs, or waits to be started again.
Init ==
  /\ step = "install" /\ attempt = 0 /\ expected = NoPid
  /\ table = Free /\ answered = Free /\ installed = FALSE
  /\ new = {} /\ faults = 0 /\ prompt \in Prompts
  /\ active \in BOOLEAN
  /\ starts = IF active THEN 1 ELSE 0
  /\ \E first \in {"starting", "listening", "refused", "gone"} :
       phase = [i \in Instances |-> IF i <= starts THEN first ELSE "unborn"]
  /\ main = IF active /\ phase[1] \in {"starting", "listening"} THEN 1 ELSE NoPid
  /\ IF Serving THEN listener = main ELSE listener \in Others \cup {Free}
  /\ disturbed = (listener \in Others \/ (active /\ main = NoPid))
  /\ foreign = IF listener \in Others THEN listener ELSE Free

----------------------------------------------------------------------------
(* The service and the rest of the host *)

\* Mutation of Respawn: an instance that exits with an error is not started again.
MutRespawn ==
  /\ active /\ main = NoPid /\ step # "start"
  /\ starts > 0 => phase[starts] # "refused"
  /\ Fork
  /\ UNCHANGED <<deployment, active, listener, prompt>> /\ NoFault

\* Restart=always of the unit and KeepAlive of the agent, after RestartSec, which on a
\* prompt host is longer than the probe's life.  Between the two halves of a restart that
\* was asked for, the supervisor starts nothing.
Respawn ==
  /\ active /\ main = NoPid /\ step # "start"
  /\ prompt => listener # Probe
  /\ Fork
  /\ UNCHANGED <<deployment, active, listener, prompt>> /\ NoFault

\* Serve: an instance whose bind fails exits with an error.
Bind ==
  /\ main # NoPid /\ phase[main] = "starting"
  /\ \/ /\ listener = Free
        /\ listener' = main
        /\ phase' = [phase EXCEPT ![main] = "listening"]
        /\ UNCHANGED main
     \/ /\ listener # Free
        /\ End("refused")
  /\ UNCHANGED <<deployment, active, starts, new, prompt>> /\ NoFault

\* An instance dies, or can't load its configuration.
Crash ==
  /\ main # NoPid
  /\ End("gone")
  /\ UNCHANGED <<deployment, active, starts, new, prompt>> /\ Fault

OtherBinds(o) ==
  /\ listener = Free
  /\ listener' = o
  /\ disturbed' = TRUE
  /\ UNCHANGED <<deployment, service, prompt, faults, foreign>>

OtherLeaves(o) ==
  /\ listener = o
  /\ listener' = Free
  /\ foreign' = Free
  /\ UNCHANGED <<deployment, service, prompt, faults, disturbed>>

----------------------------------------------------------------------------
(* Check, in both phases *)

\* Mutation of CheckFails: one attempt is all there is.
MutNoRetry == step' = "failed" /\ UNCHANGED attempt

\* Mutation of CheckFails: attempts are not counted.
MutRetryForever ==
  /\ step' = IF attempt > 0 THEN "pid" ELSE "failed"
  /\ UNCHANGED attempt

\* A check that fails ends a preflight; after the restart it is repeated, MaxAttempts
\* times and then once more for the exit status.
CheckFails ==
  IF attempt \in 1..MaxAttempts
    THEN step' = "pid" /\ attempt' = attempt + 1
    ELSE step' = "failed" /\ UNCHANGED attempt

\* The install target of the build, then preflight.
Install ==
  /\ step = "install"
  /\ step' = "pid"
  /\ installed' = TRUE
  /\ UNCHANGED <<attempt, expected, table, answered>>
  /\ UNCHANGED <<service, listener, prompt>> /\ NoFault

\* service_pid of the script.  Preflight goes on without a PID; after the restart an
\* attempt without one fails.  On a prompt host the service is up by the last attempt.
ReadPid ==
  /\ step = "pid"
  /\ prompt /\ attempt > MaxAttempts => ~Settling
  /\ expected' = main
  /\ \/ attempt = 0 /\ step' = "probe" /\ UNCHANGED attempt
     \/ attempt > 0 /\ main # NoPid /\ step' = "table" /\ UNCHANGED attempt
     \/ attempt > 0 /\ main = NoPid /\ CheckFails
  /\ UNCHANGED <<table, answered, installed, service, listener, prompt>> /\ NoFault

\* Mutation of ProbeBind: an address in use is taken for the service's.
MutProbeBind ==
  /\ step = "probe"
  /\ \/ /\ listener = Free
        /\ listener' = Probe /\ step' = "unprobe"
     \/ /\ listener # Free
        /\ step' = "register"
        /\ UNCHANGED listener
  /\ UNCHANGED <<attempt, expected, table, answered, installed, service, prompt>> /\ NoFault

\* probeBind succeeds on a free address.  Otherwise only a service that has a PID can
\* be the reason.
ProbeBind ==
  /\ step = "probe"
  /\ \/ /\ listener = Free
        /\ listener' = Probe /\ step' = "unprobe"
        /\ UNCHANGED attempt
     \/ /\ listener # Free /\ expected # NoPid
        /\ step' = "table"
        /\ UNCHANGED <<attempt, listener>>
     \/ /\ listener # Free /\ expected = NoPid
        /\ CheckFails
        /\ UNCHANGED listener
  /\ UNCHANGED <<expected, table, answered, installed, service, prompt>> /\ NoFault

\* The probe is closed and preflight has passed.
CloseProbe ==
  /\ step = "unprobe"
  /\ listener' = Free
  /\ step' = "register"
  /\ UNCHANGED <<attempt, expected, table, answered, installed>>
  /\ UNCHANGED <<service, prompt>> /\ NoFault

\* readProcTCPTable: a listener on the configured address itself; those on all
\* addresses are not listed.
Listed == IF listener \in Wildcards THEN Free ELSE listener

\* readListenerPIDs: nothing in the table means no owner, which fails either phase.
ReadTable ==
  /\ step = "table"
  /\ table' = Listed
  /\ \/ Listed # Free /\ step' = "owners" /\ UNCHANGED attempt
     \/ Listed = Free /\ CheckFails
  /\ UNCHANGED <<expected, answered, installed, service, listener, prompt>> /\ NoFault

\* Mutation of Owned: any owner will do.
MutOwned == table # Free

\* readProcSocketOwners: the expected process has the socket of the table open.
Owned == table = expected /\ listener = expected

\* The comparison of the owners with the PID.  A socket that is gone has no owner, one
\* of another process a wrong one: both are errors.
CompareOwners ==
  /\ step = "owners"
  /\ \/ Owned /\ attempt = 0 /\ step' = "register" /\ UNCHANGED attempt
     \/ Owned /\ attempt > 0 /\ step' = "health" /\ UNCHANGED attempt
     \/ ~Owned /\ CheckFails
  /\ UNCHANGED <<expected, table, answered, installed, service, listener, prompt>> /\ NoFault

\* A process that answers SERVING listens: it need not be the one that was checked.
Healthy == listener \in Inferences \/ (Serving /\ listener = main)

\* readHealth, the end of a successful check.
CheckHealth ==
  /\ step = "health"
  /\ \/ /\ Healthy
        /\ answered' = listener /\ step' = "deployed"
        /\ UNCHANGED attempt
     \/ /\ ~Healthy
        /\ CheckFails
        /\ UNCHANGED answered
  /\ UNCHANGED <<expected, table, installed, service, listener, prompt>> /\ NoFault

\* The check's deadline of two seconds passes.
CheckTimeout ==
  /\ step \in {"table", "owners", "health"}
  /\ CheckFails
  /\ UNCHANGED <<expected, table, answered, installed, service, listener, prompt>> /\ Fault

----------------------------------------------------------------------------
(* The targets between the checks *)

\* service-install: the supervisor knows the unit, and may start it at once.
Register ==
  /\ step = "register"
  /\ step' = "stop"
  /\ active' \in {active, TRUE}
  /\ UNCHANGED <<attempt, expected, table, answered, installed>>
  /\ UNCHANGED <<main, starts, phase, new, listener, prompt>> /\ NoFault

\* service-restart waits for the end of the instance that runs ...
StopService ==
  /\ step = "stop"
  /\ step' = "start"
  /\ active' = TRUE
  /\ \/ main # NoPid /\ End("gone")
     \/ main = NoPid /\ UNCHANGED <<main, phase, listener>>
  /\ UNCHANGED <<attempt, expected, table, answered, installed, starts, new, prompt>> /\ NoFault

\* ... and starts the next one, unless there were too many starts.
StartService ==
  /\ step = "start"
  /\ \/ Fork /\ step' = "pid" /\ attempt' = 1
     \/ /\ starts = MaxStarts
        /\ step' = "failed"
        /\ UNCHANGED <<attempt, main, starts, phase, new>>
  /\ UNCHANGED <<expected, table, answered, installed, active, listener, prompt>> /\ NoFault

----------------------------------------------------------------------------
Check  == ReadPid \/ ProbeBind \/ CloseProbe \/ ReadTable \/ CompareOwners \/ CheckHealth
Deploy == Install \/ Check \/ Register \/ StopService \/ StartService

Next == \/ Deploy \/ CheckTimeout
        \/ Respawn \/ Bind \/ Crash
        \/ \E o \in Others : OtherBinds(o) \/ OtherLeaves(o)

\* The deployment, the supervisor and the service's start are scheduled; nobody has to
\* crash or to take the address.
Fairness == WF_vars(Deploy) /\ WF_vars(Respawn) /\ WF_vars(Bind)

Spec     == Init /\ [][Next]_vars
FairSpec == Spec /\ Fairness

----------------------------------------------------------------------------
\* Every variable has its type, the supervisor's instance is the last one started and
\* the only one that lives, and it alone of all instances can listen.
TypeOK ==
  /\ step \in Steps /\ attempt \in 0..(MaxAttempts + 1)
  /\ expected \in Instances \cup {NoPid}
  /\ {table, answered} \subseteq Instances \cup Others \cup {Free}
  /\ {installed, active, prompt, disturbed} \subseteq BOOLEAN
  /\ main \in {NoPid, starts} /\ starts \in 0..MaxStarts
  /\ phase \in [Instances -> InstancePhases] /\ new \subseteq Instances
  /\ \A i \in Instances : i = main <=> phase[i] \in {"starting", "listening"}
  /\ listener \in Instances \cup Others \cup {Free, Probe}
  /\ \A i \in Instances : listener = i <=> phase[i] = "listening"
  /\ listener = Probe <=> step = "unprobe"
  /\ faults \in 0..MaxFaults /\ foreign \in Others \cup {Free}

\* A deployment that reports success has replaced the service: the PID it reports is an
\* instance of the new binary that did listen on the configured address, and unless
\* something went wrong meanwhile it is the one that serves.
SuccessMeansReplaced ==
  step = "deployed" =>
    /\ expected \in new
    /\ phase[expected] \in {"listening", "gone"}
    /\ ~disturbed => Serving /\ main = expected /\ answered = expected

\* A process that has listened on the port since before the deployment stops it before
\* the running service is touched, on whatever address of the port it listens.
ForeignListenerBlocks ==
  foreign # Free => step \notin {"register", "stop", "start", "deployed"} /\ attempt = 0

\* On a prompt host a deployment fails only if something went wrong: neither its own
\* probe, nor the restart it asks for, nor a service that is still starting makes it fail.
FailureHasCause == prompt /\ step = "failed" => disturbed

\* A deployment ends.
DeploymentEnds == <>Over

\* A service that is to run comes up, whatever ended its last instance and wherever the
\* deployment stopped: a crash, the deployment's probe or a process that has left since.
\* Only a process that still listens, or too many starts, keep it down.
ServiceComesUp == active ~> Serving \/ listener \in Others \/ starts = MaxStarts

=============================================================================
