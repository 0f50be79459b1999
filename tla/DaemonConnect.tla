--------------------------- MODULE DaemonConnect ---------------------------
(***************************************************************************)
(* How CLI and MCP processes find the daemon, and how daemons take the     *)
(* Unix socket: Connect, startDaemon, waitForSocket and dialDaemon of      *)
(* internal/daemon/client.go against Run of internal/daemon/server.go.     *)
(* There is no lock: a daemon removes whatever file is at the socket path  *)
(* and binds it, a client that can't reach the daemon behind the path      *)
(* removes the file and starts another daemon.                             *)
(*                                                                         *)
(* The file system and the kernel's sockets are external.  A process that  *)
(* dies leaves its socket file behind: nothing in the code handles signals *)
(* or unlinks the path on exit.                                            *)
(*                                                                         *)
(* The specification is ConnectSpec, not Spec, so that one module of       *)
(* proofs extends this module and ReviewDaemon.                            *)
(***************************************************************************)
EXTENDS Integers, FiniteSets

CONSTANTS
  Clients,     \* processes that call Connect, once each
  Manual,      \* daemons a user may start by hand with "lm-review daemon"
  Old,         \* the daemon of an earlier session
  NoFile,      \* nothing is at the socket path
  Prompts,     \* whether the host is one that starts a daemon before timeouts fire
  MaxFaults    \* bound on the failures of one behaviour

ASSUME DaemonConnectAssumption ==
  /\ Clients \cap Manual = {}
  /\ Old \notin Clients \cup Manual
  /\ NoFile \notin Clients \cup Manual \cup {Old}
  /\ Prompts \subseteq BOOLEAN
  /\ MaxFaults \in Nat

\* A client starts at most one daemon, which goes by the client's name.
Daemons == Clients \cup Manual \cup {Old}

VARIABLES
  path,       \* the daemon that bound the file at the socket path, or NoFile
  daemon,     \* where Run of each daemon is
  client,     \* where Connect of each client is
  prompt,     \* daemons that start are ready before a client's timeout fires
  faults,     \* failures so far
  disturbed   \* whether a failure happened while the client was connecting

connectVars == <<path, daemon, client, prompt, faults, disturbed>>

\* off; starting: before os.Remove; loading: before config.Load and audit.New;
\* binding: before bind(2); bound: before listen(2); serving; dead.
DaemonPhases == {"off", "starting", "loading", "binding", "bound", "serving", "dead"}
Booting == {"starting", "loading", "binding", "bound"}

\* stat: before the first os.Stat; waiting: in waitForSocket; dialing: in dialDaemon;
\* removing: the dial failed, before os.Remove.
ClientPhases == {"stat", "waiting", "dialing", "removing", "connected", "failed"}
Connecting == {"waiting", "dialing", "removing"}

\* A connection to the path is accepted.
Live == path # NoFile /\ daemon[path] = "serving"
SomeBooting == \E d \in Daemons : daemon[d] \in Booting

\* A failure of the environment: a process dies, a config file can't be read, ...
Fault ==
  /\ faults < MaxFaults
  /\ faults' = faults + 1
  /\ disturbed' = [c \in Clients |-> disturbed[c] \/ client'[c] \in Connecting \cup {"failed"}]
NoFault == UNCHANGED <<faults, disturbed>>

ConnectInit ==
  /\ \/ path = NoFile /\ daemon = [d \in Daemons |-> "off"]
     \/ path = Old /\ \E phase \in {"serving", "dead"} :
                         daemon = [d \in Daemons |-> IF d = Old THEN phase ELSE "off"]
  /\ client = [c \in Clients |-> "stat"]
  /\ prompt \in Prompts
  /\ faults = 0
  /\ disturbed = [c \in Clients |-> FALSE]

----------------------------------------------------------------------------
(* Run of a daemon *)

\* Mutations: the definitions a run puts in place of the ones below.
\* A daemon that can't bind unlinks the path on its way out, whoever bound it.
MutUnlinkOnExit(d) ==
  /\ daemon[d] = "binding"
  /\ path' = IF path = NoFile THEN d ELSE NoFile
  /\ daemon' = [daemon EXCEPT ![d] = IF path = NoFile THEN "bound" ELSE "dead"]
  /\ UNCHANGED <<client, prompt>> /\ NoFault

\* waitForSocket polls without a deadline.
MutWaitForever(c) ==
  /\ client[c] = "waiting" /\ FALSE
  /\ UNCHANGED connectVars

\* Connect gives up on a stale socket.
MutNoRestart(c) ==
  /\ client[c] = "dialing"
  /\ prompt => ~Live /\ ~SomeBooting
  /\ client' = [client EXCEPT ![c] = "failed"]
  /\ UNCHANGED <<path, daemon, prompt>> /\ NoFault

\* os.Remove of the path, whoever bound it and whether or not it serves.
RemoveSocket(d) ==
  /\ daemon[d] = "starting"
  /\ path' = NoFile
  /\ daemon' = [daemon EXCEPT ![d] = "loading"]
  /\ UNCHANGED <<client, prompt>> /\ NoFault

\* config.Load and audit.New.
Load(d) ==
  /\ daemon[d] = "loading"
  /\ \/ daemon' = [daemon EXCEPT ![d] = "binding"] /\ UNCHANGED <<path, client, prompt>> /\ NoFault
     \/ daemon' = [daemon EXCEPT ![d] = "dead"] /\ UNCHANGED <<path, client, prompt>> /\ Fault

\* The bind of net.Listen fails when a file is at the path again; Run then returns.
Bind(d) ==
  /\ daemon[d] = "binding"
  /\ \/ /\ path = NoFile
        /\ path' = d
        /\ daemon' = [daemon EXCEPT ![d] = "bound"]
     \/ /\ path # NoFile
        /\ daemon' = [daemon EXCEPT ![d] = "dead"]
        /\ UNCHANGED path
  /\ UNCHANGED <<client, prompt>> /\ NoFault

Listen(d) ==
  /\ daemon[d] = "bound"
  /\ daemon' = [daemon EXCEPT ![d] = "serving"]
  /\ UNCHANGED <<path, client, prompt>> /\ NoFault

\* A daemon is killed; its socket file stays.
Die(d) ==
  /\ daemon[d] \in Booting \cup {"serving"}
  /\ daemon' = [daemon EXCEPT ![d] = "dead"]
  /\ UNCHANGED <<path, client, prompt>> /\ Fault

StartManually(d) ==
  /\ d \in Manual
  /\ daemon[d] = "off"
  /\ daemon' = [daemon EXCEPT ![d] = "starting"]
  /\ UNCHANGED <<path, client, prompt>> /\ NoFault

----------------------------------------------------------------------------
(* Connect of a client *)

\* startDaemon, then waitForSocket; the process may fail to start.
StartDaemon(c) ==
  \/ /\ daemon' = [daemon EXCEPT ![c] = "starting"]
     /\ client' = [client EXCEPT ![c] = "waiting"]
     /\ NoFault
  \/ /\ client' = [client EXCEPT ![c] = "failed"]
     /\ UNCHANGED daemon /\ Fault

StatSocket(c) ==
  /\ client[c] = "stat"
  /\ \/ path = NoFile /\ StartDaemon(c)
     \/ /\ path # NoFile
        /\ client' = [client EXCEPT ![c] = "dialing"]
        /\ UNCHANGED daemon /\ NoFault
  /\ UNCHANGED <<path, prompt>>

\* waitForSocket finds a file, whoever bound it.
SeeSocket(c) ==
  /\ client[c] = "waiting"
  /\ path # NoFile
  /\ client' = [client EXCEPT ![c] = "dialing"]
  /\ UNCHANGED <<path, daemon, prompt>> /\ NoFault

WaitTimeout(c) ==
  /\ client[c] = "waiting"
  /\ prompt => path = NoFile /\ ~SomeBooting
  /\ client' = [client EXCEPT ![c] = "failed"]
  /\ UNCHANGED <<path, daemon, prompt>> /\ NoFault

\* dialDaemon keeps retrying until the connection is ready.
DialReady(c) ==
  /\ client[c] = "dialing"
  /\ Live
  /\ client' = [client EXCEPT ![c] = "connected"]
  /\ UNCHANGED <<path, daemon, prompt>> /\ NoFault

\* The dial times out.  Only a client that has started no daemon may try again.
DialTimeout(c) ==
  /\ client[c] = "dialing"
  /\ prompt => ~Live /\ ~SomeBooting
  /\ client' = [client EXCEPT ![c] = IF daemon[c] = "off" THEN "removing" ELSE "failed"]
  /\ UNCHANGED <<path, daemon, prompt>> /\ NoFault

\* os.Remove of the path, found dead a while ago, and startDaemon.  Removing fails
\* for reasons of the file system alone: a missing file is no error.
RestartDaemon(c) ==
  /\ client[c] = "removing"
  /\ \/ path' = NoFile /\ StartDaemon(c)
     \/ /\ client' = [client EXCEPT ![c] = "failed"]
        /\ UNCHANGED <<path, daemon>> /\ Fault
  /\ UNCHANGED prompt

----------------------------------------------------------------------------
Boot(d)    == RemoveSocket(d) \/ Load(d) \/ Bind(d) \/ Listen(d)
Connect(c) == StatSocket(c) \/ SeeSocket(c) \/ WaitTimeout(c) \/ DialReady(c)
                \/ DialTimeout(c) \/ RestartDaemon(c)

ConnectNext ==
  \/ \E d \in Daemons : Boot(d) \/ Die(d) \/ StartManually(d)
  \/ \E c \in Clients : Connect(c)

\* Every process is scheduled and every wait has a timeout.  Nobody has to die, nor
\* to start a daemon by hand.
ConnectFairness ==
  /\ \A d \in Daemons : WF_connectVars(Boot(d))
  /\ \A c \in Clients : WF_connectVars(Connect(c))

ConnectSpec == ConnectInit /\ [][ConnectNext]_connectVars
FairConnectSpec == ConnectSpec /\ ConnectFairness

----------------------------------------------------------------------------
\* Every variable has its type, and the file at the path was bound by a daemon that
\* got as far as binding it.
ConnectTypeOK ==
  /\ path \in Daemons \cup {NoFile}
  /\ path # NoFile => daemon[path] \in {"bound", "serving", "dead"}
  /\ daemon \in [Daemons -> DaemonPhases]
  /\ client \in [Clients -> ClientPhases]
  /\ prompt \in BOOLEAN
  /\ faults \in 0..MaxFaults
  /\ disturbed \in [Clients -> BOOLEAN]

\* On a host that starts a daemon before the timeouts fire, Connect fails only if
\* something failed while it was connecting: clients and daemons that remove each
\* other's sockets never make one another fail.
FailureExplained ==
  \A c \in Clients : prompt /\ client[c] = "failed" => disturbed[c]

\* Every Connect ends, connected or with an error.
ConnectEnds ==
  \A c \in Clients : <>(client[c] \in {"connected", "failed"})

\* Whoever removes a socket makes room for a successor: when nobody can be reached
\* at the path and a daemon is starting, some daemon is reachable later, unless
\* something fails.  The one that finds the path taken again may give up.
SocketReplaced ==
  ~Live /\ SomeBooting ~> Live \/ faults > 0

\* What the package comment says of the daemon: it is the single point of contact.
OneDaemonServes ==
  Cardinality({d \in Daemons : daemon[d] = "serving"}) <= 1

=============================================================================
