------------------------ MODULE ServiceHandoffProofs ------------------------
(***************************************************************************)
(* Proofs about ServiceHandoff for any number of starts, attempts, faults  *)
(* and other processes.                                                    *)
(***************************************************************************)
EXTENDS ServiceHandoff, TLAPS

----------------------------------------------------------------------------
(* Types *)

\* With the types, what the phases of a deployment share: attempts are counted after the
\* restart only, and nothing of the service is left between its two halves.
TypeInv ==
  /\ TypeOK
  /\ step = "start" => main = NoPid
  /\ step \in {"install", "probe", "unprobe", "register", "stop", "start"} => attempt = 0
  /\ step \in {"health", "deployed"} => attempt > 0
  /\ step # "install" => installed
  /\ \A i \in Instances : i > starts => phase[i] = "unborn"

\* A listener of old is still there, and the deployment has got no further than preflight.
ForeignInv ==
  foreign # Free =>
    /\ listener = foreign
    /\ attempt = 0
    /\ step \in {"install", "pid", "probe", "table", "owners", "failed"}

\* After the restart the supervisor runs instances of the new binary alone; the one that
\* was found to own the listener has listened, and still does if nothing went wrong.
SuccessInv ==
  /\ attempt > 0 => main \in new \cup {NoPid}
  /\ attempt > 0 /\ step \in {"table", "owners", "health", "deployed"} => expected \in new
  /\ step \in {"health", "deployed"} =>
       /\ phase[expected] \in {"listening", "gone"}
       /\ ~disturbed => listener = expected /\ main = expected
  /\ step = "deployed" /\ ~disturbed => answered = expected

\* While nothing goes wrong: whoever listens is the probe or the service; the service is
\* missing only where the deployment has made it so; it is started at most three times;
\* and it listens from the last attempt's ReadPid on.
CalmInv ==
  prompt /\ ~disturbed =>
    /\ step # "failed"
    /\ listener \notin Others
    /\ attempt = 0 /\ step \in {"install", "pid", "probe", "table", "owners"} =>
         starts <= 1 /\ (main = NoPid => ~active)
    /\ attempt = 0 /\ step \in {"probe", "table", "owners"} => expected = main
    /\ step = "unprobe" => starts <= 1
    /\ step \in {"register", "stop"} => starts <= 2 /\ (main = NoPid => starts <= 1)
    /\ step = "start" => starts <= 2 /\ active
    /\ attempt > 0 => active /\ main # NoPid
    /\ attempt \notin 1..MaxAttempts /\ step \in {"table", "owners", "health"} =>
         listener = main /\ expected = main /\ main # NoPid
    /\ attempt \notin 1..MaxAttempts /\ step = "owners" => table = expected

\* The first state is of its type.
LEMMA TypeAtStart == Init => TypeInv
<1> SUFFICES ASSUME Init
             PROVE  TypeInv
  OBVIOUS
<1>1. 1 \in Instances
  BY ServiceHandoffAssumption DEF Instances
<1>2. starts \in 0..1 /\ starts <= MaxStarts
  BY ServiceHandoffAssumption DEF Init
<1>3. PICK first \in {"starting", "listening", "refused", "gone"} :
        phase = [i \in Instances |-> IF i <= starts THEN first ELSE "unborn"]
  BY DEF Init
<1>4. phase \in [Instances -> InstancePhases]
  BY <1>3 DEF InstancePhases
<1>5. \A i \in Instances : i <= starts <=> starts = 1 /\ i = 1
  BY <1>2 DEF Instances
<1>6. \A i \in Instances : i > starts => phase[i] = "unborn"
  BY <1>2, <1>3 DEF Instances
<1>7. main \in {NoPid, starts} /\ (starts = 1 <=> active)
  BY DEF Init
<1>8. \A i \in Instances : i = main <=> phase[i] \in {"starting", "listening"}
  BY <1>1, <1>3, <1>5, <1>7 DEF Init, Instances, NoPid
<1>9. /\ listener \in Instances \cup Others \cup {Free, Probe}
      /\ \A i \in Instances : listener = i <=> phase[i] = "listening"
  BY <1>1, <1>3, <1>5, <1>7, <1>8, ServiceHandoffAssumption DEF Init, Serving, Instances, NoPid
<1>10. listener # Probe
  BY <1>7, <1>1, ServiceHandoffAssumption DEF Init, Serving, Instances, NoPid
<1>11. foreign \in Others \cup {Free}
  BY DEF Init
<1>12. /\ step = "install" /\ attempt = 0 /\ expected = NoPid /\ table = Free /\ answered = Free
       /\ installed = FALSE /\ new = {} /\ faults = 0 /\ active \in BOOLEAN
       /\ prompt \in BOOLEAN /\ disturbed \in BOOLEAN
  BY ServiceHandoffAssumption DEF Init
<1>13. TypeOK
  <2>1. step \in Steps /\ attempt \in 0..(MaxAttempts + 1) /\ faults \in 0..MaxFaults
    BY <1>12, ServiceHandoffAssumption DEF Steps
  <2>2. expected \in Instances \cup {NoPid} /\ new \subseteq Instances
    BY <1>12
  <2>3. {table, answered} \subseteq Instances \cup Others \cup {Free}
    BY <1>12
  <2>4. {installed, active, prompt, disturbed} \subseteq BOOLEAN
    BY <1>12
  <2>5. starts \in 0..MaxStarts
    BY <1>2, ServiceHandoffAssumption
  <2>6. listener = Probe <=> step = "unprobe"
    BY <1>10, <1>12
  <2>7. QED
    BY <1>4, <1>7, <1>8, <1>9, <1>11, <2>1, <2>2, <2>3, <2>4, <2>5, <2>6 DEF TypeOK
<1>14. QED
  BY <1>6, <1>12, <1>13 DEF TypeInv

\* A step keeps the types and what the phases share.
LEMMA TypeStep == TypeInv /\ [Next]_vars => TypeInv'
<1> SUFFICES ASSUME TypeInv, [Next]_vars
             PROVE  TypeInv'
  OBVIOUS
<1> USE ServiceHandoffAssumption
        DEF TypeInv, TypeOK, Steps, InstancePhases, Instances, NoPid, deployment, service, world,
            NoFault, Fault
<1>1. CASE Install
  BY <1>1 DEF Install
<1>2. CASE ReadPid
  BY <1>2 DEF ReadPid, CheckFails
<1>3. CASE ProbeBind
  BY <1>3 DEF ProbeBind, CheckFails
<1>4. CASE CloseProbe
  BY <1>4 DEF CloseProbe
<1>5. CASE ReadTable
  BY <1>5 DEF ReadTable, CheckFails, Listed
<1>6. CASE CompareOwners
  BY <1>6 DEF CompareOwners, CheckFails
<1>7. CASE CheckHealth
  BY <1>7 DEF CheckHealth, CheckFails, Healthy, Serving
<1>8. CASE Register
  BY <1>8 DEF Register
<1>9. CASE StopService
  BY <1>9 DEF StopService, End
<1>10. CASE StartService
  <2>1. main = NoPid /\ attempt = 0 /\ installed
    BY <1>10 DEF StartService
  <2>2. CASE Fork /\ step' = "pid" /\ attempt' = 1
    <3>1. /\ starts' = starts + 1 /\ starts' \in Instances /\ main' = starts'
          /\ phase' = [phase EXCEPT ![starts'] = "starting"]
          /\ new' = new \cup {starts'}
      BY <2>1, <2>2 DEF Fork
    <3>2. UNCHANGED <<expected, table, answered, installed, active, listener, prompt, world>>
      BY <1>10 DEF StartService
    <3>3. phase[starts'] = "unborn"
      BY <3>1
    <3>4. QED
      BY <1>10, <2>1, <2>2, <3>1, <3>2, <3>3 DEF StartService
  <2>3. CASE ~(Fork /\ step' = "pid" /\ attempt' = 1)
    BY <1>10, <2>3 DEF StartService
  <2>4. QED
    BY <2>2, <2>3
<1>11. CASE CheckTimeout
  BY <1>11 DEF CheckTimeout, CheckFails
<1>12. CASE Respawn
  BY <1>12 DEF Respawn, Fork
<1>13. CASE Bind
  BY <1>13 DEF Bind, End
<1>14. CASE Crash
  BY <1>14 DEF Crash, End
<1>15. ASSUME NEW o \in Others, OtherBinds(o)
       PROVE  TypeInv'
  <2>1. /\ UNCHANGED <<deployment, service, prompt, faults, foreign>>
        /\ listener = Free /\ listener' = o /\ disturbed' = TRUE
    BY <1>15 DEF OtherBinds
  <2>2. \A i \in Instances : listener' # i /\ phase[i] # "listening"
    BY <2>1
  <2>3. QED
    BY <2>1, <2>2
<1>16. ASSUME NEW o \in Others, OtherLeaves(o)
       PROVE  TypeInv'
  <2>1. /\ UNCHANGED <<deployment, service, prompt, faults, disturbed>>
        /\ listener = o /\ listener' = Free /\ foreign' = Free
    BY <1>16 DEF OtherLeaves
  <2>2. \A i \in Instances : listener' # i /\ phase[i] # "listening"
    BY <2>1
  <2>3. QED
    BY <2>1, <2>2
<1>17. CASE UNCHANGED vars
  BY <1>17 DEF vars
<1>18. QED
  BY <1>1, <1>2, <1>3, <1>4, <1>5, <1>6, <1>7, <1>8, <1>9, <1>10, <1>11, <1>12, <1>13, <1>14, <1>15, <1>16, <1>17 DEF Next, Deploy, Check

\* Types, and that only the supervisor's last instance can live and listen.
THEOREM TypeCorrect == Spec => []TypeOK
<1>1. TypeInv => TypeOK
  BY DEF TypeInv
<1>2. QED
  BY <1>1, TypeAtStart, TypeStep, PTL DEF Spec

----------------------------------------------------------------------------
(* Other listeners *)

LEMMA ForeignStep == TypeInv /\ ForeignInv /\ [Next]_vars => ForeignInv'
<1> SUFFICES ASSUME TypeInv, ForeignInv, [Next]_vars, foreign' # Free
             PROVE  ForeignInv'
  BY DEF ForeignInv
<1>1. /\ expected \in Nat /\ main \in Nat /\ foreign \in Others \cup {Free}
      /\ listener = Probe <=> step = "unprobe"
  BY ServiceHandoffAssumption DEF TypeInv, TypeOK, Instances, NoPid
<1> USE <1>1, ServiceHandoffAssumption
        DEF ForeignInv, Instances, NoPid, deployment, service, world, NoFault, Fault
<1>2. CASE Install
  BY <1>2 DEF Install
<1>3. CASE ReadPid
  BY <1>3 DEF ReadPid, CheckFails
<1>4. CASE ProbeBind
  BY <1>4 DEF ProbeBind, CheckFails
<1>5. CASE CloseProbe
  BY <1>5 DEF CloseProbe
<1>6. CASE ReadTable
  BY <1>6 DEF ReadTable, CheckFails, Listed
<1>7. CASE CompareOwners
  BY <1>7 DEF CompareOwners, CheckFails, Owned
<1>8. CASE CheckHealth
  BY <1>8 DEF CheckHealth, CheckFails
<1>9. CASE Register
  BY <1>9 DEF Register
<1>10. CASE StopService
  BY <1>10 DEF StopService, End
<1>11. CASE StartService
  BY <1>11 DEF StartService, Fork
<1>12. CASE CheckTimeout
  BY <1>12 DEF CheckTimeout, CheckFails
<1>13. CASE Respawn
  BY <1>13 DEF Respawn, Fork
<1>14. CASE Bind
  BY <1>14 DEF Bind, End
<1>15. CASE Crash
  BY <1>15 DEF Crash, End
<1>16. ASSUME NEW o \in Others, OtherBinds(o)
       PROVE  ForeignInv'
  BY <1>16 DEF OtherBinds
<1>17. ASSUME NEW o \in Others, OtherLeaves(o)
       PROVE  ForeignInv'
  BY <1>17 DEF OtherLeaves
<1>18. CASE UNCHANGED vars
  BY <1>18 DEF vars
<1>19. QED
  BY <1>2, <1>3, <1>4, <1>5, <1>6, <1>7, <1>8, <1>9, <1>10, <1>11, <1>12, <1>13, <1>14, <1>15, <1>16, <1>17, <1>18 DEF Next, Deploy, Check

\* No deployment gets past preflight, nor is the service touched by it, while a process
\* listens that did so before: for any such process and any address it listens on.
THEOREM ForeignBlocks == Spec => []ForeignListenerBlocks
<1>1. Init => ForeignInv
  BY ServiceHandoffAssumption DEF Init, ForeignInv
<1>2. ForeignInv => ForeignListenerBlocks
  BY DEF ForeignInv, ForeignListenerBlocks
<1>3. QED
  BY <1>1, <1>2, TypeAtStart, TypeStep, ForeignStep, PTL DEF Spec

----------------------------------------------------------------------------
(* What success means *)

LEMMA SuccessStep == TypeInv /\ SuccessInv /\ [Next]_vars => SuccessInv'
<1> SUFFICES ASSUME TypeInv, SuccessInv, [Next]_vars
             PROVE  SuccessInv'
  OBVIOUS
<1>1. TypeOK
  BY DEF TypeInv, TypeOK
<1> USE <1>1, ServiceHandoffAssumption
        DEF TypeInv, TypeOK, SuccessInv, Instances, NoPid, deployment, service, world, NoFault, Fault
<1>2. CASE Install
  BY <1>2 DEF Install
<1>3. CASE ReadPid
  BY <1>3 DEF ReadPid, CheckFails
<1>4. CASE ProbeBind
  BY <1>4 DEF ProbeBind, CheckFails
<1>5. CASE CloseProbe
  BY <1>5 DEF CloseProbe
<1>6. CASE ReadTable
  BY <1>6 DEF ReadTable, CheckFails, Listed
<1>7. CASE CompareOwners
  BY <1>7 DEF CompareOwners, CheckFails, Owned
<1>8. CASE CheckHealth
  BY <1>8 DEF CheckHealth, CheckFails
<1>9. CASE Register
  BY <1>9 DEF Register
<1>10. CASE StopService
  BY <1>10 DEF StopService, End
<1>11. CASE StartService
  BY <1>11 DEF StartService, Fork
<1>12. CASE CheckTimeout
  BY <1>12 DEF CheckTimeout, CheckFails
<1>13. CASE Respawn
  BY <1>13 DEF Respawn, Fork
<1>14. CASE Bind
  BY <1>14 DEF Bind, End
<1>15. CASE Crash
  BY <1>15 DEF Crash, End
<1>16. ASSUME NEW o \in Others, OtherBinds(o)
       PROVE  SuccessInv'
  BY <1>16 DEF OtherBinds
<1>17. ASSUME NEW o \in Others, OtherLeaves(o)
       PROVE  SuccessInv'
  BY <1>17 DEF OtherLeaves
<1>18. CASE UNCHANGED vars
  BY <1>18 DEF vars
<1>19. QED
  BY <1>2, <1>3, <1>4, <1>5, <1>6, <1>7, <1>8, <1>9, <1>10, <1>11, <1>12, <1>13, <1>14, <1>15, <1>16, <1>17, <1>18 DEF Next, Deploy, Check

\* A deployment that reports success has replaced the service, for any number of starts,
\* attempts and disturbances.
THEOREM SuccessReplaced == Spec => []SuccessMeansReplaced
<1>1. Init => SuccessInv
  BY DEF Init, SuccessInv
<1>2. TypeInv /\ SuccessInv => SuccessMeansReplaced
  BY ServiceHandoffAssumption
     DEF TypeInv, TypeOK, SuccessInv, SuccessMeansReplaced, Serving, Instances, NoPid
<1>3. QED
  BY <1>1, <1>2, TypeAtStart, TypeStep, SuccessStep, PTL DEF Spec

----------------------------------------------------------------------------
(* Failures *)

LEMMA CalmStep == TypeInv /\ CalmInv /\ [Next]_vars => CalmInv'
<1> SUFFICES ASSUME TypeInv, CalmInv, [Next]_vars, prompt', ~disturbed'
             PROVE  CalmInv'
  BY DEF CalmInv
<1>1. TypeOK
  BY DEF TypeInv, TypeOK
<1> USE <1>1, ServiceHandoffAssumption
        DEF TypeInv, TypeOK, CalmInv, Instances, NoPid, deployment, service, world, NoFault, Fault
<1>2. CASE Install
  BY <1>2 DEF Install
<1>3. CASE ReadPid
  <2>1. /\ step = "pid" /\ prompt /\ ~disturbed /\ expected' = main
        /\ UNCHANGED <<table, answered, installed, service, listener, prompt, world>>
        /\ attempt > MaxAttempts => ~Settling
    BY <1>3 DEF ReadPid
  <2>2. CASE attempt = 0 /\ step' = "probe" /\ UNCHANGED attempt
    BY <2>1, <2>2
  <2>3. CASE attempt > 0 /\ main # NoPid /\ step' = "table" /\ UNCHANGED attempt
    <3>1. CASE attempt > MaxAttempts
      <4>1. main \in Instances /\ phase[main] \in {"starting", "listening"}
        BY <2>3
      <4>2. attempt > 0 => active
        BY <2>1, <2>3
      <4>3. listener = main
        BY <2>1, <2>3, <3>1, <4>1, <4>2 DEF Settling
      <4>4. QED
        BY <2>1, <2>3, <4>3
    <3>2. CASE ~(attempt > MaxAttempts)
      BY <2>1, <2>3, <3>2
    <3>3. QED
      BY <3>1, <3>2
  <2>4. CASE attempt > 0 /\ main = NoPid
    BY <2>1, <2>4
  <2>5. QED
    BY <1>3, <2>2, <2>3, <2>4 DEF ReadPid
<1>4. CASE ProbeBind
  BY <1>4 DEF ProbeBind, CheckFails
<1>5. CASE CloseProbe
  BY <1>5 DEF CloseProbe
<1>6. CASE ReadTable
  BY <1>6 DEF ReadTable, CheckFails, Listed
<1>7. CASE CompareOwners
  BY <1>7 DEF CompareOwners, CheckFails, Owned
<1>8. CASE CheckHealth
  BY <1>8 DEF CheckHealth, CheckFails, Healthy, Serving
<1>9. CASE Register
  BY <1>9 DEF Register
<1>10. CASE StopService
  BY <1>10 DEF StopService, End
<1>11. CASE StartService
  BY <1>11 DEF StartService, Fork
<1>12. CASE CheckTimeout
  BY <1>12 DEF CheckTimeout, CheckFails
<1>13. CASE Respawn
  BY <1>13 DEF Respawn, Fork
<1>14. CASE Bind
  BY <1>14 DEF Bind, End
<1>15. CASE Crash
  BY <1>15 DEF Crash, End
<1>16. ASSUME NEW o \in Others, OtherBinds(o)
       PROVE  CalmInv'
  BY <1>16 DEF OtherBinds
<1>17. ASSUME NEW o \in Others, OtherLeaves(o)
       PROVE  CalmInv'
  BY <1>17 DEF OtherLeaves
<1>18. CASE UNCHANGED vars
  BY <1>18 DEF vars
<1>19. QED
  BY <1>2, <1>3, <1>4, <1>5, <1>6, <1>7, <1>8, <1>9, <1>10, <1>11, <1>12, <1>13, <1>14, <1>15, <1>16, <1>17, <1>18 DEF Next, Deploy, Check

\* On a prompt host a deployment fails only if something went wrong.
THEOREM FailuresExplained == Spec => []FailureHasCause
<1>1. Init /\ TypeInv => CalmInv
  <2> SUFFICES ASSUME Init, TypeInv, ~disturbed
               PROVE  CalmInv
    BY DEF CalmInv
  <2>1. step = "install" /\ attempt = 0 /\ starts <= 1
    BY DEF Init
  <2>2. listener \notin Others /\ (main = NoPid => ~active)
    BY DEF Init
  <2>3. QED
    BY <2>1, <2>2 DEF CalmInv
<1>2. CalmInv => FailureHasCause
  BY DEF CalmInv, FailureHasCause
<1>3. QED
  BY <1>1, <1>2, TypeAtStart, TypeStep, CalmStep, PTL DEF Spec

=============================================================================
