------------------------- MODULE OneShotSessionProofs -------------------------
(***************************************************************************)
(* Theorems about a run of vz-exec, for every set of exit codes and every  *)
(* connect budget: what it does to the VM handle is what the runner's      *)
(* callers do, so that the runner's invariants hold in it; no VM is left   *)
(* behind, exit code and envelope tell what happened, the agent has one    *)
(* connection, and the connect loop keeps to its budget.                   *)
(***************************************************************************)
EXTENDS OneShotSession, VmRunnerProofs

\* The handle has not been used: no command was sent and no VM was made.
Untouched == commands = <<>> /\ thread = "ready" /\ machine = "off" /\ ~stopping

\* Which places have a handle, and what has become of its VM at the end.
HandleInv ==
    /\ at \in {"run", "dial", "spawn"} \/ Has("tcp") => Untouched
    /\ at \in {"spawn", "boot", "connect", "stopping", "leaving", "dropping"} => ~Has("tcp")
    /\ at = "exited" => Untouched \/ thread = "gone"

\* The one call the main thread may be in, at each place.
AskedInv ==
    asked[Main] # None =>
        \/ at = "boot" /\ asked[Main] = "boot"
        \/ at = "connect" /\ asked[Main] = "connect"
        \/ at = "stopping" /\ asked[Main] = "stop"

\* The configuration has passed the checks and is to be executed.
Ran == {"parses", "valid"} \subseteq job /\ {"probe", "dryRun"} \intersect job = {}

\* What the outcome rests on.
OutcomeInv ==
    /\ at \in {"leaving", "dropping", "exited"} =>
          /\ envelope = FALSE /\ Ran => child \in Code /\ exit = child
          /\ exit = -1 /\ envelope = TRUE => Has("timed")
    /\ result = "exit" => child \in Code
    /\ at \in {"stopping", "joining"} => Has("timed")

\* An attempt is given up only by a connect that has failed.
CleanInv ==
    /\ at \in {"run", "dial", "spawn", "boot"} => ~late /\ ~stray
    /\ at = "connect" /\ answer[Main] \in {None, "ok"} => ~late /\ ~stray
    /\ stream = "open" => ~late /\ ~stray
    /\ at \in {"run", "dial", "spawn", "boot", "connect"} => stream = "none"

\* A sleep ends before the deadline.
NapInv == loop = "sleeping" => nap <= left

IInv == HandleInv /\ AskedInv /\ OutcomeInv /\ CleanInv /\ NapInv

-----------------------------------------------------------------------------
(***************************************************************************)
(* A run does to the handle what a caller of the runner may do.            *)
(***************************************************************************)
LEMMA RunnerStep == [SessionNext]_allVars => [RunnerNext]_vars
<1> SUFFICES ASSUME [SessionNext]_allVars PROVE RunnerNext \/ UNCHANGED vars
  OBVIOUS
<1>0. Main \in Caller /\ {"boot", "stop", "connect"} \subseteq Op
  BY MainAssumption DEF Op
<1>1. ASSUME Handle \/ Thread \/ Platform PROVE RunnerNext
  BY <1>1 DEF RunnerNext
<1>2. CallBoot \/ CallConnect \/ CallStop => Handle
  BY <1>0 DEF CallBoot, CallConnect, CallStop, CallsHandle, Handle
<1>3. BootReturns \/ ConnectReturns \/ StopIgnored => Handle
  BY <1>0 DEF BootReturns, ConnectReturns, StopIgnored, Handle
<1>4. DropsHandle \/ Ends => Handle
  BY DEF DropsHandle, Ends, Handle
<1>5. RunsThread => Thread
  BY DEF RunsThread
<1>6. Platforms => Platform
  BY DEF Platforms
<1>7. ASSUME NEW code, NEW told, Exits(code, told) PROVE UNCHANGED vars
  BY <1>7 DEF Exits, sessionVms
<1>8. ASSUME NEW place, Goes(place) PROVE UNCHANGED vars
  BY <1>8 DEF Goes, sessionVms
<1>9. Probe \/ BadRequest \/ DryRun \/ RefuseTcp \/ NoCommand \/ DialFails \/ SpawnFails
        => UNCHANGED vars
  BY <1>7 DEF Probe, BadRequest, DryRun, RefuseTcp, NoCommand, DialFails, SpawnFails
<1>10. ToTcp \/ ToVm \/ Spawned => UNCHANGED vars
  BY <1>8 DEF ToTcp, ToVm, Spawned
<1>11. Dials \/ TakeResult \/ ExecOverdue \/ JoinWorker \/ Guest => UNCHANGED vars
  BY DEF Dials, TakeResult, ExecOverdue, JoinWorker, Guest, sessionVms
<1>12. ExitArrives \/ AgentError \/ SeveredStreamFails \/ StreamFails => UNCHANGED vars
  BY DEF ExitArrives, AgentError, SeveredStreamFails, StreamFails, WorkerGets, sessionVms
<1>13. Loops \/ TimePasses \/ Connects => UNCHANGED vars
  BY DEF Loops, TimePasses, Connects
<1>14. UNCHANGED allVars => UNCHANGED vars
  BY DEF allVars, sessionVms
<1> QED
  BY <1>1, <1>2, <1>3, <1>4, <1>5, <1>6, <1>9, <1>10, <1>11, <1>12, <1>13, <1>14
     DEF SessionNext, MainThread

LEMMA SessionRuns == SessionSpec => RunnerSpec
<1>1. SessionInit => RunnerInit
  BY DEF SessionInit
<1> QED
  BY <1>1, RunnerStep, PTL DEF SessionSpec, RunnerSpec

\* What the session makes of its VM handle is a one-shot machine.
THEOREM SessionImplementsLifecycle == SessionSpec => ImplementsLifecycle
BY SessionRuns, RunnerImplementsLifecycle

-----------------------------------------------------------------------------
(***************************************************************************)
(* What the VM thread does to the call of the main thread.                 *)
(***************************************************************************)
\* The thread answers a call that waits, once, and only the driver's connect
\* gives up for lack of time.
LEMMA ThreadAnswers ==
    ASSUME TypeOK, CallInv, Thread
    PROVE  /\ answer[Main] # None => answer'[Main] = answer[Main]
           /\ thread # "connect" /\ answer[Main] = None => answer'[Main] # "connectTimeout"
           /\ UNCHANGED <<asked, open>>
<1> DEFINE Answers(c, says) ==
             c \in Caller /\ answer[c] = None /\ answer' = [answer EXCEPT ![c] = says]
<1>0. Main \in Caller /\ None # "connectTimeout" /\ answer \in [Caller -> Answer \union {None}]
  BY MainAssumption, NoneAssumption DEF TypeOK
<1>1. ASSUME NEW c, NEW says, Answers(c, says)
      PROVE  /\ answer[Main] # None => answer'[Main] = answer[Main]
             /\ answer[Main] = None /\ says # "connectTimeout" => answer'[Main] # "connectTimeout"
  BY <1>0, <1>1
<1>2. UNCHANGED <<asked, open>>
  BY DEF Thread, Boot, Stop, Connect, Enters, RefuseBoot, RefuseStop, RefuseConnect, TellState,
         Answered, TakeShutdown, BootSucceeds, BootFails, BootTimesOut, BootAbandoned, StopDone,
         ConnectDone, TeardownDone, lifecycleVars
<1>3. CASE Boot \/ Stop \/ Connect \/ TakeShutdown \/ BootTimesOut \/ TeardownDone
  <2>1. answer' = answer
    BY <1>3 DEF Boot, Stop, Connect, Enters, TakeShutdown, BootTimesOut, TeardownDone,
                lifecycleVars
  <2> QED
    BY <1>0, <1>2, <2>1
<1>4. ASSUME NEW op \in Op, NEW says \in Answer, Takes(op), Answered(says)
      PROVE  Answers(Head(commands).caller, says)
  BY <1>4, AnsweredAtOnce, HeadCall DEF Answered, Reply, Waiting, WaitingIn
<1>5. {"boot", "stop", "connect", "state"} = Op /\ state \in VmState
  BY DEF Op, TypeOK
<1>6. {"alreadyRunning", "notRunning", state} \subseteq Answer \ {"connectTimeout"}
  BY <1>5 DEF Answer, VmState
<1>7. CASE RefuseBoot \/ RefuseStop \/ RefuseConnect \/ TellState
  <2>1. \E c, says : Answers(c, says) /\ says # "connectTimeout"
    BY <1>4, <1>5, <1>6, <1>7 DEF RefuseBoot, RefuseStop, RefuseConnect, TellState
  <2> QED
    BY <1>1, <1>2, <2>1
<1>8. thread \in {"start", "abandon", "stop", "connect"} =>
        serving \in Caller /\ answer[serving] = None
  BY DEF CallInv, ServingInv, Waiting, WaitingIn
<1>9. CASE BootSucceeds \/ BootFails \/ BootAbandoned \/ StopDone
  <2>1. \E says \in {"ok", "startError", "bootTimeout", "stopError"} : Reply(serving, says)
    BY <1>9 DEF BootSucceeds, BootFails, BootAbandoned, StopDone
  <2>2. thread \in {"start", "abandon", "stop"}
    BY <1>9 DEF BootSucceeds, BootFails, BootAbandoned, StopDone
  <2>3. \E c, says : Answers(c, says) /\ says # "connectTimeout"
    BY <1>8, <2>1, <2>2 DEF Reply
  <2> QED
    BY <1>1, <1>2, <2>3
<1>10. CASE ConnectDone
  <2>1. thread = "connect" /\ \E says : Reply(serving, says)
    BY <1>10 DEF ConnectDone
  <2>2. \E c, says : Answers(c, says)
    BY <1>8, <2>1 DEF Reply
  <2> QED
    BY <1>1, <1>2, <2>1, <2>2
<1> HIDE DEF Answers
<1> QED
  BY <1>3, <1>7, <1>9, <1>10 DEF Thread

-----------------------------------------------------------------------------
(***************************************************************************)
(* Types.                                                                  *)
(***************************************************************************)
LEMMA ConnectTypesStep == ConnectTypes /\ [SessionNext]_allVars => ConnectTypes'
<1> SUFFICES ASSUME ConnectTypes, [SessionNext]_allVars PROVE ConnectTypes'
  OBVIOUS
<1>0. ConnectBudget \in Nat /\ RetryInterval \in Nat
  BY TicksAssumption
<1>1. UNCHANGED connectVars => ConnectTypes'
  BY DEF ConnectTypes, connectVars
<1>2. CASE RunsThread
  <2>1. EnterLoop => ConnectTypes'
    BY <1>0 DEF EnterLoop, ConnectTypes
  <2>2. LeaveLoop(answer'[Main]) => ConnectTypes'
    BY DEF LeaveLoop, ConnectTypes, Attempt
  <2> QED
    BY <1>1, <1>2, <2>1, <2>2 DEF RunsThread
<1>3. CASE Loops
  BY <1>0, <1>3 DEF Loops, LoopStep, Ask, Retry, Wake, ConnectTypes, Attempt
<1>4. CASE TimePasses
  BY <1>0, <1>4 DEF TimePasses, Tick, ConnectTypes
<1>5. CASE Connects
  BY <1>5 DEF Connects, AttemptEnds, LateAttemptEnds, ConnectTypes, Attempt
<1>6. ASSUME MainThread PROVE UNCHANGED connectVars
  BY <1>6 DEF MainThread, Probe, BadRequest, DryRun, RefuseTcp, NoCommand, ToTcp, ToVm, DialFails,
              Dials, SpawnFails, Spawned, CallBoot, BootReturns, CallConnect, ConnectReturns,
              TakeResult, ExecOverdue, CallStop, StopIgnored, JoinWorker, DropsHandle, Ends,
              Exits, Goes, CallsHandle, sessionVms
<1>7. Platforms \/ Guest \/ ExitArrives \/ AgentError \/ SeveredStreamFails \/ StreamFails
        \/ UNCHANGED allVars => UNCHANGED connectVars
  BY DEF Platforms, Guest, ExitArrives, AgentError, SeveredStreamFails, StreamFails, WorkerGets,
         sessionVms, allVars
<1> QED
  BY <1>1, <1>2, <1>3, <1>4, <1>5, <1>6, <1>7 DEF SessionNext

LEMMA SessionTypesStep == SessionTypes /\ [SessionNext]_allVars => SessionTypes'
<1> SUFFICES ASSUME SessionTypes, [SessionNext]_allVars PROVE SessionTypes'
  OBVIOUS
<1> USE DEF SessionTypes
<1>1. ASSUME NEW code \in {0, 1}, NEW told \in BOOLEAN, Exits(code, told) PROVE SessionTypes'
  BY <1>1 DEF Exits
<1>2. ASSUME NEW place \in {"dial", "spawn", "boot"}, Goes(place) PROVE SessionTypes'
  BY <1>2 DEF Goes, callVars
<1>3. CASE Probe \/ BadRequest \/ DryRun \/ RefuseTcp \/ NoCommand \/ DialFails \/ SpawnFails
  BY <1>1, <1>3 DEF Probe, BadRequest, DryRun, RefuseTcp, NoCommand, DialFails, SpawnFails
<1>4. CASE ToTcp \/ ToVm \/ Spawned
  BY <1>2, <1>4 DEF ToTcp, ToVm, Spawned
<1>5. CASE Dials
  BY <1>5 DEF Dials
<1>6. UNCHANGED sessionVars => SessionTypes'
  BY DEF sessionVars, callVars
<1>7. ASSUME NEW code \in Code \union {None, 1, -1}, NEW told \in BOOLEAN, Leaves(code, told)
      PROVE  /\ exit' \in Code \union {None, 0, 1, -1} /\ envelope' \in BOOLEAN
             /\ at' \in {"exited", "leaving"}
  BY <1>7 DEF Leaves
<1>8. CASE BootReturns \/ ConnectReturns
  BY <1>7, <1>8 DEF BootReturns, ConnectReturns
<1>9. CASE TakeResult
  <2>1. ExitOf(result)[1] \in Code \union {None, 1, -1} /\ ExitOf(result)[2] \in BOOLEAN
    BY DEF ExitOf
  <2> QED
    BY <1>7, <1>9, <2>1 DEF TakeResult
<1>10. CASE ExecOverdue
  BY <1>10 DEF ExecOverdue
<1>11. CASE StopIgnored \/ DropsHandle \/ Ends
  BY <1>11 DEF StopIgnored, DropsHandle, Ends, callVars
<1>12. CASE JoinWorker
  BY <1>7, <1>12 DEF JoinWorker
<1>13. CASE ExitArrives \/ AgentError \/ SeveredStreamFails \/ StreamFails
  BY <1>13 DEF ExitArrives, AgentError, SeveredStreamFails, StreamFails, WorkerGets
<1>14. CASE Guest
  BY <1>14 DEF Guest
<1>15. CallBoot \/ CallConnect \/ CallStop \/ RunsThread \/ Loops \/ TimePasses \/ Platforms
         \/ Connects \/ UNCHANGED allVars => UNCHANGED sessionVars
  BY DEF CallBoot, CallConnect, CallStop, CallsHandle, RunsThread, Loops, TimePasses, Platforms,
         Connects, allVars
<1> QED
  BY <1>3, <1>4, <1>5, <1>6, <1>8, <1>9, <1>10, <1>11, <1>12, <1>13, <1>14, <1>15
     DEF SessionNext, MainThread

\* A run keeps its types: the budget of the connect loop never passes below
\* zero, for any budget and any retry interval.
THEOREM SessionTyped == SessionSpec => []SessionTypeOK
<1>1. SessionInit => ConnectTypes
  <2>1. 0 \in 0 .. ConnectBudget /\ 0 \in 0 .. RetryInterval
    BY TicksAssumption
  <2> QED
    BY <2>1, Zenon DEF SessionInit, ConnectInit, ConnectTypes
<1>2. SessionInit => SessionTypes
  BY DEF SessionInit, SessionTypes
<1> QED
  BY <1>1, <1>2, ConnectTypesStep, SessionTypesStep, SessionRuns, TypeCorrect, PTL
     DEF SessionSpec, SessionTypeOK

-----------------------------------------------------------------------------
(***************************************************************************)
(* The invariants of a run, one lemma each.                                *)
(***************************************************************************)
\* Steps that leave the call and the VM alone.
LEMMA ThreadKeeps ==
    ASSUME RunsThread \/ Platforms \/ UNCHANGED vars
    PROVE  /\ Untouched => Untouched'
           /\ thread = "gone" => thread' = "gone"
<1>1. CASE RunsThread
  BY <1>1 DEF RunsThread, Untouched, Thread, Boot, Stop, Connect, RefuseBoot, RefuseStop,
              RefuseConnect, TellState, TakeShutdown, Takes, BootSucceeds, BootFails,
              BootTimesOut, BootAbandoned, StopDone, ConnectDone, TeardownDone
<1>2. CASE Platforms
  BY <1>2 DEF Platforms, Platform, StartCompletes, StopCompletes, GuestExits, Untouched, runnerVars
<1>3. CASE UNCHANGED vars
  BY <1>3 DEF vars, Untouched
<1> QED
  BY <1>1, <1>2, <1>3

LEMMA HandleStep == SessionTypes /\ HandleInv /\ [SessionNext]_allVars => HandleInv'
<1> SUFFICES ASSUME SessionTypes, HandleInv, [SessionNext]_allVars PROVE HandleInv'
  OBVIOUS
<1>1. ASSUME UNCHANGED <<at, job>>, RunsThread \/ Platforms \/ UNCHANGED vars PROVE HandleInv'
  BY <1>1, ThreadKeeps DEF HandleInv, Has
<1>2. ASSUME RunsThread \/ Loops \/ TimePasses \/ Platforms \/ Connects \/ Guest \/ ExitArrives
               \/ AgentError \/ SeveredStreamFails \/ StreamFails \/ UNCHANGED allVars
      PROVE  HandleInv'
  BY <1>1, <1>2 DEF RunsThread, Loops, TimePasses, Platforms, Connects, Guest, ExitArrives,
                    AgentError, SeveredStreamFails, StreamFails, WorkerGets, sessionVars,
                    sessionVms, callVars, allVars
<1>3. ASSUME UNCHANGED vars PROVE Untouched' = Untouched /\ thread' = thread
  BY <1>3 DEF vars, Untouched
<1>4. ASSUME Untouched, UNCHANGED <<vars, job>>, at' = "exited" PROVE HandleInv'
  BY <1>3, <1>4 DEF HandleInv, Has
<1>5. CASE Probe \/ BadRequest \/ DryRun \/ RefuseTcp \/ NoCommand \/ DialFails \/ SpawnFails
  BY <1>4, <1>5 DEF Probe, BadRequest, DryRun, RefuseTcp, NoCommand, DialFails, SpawnFails, Validated,
                    ToExecute, Exits, sessionVms, HandleInv
<1>6. CASE ToTcp \/ ToVm \/ Spawned
  BY <1>3, <1>6 DEF ToTcp, ToVm, Spawned, Validated, ToExecute, Goes, callVars, sessionVms, HandleInv, Has
<1>7. CASE Dials
  BY <1>3, <1>7 DEF Dials, sessionVms, HandleInv, Has
<1>8. CASE CallBoot \/ CallConnect \/ CallStop
  BY <1>8 DEF CallBoot, CallConnect, CallStop, CallsHandle, sessionVars, callVars, HandleInv, Has
<1>9. CASE BootReturns \/ ConnectReturns \/ StopIgnored
  BY <1>9 DEF BootReturns, ConnectReturns, StopIgnored, Leaves, callVars, HandleInv, Has
<1>10. CASE TakeResult \/ JoinWorker
  BY <1>3, <1>10 DEF TakeResult, JoinWorker, Leaves, sessionVms, HandleInv, Has
<1>11. CASE ExecOverdue
  BY <1>3, <1>11 DEF ExecOverdue, sessionVms, HandleInv, Has
<1>12. CASE DropsHandle
  BY <1>12 DEF DropsHandle, callVars, HandleInv, Has
<1>13. CASE Ends
  BY <1>13 DEF Ends, Join, callVars, HandleInv, Has, runnerVars
<1> QED
  BY <1>2, <1>5, <1>6, <1>7, <1>8, <1>9, <1>10, <1>11, <1>12, <1>13 DEF SessionNext, MainThread

LEMMA AskedStep ==
    TypeOK /\ CallInv /\ AskedInv /\ [SessionNext]_allVars => AskedInv'
<1> SUFFICES ASSUME TypeOK, CallInv, AskedInv, [SessionNext]_allVars PROVE AskedInv'
  OBVIOUS
<1>0. Main \in Caller /\ asked \in [Caller -> Op \union {None}]
  BY MainAssumption DEF TypeOK
<1>1. ASSUME UNCHANGED <<asked, at>> PROVE AskedInv'
  BY <1>1 DEF AskedInv
<1>2. ASSUME at \notin {"boot", "connect", "stopping"}, UNCHANGED asked PROVE AskedInv'
  BY <1>2 DEF AskedInv
<1>3. RunsThread => UNCHANGED <<asked, at>>
  BY ThreadAnswers DEF RunsThread, sessionVars
<1>4. Loops \/ TimePasses \/ Platforms \/ Connects \/ Guest \/ ExitArrives \/ AgentError
        \/ SeveredStreamFails \/ StreamFails \/ UNCHANGED allVars => UNCHANGED <<asked, at>>
  BY DEF Loops, TimePasses, Platforms, Platform, StartCompletes, StopCompletes, GuestExits, Connects,
         Guest, ExitArrives, AgentError, SeveredStreamFails, StreamFails, WorkerGets,
         lifecycleVars, sessionVars, sessionVms, vars, allVars
<1>5. CASE Probe \/ BadRequest \/ DryRun \/ RefuseTcp \/ NoCommand \/ DialFails \/ SpawnFails
  BY <1>2, <1>5 DEF Probe, BadRequest, DryRun, RefuseTcp, NoCommand, DialFails, SpawnFails, Validated,
                    ToExecute, Exits, sessionVms, vars
<1>6. CASE ToTcp \/ ToVm \/ Spawned \/ Dials \/ TakeResult \/ ExecOverdue \/ JoinWorker
  BY <1>2, <1>6 DEF ToTcp, ToVm, Spawned, Validated, ToExecute, Goes, Dials, TakeResult, ExecOverdue,
                    JoinWorker, sessionVms, vars
<1>7. CASE CallBoot \/ CallConnect \/ CallStop
  BY <1>0, <1>7 DEF CallBoot, CallConnect, CallStop, CallsHandle, Send, Call, sessionVars, AskedInv
<1>8. CASE BootReturns \/ ConnectReturns \/ StopIgnored
  <2>1. asked' = [asked EXCEPT ![Main] = None]
    BY <1>8 DEF BootReturns, ConnectReturns, StopIgnored, Receive, Return
  <2> QED
    BY <1>0, <2>1 DEF AskedInv
<1>9. CASE DropsHandle \/ Ends
  BY <1>2, <1>9 DEF DropsHandle, DropHandle, Drop, Ends, Join, lifecycleVars
<1> QED
  BY <1>1, <1>3, <1>4, <1>5, <1>6, <1>7, <1>8, <1>9 DEF SessionNext, MainThread

LEMMA OutcomeStep == SessionTypes /\ OutcomeInv /\ [SessionNext]_allVars => OutcomeInv'
<1> SUFFICES ASSUME SessionTypes, OutcomeInv, [SessionNext]_allVars PROVE OutcomeInv'
  OBVIOUS
<1>0. None \notin Code
  BY MainAssumption
<1>r. job' = job /\ Ran' => Ran
  BY DEF Ran
<1>t. job' = job => (Has("timed")' <=> Has("timed"))
  BY DEF Has
<1>1. UNCHANGED <<at, callVars>> => OutcomeInv'
  BY DEF OutcomeInv, callVars, Has, Ran
<1>2. CallBoot \/ CallConnect \/ CallStop \/ RunsThread \/ Loops \/ TimePasses \/ Platforms
        \/ Connects \/ UNCHANGED allVars => UNCHANGED <<at, callVars>>
  BY DEF CallBoot, CallConnect, CallStop, CallsHandle, RunsThread, Loops, TimePasses, Platforms,
         Connects, allVars, sessionVars
<1>3. ASSUME UNCHANGED <<job, result, child>>, at' \in {"leaving", "exited"},
             envelope' = TRUE \/ ~Ran, exit' # -1 \/ Has("timed")
      PROVE  OutcomeInv'
  BY <1>3, <1>r, <1>t DEF OutcomeInv
<1>4. CASE Probe \/ BadRequest \/ DryRun
  <2>1. ~Ran
    BY <1>4 DEF Probe, BadRequest, DryRun, Ran, Has
  <2>2. UNCHANGED <<job, result, child>> /\ at' = "exited" /\ exit' \in {0, 1}
    BY <1>4 DEF Probe, BadRequest, DryRun, Exits
  <2> QED
    BY <1>3, <2>1, <2>2
<1>5. CASE RefuseTcp \/ NoCommand \/ DialFails \/ SpawnFails
  <2>1. UNCHANGED <<job, result, child>> /\ at' = "exited" /\ exit' = 1 /\ envelope' = TRUE
    BY <1>5 DEF RefuseTcp, NoCommand, DialFails, SpawnFails, Exits
  <2> QED
    BY <1>3, <2>1
<1>6. CASE ToTcp \/ ToVm \/ Spawned
  BY <1>6 DEF ToTcp, ToVm, Spawned, Goes, callVars, OutcomeInv
<1>7. CASE Dials
  BY <1>7 DEF Dials, OutcomeInv
<1>8. ASSUME NEW code \in {1, -1}, Leaves(code, TRUE), code = 1 \/ Has("timed"),
             UNCHANGED <<job, result, child>>
      PROVE  OutcomeInv'
  <2>1. at' \in {"leaving", "exited"} /\ envelope' = TRUE /\ exit' = code
    BY <1>8 DEF Leaves
  <2> QED
    BY <1>3, <1>8, <2>1
<1>9. CASE BootReturns
  <2>1. CASE answer[Main] = "ok"
    BY <1>9, <2>1 DEF BootReturns, OutcomeInv
  <2>2. CASE answer[Main] # "ok"
    <3>1. Leaves(1, TRUE) /\ UNCHANGED <<job, result, child>>
      BY <1>9, <2>2 DEF BootReturns
    <3> QED
      BY <1>8, <3>1
  <2> QED
    BY <2>1, <2>2
<1>10. CASE ConnectReturns
  <2>1. CASE answer[Main] = "ok"
    BY <1>10, <2>1 DEF ConnectReturns, OutcomeInv
  <2>2. CASE answer[Main] # "ok"
    <3>1. Leaves(1, TRUE) /\ UNCHANGED <<job, result, child>>
      BY <1>10, <2>2 DEF ConnectReturns
    <3> QED
      BY <1>8, <3>1
  <2> QED
    BY <2>1, <2>2
<1>11. CASE TakeResult
  <2>1. CASE result = "exit"
    <3>1. child \in Code /\ Leaves(child, FALSE) /\ UNCHANGED <<job, result, child>>
      BY <1>11, <2>1 DEF TakeResult, ExitOf, OutcomeInv
    <3> QED
      BY <3>1, <1>t DEF Leaves, OutcomeInv
  <2>2. CASE result # "exit"
    <3>1. Leaves(1, TRUE) /\ UNCHANGED <<job, result, child>>
      BY <1>11, <2>2 DEF TakeResult, ExitOf
    <3> QED
      BY <1>8, <3>1
  <2> QED
    BY <2>1, <2>2
<1>12. CASE ExecOverdue
  BY <1>12, <1>r, <1>t DEF ExecOverdue, OutcomeInv
<1>13. CASE StopIgnored
  BY <1>13, <1>r, <1>t DEF StopIgnored, callVars, OutcomeInv
<1>14. CASE JoinWorker
  BY <1>8, <1>14 DEF JoinWorker, OutcomeInv
<1>15. CASE ExitArrives \/ AgentError \/ SeveredStreamFails \/ StreamFails
  BY <1>15, <1>r, <1>t DEF ExitArrives, AgentError, SeveredStreamFails, StreamFails, WorkerGets, OutcomeInv
<1>16. CASE DropsHandle \/ Ends
  BY <1>16, <1>r, <1>t DEF DropsHandle, Ends, callVars, OutcomeInv
<1>17. CASE Guest
  BY <1>0, <1>17, <1>r, <1>t DEF Guest, OutcomeInv
<1> QED
  BY <1>1, <1>2, <1>4, <1>5, <1>6, <1>7, <1>9, <1>10, <1>11, <1>12, <1>13, <1>14, <1>15, <1>16,
     <1>17 DEF SessionNext, MainThread

\* The thread is in the driver's connect only for the call of the main thread.
LEMMA ConnectIsMains ==
    ASSUME CallInv, AskedInv, thread = "connect"
    PROVE  at = "connect" /\ answer[Main] = None
<1>1. serving = Main /\ asked[Main] = "connect" /\ answer[Main] = None
  BY MainAssumption DEF CallInv, ServingInv, Waiting, WaitingIn
<1> QED
  BY <1>1, NoneAssumption DEF AskedInv

LEMMA CleanStep ==
    TypeOK /\ CallInv /\ AskedInv /\ CleanInv /\ [SessionNext]_allVars => CleanInv'
<1> SUFFICES ASSUME TypeOK, CallInv, AskedInv, CleanInv, [SessionNext]_allVars PROVE CleanInv'
  OBVIOUS
<1> DEFINE Early == at \in {"run", "dial", "spawn", "boot"}
           Trusted == answer[Main] \in {None, "ok"}
           Clean == ~late /\ ~stray
<1>0. Main \in Caller /\ answer \in [Caller -> Answer \union {None}] /\ None # "connectTimeout"
  BY MainAssumption, NoneAssumption DEF TypeOK
<1>1. /\ Early \/ (at = "connect" /\ Trusted) \/ stream = "open" => Clean
      /\ Early \/ at = "connect" => stream = "none"
  BY DEF CleanInv
<1>2. /\ (Early' \/ (at' = "connect" /\ Trusted') \/ stream' = "open" => Clean')
      /\ (Early' \/ at' = "connect" => stream' = "none")
      => CleanInv'
  BY DEF CleanInv
<1>3. ASSUME UNCHANGED <<at, stream>>, Clean => Clean', answer'[Main] = answer[Main] PROVE CleanInv'
  BY <1>1, <1>2, <1>3
<1>4. CASE RunsThread
  <2>1. UNCHANGED <<at, stream>>
    BY <1>4 DEF RunsThread, sessionVars, callVars
  <2>2. Thread /\ (answer[Main] # None => answer'[Main] = answer[Main])
    BY <1>4, ThreadAnswers DEF RunsThread
  <2>3. CASE thread = "connect"
    <3>1. at = "connect" /\ Trusted /\ LeaveLoop(answer'[Main])
      BY <1>4, <2>3, ConnectIsMains DEF RunsThread
    <3>2. Clean /\ stream = "none"
      BY <1>1, <3>1
    <3>3. answer'[Main] = "ok" => Clean'
      BY <3>1, <3>2 DEF LeaveLoop
    <3>4. answer'[Main] # None
      <4>1. ConnectDone
        BY <2>2, <2>3 DEF Thread, Boot, Stop, Connect, RefuseBoot, RefuseStop, RefuseConnect, TellState,
              TakeShutdown, Takes, BootSucceeds, BootFails, BootTimesOut, BootAbandoned, StopDone,
              TeardownDone
      <4>2. serving = Main
        BY <2>3, MainAssumption DEF CallInv, ServingInv, Waiting, WaitingIn
      <4> QED
        BY <1>0, <4>1, <4>2, NoneAssumption DEF ConnectDone, Reply
    <3> QED
      BY <1>2, <2>1, <3>1, <3>2, <3>3, <3>4
  <2>4. CASE thread # "connect"
    <3>1. UNCHANGED <<late, stray>>
      BY <1>4, <2>4 DEF RunsThread, EnterLoop, connectVars
    <3>2. at = "connect" /\ Trusted' => Trusted
      BY <2>2
    <3> QED
      BY <1>1, <1>2, <2>1, <3>1, <3>2
  <2> QED
    BY <2>3, <2>4
<1>5. CASE Loops \/ TimePasses \/ Connects
  <2>1. Clean => Clean'
    BY <1>5 DEF Loops, LoopStep, Ask, Retry, Wake, TimePasses, Tick, Connects, AttemptEnds, LateAttemptEnds
  <2>2. UNCHANGED <<at, stream, answer>>
    BY <1>5 DEF Loops, TimePasses, Connects, sessionVars, callVars, vars
  <2> QED
    BY <1>3, <2>1, <2>2
<1>6. CASE Platforms \/ Guest \/ ExitArrives \/ AgentError \/ SeveredStreamFails \/ StreamFails
             \/ UNCHANGED allVars
  <2>1. UNCHANGED <<at, stream, answer, late, stray>>
    BY <1>6 DEF Platforms, Platform, StartCompletes, StopCompletes, GuestExits, lifecycleVars,
                Guest, ExitArrives, AgentError, SeveredStreamFails, StreamFails, WorkerGets,
                sessionVars, sessionVms, callVars, connectVars, vars, allVars
  <2> QED
    BY <1>3, <2>1
<1>7. CASE MainThread
  <2>1. UNCHANGED <<late, stray>>
    BY <1>7 DEF MainThread, Probe, BadRequest, DryRun, RefuseTcp, NoCommand, ToTcp, ToVm, DialFails,
              Dials, SpawnFails, Spawned, CallBoot, BootReturns, CallConnect, ConnectReturns,
              TakeResult, ExecOverdue, CallStop, StopIgnored, JoinWorker, DropsHandle, Ends,
              Exits, Goes, CallsHandle, sessionVms, connectVars
  <2>2. ASSUME at' = "exited", UNCHANGED stream PROVE CleanInv'
    BY <1>1, <1>2, <2>1, <2>2
  <2>3. CASE Probe \/ BadRequest \/ DryRun \/ RefuseTcp \/ NoCommand \/ DialFails \/ SpawnFails
    BY <2>2, <2>3 DEF Probe, BadRequest, DryRun, RefuseTcp, NoCommand, DialFails, SpawnFails, Exits
  <2>4. CASE ToTcp \/ ToVm \/ Spawned
    <3>1. Early /\ Early' /\ UNCHANGED stream
      BY <2>4 DEF ToTcp, ToVm, Spawned, Validated, ToExecute, Goes, callVars
    <3> QED
      BY <1>1, <1>2, <2>1, <3>1
  <2>5. CASE Dials
    <3>1. Early /\ at' = "exec"
      BY <2>5 DEF Dials
    <3> QED
      BY <1>1, <1>2, <2>1, <3>1
  <2>6. CASE CallBoot \/ CallConnect \/ CallStop
    <3>1. UNCHANGED <<at, stream, answer>>
      BY <2>6 DEF CallBoot, CallConnect, CallStop, CallsHandle, Send, Call, sessionVars, callVars
    <3> QED
      BY <1>3, <2>1, <3>1
  <2>7. CASE BootReturns
    <3>1. Early /\ at' \in {"connect", "exited", "leaving"} /\ UNCHANGED stream
      BY <2>7 DEF BootReturns, Leaves
    <3> QED
      BY <1>1, <1>2, <2>1, <3>1
  <2>8. CASE ConnectReturns
    <3>1. CASE answer[Main] = "ok"
      <4>1. at = "connect" /\ at' = "exec"
        BY <2>8, <3>1 DEF ConnectReturns
      <4> QED
        BY <1>1, <1>2, <2>1, <3>1, <4>1
    <3>2. CASE answer[Main] # "ok"
      <4>1. at = "connect" /\ at' \in {"exited", "leaving"} /\ UNCHANGED stream
        BY <2>8, <3>2 DEF ConnectReturns, Leaves
      <4> QED
        BY <1>1, <1>2, <2>1, <4>1
    <3> QED
      BY <3>1, <3>2
  <2>9. CASE TakeResult \/ ExecOverdue \/ StopIgnored \/ JoinWorker \/ DropsHandle \/ Ends
    <3>1. /\ at' \in {"exited", "leaving", "joining", "stopping", "dropping"}
          /\ stream' \in {stream, "severed"}
      BY <2>9 DEF TakeResult, ExecOverdue, StopIgnored, JoinWorker, DropsHandle, Ends, Leaves, callVars
    <3> QED
      BY <1>1, <1>2, <2>1, <3>1
  <2> QED
    BY <1>7, <2>3, <2>4, <2>5, <2>6, <2>7, <2>8, <2>9 DEF MainThread
<1> QED
  BY <1>4, <1>5, <1>6, <1>7 DEF SessionNext

LEMMA NapStep == ConnectTypes /\ NapInv /\ [SessionNext]_allVars => NapInv'
<1> SUFFICES ASSUME ConnectTypes, NapInv, [SessionNext]_allVars PROVE NapInv'
  OBVIOUS
<1>0. RetryInterval \in Nat /\ left \in Nat /\ nap \in Nat
  BY TicksAssumption DEF ConnectTypes
<1>1. UNCHANGED connectVars => NapInv'
  BY DEF NapInv, connectVars
<1>2. CASE RunsThread
  BY <1>1, <1>2 DEF RunsThread, EnterLoop, LeaveLoop, NapInv
<1>3. CASE Loops
  BY <1>0, <1>3 DEF Loops, LoopStep, Ask, Retry, RetryFits, Wake, NapInv
<1>4. CASE TimePasses
  BY <1>0, <1>4 DEF TimePasses, Tick, NapInv
<1>5. CASE Connects
  BY <1>5 DEF Connects, AttemptEnds, LateAttemptEnds, NapInv
<1>6. ASSUME MainThread PROVE UNCHANGED connectVars
  BY <1>6 DEF MainThread, Probe, BadRequest, DryRun, RefuseTcp, NoCommand, ToTcp, ToVm, DialFails,
              Dials, SpawnFails, Spawned, CallBoot, BootReturns, CallConnect, ConnectReturns,
              TakeResult, ExecOverdue, CallStop, StopIgnored, JoinWorker, DropsHandle, Ends,
              Exits, Goes, CallsHandle, sessionVms
<1>7. Platforms \/ Guest \/ ExitArrives \/ AgentError \/ SeveredStreamFails \/ StreamFails
        \/ UNCHANGED allVars => UNCHANGED connectVars
  BY DEF Platforms, Guest, ExitArrives, AgentError, SeveredStreamFails, StreamFails, WorkerGets,
         sessionVms, allVars
<1> QED
  BY <1>1, <1>2, <1>3, <1>4, <1>5, <1>6, <1>7 DEF SessionNext

LEMMA IInvAlways == SessionSpec => []IInv
<1>1. SessionInit => IInv
  <2> SUFFICES ASSUME SessionInit PROVE IInv
    OBVIOUS
  <2>1. asked[Main] = None
    BY MainAssumption DEF SessionInit, RunnerInit, Init
  <2>2. result # "exit"
    BY MainAssumption DEF SessionInit
  <2> QED
    BY <2>1, <2>2 DEF SessionInit, RunnerInit, ConnectInit, IInv, HandleInv, Untouched, AskedInv, OutcomeInv,
                CleanInv, NapInv
<1>2. SessionTypeOK /\ CallInv /\ IInv /\ [SessionNext]_allVars => IInv'
  BY HandleStep, AskedStep, OutcomeStep, CleanStep, NapStep DEF SessionTypeOK, IInv
<1> QED
  BY <1>1, <1>2, SessionTyped, SessionRuns, CallAlways, PTL DEF SessionSpec

-----------------------------------------------------------------------------
(***************************************************************************)
(* What a run promises.                                                    *)
(***************************************************************************)
\* No VM is left when the process ends, by whatever path and outcome, unless
\* a force-stop that was tried has failed (session.rs 1-4).
THEOREM NoVmLeftBehind == SessionSpec => []NoVmLeft
<1>1. IInv /\ MachineInv => NoVmLeft
  BY DEF IInv, HandleInv, Untouched, MachineInv, NoVmLeft
<1> QED
  BY <1>1, IInvAlways, SessionRuns, MachineAlways, PTL

\* Exit code and envelope tell what has happened.
THEOREM ExitsTruthfully == SessionSpec => []ExitTruthful
<1>1. IInv /\ NoVmLeft => ExitTruthful
  BY DEF IInv, OutcomeInv, Ran, NoVmLeft, ExitTruthful
<1> QED
  BY <1>1, IInvAlways, NoVmLeftBehind, PTL

\* The session's connection is the only one the agent has.
THEOREM OneConnection == SessionSpec => []NoStrayConnection
<1>1. IInv => NoStrayConnection
  BY DEF IInv, CleanInv, NoStrayConnection
<1> QED
  BY <1>1, IInvAlways, PTL

\* A connect gives up for lack of time only when no other round fits or its
\* handler was dropped, and no sleep passes the deadline (vz.rs, open_agent_stream).
THEOREM BudgetUsed == SessionSpec => ConnectUsesItsBudget
<1> DEFINE Used == /\ answer[Main] = None /\ answer'[Main] = "connectTimeout"
                       => left <= RetryInterval \/ attempt = "dropped"
                   /\ loop' = "sleeping" => nap' <= left'
<1>1. SessionTypeOK /\ CallInv /\ NapInv' /\ [SessionNext]_allVars => [Used]_allVars
  <2> SUFFICES ASSUME SessionTypeOK, CallInv, NapInv', SessionNext PROVE Used
    OBVIOUS
  <2>1. loop' = "sleeping" => nap' <= left'
    BY DEF NapInv
  <2>2. ASSUME answer[Main] = None, answer'[Main] = "connectTimeout"
        PROVE  left <= RetryInterval \/ attempt = "dropped"
    <3>0. /\ Main \in Caller /\ None # "connectTimeout" /\ answer \in [Caller -> Answer \union {None}]
          /\ RetryInterval \in Nat \ {0} /\ left \in Nat
      BY MainAssumption, NoneAssumption, TicksAssumption DEF SessionTypeOK, TypeOK, ConnectTypes
    <3>1. RunsThread
      <4>1. CallBoot \/ CallConnect \/ CallStop \/ DropsHandle \/ Ends \/ Platforms
               => answer' = answer
        BY DEF CallBoot, CallConnect, CallStop, CallsHandle, Send, Call, DropsHandle, DropHandle, Drop,
               Ends, Join, Platforms, Platform, StartCompletes, StopCompletes, GuestExits, lifecycleVars
      <4>2. BootReturns \/ ConnectReturns \/ StopIgnored => answer'[Main] = None
        BY <3>0 DEF BootReturns, ConnectReturns, StopIgnored, Receive, Return
      <4>3. Probe \/ BadRequest \/ DryRun \/ RefuseTcp \/ NoCommand \/ DialFails \/ SpawnFails
               \/ ToTcp \/ ToVm \/ Spawned \/ Dials \/ TakeResult \/ ExecOverdue \/ JoinWorker
               => answer' = answer
        BY DEF Probe, BadRequest, DryRun, RefuseTcp, NoCommand, DialFails, SpawnFails, Exits, ToTcp,
               ToVm, Spawned, Goes, Dials, TakeResult, ExecOverdue, JoinWorker, sessionVms, vars
      <4>4. Loops \/ TimePasses \/ Connects \/ Guest \/ ExitArrives \/ AgentError
               \/ SeveredStreamFails \/ StreamFails => answer' = answer
        BY DEF Loops, TimePasses, Connects, Guest, ExitArrives, AgentError, SeveredStreamFails,
               StreamFails, WorkerGets, sessionVms, vars
      <4> QED
        BY <2>2, <3>0, <4>1, <4>2, <4>3, <4>4 DEF SessionNext, MainThread
    <3>2. thread = "connect" /\ LeaveLoop("connectTimeout")
      BY <2>2, <3>1, ThreadAnswers DEF RunsThread, SessionTypeOK
    <3> QED
      BY <3>0, <3>2 DEF LeaveLoop, RetryFits, AttemptOver
  <2> QED
    BY <2>1, <2>2
<1>2. IInv => NapInv
  BY DEF IInv
<1> QED
  BY <1>1, <1>2, SessionTyped, SessionRuns, CallAlways, IInvAlways, PTL
     DEF SessionSpec, ConnectUsesItsBudget
===============================================================================
