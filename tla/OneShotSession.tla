--------------------------- MODULE OneShotSession ---------------------------
(***************************************************************************)
(* One run of vz-exec (vz_exec/src/lib.rs, run) with run_one_shot of       *)
(* vz_darwin/src/session.rs, from the configuration to the exit code, over *)
(* the VM thread of VmRunner, the connect loop of AgentConnect and the     *)
(* interface of ExecSession: a result of the worker, a deadline, a         *)
(* force-stop.  The build is the one for macOS.                            *)
(***************************************************************************)
EXTENDS VmRunner, AgentConnect, Integers

CONSTANTS
    Main,    \* the thread of vz-exec, the only one that has the handle
    Code     \* exit codes of the guest's command

ASSUME MainAssumption ==
    /\ Caller = {Main} /\ Code \subseteq Int
    /\ None \notin Code /\ None \notin {"exit", "agent", "transport"}

VARIABLES
    job,       \* the arguments and the configuration
    at,        \* where the main thread is
    exit,      \* the process exit code, once it is decided
    envelope,  \* the error envelope goes to stderr
    result,    \* what exec_collect has returned to the supervisor
    stream,    \* the connection to the agent
    child      \* the code the guest's command has ended with, or None

callVars == <<job, exit, envelope, result, stream, child>>
sessionVars == <<callVars, at>>
sessionVms == <<vars, connectVars>>
allVars == <<sessionVars, sessionVms>>

\* probe, dryRun and testing are flags; tcp is the environment's transport;
\* parses, valid and command are what the configuration comes to; timed is
\* process.timeout.
Flag == {"probe", "dryRun", "testing", "tcp", "parses", "valid", "command", "timed"}

Has(flag) == flag \in job

SessionTypes ==
    /\ job \subseteq Flag
    /\ at \in {"run", "dial", "spawn", "boot", "connect", "exec", "stopping", "joining",
               "leaving", "dropping", "exited"}
    /\ exit \in Code \union {None, 0, 1, -1}
    /\ envelope \in BOOLEAN
    /\ result \in {None, "exit", "agent", "transport"}
    /\ stream \in {"none", "open", "severed"}
    /\ child \in Code \union {None}

SessionInit ==
    /\ RunnerInit /\ ConnectInit
    /\ job \in SUBSET Flag
    /\ at = "run" /\ exit = None /\ envelope = FALSE
    /\ result = None /\ stream = "none" /\ child = None

-----------------------------------------------------------------------------
(***************************************************************************)
(* run: everything that needs no VM.                                       *)
(***************************************************************************)
\* The process ends here, without a handle to drop.
Exits(code, told) ==
    /\ at' = "exited" /\ exit' = code /\ envelope' = told
    /\ UNCHANGED <<job, result, stream, child, sessionVms>>

Goes(place) ==
    /\ at' = place
    /\ UNCHANGED <<callVars, sessionVms>>

Probe == at = "run" /\ Has("probe") /\ Exits(0, FALSE)

BadRequest ==
    /\ at = "run" /\ ~Has("probe") /\ ~(Has("parses") /\ Has("valid"))
    /\ Exits(1, FALSE)

Validated == at = "run" /\ ~Has("probe") /\ Has("parses") /\ Has("valid")

DryRun == Validated /\ Has("dryRun") /\ Exits(0, FALSE)

ToExecute == Validated /\ ~Has("dryRun")

RefuseTcp == ToExecute /\ Has("tcp") /\ ~Has("testing") /\ Exits(1, TRUE)

\* build_exec_request: no command line, no session.
NoCommand ==
    /\ ToExecute /\ (Has("tcp") => Has("testing")) /\ ~Has("command")
    /\ Exits(1, TRUE)

ToTcp == ToExecute /\ Has("tcp") /\ Has("testing") /\ Has("command") /\ Goes("dial")

ToVm == ToExecute /\ ~Has("tcp") /\ Has("command") /\ Goes("spawn")

DialFails == at = "dial" /\ Exits(1, TRUE)

Dials ==
    /\ at = "dial"
    /\ at' = "exec" /\ stream' = "open"
    /\ UNCHANGED <<job, exit, envelope, result, child, sessionVms>>

-----------------------------------------------------------------------------
(***************************************************************************)
(* run_one_shot: spawn, boot, connect.  From the spawn on, every exit path *)
(* drops the handle.                                                       *)
(***************************************************************************)
SpawnFails == at = "spawn" /\ Exits(1, TRUE)
Spawned == at = "spawn" /\ Goes("boot")

Leaves_Undropped(code, told) ==
    /\ at' = "exited"
    /\ exit' = code /\ envelope' = told

\* run_one_shot returns; a session over TCP has no handle.
Leaves(code, told) ==
    /\ at' = IF Has("tcp") THEN "exited" ELSE "leaving"
    /\ exit' = code /\ envelope' = told

CallsHandle(op) == Send(Main, op) /\ UNCHANGED <<sessionVars, connectVars>>

CallBoot == at = "boot" /\ CallsHandle("boot")
CallConnect == at = "connect" /\ CallsHandle("connect")

BootReturns ==
    /\ at = "boot" /\ Receive(Main)
    /\ IF answer[Main] = "ok"
       THEN at' = "connect" /\ UNCHANGED <<exit, envelope>>
       ELSE Leaves(1, TRUE)
    /\ UNCHANGED <<job, result, stream, child, connectVars>>

ConnectReturns ==
    /\ at = "connect" /\ Receive(Main)
    /\ IF answer[Main] = "ok"
       THEN at' = "exec" /\ stream' = "open" /\ UNCHANGED <<exit, envelope>>
       ELSE Leaves(1, TRUE) /\ UNCHANGED stream
    /\ UNCHANGED <<job, result, child, connectVars>>

-----------------------------------------------------------------------------
(***************************************************************************)
(* exec_collect_with_timeout on the main thread, and its worker.           *)
(***************************************************************************)
ExitOf_Silent(r) == IF r = "exit" THEN <<child, FALSE>> ELSE <<1, FALSE>>

\* The exit code, and whether the envelope is printed (finish, exec_in_vm).
ExitOf(r) == IF r = "exit" THEN <<child, FALSE>> ELSE <<1, TRUE>>

TakeResult ==
    /\ at = "exec" /\ result # None
    /\ Leaves(ExitOf(result)[1], ExitOf(result)[2])
    /\ UNCHANGED <<job, result, stream, child, sessionVms>>

ExecOverdue_NoStop ==
    /\ at = "exec" /\ result = None /\ Has("timed")
    /\ at' = "joining"
    /\ UNCHANGED <<job, exit, envelope, result, stream, child, sessionVms>>

\* The deadline of process.timeout; over TCP the hook shuts the socket down.
ExecOverdue ==
    /\ at = "exec" /\ result = None /\ Has("timed")
    /\ at' = IF Has("tcp") THEN "joining" ELSE "stopping"
    /\ stream' = IF Has("tcp") THEN "severed" ELSE stream
    /\ UNCHANGED <<job, exit, envelope, result, child, sessionVms>>

\* The hook of run_one_shot: let _ = handle.stop()
CallStop == at = "stopping" /\ CallsHandle("stop")

StopIgnored ==
    /\ at = "stopping" /\ Receive(Main)
    /\ at' = "joining"
    /\ UNCHANGED <<callVars, connectVars>>

\* Whatever the worker has brought by now is discarded.
JoinWorker ==
    /\ at = "joining" /\ result # None
    /\ Leaves(-1, TRUE)
    /\ UNCHANGED <<job, result, stream, child, sessionVms>>

WorkerGets(r) ==
    /\ stream # "none" /\ result = None
    /\ result' = r
    /\ UNCHANGED <<job, exit, envelope, at, stream, child, sessionVms>>

ExitArrives == child \in Code /\ stream = "open" /\ WorkerGets("exit")
AgentError == child = None /\ stream = "open" /\ WorkerGets("agent")

\* A force-stop, and a guest that powers off, sever the stream as well.
Severed == stream = "severed" \/ (~Has("tcp") /\ machine = "off")
SeveredStreamFails == Severed /\ WorkerGets("transport")
StreamFails == ~Severed /\ WorkerGets("transport")

-----------------------------------------------------------------------------
(***************************************************************************)
(* Drop, and the process exit.                                             *)
(***************************************************************************)
DropsHandle ==
    /\ at = "leaving" /\ DropHandle
    /\ at' = "dropping"
    /\ UNCHANGED <<callVars, connectVars>>

Ends ==
    /\ at = "dropping" /\ Join
    /\ at' = "exited"
    /\ UNCHANGED <<callVars, connectVars>>

-----------------------------------------------------------------------------
(***************************************************************************)
(* The VM thread, Virtualization, and the command in the guest.            *)
(***************************************************************************)
\* The connect call of the driver is the loop of AgentConnect.
RunsThread ==
    /\ Thread
    /\ \/ thread # "connect" /\ thread' = "connect" /\ EnterLoop
       \/ thread = "connect" /\ LeaveLoop(answer'[Main])
       \/ thread # "connect" /\ thread' # "connect" /\ UNCHANGED connectVars
    /\ UNCHANGED sessionVars

Loops == LoopStep /\ UNCHANGED <<sessionVars, vars>>
TimePasses == Tick /\ UNCHANGED <<sessionVars, vars>>

Platforms == Platform /\ UNCHANGED <<sessionVars, connectVars>>

Connects ==
    /\ AttemptEnds(machine = "on") \/ LateAttemptEnds(machine = "on")
    /\ UNCHANGED <<sessionVars, vars>>

\* External: the command ends, once the agent has started it.
Guest ==
    /\ stream = "open" /\ result = None /\ ~Severed
    /\ child = None /\ child' \in Code
    /\ UNCHANGED <<job, exit, envelope, at, result, stream, sessionVms>>

MainThread ==
    \/ Probe \/ BadRequest \/ DryRun \/ RefuseTcp \/ NoCommand \/ ToTcp \/ ToVm
    \/ DialFails \/ Dials
    \/ SpawnFails \/ Spawned \/ CallBoot \/ BootReturns \/ CallConnect \/ ConnectReturns
    \/ TakeResult \/ ExecOverdue \/ CallStop \/ StopIgnored \/ JoinWorker
    \/ DropsHandle \/ Ends

SessionNext ==
    \/ MainThread \/ RunsThread \/ Loops \/ TimePasses \/ Platforms \/ Connects \/ Guest
    \/ ExitArrives \/ AgentError \/ SeveredStreamFails \/ StreamFails

SessionSpec == SessionInit /\ [][SessionNext]_allVars

\* The host's threads run, time passes, and a stream that is severed fails
\* the read.  Nothing is asked of the platform or of the guest.
SessionFairness ==
    /\ WF_allVars(MainThread) /\ WF_allVars(RunsThread) /\ WF_allVars(Loops)
    /\ WF_allVars(TimePasses) /\ WF_allVars(SeveredStreamFails)

SessionFairSpec == SessionSpec /\ SessionFairness

-----------------------------------------------------------------------------
\* Every variable keeps its type; what remains until the connect deadline
\* (Instant::saturating_duration_since) does not pass below zero.
SessionTypeOK == TypeOK /\ ConnectTypes /\ SessionTypes

\* session.rs, "VmHandle stops a still-running VM and joins its thread on
\* every exit path": when the process ends, by whatever path and outcome, no
\* VM is left, unless a force-stop that was tried has failed.
NoVmLeft == at = "exited" /\ machine # "off" => stopFailed

\* lib.rs, "the guest exit code becomes the process exit code" and "never exit
\* non-zero on an infrastructure failure without" an envelope: a run that got
\* past the checks and printed no envelope ends with the code of a command
\* that did end; the -1 of a timeout is told only with process.timeout and a
\* VM that is off or could not be stopped.
ExitTruthful ==
    at = "exited" =>
        /\ ~envelope /\ {"parses", "valid"} \subseteq job /\ {"probe", "dryRun"} \intersect job = {}
             => child \in Code /\ exit = child
        /\ envelope /\ exit = -1
             => Has("timed") /\ (Has("tcp") \/ machine = "off" \/ stopFailed)

\* vz.rs, "refusals before the deadline mean still booting": the connect is
\* given up for lack of time only when no other round fits, or its handler was
\* dropped, and no sleep lasts past the deadline.
ConnectUsesItsBudget ==
    [][/\ answer[Main] = None /\ answer'[Main] = "connectTimeout"
             => left <= RetryInterval \/ attempt = "dropped"
       /\ loop' = "sleeping" => nap' <= left']_allVars

\* The agent serves its connections one after the other (main.rs), so a
\* session whose stream is open must be the only one that reached it: no
\* attempt that was given up is under way or has left a connection behind.
NoStrayConnection == stream = "open" => ~late /\ ~stray

\* With process.timeout the process ends, although the platform may complete
\* nothing and the guest may do nothing, as long as force-stops do not fail.
SessionEnds == Has("timed") /\ at = "run" ~> at = "exited" \/ stopFailed
=============================================================================
