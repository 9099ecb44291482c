------------------------------ MODULE VmRunner ------------------------------
(***************************************************************************)
(* The VM thread of vz_darwin/src/runner.rs with the driver of vz.rs: one  *)
(* thread takes commands from a channel and calls the driver, which        *)
(* submits start and stop to the dispatch queue of Virtualization and      *)
(* waits for the completion handler up to a deadline.  An operation whose  *)
(* deadline has passed is still under way and may take effect later.       *)
(* Virtualization itself is outside src/: it completes what it was asked   *)
(* to do, or fails, at any time, and its guest may power off.              *)
(***************************************************************************)
EXTENDS VmLifecycle, Sequences

VARIABLES
    commands,    \* the channel from the handles to the VM thread
    thread,      \* where the VM thread is
    serving,     \* whose command it executes
    completion,  \* the channel of the operation the driver waits for
    machine,     \* the VM as Virtualization has it
    stopping,    \* a stop operation is on the dispatch queue
    joined,      \* the dropped handle has joined the thread
    stopFailed,  \* history: a driver.stop returned an error
    guestExited  \* history: the guest powered off by itself

runnerVars == <<commands, thread, serving, completion>>
platformVars == <<machine, stopping, guestExited>>
vars == <<state, asked, answer, open, commands, thread, serving, completion,
          machine, stopping, joined, stopFailed, guestExited>>

\* "ready" is commands.recv(); the others are inside a call to the driver,
\* "abandon" in the force-stop after a boot that timed out.
ThreadAt == {"ready", "start", "abandon", "stop", "connect", "teardown", "gone"}
Command == [op : Op, caller : Caller]
Shutdown == [op |-> "shutdown", caller |-> None]

TypeOK ==
    /\ state \in VmState
    /\ asked \in [Caller -> Op \union {None}]
    /\ answer \in [Caller -> Answer \union {None}]
    /\ open \in BOOLEAN
    /\ commands \in Seq(Command \union {Shutdown})
    /\ thread \in ThreadAt
    /\ serving \in Caller \union {None}
    /\ completion \in {"none", "ok", "error"}
    /\ machine \in {"off", "starting", "on"}
    /\ stopping \in BOOLEAN
    /\ joined \in BOOLEAN
    /\ stopFailed \in BOOLEAN
    /\ guestExited \in BOOLEAN

\* VmHandle::spawn has returned: the factory has made the driver.
RunnerInit ==
    /\ Init
    /\ commands = <<>>
    /\ thread = "ready"
    /\ serving = None
    /\ completion = "none"
    /\ machine = "off"
    /\ stopping = FALSE
    /\ joined = FALSE
    /\ stopFailed = FALSE
    /\ guestExited = FALSE

-----------------------------------------------------------------------------
(***************************************************************************)
(* The handle.                                                             *)
(***************************************************************************)
\* boot, stop, connect, state: send the command, then wait for the reply.
Send(c, op) ==
    /\ Call(c, op)
    /\ commands' = Append(commands, [op |-> op, caller |-> c])
    /\ UNCHANGED <<thread, serving, completion, platformVars, joined, stopFailed>>

Receive(c) ==
    /\ Return(c)
    /\ UNCHANGED <<runnerVars, platformVars, joined, stopFailed>>

\* VmHandle::drop: send Shutdown ...
DropHandle ==
    /\ Drop
    /\ commands' = Append(commands, Shutdown)
    /\ UNCHANGED <<thread, serving, completion, platformVars, joined, stopFailed>>

\* ... and join.
Join ==
    /\ ~open
    /\ ~joined
    /\ thread = "gone"
    /\ joined' = TRUE
    /\ UNCHANGED <<lifecycleVars, runnerVars, platformVars, stopFailed>>

-----------------------------------------------------------------------------
(***************************************************************************)
(* The VM thread between two driver calls.                                 *)
(***************************************************************************)
Reply(c, result) == answer' = [answer EXCEPT ![c] = result]

Takes(op) ==
    /\ thread = "ready"
    /\ commands # <<>>
    /\ Head(commands).op = op
    /\ commands' = Tail(commands)

\* The driver is called for the head command and a fresh channel waits.
Enters(at) ==
    /\ thread' = at
    /\ serving' = Head(commands).caller
    /\ completion' = "none"
    /\ UNCHANGED <<lifecycleVars, guestExited, joined, stopFailed>>

Boot ==
    /\ Takes("boot")
    /\ state = "created"
    /\ Enters("start")
    /\ machine' = "starting"
    /\ UNCHANGED stopping

Stop ==
    /\ Takes("stop")
    /\ state = "running"
    /\ Enters("stop")
    /\ stopping' = TRUE
    /\ UNCHANGED machine

Connect ==
    /\ Takes("connect")
    /\ state = "running"
    /\ Enters("connect")
    /\ UNCHANGED <<machine, stopping>>

\* The command is answered without the driver.
Answered(result) ==
    /\ Reply(Head(commands).caller, result)
    /\ UNCHANGED <<state, asked, open, thread, serving, completion, platformVars,
                   joined, stopFailed>>

RefuseBoot == Takes("boot") /\ state # "created" /\ Answered("alreadyRunning")
RefuseStop == Takes("stop") /\ state # "running" /\ Answered("notRunning")
RefuseConnect == Takes("connect") /\ state # "running" /\ Answered("notRunning")
TellState == Takes("state") /\ Answered(state)

\* A VM that is still running is stopped before the driver is dropped.
StopNeeded == state = "running"

\* Shutdown ends the loop.
TakeShutdown ==
    /\ Takes("shutdown")
    /\ thread' = IF StopNeeded THEN "teardown" ELSE "gone"
    /\ stopping' = (stopping \/ StopNeeded)
    /\ completion' = "none"
    /\ UNCHANGED <<lifecycleVars, serving, machine, guestExited, joined, stopFailed>>

-----------------------------------------------------------------------------
(***************************************************************************)
(* The VM thread inside a driver call.  run_on_queue gives the completion's *)
(* result, or an error once the deadline has passed without one.           *)
(***************************************************************************)
DeadlinePasses_Never == FALSE

DeadlinePasses == completion = "none"

StopReturns_Optimistic(success) ==
    IF success THEN completion = "ok" \/ DeadlinePasses ELSE completion = "error"

StopReturns_Patient(success) ==
    IF success THEN completion = "ok" ELSE completion = "error"

\* What driver.stop returns: TRUE for success.
StopReturns(success) ==
    IF success THEN completion = "ok" ELSE completion = "error" \/ DeadlinePasses

Back == thread' = "ready" /\ serving' = None

BootSucceeds ==
    /\ thread = "start"
    /\ completion = "ok"
    /\ state' = "running"
    /\ Reply(serving, "ok")
    /\ Back
    /\ UNCHANGED <<asked, open, commands, completion, platformVars, joined, stopFailed>>

BootFails ==
    /\ thread = "start"
    /\ completion = "error"
    /\ state' = "failed"
    /\ Reply(serving, "startError")
    /\ Back
    /\ UNCHANGED <<asked, open, commands, completion, platformVars, joined, stopFailed>>

BootTimesOut_NoStop ==
    /\ thread = "start"
    /\ DeadlinePasses
    /\ state' = "failed"
    /\ Reply(serving, "bootTimeout")
    /\ Back
    /\ UNCHANGED <<asked, open, commands, completion, platformVars, joined, stopFailed>>

\* A boot that timed out is force-stopped so that it cannot land later.
BootTimesOut ==
    /\ thread = "start"
    /\ DeadlinePasses
    /\ thread' = "abandon"
    /\ stopping' = TRUE
    /\ UNCHANGED <<lifecycleVars, commands, serving, completion, machine, guestExited,
                   joined, stopFailed>>

AbandonedAs_Created == "created"

\* state = VmState::Failed
AbandonedAs == "failed"

\* The result of that stop is ignored.
BootAbandoned ==
    /\ thread = "abandon"
    /\ \E success \in BOOLEAN :
          /\ StopReturns(success)
          /\ stopFailed' = (stopFailed \/ ~success)
    /\ state' = AbandonedAs
    /\ Reply(serving, "bootTimeout")
    /\ Back
    /\ UNCHANGED <<asked, open, commands, completion, platformVars, joined>>

StopDone ==
    /\ thread = "stop"
    /\ \E success \in BOOLEAN :
          /\ StopReturns(success)
          /\ stopFailed' = (stopFailed \/ ~success)
          /\ state' = IF success THEN "stopped" ELSE "failed"
          /\ Reply(serving, IF success THEN "ok" ELSE "stopError")
    /\ Back
    /\ UNCHANGED <<asked, open, commands, completion, platformVars, joined>>

\* open_agent_stream retries until its deadline; a failure leaves the state.
ConnectDone ==
    /\ thread = "connect"
    /\ \E result \in {"ok", "connectError", "connectTimeout"} : Reply(serving, result)
    /\ Back
    /\ UNCHANGED <<state, asked, open, commands, completion, platformVars, joined,
                   stopFailed>>

TeardownDone ==
    /\ thread = "teardown"
    /\ \E success \in BOOLEAN :
          /\ StopReturns(success)
          /\ stopFailed' = (stopFailed \/ ~success)
    /\ thread' = "gone"
    /\ UNCHANGED <<lifecycleVars, commands, serving, completion, platformVars, joined>>

-----------------------------------------------------------------------------
(***************************************************************************)
(* Virtualization: completion handlers, and a guest that powers off.  A    *)
(* completion nobody waits for any more is sent to a closed channel.       *)
(***************************************************************************)
StartCompletes(success) ==
    /\ machine = "starting"
    /\ machine' = IF success THEN "on" ELSE "off"
    /\ completion' = IF thread = "start" THEN IF success THEN "ok" ELSE "error"
                     ELSE completion
    /\ UNCHANGED <<lifecycleVars, commands, thread, serving, stopping, guestExited,
                   joined, stopFailed>>

StopCompletes(success) ==
    /\ stopping
    /\ stopping' = FALSE
    /\ machine' = IF success THEN "off" ELSE machine
    /\ completion' = IF thread \in {"abandon", "stop", "teardown"}
                     THEN IF success THEN "ok" ELSE "error"
                     ELSE completion
    /\ UNCHANGED <<lifecycleVars, commands, thread, serving, guestExited, joined,
                   stopFailed>>

GuestExits ==
    /\ machine = "on"
    /\ machine' = "off"
    /\ guestExited' = TRUE
    /\ UNCHANGED <<lifecycleVars, runnerVars, stopping, joined, stopFailed>>

Platform ==
    \/ \E success \in BOOLEAN : StartCompletes(success) \/ StopCompletes(success)
    \/ GuestExits

Thread ==
    \/ Boot \/ Stop \/ Connect \/ RefuseBoot \/ RefuseStop \/ RefuseConnect \/ TellState
    \/ TakeShutdown
    \/ BootSucceeds \/ BootFails \/ BootTimesOut \/ BootAbandoned
    \/ StopDone \/ ConnectDone \/ TeardownDone

Handle ==
    \/ \E c \in Caller : (\E op \in Op : Send(c, op)) \/ Receive(c)
    \/ DropHandle
    \/ Join

RunnerNext == Handle \/ Thread \/ Platform

RunnerSpec == RunnerInit /\ [][RunnerNext]_vars

\* The VM thread runs, because the driver enforces every deadline itself
\* (recv_timeout); blocked callers resume.  Nothing is assumed of the
\* platform: a completion may never come.
RunnerFairness ==
    /\ WF_vars(Thread)
    /\ WF_vars(Join)
    /\ \A c \in Caller : WF_vars(Receive(c))

RunnerFairSpec == RunnerSpec /\ RunnerFairness

-----------------------------------------------------------------------------
\* The runner implements the one-shot lifecycle: whatever is queued and
\* however the platform behaves, each call acts at one instant, boots once,
\* and never leaves Stopped or Failed.
ImplementsLifecycle == Spec

\* runner.rs, "a stopped VM" and "best effort": once the thread has gone the
\* platform runs no VM, unless a force-stop that was tried has failed.  The
\* late landing of a timed-out boot is the case to fear.
OrphanedOnlyByFailedStop ==
    thread = "gone" /\ machine # "off" => stopFailed

\* Between two commands VmState tells the truth about the machine: running
\* unless the guest left, and nothing at all before a boot or after a stop
\* that succeeded.
StateTellsMachine ==
    thread = "ready" =>
        /\ state = "running" => machine = "on" \/ guestExited
        /\ state \in {"created", "stopped"} => machine = "off"

\* Every call returns, however the platform behaves.
CallsReturn == \A c \in Caller : asked[c] # None ~> asked[c] = None

\* Dropping the handle joins the VM thread.
DropJoins == ~open ~> joined
=============================================================================
