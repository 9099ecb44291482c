--------------------------- MODULE VmRunnerProofs ---------------------------
(***************************************************************************)
(* Theorems about the VM thread, for any number of callers: its types,     *)
(* that it implements the one-shot lifecycle, and that only a force-stop   *)
(* that failed leaves a machine behind.                                    *)
(***************************************************************************)
EXTENDS VmRunner, Integers, TLAPS

\* What a channel of commands does at its two ends.
LEMMA QueueStep ==
    ASSUME NEW S, NEW q \in Seq(S)
    PROVE  /\ Len(q) \in Nat
           /\ q # <<>> =>
                /\ 1 \in 1 .. Len(q) /\ Head(q) = q[1] /\ Head(q) \in S
                /\ Tail(q) \in Seq(S) /\ Len(Tail(q)) = Len(q) - 1
                /\ \A i \in 1 .. Len(q) - 1 : Tail(q)[i] = q[i + 1]
           /\ \A x \in S :
                /\ Append(q, x) \in Seq(S) /\ Len(Append(q, x)) = Len(q) + 1
                /\ Append(q, x)[Len(q) + 1] = x
                /\ \A i \in 1 .. Len(q) : Append(q, x)[i] = q[i]
OBVIOUS

\* The head of the channel, for a command that is a call.
LEMMA HeadCall ==
    ASSUME TypeOK, NEW op \in Op, Takes(op)
    PROVE  /\ Head(commands) \in Command /\ Head(commands).op = op
           /\ Head(commands).caller \in Caller
           /\ commands' \in Seq(Command \union {Shutdown})
<1>1. Head(commands) \in Command \union {Shutdown}
  BY QueueStep DEF Takes, TypeOK
<1>2. Head(commands) # Shutdown
  BY DEF Takes, Shutdown, Op
<1>3. commands' \in Seq(Command \union {Shutdown})
  BY QueueStep DEF Takes, TypeOK
<1> QED
  BY <1>1, <1>2, <1>3 DEF Takes, Command

LEMMA TypeStep == TypeOK /\ [RunnerNext]_vars => TypeOK'
<1> SUFFICES ASSUME TypeOK, [RunnerNext]_vars PROVE TypeOK'
  OBVIOUS
<1> USE DEF lifecycleVars, runnerVars, platformVars
<1>1. ASSUME NEW c \in Caller, NEW op \in Op, Send(c, op) PROVE TypeOK'
  <2>1. [op |-> op, caller |-> c] \in Command
    BY DEF Command
  <2>2. commands' \in Seq(Command \union {Shutdown})
    BY <1>1, <2>1, QueueStep DEF Send, TypeOK
  <2> QED
    BY <1>1, <2>2 DEF Send, Call, TypeOK
<1>2. ASSUME NEW c \in Caller, Receive(c) PROVE TypeOK'
  BY <1>2 DEF Receive, Return, TypeOK
<1>3. CASE DropHandle
  <2>1. commands' \in Seq(Command \union {Shutdown})
    BY <1>3, QueueStep DEF DropHandle, TypeOK
  <2> QED
    BY <1>3, <2>1 DEF DropHandle, Drop, TypeOK
<1>4. CASE Join
  BY <1>4 DEF Join, TypeOK
<1>5. CASE Boot
  BY <1>5, HeadCall DEF Boot, Enters, TypeOK, Op, ThreadAt
<1>6. CASE Stop
  BY <1>6, HeadCall DEF Stop, Enters, TypeOK, Op, ThreadAt
<1>7. CASE Connect
  BY <1>7, HeadCall DEF Connect, Enters, TypeOK, Op, ThreadAt
<1>8. CASE RefuseBoot
  BY <1>8, HeadCall DEF RefuseBoot, Answered, Reply, TypeOK, Op, Answer
<1>9. CASE RefuseStop
  BY <1>9, HeadCall DEF RefuseStop, Answered, Reply, TypeOK, Op, Answer
<1>10. CASE RefuseConnect
  BY <1>10, HeadCall DEF RefuseConnect, Answered, Reply, TypeOK, Op, Answer
<1>11. CASE TellState
  BY <1>11, HeadCall DEF TellState, Answered, Reply, TypeOK, Op, Answer
<1>12. CASE TakeShutdown
  <2>1. commands' \in Seq(Command \union {Shutdown})
    BY <1>12, QueueStep DEF TakeShutdown, Takes, TypeOK
  <2>2. stopping' \in BOOLEAN
    BY <1>12, Zenon DEF TakeShutdown, StopNeeded, TypeOK
  <2> QED
    BY <1>12, <2>1, <2>2 DEF TakeShutdown, TypeOK, ThreadAt
<1>13. CASE BootSucceeds
  BY <1>13 DEF BootSucceeds, Back, Reply, TypeOK, Answer, VmState, ThreadAt
<1>14. CASE BootFails
  BY <1>14 DEF BootFails, Back, Reply, TypeOK, Answer, VmState, ThreadAt
<1>15. CASE BootTimesOut
  BY <1>15 DEF BootTimesOut, TypeOK, ThreadAt
<1>16. CASE BootAbandoned
  <2>1. stopFailed' \in BOOLEAN
    BY <1>16, Zenon DEF BootAbandoned, TypeOK
  <2> QED
    BY <1>16, <2>1 DEF BootAbandoned, AbandonedAs, Back, Reply, TypeOK, Answer, VmState,
                       ThreadAt
<1>17. CASE StopDone
  <2>1. stopFailed' \in BOOLEAN
    BY <1>17, Zenon DEF StopDone, TypeOK
  <2> QED
    BY <1>17, <2>1 DEF StopDone, Back, Reply, TypeOK, Answer, VmState, ThreadAt
<1>18. CASE ConnectDone
  BY <1>18 DEF ConnectDone, Back, Reply, TypeOK, Answer, ThreadAt
<1>19. CASE TeardownDone
  <2>1. stopFailed' \in BOOLEAN
    BY <1>19, Zenon DEF TeardownDone, TypeOK
  <2> QED
    BY <1>19, <2>1 DEF TeardownDone, TypeOK, ThreadAt
<1>20. ASSUME NEW success \in BOOLEAN, StartCompletes(success) PROVE TypeOK'
  BY <1>20 DEF StartCompletes, TypeOK
<1>21. ASSUME NEW success \in BOOLEAN, StopCompletes(success) PROVE TypeOK'
  BY <1>21 DEF StopCompletes, TypeOK
<1>22. CASE GuestExits
  BY <1>22 DEF GuestExits, TypeOK
<1>23. CASE UNCHANGED vars
  BY <1>23 DEF vars, TypeOK
<1> QED
  BY <1>1, <1>2, <1>3, <1>4, <1>5, <1>6, <1>7, <1>8, <1>9, <1>10, <1>11, <1>12, <1>13,
     <1>14, <1>15, <1>16, <1>17, <1>18, <1>19, <1>20, <1>21, <1>22, <1>23
     DEF RunnerNext, Handle, Thread, Platform

\* The runner's state keeps its types.
THEOREM TypeCorrect == RunnerSpec => []TypeOK
<1>1. RunnerInit => TypeOK
  <2> SUFFICES ASSUME RunnerInit PROVE TypeOK
    OBVIOUS
  <2>1. commands \in Seq(Command \union {Shutdown})
    BY DEF RunnerInit
  <2> QED
    BY <2>1 DEF RunnerInit, Init, TypeOK, VmState, ThreadAt
<1> QED
  BY <1>1, TypeStep, PTL DEF RunnerSpec

-----------------------------------------------------------------------------
(***************************************************************************)
(* What VmState says of the machine.  The checked invariants speak of the  *)
(* thread when it is ready or gone; inside a driver call they are carried  *)
(* by what the completion that may be waiting says.                        *)
(***************************************************************************)
\* Which state each driver call is made in.
CallsInState ==
    /\ thread \in {"start", "abandon"} => state = "created"
    /\ thread \in {"stop", "connect", "teardown"} => state = "running"

MachineInv ==
    /\ CallsInState
    /\ state = "created" /\ thread # "abandon" => ~stopping
    /\ state = "created" /\ thread \notin {"start", "abandon"} => machine = "off"
    /\ state = "stopped" => machine = "off"
    /\ state = "running" => machine # "starting"
    /\ state = "running" /\ thread \in {"ready", "connect"} =>
          ~stopping /\ (machine = "on" \/ guestExited)
    /\ state = "failed" => machine = "off" \/ stopFailed
    /\ thread = "start" /\ completion = "ok" =>
          machine # "starting" /\ (machine = "on" \/ guestExited)
    /\ thread = "start" /\ completion = "error" => machine = "off"
    /\ thread \in {"abandon", "stop", "teardown"} /\ completion = "ok" => machine = "off"
    /\ thread = "gone" => machine = "off" \/ stopFailed

LEMMA MachineStep == TypeOK /\ MachineInv /\ [RunnerNext]_vars => MachineInv'
<1> SUFFICES ASSUME TypeOK, MachineInv, [RunnerNext]_vars PROVE MachineInv'
  OBVIOUS
<1> USE DEF lifecycleVars, runnerVars, platformVars, MachineInv, CallsInState
<1> DEFINE Quiet == UNCHANGED <<state, thread, completion, machine, stopping, stopFailed,
                                guestExited>>
<1>1. Quiet => MachineInv'
  OBVIOUS
<1>2. ASSUME NEW c, NEW op PROVE Send(c, op) \/ Receive(c) => Quiet
  BY DEF Send, Call, Receive, Return
<1>3. DropHandle \/ Join \/ RefuseBoot \/ RefuseStop \/ RefuseConnect \/ TellState
        \/ UNCHANGED vars => Quiet
  BY DEF DropHandle, Drop, Join, RefuseBoot, RefuseStop, RefuseConnect, TellState, Takes,
         Answered, vars
<1>4. CASE Boot
  BY <1>4 DEF Boot, Takes, Enters
<1>5. CASE Stop
  BY <1>5 DEF Stop, Takes, Enters
<1>6. CASE Connect
  BY <1>6 DEF Connect, Takes, Enters
<1>7. CASE TakeShutdown
  <2>1. CASE StopNeeded
    BY <1>7, <2>1 DEF TakeShutdown, Takes, StopNeeded
  <2>2. CASE ~StopNeeded
    <3>1. thread = "ready" /\ thread' = "gone" /\ state # "running"
          /\ UNCHANGED <<state, machine, stopFailed>> /\ stopping' = (stopping \/ FALSE)
      BY <1>7, <2>2 DEF TakeShutdown, Takes, StopNeeded
    <3>2. stopping' = stopping
      BY <3>1, Zenon DEF TypeOK
    <3> QED
      BY <3>1, <3>2 DEF TypeOK, VmState
  <2> QED
    BY <2>1, <2>2
<1>8. CASE BootSucceeds
  BY <1>8 DEF BootSucceeds, Back
<1>9. CASE BootFails
  BY <1>9 DEF BootFails, Back
<1>10. CASE BootTimesOut
  BY <1>10 DEF BootTimesOut, DeadlinePasses
<1>11. ASSUME NEW success \in BOOLEAN, StopReturns(success),
              stopFailed' = (stopFailed \/ ~success), thread \in {"abandon", "stop", "teardown"},
              machine' = machine
       PROVE  machine' = "off" \/ stopFailed'
  BY <1>11 DEF StopReturns
<1>12. CASE BootAbandoned
  <2>1. machine' = "off" \/ stopFailed'
    BY <1>11, <1>12 DEF BootAbandoned
  <2> QED
    BY <1>12, <2>1 DEF BootAbandoned, AbandonedAs, Back
<1>13. CASE StopDone
  <2>1. machine' = "off" \/ stopFailed'
    BY <1>11, <1>13 DEF StopDone
  <2>2. state' = "stopped" => machine' = "off"
    BY <1>13 DEF StopDone, StopReturns
  <2>3. state' \in {"stopped", "failed"} /\ thread' = "ready"
    BY <1>13 DEF StopDone, Back
  <2> QED
    BY <2>1, <2>2, <2>3
<1>14. CASE ConnectDone
  BY <1>14 DEF ConnectDone, Back
<1>15. CASE TeardownDone
  <2>1. machine' = "off" \/ stopFailed'
    BY <1>11, <1>15 DEF TeardownDone
  <2> QED
    BY <1>15, <2>1 DEF TeardownDone
<1>16. ASSUME NEW success \in BOOLEAN, StartCompletes(success) PROVE MachineInv'
  BY <1>16 DEF StartCompletes, TypeOK
<1>17. ASSUME NEW success \in BOOLEAN, StopCompletes(success) PROVE MachineInv'
  BY <1>17 DEF StopCompletes, TypeOK
<1>18. CASE GuestExits
  BY <1>18 DEF GuestExits, TypeOK
<1> HIDE DEF Quiet, MachineInv
<1> QED
  BY <1>1, <1>2, <1>3, <1>4, <1>5, <1>6, <1>7, <1>8, <1>9, <1>10, <1>12, <1>13, <1>14,
     <1>15, <1>16, <1>17, <1>18 DEF RunnerNext, Handle, Thread, Platform

LEMMA MachineAlways == RunnerSpec => []MachineInv
<1>1. RunnerInit => MachineInv
  BY DEF RunnerInit, Init, MachineInv, CallsInState
<1> QED
  BY <1>1, MachineStep, TypeCorrect, PTL DEF RunnerSpec

\* A machine that is left behind was left by a force-stop that failed.
THEOREM OrphansExplained == RunnerSpec => []OrphanedOnlyByFailedStop
<1>1. MachineInv => OrphanedOnlyByFailedStop
  BY DEF MachineInv, OrphanedOnlyByFailedStop
<1> QED
  BY <1>1, MachineAlways, PTL

\* VmState tells the truth about the machine between two commands.
THEOREM StateTruthful == RunnerSpec => []StateTellsMachine
<1>1. MachineInv => StateTellsMachine
  BY DEF MachineInv, StateTellsMachine
<1> QED
  BY <1>1, MachineAlways, PTL

-----------------------------------------------------------------------------
(***************************************************************************)
(* The runner implements the lifecycle.  A call takes effect when the VM   *)
(* thread answers it; the invariant says that the thread only ever answers *)
(* calls that are waiting, each once.                                      *)
(***************************************************************************)
WaitingIn(questions, answers, c, op) ==
    c \in Caller /\ c # None /\ questions[c] = op /\ answers[c] = None

Waiting(c, op) == WaitingIn(asked, answer, c, op)
WaitingNext(c, op) == WaitingIn(asked', answer', c, op)

ChannelInv ==
    \A i \in 1 .. Len(commands) : commands[i] # Shutdown =>
        /\ Waiting(commands[i].caller, commands[i].op)
        /\ commands[i].caller # serving
        /\ \A j \in 1 .. Len(commands) : commands[j].caller = commands[i].caller => j = i

ServingInv ==
    /\ thread \in {"start", "abandon"} => Waiting(serving, "boot")
    /\ thread = "stop" => Waiting(serving, "stop")
    /\ thread = "connect" => Waiting(serving, "connect")
    /\ thread \in {"ready", "teardown", "gone"} => serving = None

AnsweredInv == \A c \in Caller : answer[c] # None => asked[c] # None

CallInv == ChannelInv /\ ServingInv /\ AnsweredInv

\* The head command leaves the channel, to be answered or to be served.
LEMMA Popped ==
    ASSUME TypeOK, ChannelInv, commands # <<>>, commands' = Tail(commands),
           asked' = asked,
           \A c \in Caller : c # Head(commands).caller => answer'[c] = answer[c],
           serving' \in {serving, Head(commands).caller}
    PROVE  /\ Head(commands) # Shutdown =>
                Waiting(Head(commands).caller, Head(commands).op)
                  /\ Head(commands).caller # serving
           /\ ChannelInv'
<1>1. /\ Len(commands) \in Nat /\ 1 \in 1 .. Len(commands) /\ Head(commands) = commands[1]
      /\ Len(commands') = Len(commands) - 1
      /\ \A i \in 1 .. Len(commands) - 1 : commands'[i] = commands[i + 1]
  BY QueueStep DEF TypeOK
<1>2. \A i \in 1 .. Len(commands') :
        /\ i + 1 \in 1 .. Len(commands) /\ i + 1 # 1 /\ commands'[i] = commands[i + 1]
  BY <1>1
<1>3. ASSUME NEW i \in 1 .. Len(commands'), commands'[i] # Shutdown
      PROVE  /\ WaitingNext(commands'[i].caller, commands'[i].op)
             /\ commands'[i].caller # serving'
             /\ \A j \in 1 .. Len(commands') : commands'[j].caller = commands'[i].caller => j = i
  <2> DEFINE e == commands[i + 1]
  <2>1. /\ e = commands'[i] /\ Waiting(e.caller, e.op) /\ e.caller # serving
        /\ \A j \in 1 .. Len(commands) : commands[j].caller = e.caller => j = i + 1
    BY <1>2, <1>3 DEF ChannelInv
  <2>2. e.caller # Head(commands).caller
    BY <1>1, <1>2, <2>1
  <2>3. WaitingNext(e.caller, e.op)
    BY <2>1, <2>2 DEF Waiting, WaitingNext, WaitingIn
  <2>4. \A j \in 1 .. Len(commands') : commands'[j].caller = e.caller => j = i
    BY <1>2, <2>1
  <2> QED
    BY <2>1, <2>2, <2>3, <2>4
<1>4. ChannelInv'
  BY <1>3 DEF ChannelInv, Waiting, WaitingNext, WaitingIn
<1>5. Head(commands) # Shutdown =>
        Waiting(Head(commands).caller, Head(commands).op) /\ Head(commands).caller # serving
  BY <1>1 DEF ChannelInv
<1> QED
  BY <1>4, <1>5

\* The call that is being served is answered.
LEMMA ServedAnswered ==
    ASSUME TypeOK, CallInv, NEW op \in Op, Waiting(serving, op), NEW result \in Answer,
           Reply(serving, result), Back, UNCHANGED <<asked, commands>>
    PROVE  CallInv'
<1>1. ChannelInv'
  BY NoneAssumption DEF CallInv, ChannelInv, Waiting, WaitingNext, WaitingIn, Reply, Back, TypeOK
<1>2. ServingInv'
  BY DEF Back, ServingInv
<1>3. AnsweredInv'
  BY NoneAssumption DEF CallInv, AnsweredInv, Waiting, WaitingNext, WaitingIn, Reply, TypeOK, Op
<1> QED
  BY <1>1, <1>2, <1>3 DEF CallInv

\* A command of this kind is taken and the driver is called.
LEMMA ServiceStarts ==
    ASSUME TypeOK, CallInv, NEW op \in Op, Takes(op),
           NEW at \in {"start", "stop", "connect"}, Enters(at),
           \/ op = "boot" /\ at = "start"
           \/ op = "stop" /\ at = "stop"
           \/ op = "connect" /\ at = "connect"
    PROVE  CallInv'
<1>1. Head(commands) \in Command /\ Head(commands).op = op
  BY HeadCall
<1>2. Head(commands) # Shutdown
  BY <1>1 DEF Shutdown, Op
<1>3. UNCHANGED <<asked, answer>> /\ serving' = Head(commands).caller /\ thread' = at
  BY DEF Enters, lifecycleVars
<1>4. ChannelInv' /\ WaitingNext(serving', op)
  <2>1. commands # <<>> /\ commands' = Tail(commands)
    BY DEF Takes
  <2>2. Waiting(Head(commands).caller, op) /\ ChannelInv'
    BY <1>1, <1>2, <1>3, <2>1, Popped DEF CallInv
  <2> QED
    BY <1>3, <2>2 DEF Waiting, WaitingNext, WaitingIn
<1>5. ServingInv'
  BY <1>3, <1>4 DEF ServingInv, Waiting, WaitingNext, WaitingIn
<1>6. AnsweredInv'
  BY <1>3 DEF CallInv, AnsweredInv
<1> QED
  BY <1>4, <1>5, <1>6 DEF CallInv

\* A command of this kind is taken and answered at once.
LEMMA AnsweredAtOnce ==
    ASSUME TypeOK, CallInv, NEW op \in Op, Takes(op), NEW result \in Answer, Answered(result)
    PROVE  CallInv' /\ Waiting(Head(commands).caller, op)
<1>1. Head(commands) \in Command /\ Head(commands).op = op
  BY HeadCall
<1>2. Head(commands) # Shutdown
  BY <1>1 DEF Shutdown, Op
<1>3. /\ UNCHANGED <<asked, serving, thread>>
      /\ answer' = [answer EXCEPT ![Head(commands).caller] = result]
  BY DEF Answered, Reply
<1>4. \A c \in Caller : c # Head(commands).caller => answer'[c] = answer[c]
  BY <1>3 DEF TypeOK
<1>5. commands # <<>> /\ commands' = Tail(commands) /\ thread = "ready"
  BY DEF Takes
<1>6. ChannelInv' /\ Waiting(Head(commands).caller, op)
  BY <1>1, <1>2, <1>3, <1>4, <1>5, Popped DEF CallInv
<1>7. ServingInv'
  BY <1>3, <1>5 DEF CallInv, ServingInv
<1>8. AnsweredInv'
  BY <1>3, <1>4, <1>6, NoneAssumption DEF CallInv, AnsweredInv, Waiting, WaitingNext, WaitingIn, Op, TypeOK
<1> QED
  BY <1>6, <1>7, <1>8 DEF CallInv

\* A command enters the channel.
LEMMA Sent ==
    ASSUME TypeOK, CallInv, NEW x \in Command \union {Shutdown},
           commands' = Append(commands, x), UNCHANGED <<answer, serving, thread>>,
           \/ /\ x = Shutdown
              /\ UNCHANGED asked
           \/ /\ x # Shutdown
              /\ asked[x.caller] = None
              /\ asked' = [asked EXCEPT ![x.caller] = x.op]
    PROVE  CallInv'
<1>0. /\ commands \in Seq(Command \union {Shutdown})
      /\ x # Shutdown => x.caller \in Caller /\ x.op \in Op
      /\ \A c \in Caller : c # None
  BY NoneAssumption DEF TypeOK, Command
<1>1. /\ Len(commands) \in Nat /\ Len(commands') = Len(commands) + 1
      /\ commands'[Len(commands) + 1] = x
      /\ \A i \in 1 .. Len(commands) : commands'[i] = commands[i]
  BY <1>0, QueueStep
<1>2. ASSUME NEW c \in Caller, NEW op \in Op, Waiting(c, op)
      PROVE  WaitingNext(c, op) /\ x.caller # c
  <2>1. op # None
    BY NoneAssumption DEF Op
  <2>2. CASE x = Shutdown
    BY <1>0, <1>2, <2>2 DEF Waiting, WaitingNext, WaitingIn, Shutdown
  <2>3. CASE x # Shutdown
    BY <1>0, <1>2, <2>1, <2>3 DEF Waiting, WaitingNext, WaitingIn, TypeOK
  <2> QED
    BY <2>2, <2>3
<1>3. ChannelInv'
  <2> SUFFICES ASSUME NEW i \in 1 .. Len(commands'), commands'[i] # Shutdown
               PROVE  /\ WaitingNext(commands'[i].caller, commands'[i].op)
                      /\ commands'[i].caller # serving'
                      /\ \A j \in 1 .. Len(commands') :
                            commands'[j].caller = commands'[i].caller => j = i
    BY DEF ChannelInv, Waiting, WaitingNext, WaitingIn
  <2>1. CASE i \in 1 .. Len(commands)
    <3> DEFINE e == commands[i]
    <3>1. /\ commands'[i] = e /\ e # Shutdown /\ Waiting(e.caller, e.op) /\ e.caller # serving
          /\ \A j \in 1 .. Len(commands) : commands[j].caller = e.caller => j = i
      BY <1>1, <2>1 DEF CallInv, ChannelInv
    <3>2. e.op \in Op /\ e.caller \in Caller
      <4>1. e \in Command \union {Shutdown}
        BY <1>0, <2>1
      <4> QED
        BY <3>1, <4>1 DEF Command
    <3>3. WaitingNext(e.caller, e.op) /\ x.caller # e.caller
      BY <1>2, <3>1, <3>2
    <3> HIDE DEF e
    <3>4. ASSUME NEW j \in 1 .. Len(commands'), commands'[j].caller = e.caller PROVE j = i
      <4>1. CASE j = Len(commands) + 1
        BY <1>1, <3>3, <3>4, <4>1
      <4>2. CASE j \in 1 .. Len(commands)
        BY <1>1, <3>1, <3>4, <4>2
      <4> QED
        BY <1>1, <4>1, <4>2
    <3> QED
      BY <3>1, <3>3, <3>4
  <2>2. CASE i = Len(commands) + 1
    <3>1. commands'[i] = x /\ x # Shutdown
      BY <1>1, <2>2
    <3>2. answer[x.caller] = None
      BY <1>0, <3>1 DEF CallInv, AnsweredInv
    <3>3. WaitingNext(x.caller, x.op)
      BY <1>0, <3>1, <3>2 DEF Waiting, WaitingNext, WaitingIn, TypeOK
    <3>4. x.caller # serving
      <4>1. thread \in {"start", "abandon", "stop", "connect"} => asked[serving] # None
        BY NoneAssumption DEF CallInv, ServingInv, Waiting, WaitingNext, WaitingIn
      <4>2. thread = "ready" => serving = None
        BY DEF CallInv, ServingInv
      <4>3. thread \in {"teardown", "gone"} => serving = None
        BY DEF CallInv, ServingInv
      <4> QED
        BY <1>0, <3>1, <4>1, <4>2, <4>3 DEF TypeOK, ThreadAt
    <3>5. ASSUME NEW j \in 1 .. Len(commands), commands[j].caller = x.caller PROVE FALSE
      <4>1. commands[j] \in Command \union {Shutdown}
        BY <1>0
      <4>2. commands[j] # Shutdown
        BY <1>0, <3>1, <3>5 DEF Shutdown
      <4>3. asked[x.caller] \in Op
        BY <3>5, <4>1, <4>2 DEF CallInv, ChannelInv, Waiting, WaitingNext, WaitingIn, Command
      <4> QED
        BY <3>1, <4>3, NoneAssumption DEF Op
    <3> QED
      BY <1>1, <2>2, <3>1, <3>3, <3>4, <3>5
  <2> QED
    BY <1>1, <2>1, <2>2
<1>4. ServingInv'
  <2>1. \A op \in Op : Waiting(serving, op) => WaitingNext(serving, op)
    BY <1>2 DEF Waiting, WaitingNext, WaitingIn
  <2> QED
    BY <2>1 DEF CallInv, ServingInv, Waiting, WaitingNext, WaitingIn, Op
<1>5. AnsweredInv'
  BY <1>0, NoneAssumption DEF CallInv, AnsweredInv, TypeOK, Op
<1> QED
  BY <1>3, <1>4, <1>5 DEF CallInv

LEMMA CallStep == TypeOK /\ CallInv /\ [RunnerNext]_vars => CallInv'
<1> SUFFICES ASSUME TypeOK, CallInv, [RunnerNext]_vars PROVE CallInv'
  OBVIOUS
<1> USE DEF lifecycleVars, runnerVars
<1> DEFINE Quiet == UNCHANGED <<asked, answer, commands, thread, serving>>
<1>0. /\ "ok" \in Answer /\ "startError" \in Answer /\ "bootTimeout" \in Answer
      /\ "stopError" \in Answer /\ "connectError" \in Answer /\ "connectTimeout" \in Answer
      /\ "alreadyRunning" \in Answer /\ "notRunning" \in Answer /\ state \in Answer
      /\ Op = {"boot", "stop", "connect", "state"}
  BY DEF Answer, Op, TypeOK
<1>1. Quiet => CallInv'
  BY DEF CallInv, ChannelInv, ServingInv, AnsweredInv, Waiting, WaitingIn
<1>2. ASSUME NEW c \in Caller, NEW op \in Op, Send(c, op) PROVE CallInv'
  <2> DEFINE x == [op |-> op, caller |-> c]
  <2>1. /\ x \in Command /\ x # Shutdown /\ x.caller = c /\ x.op = op
    BY <1>0 DEF Command, Shutdown
  <2> HIDE DEF x
  <2>2. /\ commands' = Append(commands, x) /\ UNCHANGED <<answer, serving, thread>>
        /\ asked[c] = None /\ asked' = [asked EXCEPT ![c] = op]
    BY <1>2 DEF Send, Call, x
  <2> QED
    BY <2>1, <2>2, Sent
<1>3. CASE DropHandle
  BY <1>3, Sent DEF DropHandle, Drop
<1>4. ASSUME NEW c \in Caller, Receive(c) PROVE CallInv'
  <2>1. /\ answer[c] # None /\ UNCHANGED <<commands, serving, thread>>
        /\ asked' = [asked EXCEPT ![c] = None] /\ answer' = [answer EXCEPT ![c] = None]
    BY <1>4 DEF Receive, Return
  <2>2. ASSUME NEW d, NEW op, Waiting(d, op) PROVE WaitingIn(asked', answer', d, op)
    BY <2>1, <2>2 DEF Waiting, WaitingIn, TypeOK
  <2>3. ChannelInv'
    BY <2>1, <2>2 DEF CallInv, ChannelInv, Waiting
  <2>4. ServingInv'
    BY <2>1, <2>2 DEF CallInv, ServingInv, Waiting
  <2>5. AnsweredInv'
    BY <2>1 DEF CallInv, AnsweredInv, TypeOK
  <2> QED
    BY <2>3, <2>4, <2>5 DEF CallInv
<1>5. CASE Boot
  BY <1>0, <1>5, ServiceStarts DEF Boot
<1>6. CASE Stop
  BY <1>0, <1>6, ServiceStarts DEF Stop
<1>7. CASE Connect
  BY <1>0, <1>7, ServiceStarts DEF Connect
<1>8. CASE RefuseBoot \/ RefuseStop \/ RefuseConnect \/ TellState
  BY <1>0, <1>8, AnsweredAtOnce DEF RefuseBoot, RefuseStop, RefuseConnect, TellState
<1>9. CASE TakeShutdown
  <2>1. /\ commands # <<>> /\ commands' = Tail(commands) /\ thread = "ready"
        /\ UNCHANGED <<asked, answer, serving>> /\ thread' \in {"teardown", "gone"}
    BY <1>9 DEF TakeShutdown, Takes
  <2>2. ChannelInv'
    BY <2>1, Popped DEF CallInv
  <2>3. ServingInv' /\ AnsweredInv'
    BY <2>1 DEF CallInv, ServingInv, AnsweredInv
  <2> QED
    BY <2>2, <2>3 DEF CallInv
<1>10. thread \in {"start", "abandon"} => Waiting(serving, "boot")
  BY DEF CallInv, ServingInv
<1>11. thread = "stop" => Waiting(serving, "stop")
  BY DEF CallInv, ServingInv
<1>12. thread = "connect" => Waiting(serving, "connect")
  BY DEF CallInv, ServingInv
<1>13. CASE BootSucceeds
  BY <1>0, <1>10, <1>13, ServedAnswered DEF BootSucceeds
<1>14. CASE BootFails
  BY <1>0, <1>10, <1>14, ServedAnswered DEF BootFails
<1>15. CASE BootAbandoned
  BY <1>0, <1>10, <1>15, ServedAnswered DEF BootAbandoned
<1>16. CASE StopDone
  <2>1. PICK result \in Answer : Reply(serving, result)
    BY <1>0, <1>16 DEF StopDone
  <2>2. thread = "stop" /\ Back /\ UNCHANGED <<asked, commands>>
    BY <1>16 DEF StopDone
  <2> QED
    BY <1>0, <1>11, <2>1, <2>2, ServedAnswered
<1>17. CASE ConnectDone
  <2>1. PICK result \in Answer : Reply(serving, result)
    BY <1>0, <1>17 DEF ConnectDone
  <2>2. thread = "connect" /\ Back /\ UNCHANGED <<asked, commands>>
    BY <1>17 DEF ConnectDone
  <2> QED
    BY <1>0, <1>12, <2>1, <2>2, ServedAnswered
<1>18. CASE BootTimesOut \/ TeardownDone
  <2>1. /\ UNCHANGED <<asked, answer, commands, serving>>
        /\ \/ thread = "start" /\ thread' = "abandon"
           \/ thread = "teardown" /\ thread' = "gone"
    BY <1>18 DEF BootTimesOut, TeardownDone
  <2> QED
    BY <2>1 DEF CallInv, ChannelInv, ServingInv, AnsweredInv, Waiting, WaitingIn
<1>19. Join \/ GuestExits \/ UNCHANGED vars => Quiet
  BY DEF Join, GuestExits, vars
<1>20. ASSUME NEW success PROVE StartCompletes(success) \/ StopCompletes(success) => Quiet
  BY DEF StartCompletes, StopCompletes
<1> HIDE DEF Quiet
<1> QED
  BY <1>1, <1>2, <1>3, <1>4, <1>5, <1>6, <1>7, <1>8, <1>9, <1>13, <1>14, <1>15, <1>16,
     <1>17, <1>18, <1>19, <1>20 DEF RunnerNext, Handle, Thread, Platform

\* A waiting call whose answer is one of the lifecycle's outcomes is served.
LEMMA Serves ==
    ASSUME TypeOK, NEW c \in Caller, NEW op \in Op, Waiting(c, op), NEW result, NEW s,
           <<s, result>> \in Outcomes(op, state), state' = s, Reply(c, result),
           UNCHANGED <<asked, open>>
    PROVE  Serve(c)
<1>1. asked[c] = op /\ answer[c] = None /\ op # None
  BY NoneAssumption DEF Waiting, WaitingIn, Op
<1>2. <<s, result>>[1] = s /\ <<s, result>>[2] = result
  OBVIOUS
<1> QED
  BY <1>1, <1>2 DEF Serve, Reply

LEMMA StepImplements ==
    TypeOK /\ CallsInState /\ CallInv /\ [RunnerNext]_vars => [Next]_lifecycleVars
<1> SUFFICES ASSUME TypeOK, CallsInState, CallInv, [RunnerNext]_vars
             PROVE  Next \/ UNCHANGED lifecycleVars
  OBVIOUS
<1>1. ASSUME NEW c \in Caller, NEW op \in Op, Send(c, op) PROVE Next
  BY <1>1 DEF Send, Next
<1>2. ASSUME NEW c \in Caller, Receive(c) PROVE Next
  BY <1>2 DEF Receive, Next
<1>3. CASE DropHandle
  BY <1>3 DEF DropHandle, Next
<1>4. ASSUME NEW c \in Caller, Serve(c) PROVE Next
  BY <1>4 DEF Next
<1>5. ASSUME NEW op \in Op, NEW result \in Answer, Takes(op), Answered(result),
             <<state, result>> \in Outcomes(op, state)
      PROVE  Next
  <2>1. Waiting(Head(commands).caller, op) /\ Head(commands).caller \in Caller
    BY <1>5, AnsweredAtOnce, HeadCall
  <2>2. Reply(Head(commands).caller, result) /\ UNCHANGED <<state, asked, open>>
    BY <1>5 DEF Answered
  <2>3. Serve(Head(commands).caller)
    BY <1>5, <2>1, <2>2, Serves
  <2> QED
    BY <1>4, <2>1, <2>3
<1>6. /\ {"boot", "stop", "connect", "state"} = Op
      /\ {"alreadyRunning", "notRunning", state} \in SUBSET Answer
  BY DEF Op, Answer, TypeOK
<1>7. CASE RefuseBoot
  <2>1. <<state, "alreadyRunning">> \in Outcomes("boot", state)
    BY <1>7 DEF RefuseBoot, Outcomes
  <2> QED
    BY <1>5, <1>6, <1>7, <2>1 DEF RefuseBoot
<1>8. CASE RefuseStop
  <2>1. <<state, "notRunning">> \in Outcomes("stop", state)
    BY <1>8 DEF RefuseStop, Outcomes
  <2> QED
    BY <1>5, <1>6, <1>8, <2>1 DEF RefuseStop
<1>9. CASE RefuseConnect
  <2>1. <<state, "notRunning">> \in Outcomes("connect", state)
    BY <1>9 DEF RefuseConnect, Outcomes
  <2> QED
    BY <1>5, <1>6, <1>9, <2>1 DEF RefuseConnect
<1>10. CASE TellState
  <2>1. <<state, state>> \in Outcomes("state", state)
    BY DEF Outcomes
  <2> QED
    BY <1>5, <1>6, <1>10, <2>1 DEF TellState
<1>11. ASSUME NEW op \in Op, Waiting(serving, op), NEW result, NEW s,
              <<s, result>> \in Outcomes(op, state), state' = s, Reply(serving, result),
              UNCHANGED <<asked, open>>
       PROVE  Next
  <2>1. serving \in Caller
    BY <1>11 DEF Waiting, WaitingIn
  <2> QED
    BY <1>4, <1>11, <2>1, Serves
<1>12. CASE BootSucceeds
  <2>1. <<"running", "ok">> \in Outcomes("boot", state) /\ Waiting(serving, "boot")
    BY <1>12 DEF BootSucceeds, CallsInState, Outcomes, CallInv, ServingInv
  <2> QED
    BY <1>6, <1>11, <1>12, <2>1 DEF BootSucceeds
<1>13. CASE BootFails
  <2>1. <<"failed", "startError">> \in Outcomes("boot", state) /\ Waiting(serving, "boot")
    BY <1>13 DEF BootFails, CallsInState, Outcomes, CallInv, ServingInv
  <2> QED
    BY <1>6, <1>11, <1>13, <2>1 DEF BootFails
<1>14. CASE BootAbandoned
  <2>1. <<"failed", "bootTimeout">> \in Outcomes("boot", state) /\ Waiting(serving, "boot")
    BY <1>14 DEF BootAbandoned, CallsInState, Outcomes, CallInv, ServingInv
  <2> QED
    BY <1>6, <1>11, <1>14, <2>1 DEF BootAbandoned, AbandonedAs
<1>15. CASE StopDone
  <2>1. /\ {<<"stopped", "ok">>, <<"failed", "stopError">>} \in SUBSET Outcomes("stop", state)
        /\ Waiting(serving, "stop")
    BY <1>15 DEF StopDone, CallsInState, Outcomes, CallInv, ServingInv
  <2>2. PICK success \in BOOLEAN :
          /\ state' = IF success THEN "stopped" ELSE "failed"
          /\ Reply(serving, IF success THEN "ok" ELSE "stopError")
    BY <1>15 DEF StopDone
  <2>3. UNCHANGED <<asked, open>>
    BY <1>15 DEF StopDone
  <2>4. CASE success
    BY <1>6, <1>11, <2>1, <2>2, <2>3, <2>4
  <2>5. CASE ~success
    BY <1>6, <1>11, <2>1, <2>2, <2>3, <2>5
  <2> QED
    BY <2>4, <2>5
<1>16. CASE ConnectDone
  <2>1. /\ {<<state, "ok">>, <<state, "connectError">>, <<state, "connectTimeout">>}
             \in SUBSET Outcomes("connect", state)
        /\ Waiting(serving, "connect")
    BY <1>16 DEF ConnectDone, CallsInState, Outcomes, CallInv, ServingInv
  <2> QED
    BY <1>6, <1>11, <1>16, <2>1 DEF ConnectDone
<1>17. Join \/ Boot \/ Stop \/ Connect \/ TakeShutdown \/ BootTimesOut \/ TeardownDone
         \/ GuestExits \/ UNCHANGED vars => UNCHANGED lifecycleVars
  BY DEF Join, Boot, Stop, Connect, Enters, TakeShutdown, BootTimesOut, TeardownDone,
         GuestExits, vars, lifecycleVars
<1>18. ASSUME NEW success
       PROVE  StartCompletes(success) \/ StopCompletes(success) => UNCHANGED lifecycleVars
  BY DEF StartCompletes, StopCompletes, lifecycleVars
<1> QED
  BY <1>1, <1>2, <1>3, <1>7, <1>8, <1>9, <1>10, <1>12, <1>13, <1>14, <1>15, <1>16, <1>17,
     <1>18 DEF RunnerNext, Handle, Thread, Platform

\* Each call is in one place, always.
LEMMA CallAlways == RunnerSpec => []CallInv
<1>1. RunnerInit => CallInv
  BY DEF RunnerInit, Init, CallInv, ChannelInv, ServingInv, AnsweredInv
<1> QED
  BY <1>1, CallStep, TypeCorrect, PTL DEF RunnerSpec

\* The VM thread with its channel, its driver and the platform implements the
\* one-shot lifecycle.
THEOREM RunnerImplementsLifecycle == RunnerSpec => ImplementsLifecycle
<1>1. RunnerInit => Init
  BY DEF RunnerInit
<1>2. MachineInv => CallsInState
  BY DEF MachineInv
<1> QED
  BY <1>1, <1>2, StepImplements, CallAlways, TypeCorrect, MachineAlways, PTL
     DEF RunnerSpec, ImplementsLifecycle, Spec
=============================================================================
