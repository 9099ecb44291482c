-------------------------- MODULE ExecSessionProofs --------------------------
(***************************************************************************)
(* Theorems about an exec, for every size of stdin, output, pipes and cap: *)
(* its types, which bound what the host captures; that a session which     *)
(* reports TimedOut has stopped the VM or failed to; that the output is    *)
(* complete when the exit code arrives; that stdin arrives as it was.  The *)
(* last section is about the bytes below it, for every cap that fits the   *)
(* length field: frames are read as they were written.                     *)
(***************************************************************************)
EXTENDS ExecSession, FrameCodec, SequenceTheorems, TLAPS

\* What a queue does at its two ends.
LEMMA QueueEnds ==
  ASSUME NEW S, NEW q \in Seq(S)
  PROVE  /\ \A x \in S : Append(q, x) \in Seq(S) /\ Len(Append(q, x)) = Len(q) + 1
         /\ q # <<>> => Head(q) \in S /\ Tail(q) \in Seq(S)
         /\ Len(q) \in Nat
OBVIOUS

\* The frames the host writes.
LEMMA ScriptFrames ==
  /\ Len(Script) = StdinChunks + 2
  /\ \A i \in 1 .. StdinChunks + 2 : Script[i] \in GuestFrame
<1> DEFINE mid == [i \in 1 .. StdinChunks |-> Frame("stdin", i)]
<1>1. StdinChunks \in Nat
  BY SizesAssumption
<1>2. \A i \in 1 .. StdinChunks : Frame("stdin", i) \in GuestFrame
  BY <1>1 DEF Frame, GuestFrame
<1>3. mid \in Seq(GuestFrame) /\ Len(mid) = StdinChunks
  BY <1>1, <1>2
<1>4. Frame("exec", 0) \in GuestFrame /\ Frame("eof", 0) \in GuestFrame
  BY <1>1 DEF Frame, GuestFrame
<1>5. <<Frame("exec", 0)>> \in Seq(GuestFrame) /\ <<Frame("eof", 0)>> \in Seq(GuestFrame)
  BY <1>4
<1> HIDE DEF mid
<1>6. <<Frame("exec", 0)>> \o mid \in Seq(GuestFrame)
      /\ Len(<<Frame("exec", 0)>> \o mid) = StdinChunks + 1
  BY <1>1, <1>3, <1>5
<1>7. <<Frame("exec", 0)>> \o mid \o <<Frame("eof", 0)>> \in Seq(GuestFrame)
      /\ Len(<<Frame("exec", 0)>> \o mid \o <<Frame("eof", 0)>>) = StdinChunks + 2
  BY <1>1, <1>5, <1>6
<1>8. Script = <<Frame("exec", 0)>> \o mid \o <<Frame("eof", 0)>>
  BY DEF Script, mid
<1> QED
  BY <1>1, <1>7, <1>8

\* append_capped keeps a captured stream within the cap and its marker.
LEMMA CaptureBounded ==
  ASSUME NEW buf \in Seq(0 .. MaxOut), Len(buf) <= MaxCaptured + 1, NEW n \in 0 .. MaxOut
  PROVE  /\ AppendCapped(buf, n) \in Seq(0 .. MaxOut)
         /\ Len(AppendCapped(buf, n)) <= MaxCaptured + 1
<1>1. MaxOut \in Nat /\ MaxCaptured \in Nat
  BY SizesAssumption
<1>2. Marker \in 0 .. MaxOut
  BY <1>1 DEF Marker
<1>3. Len(buf) \in Nat
  OBVIOUS
<1>4. ASSUME NEW x \in 0 .. MaxOut
      PROVE  Append(buf, x) \in Seq(0 .. MaxOut) /\ Len(Append(buf, x)) = Len(buf) + 1
  OBVIOUS
<1>5. CASE Len(buf) > MaxCaptured
  BY <1>5 DEF AppendCapped
<1>6. CASE Len(buf) = MaxCaptured
  <2>1. AppendCapped(buf, n) = Append(buf, Marker)
    BY <1>1, <1>6 DEF AppendCapped
  <2> QED
    BY <1>1, <1>2, <1>4, <1>6, <2>1
<1>7. CASE Len(buf) < MaxCaptured
  <2>1. AppendCapped(buf, n) = Append(buf, n)
    BY <1>1, <1>3, <1>7 DEF AppendCapped
  <2>2. Len(buf) + 1 <= MaxCaptured + 1
    BY <1>1, <1>3, <1>7
  <2> QED
    BY <1>4, <2>1, <2>2
<1> QED
  BY <1>1, <1>3, <1>5, <1>6, <1>7

-----------------------------------------------------------------------------
LEMMA TypeStep == TypeOK /\ [Next]_vars => TypeOK'
<1> SUFFICES ASSUME TypeOK, [Next]_vars PROVE TypeOK'
  OBVIOUS
<1> USE DEF TypeOK
<1>a. StdinChunks \in Nat /\ MaxOut \in Nat /\ MaxCaptured \in Nat
  BY SizesAssumption
<1>b. UNCHANGED host => HostTypes'
  BY DEF HostTypes, host, supervision
<1>c. UNCHANGED <<vmOn, toGuest, toHost>> => WireTypes'
  BY DEF WireTypes
<1>d. UNCHANGED <<agent, hand, stdinOpen>> => AgentTypes'
  BY DEF AgentTypes
<1>e. UNCHANGED pump => PumpTypes'
  BY DEF PumpTypes
<1>f. UNCHANGED command => CommandTypes'
  BY DEF CommandTypes, command
<1>g. UNCHANGED agentVars => AgentTypes' /\ PumpTypes'
  BY <1>d, <1>e DEF agentVars
<1>1. CASE HostSends
  <2>1. sent + 1 \in 1 .. StdinChunks + 2
    BY <1>a, <1>1, ScriptFrames DEF HostSends, Writing, HostTypes
  <2>2. toGuest' \in Seq(GuestFrame)
    BY <1>1, <2>1, ScriptFrames, QueueEnds DEF HostSends, WireTypes
  <2>3. WireTypes'
    BY <1>1, <2>2 DEF HostSends, WireTypes
  <2>4. HostTypes'
    BY <1>1, <2>1 DEF HostSends, HostTypes, supervision
  <2> QED
    BY <1>1, <1>f, <1>g, <2>3, <2>4 DEF HostSends
<1>2. CASE HostWriteFails
  <2>1. HostTypes'
    BY <1>2 DEF HostWriteFails, HostTypes, Result, supervision
  <2> QED
    BY <1>2, <1>c, <1>f, <1>g, <2>1 DEF HostWriteFails
<1>3. CASE HostCollects
  <2> DEFINE frame == Head(toHost)
  <2>1. frame \in HostFrame /\ toHost' \in Seq(HostFrame)
    BY <1>3, QueueEnds DEF HostCollects, WireTypes
  <2>2. WireTypes'
    BY <1>3, <2>1 DEF HostCollects, WireTypes
  <2>3. ASSUME frame.ch \in Stream, UNCHANGED result,
               captured' = [captured EXCEPT ![frame.ch] = AppendCapped(@, frame.n)]
        PROVE  HostTypes'
    <3>1. frame.n \in 0 .. MaxOut
      BY <2>1 DEF HostFrame
    <3>2. \A s \in Stream : /\ captured[s] \in Seq(0 .. MaxOut)
                            /\ Len(captured[s]) <= MaxCaptured + 1
      BY DEF HostTypes
    <3> HIDE DEF frame
    <3>3. /\ AppendCapped(captured[frame.ch], frame.n) \in Seq(0 .. MaxOut)
          /\ Len(AppendCapped(captured[frame.ch], frame.n)) <= MaxCaptured + 1
      BY <2>3, <3>1, <3>2, CaptureBounded
    <3>4. /\ captured' \in [Stream -> Seq(0 .. MaxOut)]
          /\ \A s \in Stream : Len(captured'[s]) <= MaxCaptured + 1
      BY <2>3, <3>2, <3>3 DEF HostTypes
    <3>5. UNCHANGED <<deadline, supervisor, outcome, stopFailed, sent>>
      BY <1>3 DEF HostCollects, supervision
    <3>6. UNCHANGED result
      BY <2>3
    <3> QED
      BY <3>4, <3>5, <3>6, Zenon DEF HostTypes
  <2>4. ASSUME result' \in Result, UNCHANGED captured PROVE HostTypes'
    BY <1>3, <2>4 DEF HostCollects, HostTypes, supervision
  <2>5. HostTypes'
    BY <1>3, <2>3, <2>4 DEF HostCollects, Result
  <2>6. UNCHANGED <<agentVars, command>>
    BY <1>3 DEF HostCollects
  <2>7. AgentTypes' /\ PumpTypes' /\ CommandTypes'
    BY <1>f, <1>g, <2>6
  <2> QED
    BY <2>2, <2>5, <2>7
<1>4. CASE HostReadFails
  <2>1. HostTypes'
    BY <1>4 DEF HostReadFails, HostTypes, Result, supervision
  <2> QED
    BY <1>4, <1>c, <1>f, <1>g, <2>1 DEF HostReadFails
<1>5. CASE TakeResult
  <2>1. HostTypes'
    BY <1>5 DEF TakeResult, Verdict, HostTypes, Result
  <2> QED
    BY <1>5, <1>c, <1>f, <1>g, <2>1 DEF TakeResult
<1>6. CASE DeadlinePasses
  <2>1. HostTypes'
    BY <1>6 DEF DeadlinePasses, HostTypes
  <2> QED
    BY <1>6, <1>c, <1>f, <1>g, <2>1 DEF DeadlinePasses
<1>7. CASE ForceStop
  <2>1. HostTypes'
    BY <1>7 DEF ForceStop, HostTypes
  <2>2. WireTypes'
    BY <1>7 DEF ForceStop, WireTypes
  <2> QED
    BY <1>7, <1>f, <1>g, <2>1, <2>2 DEF ForceStop
<1>8. CASE JoinWorker
  <2>1. HostTypes'
    BY <1>8 DEF JoinWorker, HostTypes
  <2> QED
    BY <1>8, <1>c, <1>f, <1>g, <2>1 DEF JoinWorker
<1>9. ASSUME TakesRequest, UNCHANGED <<vmOn, toHost>> PROVE WireTypes'
  BY <1>9, QueueEnds DEF TakesRequest, WireTypes
<1>10. ASSUME NEW frame \in HostFrame, Respond(frame), UNCHANGED <<vmOn, toGuest>> PROVE WireTypes'
  <2>1. toHost \in Seq(HostFrame)
    BY DEF WireTypes
  <2>2. Append(toHost, frame) \in Seq(HostFrame)
    BY <2>1, QueueEnds
  <2>3. vmOn' \in BOOLEAN
    BY <1>10 DEF WireTypes
  <2> QED
    BY <1>10, <2>2, <2>3 DEF Respond, WireTypes
<1>11. CASE Spawn
  <2>1. AgentTypes' /\ CommandTypes'
    BY <1>11 DEF Spawn, AgentTypes, CommandTypes
  <2> QED
    BY <1>11, <1>b, <1>e, <1>9, <2>1 DEF Spawn
<1>12. CASE SpawnFails
  <2>1. AgentTypes'
    BY <1>12 DEF SpawnFails, AgentTypes
  <2> QED
    BY <1>12, <1>b, <1>e, <1>f, <1>9, <2>1 DEF SpawnFails
<1>13. CASE SendError
  <2>1. Frame("error", 0) \in HostFrame
    BY <1>a DEF Frame, HostFrame
  <2>2. WireTypes'
    BY <1>10, <1>13, <2>1 DEF SendError
  <2>3. AgentTypes'
    BY <1>13 DEF SendError, AgentTypes
  <2> QED
    BY <1>13, <1>b, <1>e, <1>f, <2>2, <2>3 DEF SendError
<1>14. CASE AgentReads
  <2>1. Head(toGuest) \in GuestFrame /\ toGuest' \in Seq(GuestFrame)
    BY <1>14, QueueEnds DEF AgentReads, WireTypes
  <2>2. Head(toGuest).n \in 0 .. StdinChunks /\ 0 \in 0 .. StdinChunks
    BY <1>a, <2>1 DEF GuestFrame
  <2>3. AgentTypes'
    BY <1>14, <2>2 DEF AgentReads, AgentTypes
  <2>4. WireTypes'
    BY <1>14, <2>1 DEF AgentReads, WireTypes
  <2> QED
    BY <1>14, <1>b, <1>e, <1>f, <2>3, <2>4 DEF AgentReads
<1>15. CASE WriteStdin
  <2>1. hand \in 1 .. StdinChunks /\ 0 \in 0 .. StdinChunks
    BY <1>a, <1>15 DEF WriteStdin, AgentTypes
  <2>2. stdinPipe' \in Seq(1 .. StdinChunks)
    BY <1>15, <2>1, QueueEnds DEF WriteStdin, CommandTypes
  <2>3. AgentTypes'
    BY <1>15, <2>1, Zenon DEF WriteStdin, AgentTypes
  <2>4. CommandTypes'
    BY <1>15, <2>2 DEF WriteStdin, CommandTypes
  <2> QED
    BY <1>15, <1>b, <1>c, <1>e, <2>3, <2>4 DEF WriteStdin
<1>16. CASE WriteRefused
  <2>1. 0 \in 0 .. StdinChunks
    BY <1>a
  <2>2. AgentTypes'
    BY <1>16, <2>1, Zenon DEF WriteRefused, AgentTypes
  <2> QED
    BY <1>16, <1>b, <1>c, <1>e, <1>f, <2>2 DEF WriteRefused
<1>17. CASE SendExit
  <2>1. Frame("exit", 0) \in HostFrame
    BY <1>a DEF Frame, HostFrame
  <2>2. WireTypes'
    BY <1>10, <1>17, <2>1 DEF SendExit
  <2>3. AgentTypes'
    BY <1>17 DEF SendExit, AgentTypes
  <2> QED
    BY <1>17, <1>b, <1>e, <1>f, <2>2, <2>3 DEF SendExit
<1>18. ASSUME NEW s \in Stream, PumpReads(s) PROVE TypeOK'
  <2>1. pipe[s] \in Seq(1 .. MaxOut)
    BY DEF CommandTypes
  <2>2. Head(pipe[s]) \in 1 .. MaxOut /\ Tail(pipe[s]) \in Seq(1 .. MaxOut)
    BY <1>18, <2>1, QueueEnds DEF PumpReads
  <2>3. Head(pipe[s]) \in {Over} \cup 0 .. MaxOut
    BY <1>a, <2>2
  <2>4. PumpTypes'
    BY <1>18, <2>3, Zenon DEF PumpReads, PumpTypes
  <2>5. pipe' \in [Stream -> Seq(1 .. MaxOut)]
    BY <1>18, <2>2, Zenon DEF PumpReads, CommandTypes
  <2>6. CommandTypes'
    BY <1>18, <2>5 DEF PumpReads, CommandTypes
  <2> QED
    BY <1>18, <1>b, <1>c, <1>d, <2>4, <2>6 DEF PumpReads
<1>19. ASSUME NEW s \in Stream, PumpSends(s) PROVE TypeOK'
  <2>1. Frame(s, pump[s]) \in HostFrame
    BY <1>a, <1>19 DEF PumpSends, Frame, HostFrame
  <2>2. WireTypes'
    BY <1>10, <1>19, <2>1 DEF PumpSends
  <2>3. 0 \in {Over} \cup 0 .. MaxOut
    BY <1>a
  <2>4. PumpTypes'
    BY <1>19, <2>3, Zenon DEF PumpSends, PumpTypes
  <2> QED
    BY <1>19, <1>b, <1>d, <1>f, <2>2, <2>4 DEF PumpSends
<1>20. ASSUME NEW s \in Stream, PumpEnds(s) PROVE TypeOK'
  <2>1. PumpTypes'
    BY <1>20, Zenon DEF PumpEnds, PumpTypes
  <2> QED
    BY <1>20, <1>b, <1>c, <1>d, <1>f, <2>1 DEF PumpEnds
<1>21. CASE ChildReads
  <2>1. got' \in Seq(1 .. StdinChunks) /\ stdinPipe' \in Seq(1 .. StdinChunks)
    BY <1>21, QueueEnds DEF ChildReads, CommandTypes
  <2>2. CommandTypes'
    BY <1>21, <2>1 DEF ChildReads, CommandTypes
  <2> QED
    BY <1>21, <1>b, <1>c, <1>g, <2>2 DEF ChildReads
<1>22. ASSUME NEW s \in Stream, ChildWrites(s) PROVE TypeOK'
  <2>1. /\ wrote[s] \in 0 .. MaxOut /\ behaviour.out[s] \in 0 .. MaxOut
        /\ pipe[s] \in Seq(1 .. MaxOut)
    BY DEF CommandTypes, Behaviour
  <2>2. wrote[s] + 1 \in 1 .. MaxOut
    BY <1>a, <1>22, <2>1 DEF ChildWrites
  <2>3. Append(pipe[s], wrote[s] + 1) \in Seq(1 .. MaxOut)
    BY <2>1, <2>2, QueueEnds
  <2>4. wrote[s] + 1 \in 0 .. MaxOut
    BY <1>a, <2>2
  <2>5. /\ wrote' \in [Stream -> 0 .. MaxOut]
        /\ pipe' \in [Stream -> Seq(1 .. MaxOut)]
    BY <1>22, <2>3, <2>4, Zenon DEF ChildWrites, CommandTypes
  <2>6. CommandTypes'
    BY <1>22, <2>5 DEF ChildWrites, CommandTypes
  <2> QED
    BY <1>22, <1>b, <1>c, <1>g, <2>6 DEF ChildWrites
<1>23. CASE ChildExits
  <2>1. behaviour.leaves \in BOOLEAN
    BY FlagsAssumption DEF CommandTypes, Behaviour
  <2>2. CommandTypes'
    BY <1>23, <2>1 DEF ChildExits, CommandTypes
  <2> QED
    BY <1>23, <1>b, <1>c, <1>g, <2>2 DEF ChildExits
<1>24. CASE LeftoverEnds
  <2>1. CommandTypes'
    BY <1>24 DEF LeftoverEnds, CommandTypes
  <2> QED
    BY <1>24, <1>b, <1>c, <1>g, <2>1 DEF LeftoverEnds
<1>25. CASE GuestDies
  <2>1. WireTypes'
    BY <1>25 DEF GuestDies, WireTypes
  <2> QED
    BY <1>25, <1>b, <1>f, <1>g, <2>1 DEF GuestDies
<1>26. CASE UNCHANGED vars
  BY <1>26, <1>b, <1>c, <1>f, <1>g DEF vars
<1> QED
  BY <1>1, <1>2, <1>3, <1>4, <1>5, <1>6, <1>7, <1>8, <1>11, <1>12, <1>13, <1>14, <1>15,
     <1>16, <1>17, <1>18, <1>19, <1>20, <1>21, <1>22, <1>23, <1>24, <1>25, <1>26
     DEF Next, Worker, Supervise, Serve, Pump, Command

(***************************************************************************)
(* Type correctness, and with it the bound on what one exec can make the   *)
(* host hold: the cap and one marker per stream (client.rs 104-138).       *)
(***************************************************************************)
THEOREM TypeCorrect == Spec => []TypeOK
<1>1. Init => TypeOK
  <2> SUFFICES ASSUME Init PROVE TypeOK
    OBVIOUS
  <2>1. {StdinChunks, MaxOut, MaxCaptured} \subseteq Nat
    BY SizesAssumption
  <2>2. \A S : <<>> \in Seq(S)
    OBVIOUS
  <2>3. /\ captured \in [Stream -> Seq(0 .. MaxOut)]
        /\ \A s \in Stream : Len(captured[s]) <= MaxCaptured + 1
    BY <2>1, <2>2 DEF Init
  <2>4. pipe \in [Stream -> Seq(1 .. MaxOut)]
    BY <2>2 DEF Init
  <2>5. /\ pump \in [Stream -> {Over} \cup 0 .. MaxOut]
        /\ wrote \in [Stream -> 0 .. MaxOut]
        /\ sent \in 0 .. StdinChunks + 2 /\ hand \in 0 .. StdinChunks
    BY <2>1 DEF Init
  <2> QED
    BY <2>2, <2>3, <2>4, <2>5
       DEF Init, TypeOK, HostTypes, WireTypes, AgentTypes, PumpTypes, CommandTypes
<1> QED
  BY <1>1, TypeStep, PTL DEF Spec

-----------------------------------------------------------------------------
\* From the moment the supervisor joins the worker, the VM is off or the stop
\* has failed; neither is ever undone.
Stopped == ~vmOn \/ stopFailed
StopInv ==
  /\ supervisor = "joining" => Stopped
  /\ outcome = "timedOut" => Stopped

LEMMA StopStep == TypeOK /\ StopInv /\ [Next]_vars => StopInv'
<1> SUFFICES ASSUME TypeOK, StopInv, [Next]_vars PROVE StopInv'
  OBVIOUS
<1> USE DEF vars, host, supervision, agentVars, command, StopInv, Stopped
<1> DEFINE Quiet == UNCHANGED <<supervisor, outcome, stopFailed>> /\ (vmOn' => vmOn)
<1>1. Quiet => StopInv'
  OBVIOUS
<1> HIDE DEF StopInv, Stopped
<1>2. CASE TakeResult
  <2>1. outcome' # "timedOut" /\ supervisor' # "joining"
    BY <1>2 DEF TakeResult, Verdict, TypeOK, HostTypes, Result
  <2> QED
    BY <2>1 DEF StopInv
<1>3. CASE DeadlinePasses
  <2>1. UNCHANGED <<outcome, stopFailed, vmOn>> /\ supervisor' # "joining"
    BY <1>3 DEF DeadlinePasses
  <2> QED
    BY <2>1 DEF StopInv, Stopped
<1>4. CASE ForceStop
  <2>1. ~vmOn' \/ stopFailed'
    BY <1>4 DEF ForceStop
  <2> QED
    BY <2>1 DEF StopInv, Stopped
<1>5. CASE JoinWorker
  <2>1. Stopped /\ UNCHANGED <<stopFailed, vmOn>>
    BY <1>5 DEF JoinWorker, StopInv
  <2> QED
    BY <2>1 DEF StopInv, Stopped
<1>6. CASE Worker
  BY <1>1, <1>6 DEF Worker, HostSends, HostWriteFails, HostCollects, HostReadFails
<1>7. CASE Serve
  BY <1>1, <1>7 DEF Serve, Spawn, SpawnFails, SendError, AgentReads, WriteStdin,
                    WriteRefused, SendExit
<1>8. ASSUME NEW s \in Stream, Pump(s) PROVE StopInv'
  BY <1>1, <1>8 DEF Pump, PumpReads, PumpSends, PumpEnds
<1>9. CASE Command
  BY <1>1, <1>9 DEF Command, ChildReads, ChildExits, LeftoverEnds, ChildWrites
<1>10. CASE GuestDies
  BY <1>1, <1>10 DEF GuestDies
<1>11. CASE UNCHANGED vars
  BY <1>1, <1>11
<1> QED
  BY <1>2, <1>3, <1>4, <1>5, <1>6, <1>7, <1>8, <1>9, <1>10, <1>11 DEF Next, Supervise

(***************************************************************************)
(* A session that reports TimedOut has stopped the VM, or its stop failed  *)
(* (client.rs 88-96, session.rs 26).                                       *)
(***************************************************************************)
THEOREM TimedOutHonest == Spec => []TimedOutMeansStopped
<1>1. Init => StopInv
  BY NoneAssumption DEF Init, StopInv
<1>2. StopInv => TimedOutMeansStopped
  BY DEF StopInv, Stopped, TimedOutMeansStopped
<1> QED
  BY <1>1, <1>2, StopStep, TypeCorrect, PTL DEF Spec

-----------------------------------------------------------------------------
(***************************************************************************)
(* The output, in numbers: Pumped(s) chunks have left the pipe of s, of    *)
(* which Handed(s) are on the stream or beyond.  Of these the host has     *)
(* appended the first c, and the stream carries the rest, in order.        *)
(***************************************************************************)
Pumped(s) == wrote[s] - Len(pipe[s])
Handed(s) == IF pump[s] > 0 THEN Pumped(s) - 1 ELSE Pumped(s)

\* The frames of s on q are the chunks behind c up to t, in order.
Carries(q, s, c, t) ==
  /\ \A i \in 1 .. Len(q) : q[i].ch = s => q[i].n \in c + 1 .. t
  /\ \A k \in c + 1 .. t : \E i \in 1 .. Len(q) : q[i] = Frame(s, k)
  /\ \A i, j \in 1 .. Len(q) : i < j /\ q[i].ch = s /\ q[j].ch = s => q[i].n < q[j].n

OutKept(s) ==
  /\ Pumped(s) \in Nat
  /\ \A i \in 1 .. Len(pipe[s]) : pipe[s][i] = Pumped(s) + i
  /\ pump[s] > 0 => pump[s] = Pumped(s)
  /\ \E c \in 0 .. Handed(s) : captured[s] = Capped(c) /\ Carries(toHost, s, c, Handed(s))

OutInv == \A s \in Stream : OutKept(s)

\* What a queue holds after a step at one of its ends.
LEMMA QueueItems ==
  ASSUME NEW S, NEW q \in Seq(S)
  PROVE  /\ Len(q) \in Nat
         /\ \A i \in 1 .. Len(q) : q[i] \in S
         /\ q # <<>> =>
              /\ 1 \in 1 .. Len(q) /\ Head(q) = q[1]
              /\ Tail(q) \in Seq(S) /\ Len(Tail(q)) = Len(q) - 1
              /\ \A i \in 1 .. Len(q) - 1 : Tail(q)[i] = q[i + 1]
         /\ \A x \in S :
              /\ Append(q, x) \in Seq(S) /\ Len(Append(q, x)) = Len(q) + 1
              /\ Append(q, x)[Len(q) + 1] = x
              /\ \A i \in 1 .. Len(q) : Append(q, x)[i] = q[i]
OBVIOUS

\* The next chunk of s joins the others on the stream.
LEMMA CarriesMore ==
  ASSUME NEW q \in Seq(HostFrame), NEW s \in Stream, NEW c \in Nat, NEW t \in Nat, c <= t,
         Carries(q, s, c, t), Frame(s, t + 1) \in HostFrame
  PROVE  Carries(Append(q, Frame(s, t + 1)), s, c, t + 1)
<1> DEFINE f == Frame(s, t + 1)
           r == Append(q, f)
<1>1. /\ Len(q) \in Nat /\ Len(r) = Len(q) + 1 /\ r[Len(q) + 1] = f
      /\ \A i \in 1 .. Len(q) : r[i] = q[i]
  BY QueueItems
<1>2. f.ch = s /\ f.n = t + 1
  BY DEF Frame
<1> HIDE DEF f, r
<1>3. \A i \in 1 .. Len(r) : r[i].ch = s => r[i].n \in c + 1 .. t + 1
  BY <1>1, <1>2 DEF Carries
<1>4. ASSUME NEW k \in c + 1 .. t + 1 PROVE \E i \in 1 .. Len(r) : r[i] = Frame(s, k)
  <2>1. CASE k = t + 1
    BY <1>1, <2>1 DEF f
  <2>2. CASE k \in c + 1 .. t
    BY <1>1, <2>2 DEF Carries
  <2> QED
    BY <2>1, <2>2
<1>5. ASSUME NEW i \in 1 .. Len(r), NEW j \in 1 .. Len(r), i < j, r[i].ch = s, r[j].ch = s
      PROVE  r[i].n < r[j].n
  <2>1. i \in 1 .. Len(q) /\ q[i].ch = s /\ q[i].n \in c + 1 .. t /\ r[i] = q[i]
    BY <1>1, <1>5 DEF Carries
  <2>2. CASE j = Len(q) + 1
    BY <1>1, <1>2, <2>1, <2>2
  <2>3. CASE j \in 1 .. Len(q)
    BY <1>1, <1>5, <2>1, <2>3 DEF Carries
  <2> QED
    BY <1>1, <2>2, <2>3
<1>6. Carries(r, s, c, t + 1)
  BY <1>3, <1>4, <1>5 DEF Carries
<1> QED
  BY <1>6 DEF r, f

\* A frame that is not of s does not count.
LEMMA CarriesAsWell ==
  ASSUME NEW q \in Seq(HostFrame), NEW s \in Stream, NEW c \in Nat, NEW t \in Nat,
         Carries(q, s, c, t), NEW f \in HostFrame, f.ch # s
  PROVE  Carries(Append(q, f), s, c, t)
<1> DEFINE r == Append(q, f)
<1>1. /\ Len(q) \in Nat /\ Len(r) = Len(q) + 1 /\ r[Len(q) + 1] = f
      /\ \A i \in 1 .. Len(q) : r[i] = q[i]
  BY QueueItems
<1> HIDE DEF r
<1>2. \A i \in 1 .. Len(r) : r[i].ch = s => i \in 1 .. Len(q) /\ r[i] = q[i]
  BY <1>1
<1>3. \A k \in c + 1 .. t : \E i \in 1 .. Len(r) : r[i] = Frame(s, k)
  BY <1>1 DEF Carries
<1>4. Carries(r, s, c, t)
  BY <1>2, <1>3 DEF Carries
<1> QED
  BY <1>4 DEF r

\* The head of the stream leaves it: the next chunk of s, or a frame that
\* does not count.
LEMMA CarriesLess ==
  ASSUME NEW q \in Seq(HostFrame), q # <<>>, NEW s \in Stream, NEW c \in Nat, NEW t \in Nat,
         Carries(q, s, c, t)
  PROVE  /\ Head(q).ch = s => c < t /\ Head(q).n = c + 1 /\ Carries(Tail(q), s, c + 1, t)
         /\ Head(q).ch # s => Carries(Tail(q), s, c, t)
<1> DEFINE r == Tail(q)
<1>1. /\ Len(q) \in Nat /\ 1 \in 1 .. Len(q) /\ Head(q) = q[1] /\ Len(r) = Len(q) - 1
      /\ \A i \in 1 .. Len(q) - 1 : r[i] = q[i + 1]
  BY QueueItems
<1> HIDE DEF r
<1>2. \A i \in 1 .. Len(r) : i + 1 \in 1 .. Len(q) /\ i + 1 > 1 /\ r[i] = q[i + 1]
  BY <1>1
<1>3. \A i, j \in 1 .. Len(r) : i < j /\ r[i].ch = s /\ r[j].ch = s => r[i].n < r[j].n
  <2> SUFFICES ASSUME NEW i \in 1 .. Len(r), NEW j \in 1 .. Len(r),
                      i < j, r[i].ch = s, r[j].ch = s
               PROVE  r[i].n < r[j].n
    OBVIOUS
  <2>1. i + 1 < j + 1 /\ q[i + 1].ch = s /\ q[j + 1].ch = s
    BY <1>2
  <2>2. q[i + 1].n < q[j + 1].n
    BY <1>2, <2>1 DEF Carries
  <2> QED
    BY <1>2, <2>2
<1>4. \A i \in 1 .. Len(q) : i = 1 \/ (i - 1 \in 1 .. Len(r) /\ q[i] = r[i - 1])
  BY <1>1
<1>5. ASSUME q[1].ch = s PROVE c < t /\ q[1].n = c + 1 /\ Carries(r, s, c + 1, t)
  <2>1. q[1].n \in c + 1 .. t
    BY <1>1, <1>5 DEF Carries
  <2>2. c + 1 \in c + 1 .. t
    BY <2>1
  <2>3. PICK i \in 1 .. Len(q) : q[i] = Frame(s, c + 1)
    BY <2>2 DEF Carries
  <2>4. q[i].ch = s /\ q[i].n = c + 1
    BY <2>3 DEF Frame
  <2>5. i = 1
    <3>1. i > 1 => q[1].n < q[i].n
      BY <1>1, <1>5, <2>4 DEF Carries
    <3> QED
      BY <1>1, <2>1, <2>4, <3>1
  <2>6. q[1].n = c + 1
    BY <2>4, <2>5
  <2>7. ASSUME NEW j \in 1 .. Len(r), r[j].ch = s PROVE r[j].n \in c + 2 .. t
    <3>1. q[1].n < q[j + 1].n /\ q[j + 1].n \in c + 1 .. t
      BY <1>1, <1>2, <1>5, <2>7 DEF Carries
    <3> QED
      BY <1>2, <2>6, <3>1
  <2>8. ASSUME NEW k \in c + 2 .. t PROVE \E j \in 1 .. Len(r) : r[j] = Frame(s, k)
    <3>1. PICK j \in 1 .. Len(q) : q[j] = Frame(s, k)
      BY <2>8 DEF Carries
    <3>2. q[j].n = k
      BY <3>1 DEF Frame
    <3>3. j # 1
      BY <2>6, <3>2
    <3> QED
      BY <1>4, <3>1, <3>3
  <2>9. c + 1 + 1 = c + 2
    OBVIOUS
  <2>10. Carries(r, s, c + 1, t)
    BY <1>3, <2>7, <2>8, <2>9 DEF Carries
  <2> QED
    BY <2>1, <2>6, <2>10
<1>6. ASSUME q[1].ch # s PROVE Carries(r, s, c, t)
  <2>1. \A k : Frame(s, k).ch = s
    BY DEF Frame
  <2>2. \A k \in c + 1 .. t : \E i \in 1 .. Len(r) : r[i] = Frame(s, k)
    BY <1>4, <1>6, <2>1 DEF Carries
  <2>3. \A i \in 1 .. Len(r) : r[i].ch = s => r[i].n \in c + 1 .. t
    BY <1>2 DEF Carries
  <2> QED
    BY <1>3, <2>2, <2>3 DEF Carries
<1> QED
  BY <1>1, <1>5, <1>6 DEF r

\* A stream on which nothing is left of s.
LEMMA CarriesNone ==
  ASSUME NEW q \in Seq(HostFrame), NEW s \in Stream, NEW c \in Nat, NEW t \in Nat, c <= t,
         Carries(q, s, c, t), \A i \in 1 .. Len(q) : q[i].ch # s
  PROVE  c = t
<1>1. ASSUME c < t PROVE FALSE
  <2>1. t \in c + 1 .. t
    BY <1>1
  <2>2. PICK i \in 1 .. Len(q) : q[i] = Frame(s, t)
    BY <2>1 DEF Carries
  <2> QED
    BY <2>2 DEF Frame
<1> QED
  BY <1>1

\* append_capped on a captured stream of c chunks makes one of c + 1.
LEMMA CapNext ==
  ASSUME NEW c \in Nat
  PROVE  AppendCapped(Capped(c), c + 1) = Capped(c + 1)
<1>1. MaxCaptured \in Nat
  BY SizesAssumption
<1>2. \A n \in Nat : Len(Chunks(n)) = n /\ Chunks(n) \in Seq(Nat)
  BY DEF Chunks
<1>a. ASSUME NEW buf, NEW n, Len(buf) \in Nat
      PROVE  /\ Len(buf) = MaxCaptured => AppendCapped(buf, n) = Append(buf, Marker)
             /\ Len(buf) > MaxCaptured => AppendCapped(buf, n) = buf
  BY <1>1, <1>a DEF AppendCapped
<1>3. CASE c < MaxCaptured
  <2>1. Capped(c) = Chunks(c) /\ Capped(c + 1) = Chunks(c + 1)
    BY <1>1, <1>3 DEF Capped
  <2>2. AppendCapped(Capped(c), c + 1) = Append(Chunks(c), c + 1)
    BY <1>1, <1>2, <1>3, <2>1 DEF AppendCapped
  <2>3. Append(Chunks(c), c + 1) = Chunks(c + 1)
    BY DEF Chunks
  <2> QED
    BY <2>1, <2>2, <2>3
<1>4. CASE c = MaxCaptured
  <2>1. Capped(c) = Chunks(c) /\ Capped(c + 1) = Append(Chunks(c), Marker)
    BY <1>1, <1>4 DEF Capped
  <2> QED
    BY <1>1, <1>2, <1>4, <1>a, <2>1
<1>5. CASE c > MaxCaptured
  <2> DEFINE full == Append(Chunks(MaxCaptured), Marker)
  <2>1. Capped(c) = full /\ Capped(c + 1) = full
    BY <1>1, <1>5 DEF Capped
  <2>2. Len(full) = MaxCaptured + 1
    BY <1>1, <1>2 DEF Marker
  <2> HIDE DEF full
  <2> QED
    BY <1>1, <1>a, <2>1, <2>2
<1> QED
  BY <1>1, <1>3, <1>4, <1>5

LEMMA OutStays ==
  ASSUME TypeOK, NEW s \in Stream, OutKept(s),
         captured'[s] = captured[s], pump'[s] = pump[s], pipe'[s] = pipe[s], wrote'[s] = wrote[s],
         \A c, t \in Nat : Carries(toHost, s, c, t) => Carries(toHost', s, c, t)
  PROVE  OutKept(s)'
<1>1. Pumped(s)' = Pumped(s) /\ Handed(s)' = Handed(s)
  BY DEF Pumped, Handed
<1>2. Handed(s) \in Int
  BY DEF OutKept, Handed
<1>3. PICK c \in 0 .. Handed(s) : captured[s] = Capped(c) /\ Carries(toHost, s, c, Handed(s))
  BY DEF OutKept
<1>4. Carries(toHost', s, c, Handed(s))
  BY <1>2, <1>3
<1> QED
  BY <1>1, <1>3, <1>4 DEF OutKept

LEMMA OutStep == TypeOK /\ TypeOK' /\ OutInv /\ [Next]_vars => OutInv'
<1> SUFFICES ASSUME TypeOK, TypeOK', OutInv, [Next]_vars, NEW s \in Stream PROVE OutKept(s)'
  BY DEF OutInv
<1>0. /\ OutKept(s) /\ s # "exit" /\ s # "error" /\ s # "exec"
      /\ toHost \in Seq(HostFrame) /\ toHost' \in Seq(HostFrame)
      /\ pump \in [Stream -> {Over} \cup 0 .. MaxOut] /\ captured \in [Stream -> Seq(0 .. MaxOut)]
      /\ pipe \in [Stream -> Seq(1 .. MaxOut)] /\ wrote \in [Stream -> 0 .. MaxOut]
  BY DEF OutInv, Stream, TypeOK, HostTypes, WireTypes, PumpTypes, CommandTypes
<1>a. Pumped(s) \in Nat /\ Handed(s) \in Int /\ MaxOut \in Nat /\ pump[s] \in Int /\ wrote[s] \in Nat
  BY <1>0, SizesAssumption DEF OutKept, Handed, Over
<1>b. /\ Len(pipe[s]) \in Nat /\ pipe[s] \in Seq(1 .. MaxOut)
  BY <1>0
<1>c. PICK c \in 0 .. Handed(s) : captured[s] = Capped(c) /\ Carries(toHost, s, c, Handed(s))
  BY <1>0 DEF OutKept
<1>d. c \in Nat /\ Handed(s) \in Nat /\ c <= Handed(s)
  BY <1>a, <1>c
<1>1. ASSUME UNCHANGED <<captured, pump, pipe, wrote, toHost>> PROVE OutKept(s)'
  BY <1>0, <1>1, OutStays
<1>2. CASE HostCollects
  <2>1. toHost # <<>> /\ toHost' = Tail(toHost) /\ UNCHANGED <<pump, pipe, wrote>>
    BY <1>2 DEF HostCollects, agentVars, command
  <2>2. CASE Head(toHost).ch = s
    <3>1. c < Handed(s) /\ Head(toHost).n = c + 1 /\ Carries(toHost', s, c + 1, Handed(s))
      BY <1>0, <1>c, <1>d, <2>1, <2>2, CarriesLess
    <3>2. captured' = [captured EXCEPT ![s] = AppendCapped(@, Head(toHost).n)]
      BY <1>0, <1>2, <2>2 DEF HostCollects
    <3>3. captured'[s] = Capped(c + 1)
      BY <1>0, <1>c, <1>d, <3>1, <3>2, CapNext
    <3>4. Pumped(s)' = Pumped(s) /\ Handed(s)' = Handed(s)
      BY <2>1 DEF Pumped, Handed
    <3>5. c + 1 \in 0 .. Handed(s)
      BY <1>d, <3>1
    <3> QED
      BY <1>0, <2>1, <3>1, <3>3, <3>4, <3>5 DEF OutKept
  <2>3. CASE Head(toHost).ch # s
    <3>1. captured'[s] = captured[s]
      BY <1>0, <1>2, <2>3 DEF HostCollects
    <3>2. \A d, t \in Nat : Carries(toHost, s, d, t) => Carries(toHost', s, d, t)
      BY <1>0, <2>1, <2>3, CarriesLess
    <3> QED
      BY <1>0, <2>1, <3>1, <3>2, OutStays
  <2> QED
    BY <2>2, <2>3
<1>3. ASSUME NEW f \in HostFrame, f.ch # s, Respond(f), captured'[s] = captured[s],
             pump'[s] = pump[s], pipe'[s] = pipe[s], wrote'[s] = wrote[s]
      PROVE  OutKept(s)'
  <2>1. \A d, t \in Nat : Carries(toHost, s, d, t) => Carries(toHost', s, d, t)
    BY <1>0, <1>3, CarriesAsWell DEF Respond
  <2> QED
    BY <1>0, <1>3, <2>1, OutStays
<1>4. CASE SendError \/ SendExit
  <2>1. Frame("error", 0) \in HostFrame /\ Frame("exit", 0) \in HostFrame
    BY <1>a DEF Frame, HostFrame
  <2>2. Frame("error", 0).ch = "error" /\ Frame("exit", 0).ch = "exit"
    BY DEF Frame
  <2> QED
    BY <1>0, <1>3, <1>4, <2>1, <2>2 DEF SendError, SendExit, host, command
<1>5. ASSUME NEW r \in Stream, PumpReads(r) PROVE OutKept(s)'
  <2>1. UNCHANGED <<captured, wrote, toHost>>
    BY <1>5 DEF PumpReads, host
  <2>2. CASE r = s
    <3>1. /\ pump[s] = 0 /\ pipe[s] # <<>> /\ pump'[s] = Head(pipe[s]) /\ pipe'[s] = Tail(pipe[s])
      BY <1>0, <1>5, <2>2 DEF PumpReads
    <3>2. /\ Len(pipe'[s]) = Len(pipe[s]) - 1 /\ Head(pipe[s]) = pipe[s][1] /\ 1 \in 1 .. Len(pipe[s])
          /\ \A i \in 1 .. Len(pipe[s]) - 1 : pipe'[s][i] = pipe[s][i + 1]
      BY <1>b, <3>1, QueueItems
    <3>3. Pumped(s)' = Pumped(s) + 1
      BY <1>a, <1>b, <2>1, <3>2 DEF Pumped
    <3>4. pump'[s] = Pumped(s)' /\ pump'[s] > 0
      BY <1>0, <1>a, <3>1, <3>2, <3>3 DEF OutKept
    <3>5. Handed(s)' = Handed(s)
      BY <1>a, <3>1, <3>3, <3>4 DEF Handed
    <3>6. ASSUME NEW i \in 1 .. Len(pipe'[s]) PROVE pipe'[s][i] = Pumped(s)' + i
      <4>1. i + 1 \in 1 .. Len(pipe[s]) /\ pipe'[s][i] = pipe[s][i + 1]
        BY <1>b, <3>2
      <4> QED
        BY <1>0, <1>a, <3>3, <4>1 DEF OutKept
    <3>7. Pumped(s)' \in Nat
      BY <1>a, <3>3
    <3> QED
      BY <1>c, <2>1, <3>4, <3>5, <3>6, <3>7 DEF OutKept
  <2>3. CASE r # s
    <3>1. pump'[s] = pump[s] /\ pipe'[s] = pipe[s]
      BY <1>0, <1>5, <2>3 DEF PumpReads
    <3> QED
      BY <1>0, <2>1, <3>1, OutStays
  <2> QED
    BY <2>2, <2>3
<1>6. ASSUME NEW r \in Stream, PumpSends(r) PROVE OutKept(s)'
  <2>1. /\ UNCHANGED <<captured, wrote, pipe>> /\ pump[r] \in 1 .. MaxOut /\ Respond(Frame(r, pump[r]))
        /\ Frame(r, pump[r]) \in HostFrame /\ Frame(r, pump[r]).ch = r
    BY <1>a, <1>6 DEF PumpSends, host, command, Frame, HostFrame
  <2>2. CASE r = s
    <3>1. pump[s] = Pumped(s) /\ pump[s] > 0 /\ pump'[s] = 0
      BY <1>0, <1>a, <1>6, <2>1, <2>2 DEF PumpSends, OutKept
    <3>2. Handed(s) + 1 = Pumped(s) /\ Pumped(s)' = Pumped(s) /\ Handed(s)' = Pumped(s)
      BY <1>a, <2>1, <3>1 DEF Handed, Pumped
    <3>3. toHost' = Append(toHost, Frame(s, Handed(s) + 1)) /\ Frame(s, Handed(s) + 1) \in HostFrame
      BY <2>1, <2>2, <3>1, <3>2 DEF Respond
    <3>4. Carries(toHost', s, c, Handed(s) + 1)
      BY <1>0, <1>c, <1>d, <3>3, CarriesMore
    <3>5. c \in 0 .. Handed(s)'
      BY <1>d, <3>2
    <3> QED
      BY <1>0, <1>c, <2>1, <3>1, <3>2, <3>4, <3>5 DEF OutKept
  <2>3. CASE r # s
    <3>1. pump'[s] = pump[s]
      BY <1>0, <1>6, <2>3 DEF PumpSends
    <3> QED
      BY <1>3, <2>1, <2>3, <3>1
  <2> QED
    BY <2>2, <2>3
<1>7. ASSUME NEW r \in Stream, PumpEnds(r) PROVE OutKept(s)'
  <2>1. UNCHANGED <<captured, wrote, toHost, pipe>>
    BY <1>7 DEF PumpEnds, host, command
  <2>2. pump'[s] = pump[s] \/ (pump[s] = 0 /\ pump'[s] = -1)
    BY <1>0, <1>7 DEF PumpEnds, Over
  <2>3. Pumped(s)' = Pumped(s) /\ Handed(s)' = Handed(s) /\ (pump'[s] > 0 => pump'[s] = pump[s])
    BY <1>a, <2>1, <2>2 DEF Pumped, Handed
  <2> QED
    BY <1>0, <1>c, <2>1, <2>2, <2>3 DEF OutKept
<1>8. ASSUME NEW r \in Stream, ChildWrites(r) PROVE OutKept(s)'
  <2>1. UNCHANGED <<captured, toHost, pump>>
    BY <1>8 DEF ChildWrites, host, agentVars
  <2>2. CASE r = s
    <3>1. /\ wrote'[s] = wrote[s] + 1 /\ pipe'[s] = Append(pipe[s], wrote[s] + 1)
          /\ wrote[s] + 1 \in 1 .. MaxOut
      <4>1. wrote' = [wrote EXCEPT ![s] = @ + 1] /\ pipe' = [pipe EXCEPT ![s] = Append(@, wrote[s] + 1)]
        BY <1>8, <2>2 DEF ChildWrites
      <4>2. wrote[s] < behaviour.out[s] /\ behaviour.out[s] \in 0 .. MaxOut
        BY <1>8, <2>2 DEF ChildWrites, TypeOK, CommandTypes, Behaviour
      <4>3. wrote \in [Stream -> 0 .. MaxOut] /\ pipe \in [Stream -> Seq(1 .. MaxOut)]
        BY <1>0
      <4>4. wrote'[s] = wrote[s] + 1 /\ pipe'[s] = Append(pipe[s], wrote[s] + 1)
        BY <4>1, <4>3
      <4>5. wrote[s] + 1 \in 1 .. MaxOut
        BY <4>2, <1>a
      <4> QED
        BY <4>4, <4>5
    <3>2. /\ Len(pipe'[s]) = Len(pipe[s]) + 1 /\ pipe'[s][Len(pipe[s]) + 1] = wrote[s] + 1
          /\ \A i \in 1 .. Len(pipe[s]) : pipe'[s][i] = pipe[s][i]
      BY <1>b, <3>1, QueueItems
    <3>3. Pumped(s)' = Pumped(s) /\ Handed(s)' = Handed(s)
      <4>1. Pumped(s)' = Pumped(s)
        BY <1>a, <1>b, <3>1, <3>2 DEF Pumped
      <4> QED
        BY <2>1, <4>1 DEF Handed
    <3>4. ASSUME NEW i \in 1 .. Len(pipe'[s]) PROVE pipe'[s][i] = Pumped(s)' + i
      <4>1. CASE i = Len(pipe[s]) + 1
        BY <1>a, <1>b, <3>2, <3>3, <4>1 DEF Pumped
      <4>2. CASE i \in 1 .. Len(pipe[s])
        BY <1>0, <3>2, <3>3, <4>2 DEF OutKept
      <4> QED
        BY <1>b, <3>2, <4>1, <4>2
    <3> QED
      BY <1>0, <1>a, <1>c, <2>1, <3>3, <3>4 DEF OutKept
  <2>3. CASE r # s
    <3>1. wrote'[s] = wrote[s] /\ pipe'[s] = pipe[s]
      BY <1>0, <1>8, <2>3 DEF ChildWrites
    <3> QED
      BY <1>0, <2>1, <3>1, OutStays
  <2> QED
    BY <2>2, <2>3
<1>9. HostSends \/ HostWriteFails \/ HostReadFails \/ Supervise \/ GuestDies \/ UNCHANGED vars
        => UNCHANGED <<captured, pump, pipe, wrote, toHost>>
  BY DEF HostSends, HostWriteFails, HostReadFails, Supervise, TakeResult, DeadlinePasses, ForceStop,
         JoinWorker, GuestDies, vars, host, agentVars, command
<1>10. Spawn \/ SpawnFails \/ AgentReads \/ WriteStdin \/ WriteRefused \/ ChildReads \/ ChildExits
         \/ LeftoverEnds => UNCHANGED <<captured, pump, pipe, wrote, toHost>>
  BY DEF Spawn, SpawnFails, AgentReads, WriteStdin, WriteRefused, ChildReads, ChildExits,
         LeftoverEnds, host, agentVars, command
<1> QED
  BY <1>1, <1>2, <1>4, <1>5, <1>6, <1>7, <1>8, <1>9, <1>10 DEF Next, Worker, Serve, Pump, Command

-----------------------------------------------------------------------------
(***************************************************************************)
(* Stdin, in numbers: the agent has taken Taken frames off the stream, and *)
(* the command has got, or is about to get, Fed chunks.  As long as its    *)
(* stdin is open these are all the chunks the agent has taken.             *)
(***************************************************************************)
Taken == sent - Len(toGuest)
Fed == Len(got) + Len(stdinPipe) + (IF hand = 0 THEN 0 ELSE 1)

\* The chunks in the pipe follow those the command has read, and the one in
\* the agent's hand is next.
ChunksInOrder ==
  /\ \A i \in 1 .. Len(got) : got[i] = i
  /\ \A i \in 1 .. Len(stdinPipe) : stdinPipe[i] = Len(got) + i
  /\ hand # 0 => hand = Len(got) + Len(stdinPipe) + 1

StdinInv ==
  /\ Taken \in Nat /\ \A i \in 1 .. Len(toGuest) : toGuest[i] = Script[Taken + i]
  /\ ChunksInOrder
  /\ agent = "idle" => Taken = 0 /\ child = "none"
  /\ child = "none" => got = <<>> /\ stdinPipe = <<>> /\ hand = 0 /\ stdinOpen = FALSE
  /\ agent = "feeding" => Taken > 0 /\ child # "none"
  /\ stdinOpen = TRUE => agent = "feeding" /\ Fed + 1 = Taken
  /\ child = "running" /\ stdinOpen = FALSE => agent # "feeding" /\ Fed = StdinChunks
  /\ child = "exited" /\ behaviour.reads # "never" => Len(got) = StdinChunks

\* What stands where in two sequences put together.
LEMMA Joined ==
  ASSUME NEW S, NEW q \in Seq(S), NEW r \in Seq(S)
  PROVE  /\ q \o r \in Seq(S) /\ Len(q \o r) = Len(q) + Len(r)
         /\ \A i \in 1 .. Len(q) : (q \o r)[i] = q[i]
         /\ \A i \in 1 .. Len(r) : (q \o r)[Len(q) + i] = r[i]
<1>1. /\ q \o r \in Seq(S) /\ Len(q \o r) = Len(q) + Len(r)
      /\ \A i \in 1 .. Len(q) + Len(r) :
           (q \o r)[i] = IF i <= Len(q) THEN q[i] ELSE r[i - Len(q)]
  OBVIOUS
<1>2. Len(q) \in Nat /\ Len(r) \in Nat
  OBVIOUS
<1>3. ASSUME NEW i \in 1 .. Len(q) PROVE (q \o r)[i] = q[i]
  <2>1. i \in 1 .. Len(q) + Len(r) /\ i <= Len(q)
    BY <1>2
  <2> QED
    BY <1>1, <2>1
<1>4. ASSUME NEW i \in 1 .. Len(r) PROVE (q \o r)[Len(q) + i] = r[i]
  <2>1. Len(q) + i \in 1 .. Len(q) + Len(r) /\ ~(Len(q) + i <= Len(q)) /\ (Len(q) + i) - Len(q) = i
    BY <1>2
  <2> QED
    BY <1>1, <2>1
<1> QED
  BY <1>1, <1>3, <1>4

\* The frames the host writes, one by one.
LEMMA ScriptOrder ==
  /\ Script[1] = Frame("exec", 0)
  /\ \A i \in 1 .. StdinChunks : Script[i + 1] = Frame("stdin", i)
  /\ Script[StdinChunks + 2] = Frame("eof", 0)
<1> DEFINE mid == [i \in 1 .. StdinChunks |-> Frame("stdin", i)]
           first == <<Frame("exec", 0)>>
           last == <<Frame("eof", 0)>>
<1>0. StdinChunks \in Nat
  BY SizesAssumption
<1>1. \A i \in 1 .. StdinChunks : Frame("stdin", i) \in GuestFrame
  BY <1>0 DEF Frame, GuestFrame
<1>2. Frame("exec", 0) \in GuestFrame /\ Frame("eof", 0) \in GuestFrame
  BY <1>0 DEF Frame, GuestFrame
<1>3. mid \in Seq(GuestFrame) /\ Len(mid) = StdinChunks /\ \A i \in 1 .. StdinChunks : mid[i] = Frame("stdin", i)
  BY <1>0, <1>1
<1>4. /\ first \in Seq(GuestFrame) /\ Len(first) = 1 /\ first[1] = Frame("exec", 0)
      /\ last \in Seq(GuestFrame) /\ Len(last) = 1 /\ last[1] = Frame("eof", 0)
  BY <1>2
<1>5. Script = first \o mid \o last
  BY DEF Script
<1> HIDE DEF mid, first, last
<1> DEFINE front == first \o mid
<1>6. /\ front \in Seq(GuestFrame) /\ Len(front) = 1 + StdinChunks
      /\ 1 \in 1 .. Len(first) /\ \A i \in 1 .. Len(first) : front[i] = first[i]
      /\ \A i \in 1 .. StdinChunks : front[1 + i] = mid[i]
  <2>1. /\ front \in Seq(GuestFrame) /\ Len(front) = Len(first) + Len(mid)
        /\ \A i \in 1 .. Len(first) : front[i] = first[i]
        /\ \A i \in 1 .. Len(mid) : front[Len(first) + i] = mid[i]
    <3>1. first \in Seq(GuestFrame) /\ mid \in Seq(GuestFrame)
      BY <1>3, <1>4
    <3> QED
      BY <3>1, Joined DEF front
  <2> QED
    BY <1>0, <1>3, <1>4, <2>1
<1>7. Script = front \o last
  BY <1>5
<1> HIDE DEF front
<1>8. /\ \A i \in 1 .. Len(front) : Script[i] = front[i]
      /\ 1 \in 1 .. Len(last) /\ \A i \in 1 .. Len(last) : Script[Len(front) + i] = last[i]
  <2>1. /\ \A i \in 1 .. Len(front) : (front \o last)[i] = front[i]
        /\ \A i \in 1 .. Len(last) : (front \o last)[Len(front) + i] = last[i]
    BY <1>4, <1>6, Joined
  <2>2. 1 \in 1 .. Len(last)
    BY <1>4
  <2> QED
    BY <1>7, <2>1, <2>2
<1>9. Script[1] = Frame("exec", 0)
  <2>1. 1 \in 1 .. Len(front)
    BY <1>0, <1>6
  <2> QED
    BY <1>4, <1>6, <1>8, <2>1
<1>10. ASSUME NEW i \in 1 .. StdinChunks PROVE Script[i + 1] = Frame("stdin", i)
  <2>1. i + 1 \in 1 .. Len(front) /\ i + 1 = 1 + i
    BY <1>0, <1>6
  <2> QED
    BY <1>3, <1>6, <1>8, <2>1
<1>11. Script[StdinChunks + 2] = Frame("eof", 0)
  <2>1. Len(front) + 1 = StdinChunks + 2
    BY <1>0, <1>6
  <2> QED
    BY <1>4, <1>8, <2>1
<1> QED
  BY <1>9, <1>10, <1>11

\* The frame at the head of the stream is the next of the script.
LEMMA NextFrame ==
  ASSUME TypeOK, StdinInv, toGuest # <<>>, toGuest' = Tail(toGuest), sent' = sent
  PROVE  /\ Head(toGuest) = Script[Taken + 1] /\ Taken + 1 \in 1 .. StdinChunks + 2
         /\ Taken' = Taken + 1
         /\ \A i \in 1 .. Len(toGuest') : toGuest'[i] = Script[Taken' + i]
         /\ Head(toGuest).ch = "stdin" => Head(toGuest).n = Taken /\ Taken \in 1 .. StdinChunks
         /\ Head(toGuest).ch = "eof" => Taken = StdinChunks + 1
<1>0. StdinChunks \in Nat /\ sent \in 0 .. StdinChunks + 2 /\ toGuest \in Seq(GuestFrame)
  BY SizesAssumption DEF TypeOK, HostTypes, WireTypes
<1>1. /\ Len(toGuest) \in Nat /\ 1 \in 1 .. Len(toGuest) /\ Head(toGuest) = toGuest[1]
      /\ Len(toGuest') = Len(toGuest) - 1
      /\ \A i \in 1 .. Len(toGuest) - 1 : toGuest'[i] = toGuest[i + 1]
  BY <1>0, QueueItems
<1>2. Taken \in Nat /\ Taken + 1 <= StdinChunks + 2 /\ Taken' = Taken + 1
  <2>1. Taken \in Nat /\ Taken = sent - Len(toGuest) /\ Taken' = sent - Len(toGuest')
    BY DEF Taken, StdinInv
  <2>2. sent \in Nat /\ sent <= StdinChunks + 2
    BY <1>0
  <2>3. Len(toGuest) >= 1
    BY <1>1
  <2> QED
    BY <1>0, <1>1, <2>1, <2>2, <2>3
<1>3. Head(toGuest) = Script[Taken + 1]
  BY <1>1 DEF StdinInv
<1>4. ASSUME NEW i \in 1 .. Len(toGuest') PROVE toGuest'[i] = Script[Taken' + i]
  <2>1. i + 1 \in 1 .. Len(toGuest) /\ toGuest'[i] = toGuest[i + 1] /\ Taken' + i = Taken + (i + 1)
    BY <1>1, <1>2
  <2> QED
    BY <2>1 DEF StdinInv
<1>5. \/ Taken = 0 /\ Head(toGuest).ch = "exec"
      \/ Taken \in 1 .. StdinChunks /\ Head(toGuest).ch = "stdin" /\ Head(toGuest).n = Taken
      \/ Taken = StdinChunks + 1 /\ Head(toGuest).ch = "eof"
  <2>1. CASE Taken = 0
    BY <1>3, <2>1, ScriptOrder DEF Frame
  <2>2. CASE Taken \in 1 .. StdinChunks
    <3>1. Head(toGuest) = Frame("stdin", Taken)
      BY <1>3, <2>2, ScriptOrder
    <3> QED
      BY <2>2, <3>1 DEF Frame
  <2>3. CASE Taken = StdinChunks + 1
    <3>1. Taken + 1 = StdinChunks + 2
      BY <1>0, <2>3
    <3> QED
      BY <1>3, <2>3, <3>1, ScriptOrder DEF Frame
  <2> QED
    BY <1>0, <1>2, <2>1, <2>2, <2>3
<1> QED
  BY <1>0, <1>2, <1>3, <1>4, <1>5

LEMMA StdinStep == TypeOK /\ StdinInv /\ [Next]_vars => StdinInv'
<1> SUFFICES ASSUME TypeOK, StdinInv, [Next]_vars PROVE StdinInv'
  OBVIOUS
<1>0. /\ StdinChunks \in Nat /\ sent \in 0 .. StdinChunks + 2 /\ toGuest \in Seq(GuestFrame)
      /\ got \in Seq(1 .. StdinChunks) /\ stdinPipe \in Seq(1 .. StdinChunks)
      /\ hand \in 0 .. StdinChunks /\ stdinOpen \in BOOLEAN /\ Taken \in Nat
      /\ Len(got) \in Nat /\ Len(stdinPipe) \in Nat /\ Len(toGuest) \in Nat
  <2>1. StdinChunks \in Nat /\ Taken \in Nat
    BY SizesAssumption DEF StdinInv
  <2>2. /\ sent \in 0 .. StdinChunks + 2 /\ toGuest \in Seq(GuestFrame)
        /\ hand \in 0 .. StdinChunks /\ stdinOpen \in BOOLEAN
    BY DEF TypeOK, HostTypes, WireTypes, AgentTypes
  <2>3. got \in Seq(1 .. StdinChunks) /\ stdinPipe \in Seq(1 .. StdinChunks)
    BY DEF TypeOK, CommandTypes
  <2>4. Len(got) \in Nat /\ Len(stdinPipe) \in Nat /\ Len(toGuest) \in Nat
    BY <2>2, <2>3, LenProperties
  <2> QED
    BY <2>1, <2>2, <2>3, <2>4
<1>n. /\ StdinChunks \in Nat /\ Taken \in Nat /\ hand \in Nat
      /\ Len(got) \in Nat /\ Len(stdinPipe) \in Nat /\ Len(toGuest) \in Nat
  BY <1>0
<1>1. ASSUME UNCHANGED <<sent, toGuest, agent, hand, stdinOpen, child, behaviour, stdinPipe, got>>
      PROVE  StdinInv'
  BY <1>1 DEF StdinInv, ChunksInOrder, Taken, Fed
<1>2. CASE HostSends
  <2>1. /\ sent' = sent + 1 /\ sent + 1 \in 1 .. StdinChunks + 2 /\ toGuest' = Append(toGuest, Script[sent + 1])
        /\ UNCHANGED <<agent, hand, stdinOpen, child, behaviour, stdinPipe, got>>
    BY <1>0, <1>2, ScriptFrames DEF HostSends, Writing, agentVars, command
  <2>2. /\ Len(toGuest') = Len(toGuest) + 1 /\ toGuest'[Len(toGuest) + 1] = Script[sent + 1]
        /\ \A i \in 1 .. Len(toGuest) : toGuest'[i] = toGuest[i]
    BY <1>0, <2>1, ScriptFrames, QueueItems
  <2>3. Taken' = Taken /\ sent + 1 = Taken + (Len(toGuest) + 1)
    BY <1>0, <2>1, <2>2 DEF Taken
  <2>4. ASSUME NEW i \in 1 .. Len(toGuest') PROVE toGuest'[i] = Script[Taken' + i]
    <3>1. CASE i = Len(toGuest) + 1
      BY <2>2, <2>3, <3>1
    <3>2. CASE i \in 1 .. Len(toGuest)
      BY <2>2, <2>3, <3>2 DEF StdinInv
    <3> QED
      BY <1>n, <2>2, <3>1, <3>2
  <2> QED
    BY <1>0, <2>1, <2>3, <2>4 DEF StdinInv, ChunksInOrder, Fed
<1>3. CASE Spawn \/ SpawnFails
  <2>1. /\ toGuest # <<>> /\ toGuest' = Tail(toGuest) /\ agent = "idle" /\ agent' \in {"feeding", "failing"}
        /\ UNCHANGED <<sent, hand, behaviour, stdinPipe, got>>
        /\ \/ agent' = "feeding" /\ stdinOpen' = TRUE /\ child' = "running"
           \/ agent' = "failing" /\ stdinOpen' = stdinOpen /\ child' = child
    BY <1>3 DEF Spawn, SpawnFails, TakesRequest, host, command
  <2>2. /\ Taken = 0 /\ child = "none" /\ got = <<>> /\ stdinPipe = <<>> /\ hand = 0 /\ stdinOpen = FALSE
    BY <2>1 DEF StdinInv
  <2>3. Taken' = 1 /\ \A i \in 1 .. Len(toGuest') : toGuest'[i] = Script[Taken' + i]
    <3>1. Taken' = Taken + 1 /\ \A i \in 1 .. Len(toGuest') : toGuest'[i] = Script[Taken' + i]
      BY <2>1, NextFrame
    <3> QED
      BY <2>2, <3>1
  <2>4. ChunksInOrder' /\ Fed' = 0
    BY <2>1, <2>2 DEF ChunksInOrder, Fed
  <2> QED
    BY <2>1, <2>2, <2>3, <2>4 DEF StdinInv
<1>4. CASE AgentReads
  <2>1. /\ toGuest # <<>> /\ toGuest' = Tail(toGuest) /\ agent = "feeding" /\ hand = 0
        /\ UNCHANGED <<sent, child, behaviour, stdinPipe, got>>
    BY <1>4 DEF AgentReads, host, command
  <2>2. /\ Taken' = Taken + 1 /\ \A i \in 1 .. Len(toGuest') : toGuest'[i] = Script[Taken' + i]
        /\ Taken > 0 /\ child # "none"
    BY <2>1, NextFrame DEF StdinInv
  <2>3. Fed = Len(got) + Len(stdinPipe)
    BY <1>0, <2>1 DEF Fed
  <2>4. CASE Head(toGuest).ch = "eof"
    <3>1. agent' = "waiting" /\ stdinOpen' = FALSE /\ hand' = hand
      BY <1>4, <2>4 DEF AgentReads
    <3>2. Taken = StdinChunks + 1
      BY <2>1, <2>4, NextFrame
    <3>3. Fed' = Fed /\ ChunksInOrder'
      BY <2>1, <3>1 DEF Fed, ChunksInOrder, StdinInv
    <3>4. child = "running" => Fed = StdinChunks
      BY <1>0, <2>1, <2>3, <3>2 DEF StdinInv
    <3> QED
      BY <1>0, <2>1, <2>2, <3>1, <3>3, <3>4 DEF StdinInv
  <2>5. CASE Head(toGuest).ch = "stdin"
    <3>1. UNCHANGED <<agent, stdinOpen>> /\ hand' = IF stdinOpen THEN Head(toGuest).n ELSE 0
      BY <1>4, <2>5 DEF AgentReads
    <3>2. Head(toGuest).n = Taken /\ Taken \in 1 .. StdinChunks
      BY <2>1, <2>5, NextFrame
    <3>3. CASE stdinOpen = TRUE
      <4>1. hand' = Taken /\ Fed + 1 = Taken
        BY <3>1, <3>2, <3>3 DEF StdinInv
      <4>2. Fed' + 1 = Taken'
        <5>1. Fed' = Len(got) + Len(stdinPipe) + 1
          BY <2>1, <3>2, <4>1 DEF Fed
        <5> QED
          BY <1>n, <2>2, <2>3, <4>1, <5>1
      <4>3. ChunksInOrder'
        BY <1>0, <2>1, <2>3, <4>1 DEF ChunksInOrder, StdinInv
      <4> QED
        BY <1>0, <2>1, <2>2, <3>1, <3>3, <4>2, <4>3 DEF StdinInv
    <3>4. CASE stdinOpen = FALSE
      <4>1. hand' = 0
        BY <3>1, <3>4
      <4>2. ChunksInOrder'
        BY <2>1, <4>1 DEF ChunksInOrder, StdinInv
      <4> QED
        BY <1>0, <2>1, <2>2, <3>1, <3>4, <4>1, <4>2 DEF StdinInv
    <3> QED
      BY <1>0, <3>3, <3>4
  <2> QED
    BY <1>4, <2>4, <2>5 DEF AgentReads
<1>5. CASE WriteStdin
  <2>1. /\ hand # 0 /\ child = "running" /\ stdinPipe' = Append(stdinPipe, hand) /\ hand' = 0
        /\ UNCHANGED <<sent, toGuest, agent, stdinOpen, child, behaviour, got>>
    BY <1>5 DEF WriteStdin, host
  <2>2. hand = Len(got) + Len(stdinPipe) + 1 /\ hand \in 1 .. StdinChunks
    BY <1>0, <2>1 DEF StdinInv, ChunksInOrder
  <2>3. /\ Len(stdinPipe') = Len(stdinPipe) + 1 /\ stdinPipe'[Len(stdinPipe) + 1] = hand
        /\ \A i \in 1 .. Len(stdinPipe) : stdinPipe'[i] = stdinPipe[i]
    BY <1>0, <2>1, <2>2, QueueItems
  <2>4. ASSUME NEW i \in 1 .. Len(stdinPipe') PROVE stdinPipe'[i] = Len(got) + i
    <3>1. CASE i = Len(stdinPipe) + 1
      BY <1>0, <2>2, <2>3, <3>1
    <3>2. CASE i \in 1 .. Len(stdinPipe)
      BY <2>3, <3>2 DEF StdinInv, ChunksInOrder
    <3> QED
      BY <1>0, <2>3, <3>1, <3>2
  <2>5. Fed' = Fed
    BY <1>0, <2>1, <2>3 DEF Fed
  <2>6. ChunksInOrder'
    BY <2>1, <2>4 DEF StdinInv, ChunksInOrder
  <2> QED
    BY <2>1, <2>5, <2>6 DEF StdinInv, Taken
<1>6. CASE WriteRefused
  <2>1. /\ child = "exited" /\ hand' = 0 /\ stdinOpen' = FALSE
        /\ UNCHANGED <<sent, toGuest, agent, child, behaviour, stdinPipe, got>>
    BY <1>6 DEF WriteRefused, host, command
  <2>2. ChunksInOrder'
    BY <2>1 DEF StdinInv, ChunksInOrder
  <2> QED
    BY <2>1, <2>2 DEF StdinInv, Taken
<1>7. CASE ChildReads
  <2>1. /\ child = "running" /\ stdinPipe # <<>> /\ got' = Append(got, Head(stdinPipe))
        /\ stdinPipe' = Tail(stdinPipe)
        /\ UNCHANGED <<sent, toGuest, agent, hand, stdinOpen, child, behaviour>>
    BY <1>7 DEF ChildReads, host, agentVars
  <2>2. /\ 1 \in 1 .. Len(stdinPipe) /\ Head(stdinPipe) = stdinPipe[1]
        /\ Len(stdinPipe') = Len(stdinPipe) - 1
        /\ \A i \in 1 .. Len(stdinPipe) - 1 : stdinPipe'[i] = stdinPipe[i + 1]
    BY <1>0, <2>1, QueueItems
  <2>3. Head(stdinPipe) \in 1 .. StdinChunks /\ Head(stdinPipe) = Len(got) + 1
    BY <1>0, <2>2, QueueItems DEF StdinInv, ChunksInOrder
  <2>4. /\ Len(got') = Len(got) + 1 /\ got'[Len(got) + 1] = Len(got) + 1
        /\ \A i \in 1 .. Len(got) : got'[i] = got[i]
    BY <1>0, <2>1, <2>3, QueueItems
  <2>5. ASSUME NEW i \in 1 .. Len(got') PROVE got'[i] = i
    <3>1. CASE i = Len(got) + 1
      BY <2>4, <3>1
    <3>2. CASE i \in 1 .. Len(got)
      BY <2>4, <3>2 DEF StdinInv, ChunksInOrder
    <3> QED
      BY <1>n, <2>4, <3>1, <3>2
  <2>6. ASSUME NEW i \in 1 .. Len(stdinPipe') PROVE stdinPipe'[i] = Len(got') + i
    <3>1. i + 1 \in 1 .. Len(stdinPipe) /\ stdinPipe'[i] = stdinPipe[i + 1]
      BY <1>n, <2>2
    <3>2. stdinPipe[i + 1] = Len(got) + (i + 1)
      BY <3>1 DEF StdinInv, ChunksInOrder
    <3> QED
      BY <1>0, <2>4, <3>1, <3>2
  <2>7. Len(got') + Len(stdinPipe') = Len(got) + Len(stdinPipe)
    BY <1>0, <2>2, <2>4
  <2>8. ChunksInOrder' /\ Fed' = Fed
    BY <2>1, <2>5, <2>6, <2>7 DEF StdinInv, ChunksInOrder, Fed
  <2> QED
    BY <2>1, <2>8 DEF StdinInv, Taken
<1>8. CASE ChildExits
  <2>1. /\ child = "running" /\ child' = "exited" /\ (behaviour.reads # "never" => SawEof)
        /\ UNCHANGED <<sent, toGuest, agent, hand, stdinOpen, behaviour, stdinPipe, got>>
    BY <1>8 DEF ChildExits, host, agentVars
  <2>2. behaviour.reads # "never" => Len(got) = StdinChunks
    BY <1>0, <2>1 DEF SawEof, StdinInv, Fed
  <2>3. ChunksInOrder' /\ Fed' = Fed /\ Taken' = Taken
    BY <2>1 DEF StdinInv, ChunksInOrder, Fed, Taken
  <2> QED
    BY <2>1, <2>2, <2>3 DEF StdinInv
<1>9. CASE SendError \/ SendExit
  <2>1. /\ agent \in {"failing", "waiting"} /\ agent' = "closed"
        /\ UNCHANGED <<sent, toGuest, hand, stdinOpen, child, behaviour, stdinPipe, got>>
    BY <1>9 DEF SendError, SendExit, host, command
  <2> QED
    BY <2>1 DEF StdinInv, ChunksInOrder, Fed, Taken
<1>10. HostWriteFails \/ HostCollects \/ HostReadFails \/ Supervise \/ GuestDies \/ LeftoverEnds
         \/ UNCHANGED vars
         => UNCHANGED <<sent, toGuest, agent, hand, stdinOpen, child, behaviour, stdinPipe, got>>
  BY DEF HostWriteFails, HostCollects, HostReadFails, Supervise, TakeResult, DeadlinePasses, ForceStop,
         JoinWorker, GuestDies, LeftoverEnds, vars, host, agentVars, command
<1>11. ASSUME NEW s \in Stream, Pump(s) \/ ChildWrites(s)
       PROVE  UNCHANGED <<sent, toGuest, agent, hand, stdinOpen, child, behaviour, stdinPipe, got>>
  BY <1>11 DEF Pump, PumpReads, PumpSends, PumpEnds, ChildWrites, host, agentVars, command
<1> QED
  BY <1>1, <1>2, <1>3, <1>4, <1>5, <1>6, <1>7, <1>8, <1>9, <1>10, <1>11
     DEF Next, Worker, Serve, Command

\* The command and the process it left behind are gone.
Gone == child = "exited" /\ left = FALSE

\* serve_inner has joined everything.
Reported == agent = "closed" /\ Gone /\ \A s \in Stream : pump[s] = Over

\* A pump is over behind the last chunk, the exit frame is the last of all.
EndInv ==
  /\ \A s \in Stream : pump[s] = Over => Gone /\ pipe[s] = <<>>
  /\ Gone => AllWritten
  /\ left = TRUE => child = "exited"
  /\ \A i \in 1 .. Len(toHost) : toHost[i].ch = "exit" => i = Len(toHost) /\ Reported
  /\ result = "exit" => Reported /\ \A s \in Stream : captured[s] = Capped(wrote[s])

\* Nothing is written to the stream behind the exit frame.
LEMMA LastFrame ==
  ASSUME TypeOK, EndInv, NEW f \in HostFrame, Respond(f), ~Reported,
         f.ch = "exit" => Reported'
  PROVE  \A i \in 1 .. Len(toHost') : toHost'[i].ch = "exit" => i = Len(toHost') /\ Reported'
<1>1. /\ Len(toHost) \in Nat /\ Len(toHost') = Len(toHost) + 1 /\ toHost'[Len(toHost) + 1] = f
      /\ \A i \in 1 .. Len(toHost) : toHost'[i] = toHost[i]
  BY QueueItems DEF Respond, TypeOK, WireTypes
<1>2. \A i \in 1 .. Len(toHost) : toHost'[i].ch # "exit"
  BY <1>1 DEF EndInv
<1> QED
  BY <1>1, <1>2

LEMMA EndStep == TypeOK /\ OutInv /\ StdinInv /\ EndInv /\ [Next]_vars => EndInv'
<1> SUFFICES ASSUME TypeOK, OutInv, StdinInv, EndInv, [Next]_vars PROVE EndInv'
  OBVIOUS
<1>0. /\ toHost \in Seq(HostFrame) /\ pump \in [Stream -> {Over} \cup 0 .. MaxOut]
      /\ pipe \in [Stream -> Seq(1 .. MaxOut)] /\ wrote \in [Stream -> 0 .. MaxOut]
      /\ captured \in [Stream -> Seq(0 .. MaxOut)] /\ MaxOut \in Nat
      /\ left \in BOOLEAN /\ behaviour.leaves \in BOOLEAN
  BY SizesAssumption, FlagsAssumption
     DEF TypeOK, HostTypes, WireTypes, PumpTypes, CommandTypes, Behaviour
<1>1. ASSUME UNCHANGED <<agent, child, left, pump, pipe, wrote, behaviour, toHost, captured>>,
             result' # "exit" \/ result' = result
      PROVE  EndInv'
  <2>1. (Gone' <=> Gone) /\ (Reported' <=> Reported) /\ (AllWritten' <=> AllWritten)
    BY <1>1 DEF Gone, Reported, AllWritten
  <2> QED
    BY <1>1, <2>1 DEF EndInv
<1>2. CASE HostCollects
  <2> DEFINE f == Head(toHost)
  <2>1. /\ toHost # <<>> /\ toHost' = Tail(toHost) /\ result # "exit"
        /\ UNCHANGED <<agent, child, left, pump, pipe, wrote, behaviour>>
    BY <1>2, NoneAssumption DEF HostCollects, Collecting, agentVars, command, Result
  <2>2. (Gone' <=> Gone) /\ (Reported' <=> Reported) /\ (AllWritten' <=> AllWritten)
    BY <2>1 DEF Gone, Reported, AllWritten
  <2>3. /\ Len(toHost) \in Nat /\ 1 \in 1 .. Len(toHost) /\ f = toHost[1]
        /\ Len(toHost') = Len(toHost) - 1
        /\ \A i \in 1 .. Len(toHost) - 1 : toHost'[i] = toHost[i + 1]
    BY <1>0, <2>1, QueueItems
  <2>4. ASSUME NEW i \in 1 .. Len(toHost'), toHost'[i].ch = "exit"
        PROVE  i = Len(toHost') /\ Reported'
    <3>1. i + 1 \in 1 .. Len(toHost) /\ toHost[i + 1].ch = "exit"
      BY <2>3, <2>4
    <3>2. i + 1 = Len(toHost) /\ Reported
      BY <3>1 DEF EndInv
    <3> QED
      BY <2>2, <2>3, <3>2
  <2>5. ASSUME result' = "exit" PROVE Reported' /\ \A s \in Stream : captured'[s] = Capped(wrote'[s])
    <3>1. f.ch = "exit" /\ UNCHANGED captured
      BY <1>2, <2>1, <2>5 DEF HostCollects
    <3>2. Len(toHost) = 1 /\ Reported
      BY <2>3, <3>1 DEF EndInv
    <3>3. ASSUME NEW s \in Stream PROVE captured[s] = Capped(wrote[s])
      <4>1. pump[s] = Over /\ pipe[s] = <<>>
        BY <3>2 DEF Reported, EndInv
      <4>2. Handed(s) = wrote[s] /\ wrote[s] \in Nat
        BY <1>0, <4>1 DEF Handed, Pumped, Over
      <4>3. PICK c \in 0 .. wrote[s] : captured[s] = Capped(c) /\ Carries(toHost, s, c, wrote[s])
        BY <4>2 DEF OutInv, OutKept
      <4>4. \A i \in 1 .. Len(toHost) : toHost[i].ch # s
        BY <2>3, <3>1, <3>2 DEF Stream
      <4>5. c = wrote[s]
        BY <1>0, <4>2, <4>3, <4>4, CarriesNone
      <4> QED
        BY <4>3, <4>5
    <3> QED
      BY <2>1, <2>2, <3>1, <3>2, <3>3
  <2> QED
    BY <2>1, <2>2, <2>4, <2>5 DEF EndInv
<1>3. ASSUME UNCHANGED <<child, left, wrote, pipe, behaviour, captured>>, ~Reported, result' = result,
             \A s \in Stream : pump'[s] = Over => pump[s] = Over,
             NEW f \in HostFrame, Respond(f), f.ch = "exit" => Reported'
      PROVE  EndInv'
  <2>1. (Gone' <=> Gone) /\ (AllWritten' <=> AllWritten) /\ result # "exit"
    BY <1>3 DEF Gone, AllWritten, EndInv
  <2>2. \A i \in 1 .. Len(toHost') : toHost'[i].ch = "exit" => i = Len(toHost') /\ Reported'
    BY <1>3, LastFrame
  <2> QED
    BY <1>3, <2>1, <2>2 DEF EndInv
<1>4. CASE SendError
  <2>1. Frame("error", 0) \in HostFrame /\ Frame("error", 0).ch = "error"
    BY <1>0 DEF Frame, HostFrame
  <2>2. /\ UNCHANGED <<child, left, wrote, pipe, behaviour, captured, result, pump>>
        /\ ~Reported /\ Respond(Frame("error", 0))
    BY <1>4 DEF SendError, Reported, host, command
  <2> QED
    BY <1>3, <2>1, <2>2
<1>5. CASE SendExit
  <2>1. Frame("exit", 0) \in HostFrame
    BY <1>0 DEF Frame, HostFrame
  <2>2. /\ UNCHANGED <<child, left, wrote, pipe, behaviour, captured, result, pump>>
        /\ ~Reported /\ Respond(Frame("exit", 0)) /\ agent' = "closed" /\ ReadyToExit
    BY <1>5 DEF SendExit, Reported, host, command
  <2>3. Gone
    BY <2>2 DEF ReadyToExit, EndInv, Stream
  <2>4. Reported'
    BY <2>2, <2>3 DEF ReadyToExit, Reported, Gone
  <2> QED
    BY <1>3, <2>1, <2>2, <2>4
<1>6. ASSUME NEW s \in Stream, PumpSends(s) PROVE EndInv'
  <2>1. /\ pump[s] \in 1 .. MaxOut /\ Respond(Frame(s, pump[s])) /\ pump' = [pump EXCEPT ![s] = 0]
        /\ UNCHANGED <<child, left, wrote, pipe, behaviour, captured, result>>
    BY <1>6 DEF PumpSends, host, command
  <2>2. Frame(s, pump[s]) \in HostFrame /\ Frame(s, pump[s]).ch # "exit"
    BY <1>0, <2>1 DEF Frame, HostFrame, Stream
  <2>3. ~Reported /\ \A r \in Stream : pump'[r] = Over => pump[r] = Over
    BY <1>0, <2>1 DEF Reported, Over
  <2> QED
    BY <1>3, <2>1, <2>2, <2>3
<1>7. ASSUME UNCHANGED <<child, left, wrote, behaviour, captured, result, toHost>>, ~Reported,
             \A s \in Stream : pump'[s] = Over => Gone /\ pipe'[s] = <<>>
      PROVE  EndInv'
  <2>1. (Gone' <=> Gone) /\ (AllWritten' <=> AllWritten) /\ result # "exit"
    BY <1>7 DEF Gone, AllWritten, EndInv
  <2>2. \A i \in 1 .. Len(toHost') : toHost'[i].ch # "exit"
    BY <1>7 DEF EndInv
  <2> QED
    BY <1>7, <2>1, <2>2 DEF EndInv
<1>8. ASSUME NEW s \in Stream, PumpReads(s) PROVE EndInv'
  <2>1. /\ UNCHANGED <<child, left, wrote, behaviour, captured, result, toHost, agent>>
        /\ pump[s] = 0 /\ pipe[s] # <<>> /\ pump' = [pump EXCEPT ![s] = Head(pipe[s])]
        /\ pipe' = [pipe EXCEPT ![s] = Tail(@)]
    BY <1>8 DEF PumpReads, host
  <2>2. Head(pipe[s]) \in 1 .. MaxOut
    BY <1>0, <2>1, QueueEnds
  <2>3. ~Reported
    BY <2>1 DEF Reported, Over
  <2>4. \A r \in Stream : pump'[r] = Over => pump[r] = Over /\ pipe'[r] = pipe[r]
    BY <1>0, <2>1, <2>2 DEF Over
  <2> QED
    BY <1>7, <2>1, <2>3, <2>4 DEF EndInv
<1>9. ASSUME NEW s \in Stream, PumpEnds(s) PROVE EndInv'
  <2>1. /\ UNCHANGED <<child, left, wrote, behaviour, captured, result, toHost, agent, pipe>>
        /\ pump[s] = 0 /\ pipe[s] = <<>> /\ Gone /\ pump' = [pump EXCEPT ![s] = Over]
    BY <1>0, <1>9 DEF PumpEnds, host, command, Gone
  <2>2. ~Reported
    BY <2>1 DEF Reported, Over
  <2>3. \A r \in Stream : pump'[r] = Over => Gone /\ pipe'[r] = <<>>
    BY <1>0, <2>1 DEF EndInv
  <2> QED
    BY <1>7, <2>1, <2>2, <2>3
<1>10. ASSUME UNCHANGED <<pump, captured, result, toHost>>, ~Gone,
              Gone' => AllWritten', left' = TRUE => child' = "exited"
       PROVE  EndInv'
  <2>1. ~Reported /\ \A s \in Stream : pump[s] # Over
    BY <1>10 DEF EndInv, Reported
  <2>2. result # "exit" /\ \A i \in 1 .. Len(toHost') : toHost'[i].ch # "exit"
    BY <1>10, <2>1 DEF EndInv
  <2> QED
    BY <1>10, <2>1, <2>2 DEF EndInv
<1>11. CASE Spawn
  <2>1. UNCHANGED <<pump, captured, result, toHost, left>> /\ child' = "running" /\ agent = "idle"
    BY <1>11 DEF Spawn, TakesRequest, host
  <2>2. child = "none"
    BY <2>1 DEF StdinInv
  <2> QED
    BY <1>10, <2>1, <2>2 DEF Gone, EndInv
<1>12. CASE SpawnFails \/ AgentReads
  <2>1. UNCHANGED <<child, left, wrote, behaviour, captured, result, toHost, pump, pipe>> /\ ~Reported
    BY <1>12 DEF SpawnFails, AgentReads, TakesRequest, host, command, Reported
  <2> QED
    BY <1>7, <2>1 DEF EndInv
<1>13. ASSUME NEW s \in Stream, ChildWrites(s) PROVE EndInv'
  <2>1. UNCHANGED <<pump, captured, result, toHost, child, left>> /\ ~Gone
    BY <1>13 DEF ChildWrites, Gone, host, agentVars
  <2> QED
    BY <1>10, <2>1 DEF Gone, EndInv
<1>14. CASE ChildExits
  <2>1. /\ UNCHANGED <<pump, captured, result, toHost, wrote, behaviour>> /\ ~Gone /\ child' = "exited"
        /\ left' = behaviour.leaves /\ (AllWritten \/ behaviour.leaves = TRUE)
    BY <1>0, <1>14 DEF ChildExits, Gone, host, agentVars
  <2>2. Gone' => AllWritten'
    BY <2>1 DEF Gone, AllWritten
  <2> QED
    BY <1>10, <2>1, <2>2
<1>15. CASE LeftoverEnds
  <2>1. /\ UNCHANGED <<pump, captured, result, toHost, wrote, behaviour>> /\ ~Gone /\ left' = FALSE
        /\ AllWritten
    BY <1>15 DEF LeftoverEnds, Gone, host, agentVars
  <2>2. AllWritten'
    BY <2>1 DEF AllWritten
  <2> QED
    BY <1>10, <2>1, <2>2
<1>16. CASE HostSends \/ HostWriteFails \/ HostReadFails
  <2>1. /\ UNCHANGED <<agent, child, left, pump, pipe, wrote, behaviour, toHost, captured>>
        /\ result' # "exit" \/ result' = result
    BY <1>16 DEF HostSends, HostWriteFails, HostReadFails, agentVars, command
  <2> QED
    BY <1>1, <2>1
<1>17. CASE Supervise \/ GuestDies \/ UNCHANGED vars
  <2>1. UNCHANGED <<agent, child, left, pump, pipe, wrote, behaviour, toHost, captured, result>>
    BY <1>17 DEF Supervise, TakeResult, DeadlinePasses, ForceStop, JoinWorker, GuestDies, vars,
                 host, agentVars, command
  <2> QED
    BY <1>1, <2>1
<1>18. CASE WriteStdin \/ WriteRefused \/ ChildReads
  <2>1. UNCHANGED <<agent, child, left, pump, pipe, wrote, behaviour, toHost, captured, result>>
    BY <1>18 DEF WriteStdin, WriteRefused, ChildReads, host, agentVars, command
  <2> QED
    BY <1>1, <2>1
<1> QED
  BY <1>2, <1>4, <1>5, <1>6, <1>8, <1>9, <1>11, <1>12, <1>13, <1>14, <1>15, <1>16, <1>17, <1>18
     DEF Next, Worker, Serve, Pump, Command

LEMMA ExecInvAlways == Spec => [](OutInv /\ StdinInv /\ EndInv)
<1>1. Init => OutInv /\ StdinInv /\ EndInv
  <2> SUFFICES ASSUME Init PROVE OutInv /\ StdinInv /\ EndInv
    OBVIOUS
  <2>0. MaxCaptured \in Nat /\ StdinChunks \in Nat /\ None # "exit"
    BY SizesAssumption, NoneAssumption DEF Result
  <2>1. OutInv
    <3> SUFFICES ASSUME NEW s \in Stream PROVE OutKept(s)
      BY DEF OutInv
    <3>1. captured[s] = <<>> /\ pump[s] = 0 /\ wrote[s] = 0 /\ pipe[s] = <<>> /\ toHost = <<>>
      BY DEF Init
    <3>2. Pumped(s) = 0 /\ Handed(s) = 0
      <4>1. wrote[s] = 0 /\ Len(pipe[s]) = 0
        BY <3>1
      <4>2. Pumped(s) = 0
        BY <4>1 DEF Pumped
      <4> QED
        BY <3>1, <4>2 DEF Handed
    <3>3. Capped(0) = <<>>
      BY <2>0 DEF Capped, Chunks
    <3>4. Carries(toHost, s, 0, 0)
      BY <3>1 DEF Carries
    <3> QED
      BY <3>1, <3>2, <3>3, <3>4 DEF OutKept
  <2>2. StdinInv
    <3>1. /\ sent = 0 /\ toGuest = <<>> /\ agent = "idle" /\ hand = 0 /\ stdinOpen = FALSE
          /\ child = "none" /\ stdinPipe = <<>> /\ got = <<>>
      BY DEF Init
    <3>2. sent = 0 /\ Len(toGuest) = 0 /\ Len(stdinPipe) = 0 /\ Len(got) = 0
      BY <3>1
    <3>3. Taken = 0
      BY <3>2 DEF Taken
    <3>4. ChunksInOrder
      BY <3>1, <3>2 DEF ChunksInOrder
    <3> QED
      BY <3>1, <3>2, <3>3, <3>4 DEF StdinInv
  <2>3. EndInv
    BY <2>0 DEF Init, EndInv, Gone, Over
  <2> QED
    BY <2>1, <2>2, <2>3
<1> QED
  BY <1>1, OutStep, StdinStep, EndStep, TypeCorrect, PTL DEF Spec

(***************************************************************************)
(* When the exit code has reached the host, nothing of the output is lost, *)
(* for every size of the output, the pipes, the stream and the cap (lib.rs *)
(* 92-98, client.rs 121-138).                                              *)
(***************************************************************************)
THEOREM NothingIsLost == Spec => []NothingLost
<1>1. TypeOK /\ EndInv => NothingLost
  BY DEF EndInv, Reported, Gone, TypeOK, CommandTypes, NothingLost
<1> QED
  BY <1>1, ExecInvAlways, TypeCorrect, PTL

(***************************************************************************)
(* The command reads the caller's stdin and nothing else, and one that     *)
(* reads to the end gets all of it (lib.rs 70-90).                         *)
(***************************************************************************)
THEOREM StdinArrives == Spec => []StdinIntact
<1>1. TypeOK /\ StdinInv => StdinIntact
  <2> SUFFICES ASSUME TypeOK, StdinInv PROVE StdinIntact
    OBVIOUS
  <2>1. got \in Seq(1 .. StdinChunks) /\ \A i \in 1 .. Len(got) : got[i] = i
    BY DEF TypeOK, CommandTypes, StdinInv, ChunksInOrder
  <2>2. got = [i \in 1 .. Len(got) |-> i]
    BY <2>1
  <2> QED
    BY <2>2 DEF StdinInv, StdinIntact, Chunks
<1> QED
  BY <1>1, ExecInvAlways, TypeCorrect, PTL

-----------------------------------------------------------------------------
\* The frames themselves: what the session takes for one message is cut out of
\* the byte stream as it was written.
Byte == 0 .. 255
U32 == {n \in Nat : n < 256 * 256 * 256 * 256}

\* Frames as both ends have them.
Wire == [channel : {Channels[i] : i \in DOMAIN Channels}, payload : Seq(Byte)]

\* A number is its lowest byte and what stands above it.
LEMMA LowByte ==
  ASSUME NEW n \in Nat
  PROVE  /\ n % 256 \in Byte /\ n \div 256 \in Nat
         /\ n = (n % 256) + 256 * (n \div 256)
<1>1. n % 256 \in Int /\ 0 <= n % 256 /\ n % 256 <= 255
  BY SMT
<1>2. n % 256 \in Byte
  BY <1>1 DEF Byte
<1> QED
  BY <1>2, SMT

LEMMA LengthBytes ==
  ASSUME NEW n \in U32
  PROVE  /\ Le32(n) \in Seq(Byte) /\ Len(Le32(n)) = 4
         /\ FromLe32(Le32(n)) = n
<1> DEFINE h1 == n \div 256  h2 == h1 \div 256  h3 == h2 \div 256
<1>1. n \in Nat /\ n < 256 * 256 * 256 * 256
  BY DEF U32
<1>2. n % 256 \in Byte /\ h1 \in Nat /\ n = (n % 256) + 256 * h1
  BY <1>1, LowByte
<1> HIDE DEF h1
<1>3. h1 % 256 \in Byte /\ h2 \in Nat /\ h1 = (h1 % 256) + 256 * h2
  BY <1>2, LowByte
<1> HIDE DEF h2
<1>4. h2 % 256 \in Byte /\ h3 \in Nat /\ h2 = (h2 % 256) + 256 * h3
  BY <1>3, LowByte
<1> HIDE DEF h3
<1> DEFINE b0 == n % 256  b1 == h1 % 256  b2 == h2 % 256
<1>a. b0 \in Byte /\ b1 \in Byte /\ b2 \in Byte
  BY <1>2, <1>3, <1>4
<1>b. n = b0 + 256 * h1 /\ h1 = b1 + 256 * h2 /\ h2 = b2 + 256 * h3
  BY <1>2, <1>3, <1>4
<1> HIDE DEF b0, b1, b2
<1>c. b0 \in Nat /\ b1 \in Nat /\ b2 \in Nat
  BY <1>a DEF Byte
<1>5. h3 < 256
  BY <1>1, <1>2, <1>3, <1>4, <1>b, <1>c
<1>6. h3 % 256 = h3 /\ h3 \in Byte
  <2>1. \A k \in Nat : k < 256 => k % 256 = k /\ k \in 0 .. 255
    OBVIOUS
  <2> QED
    BY <1>4, <1>5, <2>1 DEF Byte
<1>7. Le32(n) = <<b0, b1, b2, h3>>
  BY <1>6 DEF Le32, Higher, b0, b1, b2, h1, h2, h3
<1>8. FromLe32(<<b0, b1, b2, h3>>) = n
  BY <1>b DEF FromLe32
<1> QED
  BY <1>a, <1>6, <1>7, <1>8

LEMMA BytesLength ==
  ASSUME NEW b \in Seq(Byte), Len(b) = 4
  PROVE  FromLe32(b) \in U32 /\ Le32(FromLe32(b)) = b
<1>1. PICK b0, b1, b2, b3 \in Byte : b = <<b0, b1, b2, b3>>
  <2>1. \A i \in 1 .. 4 : b[i] \in Byte
    BY ElementOfSeq
  <2>2. b = <<b[1], b[2], b[3], b[4]>>
    OBVIOUS
  <2>3. b[1] \in Byte /\ b[2] \in Byte /\ b[3] \in Byte /\ b[4] \in Byte
    BY <2>1
  <2> QED
    BY <2>2, <2>3
<1>2. /\ b0 \in Nat /\ b0 < 256 /\ b1 \in Nat /\ b1 < 256
      /\ b2 \in Nat /\ b2 < 256 /\ b3 \in Nat /\ b3 < 256
  BY DEF Byte
<1>3. PICK m2 \in Nat : m2 = b2 + 256 * b3
  BY <1>2
<1>4. m2 % 256 = b2 /\ m2 \div 256 = b3 /\ m2 < 256 * 256
  BY <1>2, <1>3
<1>5. PICK m1 \in Nat : m1 = b1 + 256 * m2
  BY <1>2
<1>6. m1 % 256 = b1 /\ m1 \div 256 = m2 /\ m1 < 256 * 256 * 256
  BY <1>2, <1>4, <1>5
<1>7. PICK n \in Nat : n = b0 + 256 * m1
  BY <1>2
<1>8. n % 256 = b0 /\ n \div 256 = m1 /\ n < 256 * 256 * 256 * 256
  BY <1>2, <1>6, <1>7
<1>9. Le32(n) = b
  BY <1>1, <1>2, <1>4, <1>6, <1>8 DEF Le32, Higher
<1>10. FromLe32(b) = n
  BY <1>1, <1>3, <1>5, <1>7 DEF FromLe32
<1> QED
  BY <1>8, <1>9, <1>10 DEF U32

\* What is cut out of a sequence, and when it is a given piece.
LEMMA Cut ==
  ASSUME NEW S, NEW s \in Seq(S), NEW a \in Nat, NEW q \in Seq(S), a + Len(q) <= Len(s),
         \A i \in 1 .. Len(q) : s[a + i] = q[i]
  PROVE  SubSeq(s, a + 1, a + Len(q)) = q
<1>1. ASSUME NEW n \in Nat, n = Len(q)
      PROVE  /\ SubSeq(s, a + 1, a + n) \in Seq(S) /\ Len(SubSeq(s, a + 1, a + n)) = n
             /\ \A i \in 1 .. n : SubSeq(s, a + 1, a + n)[i] = s[a + i]
  BY <1>1
<1>2. /\ SubSeq(s, a + 1, a + Len(q)) \in Seq(S)
      /\ Len(SubSeq(s, a + 1, a + Len(q))) = Len(q)
      /\ \A i \in 1 .. Len(q) : SubSeq(s, a + 1, a + Len(q))[i] = q[i]
  BY <1>1
<1> QED
  BY <1>2, SeqEqual

\* Three pieces laid one behind the other can be cut out again.
LEMMA ThreePieces ==
  ASSUME NEW S, NEW h \in Seq(S), NEW p \in Seq(S), NEW r \in Seq(S),
         NEW s, s = h \o p \o r
  PROVE  /\ s \in Seq(S) /\ Len(s) = Len(h) + Len(p) + Len(r)
         /\ \A i \in 1 .. Len(h) : s[i] = h[i]
         /\ SubSeq(s, Len(h) + 1, Len(h) + Len(p)) = p
         /\ SubSeq(s, Len(h) + Len(p) + 1, Len(s)) = r
<1>0. Len(h) \in Nat /\ Len(p) \in Nat /\ Len(r) \in Nat
  OBVIOUS
<1>1. s \in Seq(S) /\ Len(s) = Len(h) + Len(p) + Len(r)
  OBVIOUS
<1>2. PICK hp \in Seq(S) : hp = h \o p
  <2>1. h \o p \in Seq(S)
    OBVIOUS
  <2> QED
    BY <2>1
<1>3. /\ Len(hp) = Len(h) + Len(p)
      /\ \A i \in 1 .. Len(h) : hp[i] = h[i]
      /\ \A i \in 1 .. Len(p) : hp[Len(h) + i] = p[i]
  BY <1>2
<1>4. /\ \A i \in 1 .. Len(hp) : s[i] = hp[i]
      /\ \A i \in 1 .. Len(r) : s[Len(hp) + i] = r[i]
  BY <1>2
<1>5. \A i \in 1 .. Len(h) : s[i] = h[i]
  BY <1>0, <1>3, <1>4
<1>6. \A i \in 1 .. Len(p) : s[Len(h) + i] = p[i]
  <2>1. \A i \in 1 .. Len(p) : Len(h) + i \in 1 .. Len(hp)
    BY <1>0, <1>3
  <2> QED
    BY <1>3, <1>4, <2>1
<1>7. SubSeq(s, Len(h) + 1, Len(h) + Len(p)) = p
  BY <1>0, <1>1, <1>6, Cut
<1>8. SubSeq(s, Len(h) + Len(p) + 1, Len(s)) = r
  BY <1>0, <1>1, <1>3, <1>4, Cut
<1> QED
  BY <1>1, <1>5, <1>7, <1>8

\* A channel's byte names the channel.
LEMMA ChannelByte ==
  ASSUME NEW i \in 1 .. 4
  PROVE  ToByte(Channels[i]) = i - 1
<1>1. \A j \in DOMAIN Channels : Channels[j] = Channels[i] => j = i
  BY DEF Channels
<1>2. i \in DOMAIN Channels
  BY DEF Channels
<1>3. (CHOOSE j \in DOMAIN Channels : Channels[j] = Channels[i]) = i
  BY <1>1, <1>2
<1> QED
  BY <1>3 DEF ToByte

\* A frame as written: the length, the channel, the payload.
LEMMA FrameBytes ==
  ASSUME MaxFramePayload \in U32, NEW f \in Wire, Len(f.payload) <= MaxFramePayload
  PROVE  \E h \in Seq(Byte) :
           /\ WriteFrame(f) = [error |-> "None", bytes |-> h \o f.payload]
           /\ Len(h) = 5 /\ FromLe32(h) = Len(f.payload)
           /\ h[5] \in 0 .. 3 /\ Channels[h[5] + 1] = f.channel
<1> DEFINE n == Len(f.payload)
<1>1. f.payload \in Seq(Byte) /\ f.channel \in {Channels[i] : i \in DOMAIN Channels}
  BY DEF Wire
<1>2. n \in U32
  <2>1. n \in Nat
    BY <1>1
  <2> QED
    BY <2>1 DEF U32
<1>3. Le32(n) \in Seq(Byte) /\ Len(Le32(n)) = 4 /\ FromLe32(Le32(n)) = n
  BY <1>2, LengthBytes
<1>4. PICK i \in 1 .. 4 : f.channel = Channels[i]
  BY <1>1 DEF Channels
<1>5. PICK c \in 0 .. 3 : c = ToByte(f.channel) /\ Channels[c + 1] = f.channel /\ c \in Byte
  BY <1>4, ChannelByte DEF Byte
<1>6. PICK l \in Seq(Byte) : l = Le32(n) /\ Len(l) = 4 /\ FromLe32(l) = n
  BY <1>3
<1>7. PICK h \in Seq(Byte) : h = l \o <<c>>
  <2>1. l \o <<c>> \in Seq(Byte)
    BY <1>5
  <2> QED
    BY <2>1
<1>8. Len(h) = 5 /\ h[5] = c /\ h[1] = l[1] /\ h[2] = l[2] /\ h[3] = l[3] /\ h[4] = l[4]
  <2>1. <<c>> \in Seq(Byte) /\ Len(<<c>>) = 1 /\ <<c>>[1] = c
    BY <1>5
  <2>2. /\ Len(h) = Len(l) + Len(<<c>>) /\ h[Len(l) + 1] = <<c>>[1]
        /\ \A k \in 1 .. Len(l) : h[k] = l[k]
    BY <1>7, <2>1, Joined
  <2>3. h[1] = l[1] /\ h[2] = l[2] /\ h[3] = l[3] /\ h[4] = l[4]
    BY <1>6, <2>2
  <2> QED
    BY <1>6, <2>1, <2>2, <2>3
<1>9. FromLe32(h) = n
  BY <1>6, <1>8 DEF FromLe32
<1>10. WriteFrame(f) = [error |-> "None", bytes |-> h \o f.payload]
  BY <1>2, <1>5, <1>6, <1>7 DEF WriteFrame, U32
<1> QED
  BY <1>5, <1>8, <1>9, <1>10

\* The four bytes the reader takes first are the length.
LEMMA Declared ==
  ASSUME NEW s \in Seq(Byte), Len(s) >= 4
  PROVE  FromLe32(Slice(s, 0, 4)) = FromLe32(s)
<1>1. /\ SubSeq(s, 0 + 1, 4)[1] = s[1] /\ SubSeq(s, 0 + 1, 4)[2] = s[2]
      /\ SubSeq(s, 0 + 1, 4)[3] = s[3] /\ SubSeq(s, 0 + 1, 4)[4] = s[4]
  OBVIOUS
<1> QED
  BY <1>1 DEF Slice, FromLe32

\* The reader, by cases of what has arrived.
LEMMA Reads ==
  ASSUME NEW s \in Seq(Byte), NEW d \in Nat, NEW r,
         Len(s) >= 4, d = FromLe32(s), d <= MaxFramePayload, r = ReadFrame(s)
  PROVE  /\ Len(s) = 4 => r = [error |-> "UnexpectedEof"]
         /\ Len(s) > 4 /\ s[5] \in 0 .. 3 =>
              r = IF Len(s) < 5 + d THEN [error |-> "UnexpectedEof"]
                  ELSE [error |-> "None",
                        frame |-> [channel |-> Channels[s[5] + 1],
                                   payload |-> SubSeq(s, 6, 5 + d)],
                        rest  |-> SubSeq(s, 6 + d, Len(s))]
<1>1. FromLe32(Slice(s, 0, 4)) = d /\ ~TooLong(d) /\ s # <<>>
  BY Declared, PayloadAssumption DEF TooLong
<1>2. Len(Channels) = 4 /\ At(s, 4) = s[5]
  BY DEF Channels, At
<1>3. Slice(s, 5, 5 + d) = SubSeq(s, 6, 5 + d)
  BY DEF Slice
<1>4. From(s, 5 + d) = SubSeq(s, 6 + d, Len(s))
  <2>1. 5 + d + 1 = 6 + d
    OBVIOUS
  <2> QED
    BY <2>1 DEF From, Slice
<1>5. ASSUME Len(s) = 4 PROVE r = [error |-> "UnexpectedEof"]
  BY <1>1, <1>5 DEF ReadFrame
<1>6. ASSUME Len(s) > 4, s[5] \in 0 .. 3
      PROVE  r = IF Len(s) < 5 + d THEN [error |-> "UnexpectedEof"]
                 ELSE [error |-> "None",
                       frame |-> [channel |-> Channels[s[5] + 1],
                                  payload |-> SubSeq(s, 6, 5 + d)],
                       rest  |-> SubSeq(s, 6 + d, Len(s))]
  <2>1. ~(At(s, 4) >= Len(Channels)) /\ Len(s) # 4 /\ ~(Len(s) < 4)
    BY <1>2, <1>6
  <2>2. r = IF Len(s) < 5 + d THEN [error |-> "UnexpectedEof"]
            ELSE [error |-> "None",
                  frame |-> [channel |-> Channels[At(s, 4) + 1], payload |-> Slice(s, 5, 5 + d)],
                  rest  |-> From(s, 5 + d)]
    BY <1>1, <1>6, <2>1 DEF ReadFrame
  <2> QED
    BY <1>2, <1>3, <1>4, <2>2
<1> QED
  BY <1>5, <1>6

\* read_frame gives back what write_frame wrote, and leaves what comes after
\* it, whatever that is: frames sent one after the other do not run into each
\* other (frame.rs).
THEOREM FrameRoundTrip ==
  ASSUME MaxFramePayload \in U32, NEW f \in Wire, WriteFrame(f).error = "None",
         NEW rest \in Seq(Byte)
  PROVE  ReadFrame(WriteFrame(f).bytes \o rest) = [error |-> "None", frame |-> f, rest |-> rest]
<1>1. /\ f.payload \in Seq(Byte) /\ Len(f.payload) \in Nat
      /\ f = [channel |-> f.channel, payload |-> f.payload]
  BY DEF Wire
<1>2. Len(f.payload) <= MaxFramePayload
  BY <1>1, PayloadAssumption DEF WriteFrame
<1>3. PICK h \in Seq(Byte) :
        /\ WriteFrame(f) = [error |-> "None", bytes |-> h \o f.payload]
        /\ Len(h) = 5 /\ FromLe32(h) = Len(f.payload)
        /\ h[5] \in 0 .. 3 /\ Channels[h[5] + 1] = f.channel
  BY <1>2, FrameBytes
<1> DEFINE p == f.payload  d == Len(f.payload)  s == h \o p \o rest
<1>4. /\ s \in Seq(Byte) /\ Len(s) = 5 + d + Len(rest)
      /\ \A i \in 1 .. 5 : s[i] = h[i]
      /\ SubSeq(s, 6, 5 + d) = p /\ SubSeq(s, 6 + d, Len(s)) = rest
  <2>1. 5 + 1 = 6 /\ 5 + d + 1 = 6 + d
    BY <1>1
  <2>2. /\ s \in Seq(Byte) /\ Len(s) = Len(h) + Len(p) + Len(rest)
        /\ \A i \in 1 .. Len(h) : s[i] = h[i]
        /\ SubSeq(s, Len(h) + 1, Len(h) + Len(p)) = p
        /\ SubSeq(s, Len(h) + Len(p) + 1, Len(s)) = rest
    BY <1>1, ThreePieces
  <2> HIDE DEF s
  <2>3. SubSeq(s, 5 + 1, 5 + d) = p /\ SubSeq(s, 5 + d + 1, Len(s)) = rest
    BY <1>3, <2>2
  <2>4. Len(s) = 5 + d + Len(rest) /\ \A i \in 1 .. 5 : s[i] = h[i]
    BY <1>3, <2>2
  <2> QED
    BY <2>1, <2>2, <2>3, <2>4
<1> HIDE DEF s
<1>5. s[1] = h[1] /\ s[2] = h[2] /\ s[3] = h[3] /\ s[4] = h[4] /\ s[5] = h[5]
  BY <1>4
<1>6. FromLe32(s) = d
  BY <1>3, <1>5 DEF FromLe32
<1>7. Len(s) > 4 /\ ~(Len(s) < 5 + d) /\ Len(s) >= 4
  <2>1. Len(rest) \in Nat
    OBVIOUS
  <2> QED
    BY <1>1, <1>4, <2>1
<1>8. ReadFrame(s) = [error |-> "None",
                      frame |-> [channel |-> Channels[s[5] + 1], payload |-> SubSeq(s, 6, 5 + d)],
                      rest  |-> SubSeq(s, 6 + d, Len(s))]
  BY <1>1, <1>2, <1>3, <1>4, <1>5, <1>6, <1>7, Reads
<1>9. ReadFrame(s) = [error |-> "None", frame |-> f, rest |-> rest]
  BY <1>1, <1>3, <1>4, <1>5, <1>8
<1> QED
  BY <1>3, <1>9 DEF s

\* A stream that ends inside a frame is told from one that ends behind it: no
\* part of a frame reads as a frame, or as a clean close (frame.rs).
THEOREM CutFrameTold ==
  ASSUME MaxFramePayload \in U32, NEW f \in Wire, WriteFrame(f).error = "None",
         NEW k \in 1 .. Len(WriteFrame(f).bytes) - 1
  PROVE  ReadFrame(SubSeq(WriteFrame(f).bytes, 1, k)) = [error |-> "UnexpectedEof"]
<1>1. f.payload \in Seq(Byte) /\ Len(f.payload) \in Nat
  BY DEF Wire
<1>2. Len(f.payload) <= MaxFramePayload
  BY <1>1, PayloadAssumption DEF WriteFrame
<1>3. PICK h \in Seq(Byte) :
        /\ WriteFrame(f) = [error |-> "None", bytes |-> h \o f.payload]
        /\ Len(h) = 5 /\ FromLe32(h) = Len(f.payload)
        /\ h[5] \in 0 .. 3 /\ Channels[h[5] + 1] = f.channel
  BY <1>2, FrameBytes
<1> DEFINE d == Len(f.payload)
<1>4. PICK w \in Seq(Byte) : w = h \o f.payload
  <2>1. h \o f.payload \in Seq(Byte)
    BY <1>1
  <2> QED
    BY <2>1
<1>5. Len(w) = 5 + d /\ \A i \in 1 .. 5 : w[i] = h[i]
  <2>1. Len(w) = Len(h) + Len(f.payload) /\ \A i \in 1 .. Len(h) : w[i] = h[i]
    BY <1>1, <1>4, Joined
  <2> QED
    BY <1>3, <2>1
<1>6. k \in Nat /\ 1 <= k /\ k < 5 + d
  BY <1>1, <1>3, <1>4, <1>5
<1>7. PICK s \in Seq(Byte) : s = SubSeq(w, 1, k) /\ Len(s) = k /\ \A i \in 1 .. k : s[i] = w[i]
  <2>1. k <= Len(w)
    BY <1>1, <1>5, <1>6
  <2>2. /\ SubSeq(w, 1, k) \in Seq(Byte) /\ Len(SubSeq(w, 1, k)) = k
        /\ \A i \in 1 .. k : SubSeq(w, 1, k)[i] = w[i]
    BY <1>6, <2>1
  <2> QED
    BY <2>2
<1>8. CASE k < 4
  <2>1. Len(s) < 4 /\ ~(Len(s) >= 4) /\ ~(Len(s) > 4) /\ Len(s) # 4 /\ Len(s) # 0
    BY <1>6, <1>7, <1>8
  <2>2. s # <<>>
    BY <2>1
  <2>3. ReadFrame(s) = [error |-> "UnexpectedEof"]
    BY <2>1, <2>2 DEF ReadFrame
  <2> QED
    BY <1>3, <1>4, <1>7, <2>3
<1>9. CASE k >= 4
  <2>1. s[1] = h[1] /\ s[2] = h[2] /\ s[3] = h[3] /\ s[4] = h[4]
    BY <1>5, <1>6, <1>7, <1>9
  <2>2. FromLe32(s) = d
    BY <1>3, <2>1 DEF FromLe32
  <2>3. Len(s) > 4 => s[5] = h[5]
    BY <1>5, <1>6, <1>7
  <2>4. Len(s) = 4 \/ Len(s) > 4
    BY <1>6, <1>7, <1>9
  <2>5. Len(s) < 5 + d /\ Len(s) >= 4
    BY <1>6, <1>7, <1>9
  <2>6. ReadFrame(s) = [error |-> "UnexpectedEof"]
    BY <1>1, <1>2, <1>3, <2>2, <2>3, <2>4, <2>5, Reads
  <2> QED
    BY <1>3, <1>4, <1>7, <2>6
<1> QED
  BY <1>6, <1>8, <1>9

\* A sequence is what is cut out of it, one piece behind the other.
LEMMA Split ==
  ASSUME NEW S, NEW s \in Seq(S), NEW a \in 0 .. Len(s), NEW b \in a .. Len(s)
  PROVE  s = SubSeq(s, 1, a) \o SubSeq(s, a + 1, b) \o SubSeq(s, b + 1, Len(s))
<1>1. SubSeq(s, 1, a) \o SubSeq(s, a + 1, b) = SubSeq(s, 1, b)
  BY ConcatAdjacentSubSeq
<1>2. SubSeq(s, 1, b) \o SubSeq(s, b + 1, Len(s)) = SubSeq(s, 1, Len(s))
  <2>1. /\ Len(s) \in Nat /\ 1 \in 1 .. Len(s) + 1 /\ b \in 1 - 1 .. Len(s)
        /\ Len(s) \in b .. Len(s)
    OBVIOUS
  <2> QED
    BY <2>1, ConcatAdjacentSubSeq
<1>3. SubSeq(s, 1, Len(s)) = s
  BY SubSeqFull
<1> QED
  BY <1>1, <1>2, <1>3

\* What the reader takes for a frame has passed every test.
LEMMA Accepted ==
  ASSUME NEW s \in Seq(Byte), ReadFrame(s).error = "None"
  PROVE  \E n, d \in Nat, c \in 0 .. 3 :
           /\ n = Len(s) /\ d = FromLe32(s) /\ c = s[5]
           /\ d <= MaxFramePayload /\ 5 + d <= n
<1>0. Len(s) \in Nat /\ Len(Channels) = 4 /\ MaxFramePayload \in Nat
  BY PayloadAssumption DEF Channels
<1>1. s # <<>>
  <2>1. s = <<>> => ReadFrame(s) = [error |-> "Closed"]
    BY DEF ReadFrame
  <2> QED
    BY <2>1
<1>2. ~(Len(s) < 4)
  <2>1. Len(s) < 4 => ReadFrame(s) = [error |-> "UnexpectedEof"]
    BY <1>0, <1>1 DEF ReadFrame
  <2> QED
    BY <2>1
<1>3. PICK n \in Nat : n = Len(s) /\ n >= 4
  <2>1. \A k \in Nat : ~(k < 4) => k >= 4
    OBVIOUS
  <2> QED
    BY <1>0, <1>2, <2>1
<1>4. ~TooLong(FromLe32(Slice(s, 0, 4)))
  <2>1. TooLong(FromLe32(Slice(s, 0, 4))) => ReadFrame(s) = [error |-> "Oversized"]
    BY <1>1, <1>2, <1>3 DEF ReadFrame
  <2> QED
    BY <2>1
<1>5. n # 4
  <2>1. n = 4 => ReadFrame(s) = [error |-> "UnexpectedEof"]
    BY <1>1, <1>3, <1>4 DEF ReadFrame
  <2> QED
    BY <2>1
<1>6. n > 4 /\ 5 <= n
  BY <1>3, <1>5
<1>7. ~(At(s, 4) >= Len(Channels))
  <2>1. At(s, 4) >= Len(Channels) => ReadFrame(s) = [error |-> "UnknownChannel"]
    BY <1>1, <1>2, <1>3, <1>4, <1>5, <1>6 DEF ReadFrame
  <2> QED
    BY <2>1
<1>8. ~(Len(s) < 5 + FromLe32(Slice(s, 0, 4)))
  <2>1. Len(s) < 5 + FromLe32(Slice(s, 0, 4)) => ReadFrame(s) = [error |-> "UnexpectedEof"]
    BY <1>1, <1>2, <1>3, <1>4, <1>5, <1>6, <1>7 DEF ReadFrame
  <2> QED
    BY <2>1
<1>9. s[1] \in Byte /\ s[2] \in Byte /\ s[3] \in Byte /\ s[4] \in Byte /\ s[5] \in Byte
  <2>1. \A k \in 1 .. n : s[k] \in Byte
    BY <1>3, ElementOfSeq
  <2>2. 1 \in 1 .. n /\ 2 \in 1 .. n /\ 3 \in 1 .. n /\ 4 \in 1 .. n /\ 5 \in 1 .. n
    BY <1>6
  <2> QED
    BY <2>1, <2>2
<1>10. PICK c \in 0 .. 3 : c = s[5]
  <2>1. \A k \in Byte : ~(k >= 4) => k \in 0 .. 3
    BY DEF Byte
  <2>2. ~(s[5] >= 4)
    BY <1>0, <1>7 DEF At
  <2> QED
    BY <1>9, <2>1, <2>2
<1>11. PICK d \in Nat : d = FromLe32(s)
  <2>1. PICK b1 \in Byte, b2 \in Byte, b3 \in Byte, b4 \in Byte :
          b1 = s[1] /\ b2 = s[2] /\ b3 = s[3] /\ b4 = s[4]
    BY <1>9
  <2>2. b1 + 256 * (b2 + 256 * (b3 + 256 * b4)) \in Nat
    BY DEF Byte
  <2>3. FromLe32(s) = b1 + 256 * (b2 + 256 * (b3 + 256 * b4))
    BY <2>1 DEF FromLe32
  <2> QED
    BY <2>2, <2>3
<1>12. FromLe32(Slice(s, 0, 4)) = d
  BY <1>3, <1>11, Declared
<1>13. d <= MaxFramePayload /\ 5 + d <= n
  <2>1. ~(n < 5 + d) /\ ~(d > MaxFramePayload)
    BY <1>3, <1>4, <1>8, <1>12 DEF TooLong
  <2> QED
    BY <1>0, <2>1
<1> QED
  BY <1>3, <1>10, <1>11, <1>13

\* The reader accepts nothing but what the writer can have written: a frame it
\* returns is within the cap, on a known channel, and its bytes are those
\* write_frame gives for it (frame.rs).
THEOREM ReadsOnlyFrames ==
  ASSUME MaxFramePayload \in U32, NEW s \in Seq(Byte), NEW r, r = ReadFrame(s), r.error = "None"
  PROVE  /\ r.frame \in Wire /\ WriteFrame(r.frame).error = "None"
         /\ s = WriteFrame(r.frame).bytes \o r.rest
<1>1. PICK n \in Nat, d \in Nat, c \in 0 .. 3 :
        /\ n = Len(s) /\ d = FromLe32(s) /\ c = s[5]
        /\ d <= MaxFramePayload /\ 5 + d <= n
  BY Accepted
<1>2. 4 <= n /\ 5 <= n /\ n > 4 /\ n >= 4 /\ ~(n < 5 + d)
  BY <1>1
<1>3. PICK l \in Seq(Byte) : l = SubSeq(s, 1, 4) /\ Len(l) = 4 /\ FromLe32(l) = d
  <2>1. /\ SubSeq(s, 1, 4) \in Seq(Byte) /\ Len(SubSeq(s, 1, 4)) = 4
        /\ \A i \in 1 .. 4 : SubSeq(s, 1, 4)[i] = s[i]
    BY <1>1, <1>2
  <2>2. FromLe32(SubSeq(s, 1, 4)) = d
    BY <1>1, <2>1 DEF FromLe32
  <2> QED
    BY <2>1, <2>2
<1>4. Le32(d) = l
  BY <1>3, BytesLength
<1>5. PICK p \in Seq(Byte) : p = SubSeq(s, 6, 5 + d) /\ Len(p) = d
  <2>1. SubSeq(s, 6, 5 + d) \in Seq(Byte) /\ Len(SubSeq(s, 6, 5 + d)) = d
    BY <1>1
  <2> QED
    BY <2>1
<1>6. r = [error |-> "None", frame |-> [channel |-> Channels[c + 1], payload |-> p],
           rest |-> SubSeq(s, 6 + d, Len(s))]
  BY <1>1, <1>2, <1>5, Reads
<1>7. r.frame = [channel |-> Channels[c + 1], payload |-> p] /\ r.rest = SubSeq(s, 6 + d, Len(s))
  BY <1>6
<1>8. r.frame \in Wire
  <2>1. Channels[c + 1] \in {Channels[i] : i \in DOMAIN Channels}
    BY DEF Channels
  <2> QED
    BY <1>7, <2>1 DEF Wire
<1>9. ToByte(Channels[c + 1]) = c
  <2>1. c + 1 \in 1 .. 4 /\ c + 1 - 1 = c
    OBVIOUS
  <2> QED
    BY <2>1, ChannelByte
<1>10. WriteFrame(r.frame) = [error |-> "None", bytes |-> l \o <<c>> \o p]
  <2>1. ~(Len(p) > MaxFramePayload)
    BY <1>1, <1>5, PayloadAssumption
  <2>2. r.frame.payload = p /\ r.frame.channel = Channels[c + 1]
    BY <1>7
  <2> QED
    BY <1>4, <1>5, <1>9, <2>1, <2>2 DEF WriteFrame
<1>11. s = l \o <<c>> \o p \o SubSeq(s, 6 + d, Len(s))
  <2>1. SubSeq(s, 1, 5) = SubSeq(s, 1, 4) \o <<s[5]>>
    <3>1. 1 \in 1 .. Len(s) /\ 5 \in 1 .. Len(s) /\ 5 - 1 = 4
      BY <1>1, <1>2
    <3> QED
      BY <3>1, SubSeqRecursiveSecond
  <2>2. s = SubSeq(s, 1, 5) \o SubSeq(s, 5 + 1, 5 + d) \o SubSeq(s, 5 + d + 1, Len(s))
    <3>1. 5 \in 0 .. Len(s) /\ 5 + d \in 5 .. Len(s)
      BY <1>1, <1>2
    <3> QED
      BY <3>1, Split
  <2>3. 5 + 1 = 6 /\ 5 + d + 1 = 6 + d
    BY <1>1
  <2> QED
    BY <1>1, <1>3, <1>5, <2>1, <2>2, <2>3
<1>12. WriteFrame(r.frame).error = "None" /\ WriteFrame(r.frame).bytes = l \o <<c>> \o p
  BY <1>10
<1> QED
  BY <1>7, <1>8, <1>11, <1>12
=============================================================================
