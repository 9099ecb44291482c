----------------------------- MODULE ExecSession -----------------------------
(***************************************************************************)
(* One exec over the framed stream between the host and the guest agent:   *)
(*   - the host side, vz_protocol/src/client.rs: a worker that writes the  *)
(*     request and all of stdin, then collects frames up to the exit code, *)
(*     and the supervisor that force-stops the VM when the deadline passes;*)
(*   - the agent, vz_guest_agent/src/lib.rs: the thread that feeds stdin   *)
(*     and reports the exit, and one pump thread per output stream;        *)
(*   - the command the agent runs (and a process it may leave behind), the *)
(*     pipes and the stream, which are external and bounded.               *)
(*                                                                         *)
(* Output and stdin are counted in chunks: chunk n of a stream is the      *)
(* number n, a frame carries one chunk, a pipe or the stream holds a       *)
(* bounded number of them.                                                 *)
(***************************************************************************)
EXTENDS Integers, Sequences

CONSTANTS
  StdinChunks,   \* chunks of stdin the caller passes
  MaxOut,        \* chunks the command writes to a stream, at most
  MaxCaptured,   \* MAX_CAPTURED_STREAM, in chunks
  Buffer,        \* frames the stream holds in each direction
  PipeRoom,      \* chunks a pipe of the command holds
  MayHang,       \* the command may never exit
  MayLeave,      \* the command may leave a process that holds its outputs
  StopMayFail,   \* handle.stop() may return an error
  None

ASSUME SizesAssumption ==
  /\ {StdinChunks, MaxOut, MaxCaptured} \subseteq Nat
  /\ {Buffer, PipeRoom} \subseteq Nat \ {0}
ASSUME FlagsAssumption == {MayHang, MayLeave, StopMayFail} \subseteq BOOLEAN

Stream == {"stdout", "stderr"}
Result == {"exit", "agent", "transport"}

ASSUME NoneAssumption == None \notin Result \cup {"completed", "timedOut"}

\* How the command behaves: what it writes, when it reads its stdin, whether
\* it hangs once it has written everything, whether it leaves a process behind.
Behaviour ==
  [out : [Stream -> 0 .. MaxOut], reads : {"first", "last", "never"},
   hangs : {MayHang, FALSE}, leaves : {MayLeave, FALSE}]

Chunks(n) == [i \in 1 .. n |-> i]
Frame(ch, n) == [ch |-> ch, n |-> n]
\* Mutant: the EOF frame is written ahead of stdin.
Script_EofFirst ==
  <<Frame("exec", 0), Frame("eof", 0)>> \o [i \in 1 .. StdinChunks |-> Frame("stdin", i)]
\* Mutant: the EOF frame is never written.
Script_NoEof ==
  <<Frame("exec", 0)>> \o [i \in 1 .. StdinChunks |-> Frame("stdin", i)]
\* What the host writes: the request, stdin in chunks, the empty EOF frame.
Script ==
  <<Frame("exec", 0)>> \o [i \in 1 .. StdinChunks |-> Frame("stdin", i)]
    \o <<Frame("eof", 0)>>

VARIABLES
  deadline,                  \* process.timeout is present
  supervisor, outcome,       \* the calling thread and what it returned
  stopFailed,                \* the force-stop has returned an error
  sent, result, captured,    \* the worker: frames written, its result, its buffers
  vmOn, toGuest, toHost,     \* the VM and the stream, each way
  agent, hand, stdinOpen,    \* the agent's thread, the chunk it writes, child_stdin
  pump,                      \* a pump's chunk in hand, 0 for none, or "over"
  child, behaviour, left,    \* the command, and the process it left behind
  wrote, pipe, stdinPipe, got

supervision == <<deadline, supervisor, outcome, stopFailed>>
host == <<supervision, sent, result, captured>>
agentVars == <<agent, hand, stdinOpen, pump>>
command == <<child, behaviour, left, wrote, pipe, stdinPipe, got>>
vars == <<host, vmOn, toGuest, toHost, agentVars, command>>

Init ==
  /\ deadline \in BOOLEAN
  /\ supervisor = "waiting" /\ outcome = None /\ stopFailed = FALSE
  /\ sent = 0 /\ result = None /\ captured = [s \in Stream |-> <<>>]
  /\ vmOn = TRUE /\ toGuest = <<>> /\ toHost = <<>>
  /\ agent = "idle" /\ hand = 0 /\ stdinOpen = FALSE
  /\ pump = [s \in Stream |-> 0]
  /\ child = "none" /\ behaviour \in Behaviour /\ left = FALSE
  /\ wrote = [s \in Stream |-> 0] /\ pipe = [s \in Stream |-> <<>>]
  /\ stdinPipe = <<>> /\ got = <<>>

------------------------------------------------------------------------------
(***************************************************************************)
(* The worker: exec_collect.                                               *)
(***************************************************************************)
Writing == result = None /\ sent < Len(Script)
Collecting == result = None /\ sent = Len(Script)

HostSends ==
  /\ Writing /\ vmOn /\ agent # "closed" /\ Len(toGuest) < Buffer
  /\ toGuest' = Append(toGuest, Script[sent + 1])
  /\ sent' = sent + 1
  /\ UNCHANGED <<supervision, result, captured, vmOn, toHost, agentVars, command>>

\* The VM is gone, or the agent has closed the connection.
HostWriteFails ==
  /\ Writing /\ (~vmOn \/ agent = "closed")
  /\ result' = "transport"
  /\ UNCHANGED <<supervision, sent, captured, vmOn, toGuest, toHost, agentVars, command>>

Marker == 0
\* Mutant: the marker is appended for every chunk that does not fit.
AppendCapped_Unmarked(buf, n) ==
  IF Len(buf) >= MaxCaptured THEN Append(buf, Marker) ELSE Append(buf, n)
\* append_capped, for one chunk: the marker takes the place of the first chunk
\* that does not fit, and nothing follows it.
AppendCapped(buf, n) ==
  IF Len(buf) > MaxCaptured THEN buf
  ELSE IF Len(buf) = MaxCaptured THEN Append(buf, Marker)
  ELSE Append(buf, n)

HostCollects ==
  /\ Collecting /\ toHost # <<>>
  /\ toHost' = Tail(toHost)
  /\ LET frame == Head(toHost) IN
       \/ /\ frame.ch \in Stream
          /\ captured' = [captured EXCEPT ![frame.ch] = AppendCapped(@, frame.n)]
          /\ UNCHANGED result
       \/ frame.ch = "exit" /\ result' = "exit" /\ UNCHANGED captured
       \/ frame.ch = "error" /\ result' = "agent" /\ UNCHANGED captured
  /\ UNCHANGED <<supervision, sent, vmOn, toGuest, agentVars, command>>

\* The stream of a VM that is gone may lose what it still held.
HostReadFails ==
  /\ Collecting /\ ~vmOn
  /\ result' = "transport"
  /\ UNCHANGED <<supervision, sent, captured, vmOn, toGuest, toHost, agentVars, command>>

(***************************************************************************)
(* The supervisor: exec_collect_with_timeout.  Without a timeout the       *)
(* calling thread is the worker and only TakeResult happens.               *)
(***************************************************************************)
Verdict(r) == IF r = "exit" THEN "completed" ELSE r

TakeResult ==
  /\ supervisor = "waiting" /\ result # None
  /\ supervisor' = "returned" /\ outcome' = Verdict(result)
  /\ UNCHANGED <<deadline, stopFailed, sent, result, captured, vmOn, toGuest, toHost, agentVars, command>>

DeadlinePasses ==
  /\ deadline /\ supervisor = "waiting" /\ result = None
  /\ supervisor' = "stopping"
  /\ UNCHANGED <<deadline, outcome, stopFailed, sent, result, captured, vmOn, toGuest, toHost, agentVars, command>>

\* Mutant: the worker is joined without the VM being stopped first.
ForceStop_Skipped ==
  /\ supervisor = "stopping" /\ supervisor' = "joining"
  /\ UNCHANGED <<deadline, outcome, stopFailed, sent, result, captured, vmOn, toGuest, toHost, agentVars, command>>
\* force_stop is handle.stop(), whose error run_one_shot ignores.
ForceStop ==
  /\ supervisor = "stopping"
  /\ supervisor' = "joining"
  /\ \/ vmOn' = FALSE /\ UNCHANGED stopFailed
     \/ StopMayFail /\ stopFailed' = TRUE /\ UNCHANGED vmOn
  /\ UNCHANGED <<deadline, outcome, sent, result, captured, toGuest, toHost, agentVars, command>>

JoinWorker ==
  /\ supervisor = "joining" /\ result # None
  /\ supervisor' = "returned" /\ outcome' = "timedOut"
  /\ UNCHANGED <<deadline, stopFailed, sent, result, captured, vmOn, toGuest, toHost, agentVars, command>>

------------------------------------------------------------------------------
(***************************************************************************)
(* The agent: serve_inner and its pumps.  A guest that is off does nothing.*)
(***************************************************************************)
TakesRequest ==
  /\ vmOn /\ agent = "idle" /\ toGuest # <<>> /\ Head(toGuest).ch = "exec"
  /\ toGuest' = Tail(toGuest)

Spawn ==
  /\ TakesRequest
  /\ agent' = "feeding" /\ stdinOpen' = TRUE /\ child' = "running"
  /\ UNCHANGED <<host, vmOn, toHost, hand, pump, behaviour, left, wrote, pipe, stdinPipe, got>>

SpawnFails ==
  /\ TakesRequest
  /\ agent' = "failing"
  /\ UNCHANGED <<host, vmOn, toHost, hand, stdinOpen, pump, command>>

Respond(frame) ==
  /\ vmOn /\ Len(toHost) < Buffer
  /\ toHost' = Append(toHost, frame)

\* serve_connection reports the failure and returns: the connection closes.
SendError ==
  /\ agent = "failing" /\ Respond(Frame("error", 0))
  /\ agent' = "closed"
  /\ UNCHANGED <<host, vmOn, toGuest, hand, stdinOpen, pump, command>>

\* The stream does not end for a guest that is on: the host keeps its end until
\* it has a result, and by then the agent has closed or the VM is off.
AgentReads ==
  /\ vmOn /\ agent = "feeding" /\ hand = 0 /\ toGuest # <<>>
  /\ toGuest' = Tail(toGuest)
  /\ \/ /\ Head(toGuest).ch = "eof"
        /\ agent' = "waiting" /\ stdinOpen' = FALSE /\ UNCHANGED hand
     \/ /\ Head(toGuest).ch = "stdin"
        /\ hand' = IF stdinOpen THEN Head(toGuest).n ELSE 0
        /\ UNCHANGED <<agent, stdinOpen>>
  /\ UNCHANGED <<host, vmOn, toHost, pump, command>>

WriteStdin ==
  /\ vmOn /\ hand # 0 /\ child = "running" /\ Len(stdinPipe) < PipeRoom
  /\ stdinPipe' = Append(stdinPipe, hand) /\ hand' = 0
  /\ UNCHANGED <<host, vmOn, toGuest, toHost, agent, stdinOpen, pump,
                 child, behaviour, left, wrote, pipe, got>>

\* write_all fails: the child stopped reading, frames keep being drained.
WriteRefused ==
  /\ vmOn /\ hand # 0 /\ child = "exited"
  /\ hand' = 0 /\ stdinOpen' = FALSE
  /\ UNCHANGED <<host, vmOn, toGuest, toHost, agent, pump, command>>

PumpReads(s) ==
  /\ vmOn /\ pump[s] = 0 /\ pipe[s] # <<>>
  /\ pump' = [pump EXCEPT ![s] = Head(pipe[s])]
  /\ pipe' = [pipe EXCEPT ![s] = Tail(@)]
  /\ UNCHANGED <<host, vmOn, toGuest, toHost, agent, hand, stdinOpen,
                 child, behaviour, left, wrote, stdinPipe, got>>

PumpSends(s) ==
  /\ pump[s] \in 1 .. MaxOut /\ Respond(Frame(s, pump[s]))
  /\ pump' = [pump EXCEPT ![s] = 0]
  /\ UNCHANGED <<host, vmOn, toGuest, agent, hand, stdinOpen, command>>

\* The pipe ends when every process that holds it for writing is gone.
Over == -1
PumpEnds(s) ==
  /\ vmOn /\ pump[s] = 0 /\ pipe[s] = <<>> /\ child = "exited" /\ ~left
  /\ pump' = [pump EXCEPT ![s] = Over]
  /\ UNCHANGED <<host, vmOn, toGuest, toHost, agent, hand, stdinOpen, command>>

\* Mutant: the exit is reported once the child is reaped, without the joins.
ReadyToExit_NoJoin == child = "exited"
\* child.wait(), the join of both pumps, then the exit code.
ReadyToExit == child = "exited" /\ \A s \in Stream : pump[s] = Over
SendExit ==
  /\ agent = "waiting" /\ ReadyToExit /\ Respond(Frame("exit", 0))
  /\ agent' = "closed"
  /\ UNCHANGED <<host, vmOn, toGuest, hand, stdinOpen, pump, command>>

------------------------------------------------------------------------------
(***************************************************************************)
(* The command and the machine it runs on.                                 *)
(***************************************************************************)
AllWritten == \A s \in Stream : wrote[s] = behaviour.out[s]
SawEof == ~stdinOpen /\ hand = 0 /\ stdinPipe = <<>>

ChildReads ==
  /\ vmOn /\ child = "running" /\ stdinPipe # <<>>
  /\ \/ behaviour.reads = "first"
     \/ behaviour.reads = "last" /\ AllWritten
  /\ got' = Append(got, Head(stdinPipe)) /\ stdinPipe' = Tail(stdinPipe)
  /\ UNCHANGED <<host, vmOn, toGuest, toHost, agentVars, child, behaviour, left, wrote, pipe>>

ChildWrites(s) ==
  /\ child = "running" \/ left
  /\ vmOn /\ wrote[s] < behaviour.out[s] /\ Len(pipe[s]) < PipeRoom
  /\ behaviour.reads = "first" => SawEof
  /\ wrote' = [wrote EXCEPT ![s] = @ + 1]
  /\ pipe' = [pipe EXCEPT ![s] = Append(@, wrote[s] + 1)]
  /\ UNCHANGED <<host, vmOn, toGuest, toHost, agentVars, child, behaviour, left, stdinPipe, got>>

\* A command that leaves a process behind may leave it the rest of its output.
ChildExits ==
  /\ vmOn /\ child = "running" /\ ~behaviour.hangs
  /\ AllWritten \/ behaviour.leaves
  /\ behaviour.reads # "never" => SawEof
  /\ child' = "exited" /\ left' = behaviour.leaves
  /\ UNCHANGED <<host, vmOn, toGuest, toHost, agentVars, behaviour, wrote, pipe, stdinPipe, got>>

LeftoverEnds ==
  /\ vmOn /\ left /\ AllWritten
  /\ left' = FALSE
  /\ UNCHANGED <<host, vmOn, toGuest, toHost, agentVars, child, behaviour, wrote, pipe, stdinPipe, got>>

GuestDies ==
  /\ vmOn /\ vmOn' = FALSE
  /\ UNCHANGED <<host, toGuest, toHost, agentVars, command>>

------------------------------------------------------------------------------
Worker == HostSends \/ HostWriteFails \/ HostCollects \/ HostReadFails
Supervise == TakeResult \/ DeadlinePasses \/ ForceStop \/ JoinWorker
Serve == Spawn \/ SpawnFails \/ SendError \/ AgentReads \/ WriteStdin
           \/ WriteRefused \/ SendExit
Pump(s) == PumpReads(s) \/ PumpSends(s) \/ PumpEnds(s)
Command == ChildReads \/ ChildExits \/ LeftoverEnds \/ \E s \in Stream : ChildWrites(s)

Next == Worker \/ Supervise \/ Serve \/ Command \/ GuestDies
          \/ \E s \in Stream : Pump(s)

Spec == Init /\ [][Next]_vars

\* The two host threads run on; nothing is asked of the guest.
HostFairSpec == Spec /\ WF_vars(Worker) /\ WF_vars(Supervise)
\* The agent, its pumps and the command run on as well.
GuestFairness ==
  /\ WF_vars(Serve) /\ WF_vars(ChildReads) /\ WF_vars(ChildExits)
  /\ \A s \in Stream : WF_vars(Pump(s)) /\ WF_vars(ChildWrites(s))
FairSpec == HostFairSpec /\ GuestFairness

GuestFrame == [ch : {"exec", "stdin", "eof"}, n : 0 .. StdinChunks]
HostFrame == [ch : Stream \cup {"exit", "error"}, n : 0 .. MaxOut]

HostTypes ==
  /\ {deadline, stopFailed} \subseteq BOOLEAN
  /\ supervisor \in {"waiting", "stopping", "joining", "returned"}
  /\ outcome \in {None, "completed", "agent", "transport", "timedOut"}
  /\ sent \in 0 .. StdinChunks + 2 /\ result \in Result \cup {None}
  /\ captured \in [Stream -> Seq(0 .. MaxOut)]
  /\ \A s \in Stream : Len(captured[s]) <= MaxCaptured + 1
WireTypes == vmOn \in BOOLEAN /\ toGuest \in Seq(GuestFrame) /\ toHost \in Seq(HostFrame)
AgentTypes ==
  /\ agent \in {"idle", "failing", "feeding", "waiting", "closed"}
  /\ hand \in 0 .. StdinChunks /\ stdinOpen \in BOOLEAN
PumpTypes == pump \in [Stream -> {Over} \cup 0 .. MaxOut]
CommandTypes ==
  /\ child \in {"none", "running", "exited"} /\ behaviour \in Behaviour
  /\ left \in BOOLEAN /\ wrote \in [Stream -> 0 .. MaxOut]
  /\ pipe \in [Stream -> Seq(1 .. MaxOut)]
  /\ stdinPipe \in Seq(1 .. StdinChunks) /\ got \in Seq(1 .. StdinChunks)
TypeOK == HostTypes /\ WireTypes /\ AgentTypes /\ PumpTypes /\ CommandTypes

------------------------------------------------------------------------------
(***************************************************************************)
(* What a collected stream of n chunks must look like.                     *)
(***************************************************************************)
Capped(n) == IF n <= MaxCaptured THEN Chunks(n) ELSE Append(Chunks(MaxCaptured), Marker)

(***************************************************************************)
(* When the exit code has reached the host, the command and everything it  *)
(* left behind are gone, and both captured streams are all that was        *)
(* written, in order, cut at the cap with one marker.  The exit frame is   *)
(* ordered behind the pumps' frames by the joins of serve_inner, which is  *)
(* what this is about (lib.rs 92-98, client.rs 121-138).                   *)
(***************************************************************************)
NothingLost ==
  result = "exit" =>
    /\ child = "exited" /\ ~left /\ AllWritten
    /\ \A s \in Stream : captured[s] = Capped(wrote[s])

(***************************************************************************)
(* The command reads a prefix of the caller's stdin, and one that reads to *)
(* the end has read all of it before it exits, however the stream, the     *)
(* pipe and the agent's blocked write interleave (lib.rs 70-90).           *)
(***************************************************************************)
StdinIntact ==
  /\ got = Chunks(Len(got))
  /\ child = "exited" /\ behaviour.reads # "never" => Len(got) = StdinChunks

(***************************************************************************)
(* With a deadline the caller gets an outcome whatever the guest does,     *)
(* unless the stop fails (client.rs 58: "the plan's hard guarantee").      *)
(***************************************************************************)
DeadlineEnds == deadline => <>(supervisor = "returned" \/ stopFailed)

(***************************************************************************)
(* Without one, the caller gets an outcome once the guest runs on and the  *)
(* command ends and leaves nothing behind (client.rs 99: "then collect     *)
(* stdout/stderr until the agent reports the exit code").                  *)
(***************************************************************************)
CommandEnds ==
  ~behaviour.hangs /\ ~behaviour.leaves /\ GuestFairness
    => <>(supervisor = "returned")

(***************************************************************************)
(* A session that reports TimedOut has stopped the VM (session.rs 26: "the *)
(* VM was force-stopped") or has tried to and failed.                      *)
(***************************************************************************)
TimedOutMeansStopped == outcome = "timedOut" => ~vmOn \/ stopFailed
=============================================================================
