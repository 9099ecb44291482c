---------------------------- MODULE AgentConnect ----------------------------
(***************************************************************************)
(* VzDriver::open_agent_stream of vz_darwin/src/vz.rs: connect attempts to *)
(* the guest agent's port, repeated while the guest refuses, until a       *)
(* deadline.  An attempt runs on the dispatch queue of Virtualization and  *)
(* its completion handler sends what came of it to the loop; the loop may  *)
(* have left by then.  Time is counted in ticks, and a thread whose wait   *)
(* is over runs before the next tick.                                      *)
(***************************************************************************)
EXTENDS Naturals

CONSTANTS
    ConnectBudget,   \* the caller's timeout
    RetryInterval    \* CONNECT_RETRY_INTERVAL

ASSUME TicksAssumption == ConnectBudget \in Nat /\ RetryInterval \in Nat \ {0}

VARIABLES
    loop,      \* where open_agent_stream is; "idle" outside of it
    left,      \* ticks until its deadline
    nap,       \* ticks of sleep that remain
    attempt,   \* the attempt the loop waits for, or what has come of it
    late,      \* an attempt the loop has given up is under way
    stray      \* a connection nobody waited for: its descriptor has no owner

connectVars == <<loop, left, nap, attempt, late, stray>>

\* What claim_connection makes of a completion, or "dropped": the platform has
\* let the handler go unused, and with it the sender.
Attempt == {"connected", "refused", "fatal", "dropped"}

ConnectTypes ==
    /\ loop \in {"idle", "asking", "waiting", "sleeping"}
    /\ left \in 0 .. ConnectBudget /\ nap \in 0 .. RetryInterval
    /\ attempt \in Attempt \union {"none", "pending"}
    /\ {late, stray} \subseteq BOOLEAN

ConnectInit ==
    /\ loop = "idle" /\ left = 0 /\ nap = 0
    /\ attempt = "none" /\ late = FALSE /\ stray = FALSE

\* let deadline = Instant::now() + timeout
EnterLoop ==
    /\ loop = "idle"
    /\ loop' = "asking" /\ left' = ConnectBudget
    /\ UNCHANGED <<nap, attempt, late, stray>>

Ask_Impatient ==
    /\ loop \in {"asking", "waiting"} /\ attempt \in {"none", "pending"} /\ left > 0
    /\ loop' = "waiting" /\ attempt' = "pending"
    /\ late' = (late \/ attempt = "pending")
    /\ UNCHANGED <<left, nap, stray>>

\* try_connect submits one attempt, which may take all that remains.
Ask ==
    /\ loop = "asking" /\ left > 0
    /\ loop' = "waiting" /\ attempt' = "pending"
    /\ UNCHANGED <<left, nap, late, stray>>

RetryFits_Always == TRUE
\* Another round ends before the deadline.
RetryFits == RetryInterval < left

\* NotReady: the guest still boots.
Retry ==
    /\ loop = "waiting" /\ attempt = "refused" /\ RetryFits
    /\ loop' = "sleeping" /\ nap' = RetryInterval /\ attempt' = "none"
    /\ UNCHANGED <<left, late, stray>>

Wake ==
    /\ loop = "sleeping" /\ nap = 0
    /\ loop' = "asking"
    /\ UNCHANGED <<left, nap, attempt, late, stray>>

\* rx.recv_timeout(remaining) fails, for lack of time or of a sender.
AttemptOver == attempt = "dropped" \/ (attempt = "pending" /\ left = 0)

\* The function returns; the attempt it waited for goes on.
LeaveLoop(result) ==
    /\ CASE result = "ok" -> loop = "waiting" /\ attempt = "connected"
         [] result = "connectError" -> loop = "waiting" /\ attempt \in {"fatal", "connected"}
         [] result = "connectTimeout" ->
              \/ loop = "asking" /\ left = 0
              \/ loop = "waiting" /\ attempt = "refused" /\ ~RetryFits
              \/ loop = "waiting" /\ AttemptOver
    /\ loop' = "idle" /\ attempt' = "none"
    /\ late' = (late \/ attempt = "pending")
    /\ UNCHANGED <<left, nap, stray>>

LoopStep == Ask \/ Retry \/ Wake

\* Time passes for a loop that sleeps, or waits for its attempt.
Tick ==
    /\ left > 0
    /\ \/ loop = "waiting" /\ attempt = "pending" /\ UNCHANGED nap
       \/ loop = "sleeping" /\ nap > 0 /\ nap' = nap - 1
    /\ left' = left - 1
    /\ UNCHANGED <<loop, attempt, late, stray>>

\* Virtualization completes the attempt.  reachable: an agent may listen.
AttemptEnds(reachable) ==
    /\ attempt = "pending"
    /\ attempt' \in IF reachable THEN Attempt ELSE Attempt \ {"connected"}
    /\ UNCHANGED <<loop, left, nap, late, stray>>

\* The completion of a given-up attempt is sent to a closed channel.
LateAttemptEnds(reachable) ==
    /\ late
    /\ late' = FALSE
    /\ \/ UNCHANGED stray
       \/ reachable /\ stray' = TRUE
    /\ UNCHANGED <<loop, left, nap, attempt>>
=============================================================================
