---------------------------- MODULE VmLifecycle ----------------------------
(***************************************************************************)
(* What the VM handle of vz_darwin/src/runner.rs promises its callers: a   *)
(* one-shot machine, Created -> Running -> Stopped or Failed, on which     *)
(* every call takes effect at one instant between its beginning and its    *)
(* return.  There is no thread, no channel and no platform here; VmRunner  *)
(* has them, and implements this.                                          *)
(***************************************************************************)
CONSTANTS
    Caller,      \* threads that share the handle
    None         \* no call, no answer

ASSUME NoneAssumption ==
    None \notin Caller \union
       {"boot", "stop", "connect", "state", "ok", "bootTimeout", "startError", "stopError",
        "connectError", "connectTimeout", "alreadyRunning", "notRunning", "created",
        "running", "stopped", "failed"}

VARIABLES
    state,       \* VmState
    asked,       \* the call each caller is in
    answer,      \* its result, once there is one
    open         \* the handle has not been dropped

lifecycleVars == <<state, asked, answer, open>>

VmState == {"created", "running", "stopped", "failed"}
Op == {"boot", "stop", "connect", "state"}
Answer == VmState \union {"ok", "bootTimeout", "startError", "stopError", "connectError",
                          "connectTimeout", "alreadyRunning", "notRunning"}

\* What a call may do to the machine, and answer, from each state.
Outcomes(op, s) ==
    CASE op = "boot" ->
           IF s = "created"
           THEN {<<"running", "ok">>, <<"failed", "bootTimeout">>, <<"failed", "startError">>}
           ELSE {<<s, "alreadyRunning">>}
      [] op = "stop" ->
           IF s = "running"
           THEN {<<"stopped", "ok">>, <<"failed", "stopError">>}
           ELSE {<<s, "notRunning">>}
      [] op = "connect" ->
           IF s = "running"
           THEN {<<s, "ok">>, <<s, "connectError">>, <<s, "connectTimeout">>}
           ELSE {<<s, "notRunning">>}
      [] op = "state" -> {<<s, s>>}

Init ==
    /\ state = "created"
    /\ asked = [c \in Caller |-> None]
    /\ answer = [c \in Caller |-> None]
    /\ open = TRUE

Call(c, op) ==
    /\ open
    /\ asked[c] = None
    /\ asked' = [asked EXCEPT ![c] = op]
    /\ UNCHANGED <<state, answer, open>>

Serve(c) ==
    /\ asked[c] # None
    /\ answer[c] = None
    /\ \E outcome \in Outcomes(asked[c], state) :
          /\ state' = outcome[1]
          /\ answer' = [answer EXCEPT ![c] = outcome[2]]
    /\ UNCHANGED <<asked, open>>

Return(c) ==
    /\ answer[c] # None
    /\ asked' = [asked EXCEPT ![c] = None]
    /\ answer' = [answer EXCEPT ![c] = None]
    /\ UNCHANGED <<state, open>>

\* The handle is dropped by its only owner, so no call is going on.
Drop ==
    /\ open
    /\ \A c \in Caller : asked[c] = None
    /\ open' = FALSE
    /\ UNCHANGED <<state, asked, answer>>

Next ==
    \/ \E c \in Caller :
          \/ \E op \in Op : Call(c, op)
          \/ Serve(c)
          \/ Return(c)
    \/ Drop

Spec == Init /\ [][Next]_lifecycleVars
=============================================================================
