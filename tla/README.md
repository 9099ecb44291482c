# Verification of mxc-vz

mxc-vz is the Virtualization.framework backend of MXC on macOS: `vz-exec` takes
a policy, boots a small Linux VM for it, runs one command in the VM through an
agent, and filters what the VM may reach on the network. This directory holds
TLA+ modules translated from the Rust sources under `src/backends/vz`, the TLC
configurations that check them on small instances, and TLAPS proofs about them.

## 1. The system

| Component | Source (`src/backends/vz/`) | State | Operations |
|---|---|---|---|
| Egress filter | `vz_net/src/filter.rs` | map of learned addresses to expiry, static patterns | `observe_dns`, `allows_ip`, `matches_hostname` |
| Egress gate | `vz_net/src/gate.rs` | filter, DNS proxy, `inflight_dns`, `flow_keys`, `flows`, `udp_flows`, `icmp_flows`, shutdown flag | one event loop; resolver threads; connect threads; `Gate::drop` |
| TCP relay, UDP/ICMP translation | `gate.rs` 663-864, `ping.rs` | bytes pending to the upstream, half-closes, upstream sockets, reply addresses | `relay_once`, `open_udp_flow`, echo rewriting |
| Host patterns, DNS codec, wire codec | `pattern.rs`, `dns.rs`, `wire.rs` | none | pure functions over strings and packets |
| VM runner | `vz_darwin/src/runner.rs` | `VmState`, command channel | `boot`, `stop`, `connect`, `state`, drop |
| VZ driver | `vz_darwin/src/vz.rs` | the VM, its dispatch queue, the gate | `start`, `stop`, `open_agent_stream` |
| One-shot session | `vz_darwin/src/session.rs` | none of its own | validate, spawn, boot, connect, exec, drop |
| Exec client | `vz_protocol/src/client.rs` | worker thread, captured streams | `exec_collect_with_timeout`, `exec_collect`, `append_capped` |
| Frame and message codec | `vz_protocol/src/frame.rs`, `message.rs` | none | `read_frame`, `write_frame`, control messages |
| Guest agent | `vz_guest_agent/src/lib.rs` | child, two pump threads, shared writer | `serve_connection` |
| Policy, validation, translation | `vz_common/src/` | none | `validate_vz_policy`, `build_vm_spec`, `build_exec_request` |
| Command line | `vz_exec/src/lib.rs` | none | argument parsing, outcome to exit code |
| Guest image, scripts, CI | `scripts/`, `.github/`, `tests/probes/` | - | boot script, build tooling, probes |

**How they interact.** `vz-exec` validates the policy and calls `run_one_shot`.
That spawns a `VmHandle`: a channel to a VM thread which owns the driver. The
driver submits each operation to a dispatch queue and waits for a completion
handler, up to a deadline; an operation it gave up on stays under way. `connect`
yields a byte stream to the guest agent, over which the exec client writes one
request and stdin and collects frames until an exit code. A deadline calls back
into the handle (`stop`), which severs that stream. A VM with a filtered network
has a gate: an event loop at the other end of its network device, which resolves
names on threads of its own, puts the answers into the filter before it sends
them, and opens host sockets for the flows the filter admits.

**What is hard about each, and what makes it correct.**

- *Filter.* Several answers with different TTLs, in mapped and plain form, refresh
  one entry that is also collected. Correct: it decides as the whole history of
  answers would, and for no longer than the upper bound.
- *Gate.* Shared counters and tables with caps; results that arrive from threads
  after the state they were asked for is gone; a shutdown at any point. Correct: no
  slot leaks, no table passes its cap, the two TCP maps agree, told addresses are
  admitted, nothing else is relayed to, shutdown is reached. An answer is only queued
  when the filter learns its addresses, and leaves at a later poll.
- *Relays.* A round takes from the guest what fits, writes what the host's kernel
  takes, and keeps the rest, while either end may finish, reset or stop reading;
  datagrams of several guest ports share the stack's sockets. Correct: no byte is
  lost or reordered, a finished flow gives its place back, replies reach the asker.
- *Runner and driver.* Deadlines that race late completions, several callers, a
  guest that powers off by itself, stops that fail. Correct: calls are atomic on a
  one-shot machine, every call returns, no VM is left behind unexplained.
- *Exec.* Six threads and three bounded pipes between the caller and the command.
  Correct: an exit code means complete output, stdin arrives whole, the deadline
  ends the session whatever the guest does.
- *Pure translations.* Two parsers of one address, a policy that is rendered on the
  host and parsed again in the guest, checksums with carries, masks with shifts by
  the whole width. Correct: each agrees with what its input says.

The list of places where this code is hard to test, each with the property that
covers it or the reason why none does, is in `PROJECT.json` under `hazards`.

## 2. The modules

```
EgressFilter ----> FilterLedger        (filter alone, against the full history)
     |                  ^-- FilterLedgerMC, FilterLedgerProofs
     +----------> EgressGate --------> implements EgressLease
                        ^-- EgressGateMC, EgressGateProofs
FlowRelay                              (one TCP flow with its bytes)
     ^-- FlowRelayProofs
DatagramRelay                          (all UDP flows, who gets whose reply)
     ^-- DatagramRelayProofs
VmRunner ----> implements VmLifecycle  (thread + channel + driver)
                        ^-- VmRunnerMC, VmRunnerProofs
ExecSession                            (host worker + agent + command)
     ^-- ExecSessionProofs (with FrameCodec, the frames' bytes)
VmRunner + AgentConnect ----> OneShotSession   (a whole run of vz-exec)
                        ^-- OneShotSessionProofs (over VmRunnerProofs)

HostPattern ----> PolicyPlan --+
Bytes ----> WireCodec ---------+--> Translations
      +---> DnsCodec ----------+         ^-- TranslationsMC, TranslationProofs
      +---> FrameCodec --------+
```

### EgressFilter, FilterLedger
`EgressFilter` has the filter's operations as operators on the map `dynamic`
(`grants`: normalised address to expiry, 0 for absent): `ObserveDns`, `AllowsIp`,
`MatchesHostname`, the TTL clamp and the collection of expired entries. Addresses
are abstract, `Norm` takes a mapped form to the plain one, the patterns of the
policy are the sets `StaticDest` and `AllowedName` they match. `FilterLedger` runs
it against a clock and keeps every observation in a `ledger` that is never
collected: the reference the map is compared with.

### EgressLease, EgressGate
`EgressLease` is the promise: an address may be reached while the policy lists it
or a lease on it runs; leases are given for what a lookup returned, and end by
themselves. `EgressGate` has one action per branch of the loop of `gate.rs`, in the
phases of one round: `top` (the only place the flag is read), `drain` (one frame
per step: `RecvSyn`, `RecvNewDatagram`, `RecvNextDatagram`, `RecvEcho`,
`RecvQuery`, and at its end `Poll`, in which queued answers may leave), `dns`
(`RefuseOrDropQuery`, `StartLookup`), `replies` (`AnswerQuery`, which drops the
addresses the guard refuses, puts the others into the filter and then queues the
answer in `dnsTx`), `datagrams` and `streams` (relay, expiry, removal). Resolver
threads (`LookupDone`), connect threads (`ConnectDone`), `RequestShutdown` and `Tick`
move between any two of them, so time may pass between the grant and the telling.
A `HashMap` is a function on the keys present. `learned` and `answered` are history:
what lookups returned, and what the guest was told, with the instant of the grant
and that of the telling.

The guard `is_relayable` is asked of an address as it is written, and the allowlist
of its normal form, as in the code. `OnlyListedEgress` and `GrantsAccounted` say what
follows: relaying and admission are traced to a policy or to a lookup *in a form that
passes the guard*. That this is less than the documents promise is shown by a run of
its own (`gate_host_reached`), and `HostOnlyMapped` says how far the promise does
hold: an address the guard lists is admitted or relayed to only by way of another form
of it. The stack (smoltcp) is external: it queues queries and answers and hands out
socket slots, the lowest free one (`FreeSlot`). Payloads are left out; `FlowRelay` and
`DatagramRelay` have them.

The mapping to `EgressLease` (`ImplementsLease`): a lease is what is left of an
entry of the filter, `known` is `learned`, `open` are the destinations of all
tables. `LookupDone` is `Resolve`, `AnswerQuery` is `Grant`, the admitting branches
of the drain are `Open`, expiry and removal are `Close`, `Tick` is `Second`, and all
else is invisible. A UDP flow that is in use is not asked about again, so an `open`
destination may outlive its lease: the promise is about opening.

### FlowRelay
One TCP flow from the admitted SYN to the removal of its socket. The loop's part of
a round is `poll`, then `await` while the connect thread works, else `up`
(`TakeFromGuest`, `WriteSome`, `WriteBlocks`, `WriteFails`), `down` (`ReadSome`,
`ReadEof`, `ReadBlocks`, `ReadFails`, `NoRoom`) and `judge` (`Finish`), which are
the steps of `relay_once` and the test behind it. Around it: the stack's socket
with its two buffers (`CanSend`, `IsActive`, `Close` and `Abort` are the calls the
gate makes), the guest, which sends, finishes, resets and acknowledges in `poll`
only, and the host's stream with the kernel's two queues and a server that reads,
writes, finishes or resets at any time. Bytes are numbered chunks.

### DatagramRelay
All UDP flows: `flows` by guest port and destination, the stack's sockets by slot,
each bound to a destination and with a queue of `RxCap` datagrams (16 packets and
16384 bytes in the code, so that a large datagram may also be lost with room for
packets), the frames of one drain, the host sockets. `Poll` hands a datagram to the
first socket in slot order that accepts it, and loses what finds no room; `Relay`
sends, delivers and expires, and the host may refuse any send without a word. Every
datagram has a number of its own; the history `count`, `out` and `lost` says what
became of it, and `delivered` which port got the reply to whose datagram. The
constant `Overlap` says whether a port may turn to a server that another port's flow
is alive to. The gate's caps and the filter's decision are `EgressGate`'s.

### VmLifecycle, VmRunner
`VmLifecycle` is the promise: a one-shot machine on which every call takes effect
at one instant (`Serve`, by the table `Outcomes`) between its beginning and its
return. `VmRunner` has the channel, the VM thread (`thread` is where it stands:
`ready`, inside `start`, `abandon`, `stop`, `connect`, `teardown`, or `gone`), the
completion the driver waits for, and the platform: `StartCompletes`,
`StopCompletes` and `GuestExits` may happen at any time, also after the deadline
(`DeadlinePasses` is always possible while nothing has completed). `RunnerSpec`
implements `Spec` of `VmLifecycle` by the identity mapping on the four shared
variables, so refinement is the property `ImplementsLifecycle`. The handle's
calls come from a set of `Caller`s: `run_one_shot` is one of them, and the type
allows sharing. Panics of a driver, and what the platform does with a VM object
that is released, are outside the model.

### ExecSession
The host's worker writes the request, stdin and EOF (`HostSends`), then collects
(`HostCollects`); the supervisor takes the result or, at the deadline, stops the
VM and joins the worker. The agent's thread feeds stdin, with one chunk `hand` it
may block on; a pump per stream moves chunks from a pipe to the stream; the exit
frame waits for the child and both pumps (`ReadyToExit`). The command is external
and picked at the start (`Behaviour`): how much it writes, whether it reads stdin
before, after or never, whether it hangs, whether it leaves a process that holds
its outputs. Data is counted in chunks, so the content of a stream is a sequence of
numbers and order and loss are visible. Frames that this agent never sends, and
the errors the client has for them, are left out; without them the host keeps its end
of the stream until the agent has closed or the VM is off, so the branch of the stdin
loop for a stream that ended (lib.rs 85) is never taken by a guest that runs.
`GuestDies` may happen at any time; the stream may lose what it held.

### AgentConnect, OneShotSession
`AgentConnect` is the loop of `open_agent_stream`: `Ask` submits an attempt that may
take all that remains of the budget, a refusal is followed by a sleep if another
round fits (`RetryFits`), and a loop that gives up on an attempt leaves it under way
(`late`); should it connect after all, its descriptor has no owner (`stray`). An
attempt whose handler the platform drops ends the connect as a timeout, as does one
that is overdue (`AttemptOver`: vz.rs 161-164 takes every error alike). Time
is in ticks and only passes for a loop that waits or sleeps; the sleep takes exactly
its interval. `OneShotSession` is one run of `vz-exec` on macOS: `run`,
`run_one_shot` and `exec_over_tcp` as steps of one thread (`at`), conjoined with the
actions of `VmRunner` for the handle, the VM thread and the platform, and with
`AgentConnect` inside the driver's connect call (`RunsThread`). The exec is the
interface that `ExecSession` details: a `result` of the worker, a deadline, a stop,
a join. `job` is the set of facts about the arguments and the configuration, all
combinations of which are initial states; what makes a policy valid is
`PolicyPlan`'s. The build for other platforms ends every execution with exit code 1
and a plain line, without the envelope; it is left out.

### The translations
`Translations` is a machine of one step: it hands one input to one translation, and
the properties compare what comes out with a definition of their own.

- `HostPattern`: `parse`, `matches_ip`, `matches_hostname` and `normalize_ip` on
  addresses that are strings of `V4Bits` and `V6Bits` bits, of which one range of the
  wider ones (`MappedHigh`) is the mapped form of the narrower ones. Masks are computed
  as in the code: a shift whose amount wraps at the width, behind the guard for the
  empty prefix. The syntax of an entry is its shape, and a prefix any number.
- `PolicyPlan`: `validate_vz_policy` with all its errors and warnings, and
  `build_vm_spec` to shares, network mode and the kernel command line; then, from
  the init script, the mounts and the network the guest makes of that line. A path is
  a sequence of components, among them `..` (`UP`), which validation compares like any
  other; where a kernel gets to along a path is the constant `Resolve`, used for the
  host's end of a share and for the guest's mount, and equal to the path when there is
  no `..` in it (symbolic links, and names that only Unicode normalization makes
  equal, are not modelled). A mount over the root is seen by no process that
  runs already, so a share of `/` shows nothing.
- `DnsCodec`: `parse_query`, `build_response`, `build_refused`, byte for byte. A label
  is text when it is well-formed UTF-8 (`IsUtf8`, a table of byte ranges; the
  property decodes the numbers instead).
- `FrameCodec`: `read_frame` and `write_frame`, byte for byte, with the length cap,
  a stream that ends inside a frame and an unknown channel.
- `WireCodec`: the peeks at a guest's frame, the one's complement sums, and the
  frames the gate makes up (reset, echo request, echo reply), byte for byte. `Bytes` has
  big-endian numbers and slices that may be too short.

## 3. The runs

| Run | Instance | Shows |
|---|---|---|
| `filter_ledger` | 4 addresses (one mapped onto another, one static), 2 names, TTLs 0/2/9 around the bounds 1..3, clock to 6, 3 answers | the map decides as the full history of answers would |
| `gate` | a destination of the policy and a host-local one in both forms, which lookups return; 2 queries against 1 lookup slot, 1 answer in the DNS socket, TTL 2 and a clock to 3; 3 TCP ports for 2 TCP flows, 1 UDP, 1 ping flow, 3 socket slots | counter and caps exact, tables inverse, one owner per slot; admission and egress traced to the policy and to lookups, how far the guard holds, told addresses admitted; refinement of `EgressLease`; shutdown is reached, connects settle |
| `gate_host_reached` | the same, with datagrams only and a clock to 2, violation | a host-local address is admitted, and a flow to its mapped form relayed |
| `flow_relay` | 3 chunks up, 2 down, buffers of 1 and 2 chunks, every FIN, reset and failure at any time | no byte lost or reordered, the guest's bytes arrive, the flow ends |
| `datagrams` | 2 ports, 2 servers, 2 slots, 3 datagrams, 3 frames per drain into queues of 2, idle after 1 of 2 seconds, refused sends, no overlap | replies reach the asker; every datagram goes out on its own flow's socket, or was refused there, or found the queue in use |
| `datagrams_shared` | the same with overlap, 4 datagrams and a longer clock, violation | two ports at one server: the first is answered for the second |
| `translations` | addresses of 2 and 4 bits, two names in several spellings, paths of up to 3 components and lists of up to 2 shares, real DNS, frame and header layouts cut at every length, labels with the first and last characters of every UTF-8 length and ten ways to be none | the seven translations below |
| `translations_denied` | the same inputs, violation | a denied place is found when `..` hides it from validation |
| `vm_runner` | 3 callers | refinement of the one-shot machine, truthful state, explained orphans, calls and drop return |
| `one_shot` | all combinations of arguments and configuration, exit codes 0 and 1, connect budget of 3 ticks with retries every tick | no VM left on any path, truthful exit code and envelope, one connection at the agent, the connect budget used and kept, the run ends |
| `exec_session` | 2 stdin chunks for a pipe of one, up to 3 chunks per stream, cap 1, one-frame buffers, hang, leftover, failing stop | complete output, intact stdin, honest TimedOut; ends by deadline, ends by command |
| `exec_stdin` | 5 stdin chunks, up to 3 per stream, one-frame buffers, violation | the circular wait of stdin and output |

**The translations' properties.** `PatternsExact`: an entry admits the addresses
that share its leading bits, in both forms, and no others. `GuestSeesPolicy`: under
the mounts the guest makes of the command line, a path shows what a share covers at
the same place of the host, it can be written exactly where a readwrite share covers
it (also inside a readonly one), and a denied place, in any case of letters, is shown
only where `..` in it or in every share around it hides the overlap from validation.
`NetworkAsAsked`: no device without a
request, and the filter gets the list that was asked for. `DnsExact`: what is
accepted, refused or dropped is what the packet says, and an answer holds the
question and the addresses of its family. `FramesDelimited`: a reader gets the
frames that were written, and an error where the stream is cut. `PeeksExact`: what
is read out of a frame is in it, for a SYN by three bits of its flags alone: one that
also has FIN set opens a flow too. `RepliesFit`: made-up frames go back to their
sender, with sums that verify.

**Why the bounds are enough to be interesting.** Each cap is 1 or 2 and there is
always one actor more than fits: two queries for one slot, more ports than flows,
callers that queue behind a call, more chunks than a buffer, more datagrams in a
drain than a queue holds, an answer that waits while the clock runs past its grant.
Two chunks of stdin and a pipe of one make the agent's write block with a frame
behind it; a third would meet the circular wait of `exec_stdin`. In `filter_ledger` the
clock runs past the largest TTL plus one more, so that entries expire, are refreshed
and expire again; in `gate` it runs to the end of the first grant, with a second answer
in between. `GuestBound` bounds the guest of `gate` alone: in one behaviour it fills the
tables with flows to the policy's destination, or it asks and has one flow at a time to
what the answers name, from one TCP port. Loop, threads and clock are as free as in
the specification. The capture cap is met exactly and passed by one and by two
chunks. A relay with a buffer of one and a kernel queue of one has partial takes, writes that
block and bytes that outlive the flow. Two-bit addresses have every prefix length,
the empty and the full one, and each lies next to a non-member. The sums of
`WireCodec` are over real header layouts with bytes that carry once and twice. The
bounds `MaxNow`, `MaxLedger`, `MaxUp`, `MaxDown`, `MaxSent`, `FrameCap`, `QueryId`,
`DnsRxCap`, `DnsTxCap`, `RxCap` are named constants and occur only in guards.
Deadlock is not checked where the
system really stops: the loop after a shutdown, the thread after the handle is
dropped, a session that returned, a flow that was removed, a translation that is
done, the clock at its bound.

**Types.** The type invariant of `ExecSession` is a property of its run and a theorem;
those of the gate, the relays, the runner, the session and the ledger are theorems.

**Fairness.** `EgressGate`: weak fairness of the loop as a whole, of each lookup
and of each connect. The loop never blocks for ever (its wait has a timeout), the
host's resolver and `connect_timeout` return. That the drain loop comes to an end
is an assumption about the guest: the code sets no bound on it (a hazard).
`FlowRelay`: weak fairness of the loop, the connect and a server that reads; strong
fairness of what the guest's kernel does by itself (acknowledge, take, see a FIN or
reset), because it can do so in `poll` only and may need several rounds. Nobody has
to write, finish or reset. `DatagramRelay`: the loop. `VmRunner`:
the VM thread and the blocked callers run; nothing is assumed of the platform,
because every driver wait is a `recv_timeout`. `ExecSession`: the two host
threads run. `DeadlineEnds` assumes nothing of the guest but that the stop works;
`CommandEnds` takes the guest's fairness, and a command that ends and leaves nothing
behind, as its premises. The deadline itself is a step of the supervisor: it
passes unless a result comes first. `OneShotSession`: the main thread and the VM
thread run, time passes, and a read from a stream that a force-stop or a shutdown
severed fails; nothing is assumed of the platform and the guest, and `SessionEnds`
excuses only a stop that failed.

**Disagreements found.** Four runs expect a violation; `findings` quotes both sides.

- `gate_host_reached`: threat-model.md 158 says that the gate never relays to loopback
  and the like, regardless of the allowlist. The guard is asked of the address as
  written (gate.rs 156-174) and does not list mapped forms, the allowlist of the
  normal form: `::ffff:127.0.0.1` is relayed once 127.0.0.1 is allowed or learned. To
  learn it a lookup has to return `::ffff:127.0.0.1`, which passes the guard (gate.rs
  652) and is stored as 127.0.0.1 (filter.rs 68), though vz-backend.md 222-225 says that
  a poisoned name cannot smuggle a host-local address into the allowed set. A flow to
  127.0.0.1 in its plain form is still refused.
- `datagrams_shared`: gate.rs 19-20 speaks of "per-flow NAT state (guest endpoint ↔ a
  connected host socket)", but the stack's
  socket is bound to the destination alone (gate.rs 852-855). While two guest ports
  have flows to one server, the second port's datagrams leave on the first port's
  host socket and are answered to the first port. Two listeners for TCP flows to one
  destination may be swapped likewise, which is harmless: both lead to that server.
- `translations_denied`: threat-model.md 132-133 wants paths canonicalized before they
  are compared and 238 expects `..` to be blocked. `path_contains` (validate.rs
  266-276) compares components as written, so of a share `/a` and a denied
  `/b/../a` both are accepted, and the guest finds the denied place.
- `exec_stdin`: client.rs 99-103 says that sending stdin first suits the collect
  API. The one-shot caller passes no stdin, so only users of the exec API meet it.

What the models show besides, without a run of its own:

- The TTL the guest is told runs longer than the grant it comes with, by the time the
  answer waits in the DNS socket (gate.rs 653-660, sent at a later 610): hence the lag
  in `AnswersAdmitted`. The clamp makes nothing up for it, as the grant's TTL is the
  60 s that are told.
- A datagram may be lost behind a full socket queue (gate.rs 850) or by a send that
  fails (gate.rs 669-672), in both cases without a word: `DatagramsRelayed` names both.
- Readonly shares are mounted before readwrite ones (vm_spec.rs 72-76), so a readwrite
  share around a readonly path hides its mount, and the path can be written, where
  vz-backend.md 109-110 promises a read-only share at the identical path. Validation
  does not object. `GuestSeesPolicy` says "also inside a readonly one" for this reason.
- A readwrite path and a readonly one that differ in case only are one directory of a
  case-insensitive host, and two mounts in the guest, one of them writable.
- A known UDP flow is not asked about again (gate.rs 554-556), so one that is kept busy
  outlives its grant; filter.rs 13-14 speaks of re-filtering long-lived flows.
- `runner.rs` 113 says that drop stops a running VM; after a stop that failed
  (runner.rs 290) it makes no second attempt. `OrphanedOnlyByFailedStop` is stated
  accordingly.
- A spawn failure that the agent reports is hidden by the host's write error when
  the agent closes before the host has written its last frame (client.rs 157-163).
- gate.rs 735 says "RST the guest", and the socket is removed at 760 before the next
  poll could send the reset: the guest learns from its next segment.
- A guest's FIN is not passed on to the upstream (gate.rs 748), and a flow that has
  bytes pending on a broken upstream is never given up (gate.rs 749): the excuse in
  `FlowEnds`.

## 4. The proofs

All theorems hold for every value of the constants that the named assumptions
allow; the assumptions are typing of the constants, `MinTtl <= MaxTtl`, `Norm`
idempotent, `AnswerTtl <= MaxTtl` (60 s and 300 s in the code), that `None` is
none of the values it is compared with, buffers that hold at least one chunk, one
caller and integer exit codes in `OneShotSession` (it is one thread), the inputs of
`Translations` (`ResolveAssumption`: a walk ends at some sequence of components, and where it was sent when there is no `..`; `InputAssumption`: entries, policies and paths of any size; frames of
bytes with two addresses of one family and a header length its field can hold), widths of
addresses with the narrower one not empty (`AddressAssumption`), and for the
three theorems about frames a cap that fits the `u32` length field (16 MiB in the
code), which they name themselves.

| Module | Theorems | Inductive invariant, and why it is needed |
|---|---|---|
| `FilterLedgerProofs` | `TypeCorrect`, `DecidesAsHistory`, `AdmissionsExpire`, `AdmissionsHold` | `MapIsLedger`: for every address the map's expiry is that of the latest-expiring answer, or both are past. The decision alone is not inductive: it says nothing of entries that are about to be refreshed. |
| `EgressGateProofs` | `TypeCorrect`, `LookupsCounted`, `CapsHold`, `TablesConsistent`, `SocketsHaveOneOwner`, `EgressListed`, `GrantsTraced`, `GuardGap`, `AnswersHonoured`, `GateKeepsPromise` | `LookupInv` adds the finiteness of the set of lookups; `CapInv` adds finite domains; the maps and the socket set are jointly inductive; `EgressInv` adds what replies under way may contain (`RepliesListed`) and that an address in a queued answer or told to the guest has a grant that runs from the instant the answer was queued (`AnswersBacked`); `GuardGap` follows from `GrantsAccounted` and `OnlyListedEgress`. `GateKeepsPromise` goes step by step: each action, under `TypeOK` and `EgressInv`, is the named step of `EgressLease` or a stutter; `RepliesListed` is what makes an answer a lease on known addresses. |
| `FlowRelayProofs` | `RelayTyped`, `NoByteLost` | `IInv` is `Plain`, `Up` and `Down`: types, what each direction keeps (`UpKept`, `DownKept`), that the guest's end of stream stands behind all of it (`FinLast`), and the lengths of the queues. Each step touches one direction, and a lemma per direction carries the other. |
| `DatagramRelayProofs` | `RepliesReachAsker` | `Ownership`, under `Overlap = FALSE`: one flow per server, each slot, queued datagram, host socket and reply belongs to that flow's port. Without it the first socket that accepts need not be the flow's own. |
| `VmRunnerProofs` | `TypeCorrect`, `OrphansExplained`, `StateTruthful`, `RunnerImplementsLifecycle` | `MachineInv` relates state, machine, pending stop and completion at every place of the thread; `CallInv` says that each call is in exactly one of channel, service and answer, without which a step of the thread would not be a step of the abstract machine. |
| `ExecSessionProofs` | `TypeCorrect`, `TimedOutHonest`, `NothingIsLost`, `StdinArrives`; `FrameRoundTrip`, `CutFrameTold`, `ReadsOnlyFrames` | `StopInv`: from the moment the supervisor joins, the VM is off or the stop has failed; off is for good. `OutInv`: per stream, what is captured, in the frames under way, in the pump's hand and in the pipe is, in this order, what was written. `StdinInv`: the same from the host's script to the command. `EndInv`: an exit frame stands behind everything, so the result is read when nothing is left to carry. |
| `OneShotSessionProofs` | `SessionImplementsLifecycle`, `SessionTyped`, `NoVmLeftBehind`, `ExitsTruthfully`, `OneConnection`, `BudgetUsed` | Every step of a session is a step of the runner or leaves it alone, so the invariants of `VmRunnerProofs` hold here too. On top: `HandleInv` (where the session has a VM handle, and that its thread is gone at the end), `AskedInv` (the one call the main thread may be in, at each place), `OutcomeInv` (what is known of the command when an outcome is), `CleanInv` (an attempt under way or a stray connection means that the connect has failed), `NapInv` (a sleep ends within the budget). |
| `TranslationProofs` | `EntriesExact`, `NetworkIsAsked`, `GuestSeesItsPolicy`, `FramesPeeked`; `NextSequence`, `TwoRoundsFold` | The machine has one step, so the invariant is `InputOK`: the input is one of those the constants allow. The work is in the operators. Addresses: two have the same host when they have the same normal form (`SameHostNormal`), and a mask of `p` bits compares the leading `p` of them (`MaskIsPrefix`, from the empty prefix to the full one). Shares: the kernels' walk of a path is a constant of which only `ResolveAssumption` is known; the guest's answer for a path is that of the last mount over it (`LastOne`, by well-foundedness of the numbers), and the lists are numbered so that it is a writable one when there is one (`ShareList`). Frames: each byte of the headers has its place (`HeaderV4`, `HeaderV6`, by `Joined`), the header's own length field leads to the transport (`FrameRead`), and a flag byte opens a flow by its value modulo 32 (`SynOnly`). |

The lemmas about the filter's operators (what an observation does to each entry, and
that several addresses of one answer enter as if one by one) stand in front of the
proofs that use them, in `EgressGateProofs` and `FilterLedgerProofs`.

`TwoRoundsFold` is why `Sum` may write the loop `while sum >> 16 != 0` of the checksum
as two rounds, and `NextSequence` says of the bytes a reset acknowledges what
`RepliesFit` checks of some: the number behind the SYN's, modulo 2^32.

`FramesDelimited` is about streams of any number of frames, an induction over data,
and stays with TLC. The three theorems about frames are its step: one frame is read
as it was written and leaves the rest alone, a cut one is told, and nothing else is
read as a frame.

**Only model-checked.** Liveness (`ShutdownCompletes`, `ConnectsSettle`,
`GuestBytesArrive`, `FlowEnds`, `DatagramsRelayed`, `CallsReturn`, `DropJoins`,
`DeadlineEnds`, `CommandEnds`, `SessionEnds`): the prover has no rules for fairness and
ENABLED. Of the translations `DnsExact`, `FramesDelimited` and `RepliesFit`: the labels
of a name, the frames of a stream and the words of a checksum are folded one by one,
and what a fold computes for every input is induction over data, which the prover
cannot do. Every other property of a run is a theorem.

## 5. Not modelled, and why

- The system calls of `ping.rs` and the per-device calls of `build_configuration` in
  `vz.rs`: they have no control of their own.
- Reading a policy (serde), the copy of fields into an exec request beyond whether
  there is a command, argument and base64 parsing of `vz-exec`, its log file and dry
  run output: pure, and unit-tested. So is the wrap-around of `memory_mb` in bytes,
  which needs a value no machine has.
- The accept loops and the vsock scan of the agent's binary: they keep no state. That
  connections are served one after the other is in `NoStrayConnection`.
- Boot script beyond mounts and network, CI, probes and provisioning:
  straight-line tooling.

## 6. Plan

1. That the gate's view of a TCP flow is what `FlowRelay` details.
2. The addresses and lengths of the frames the gate makes up (`RepliesFit` without its
   sums) for every request.
3. Argument parsing and base64 of `vz-exec`; larger bounds for the translations.
