----------------------------- MODULE PolicyPlan -----------------------------
(***************************************************************************)
(* From a policy to a VM: validation (vz_common/src/validate.rs), the VM   *)
(* specification with its kernel command line (vm_spec.rs), and what the   *)
(* guest's init makes of that line (scripts/guest-init.sh).                *)
(*                                                                         *)
(* A path is a flag and a sequence of components, as Path::components      *)
(* gives them.  Three are special: BLANK starts with white space, where    *)
(* the command line is split into words, NUL starts with a zero byte,      *)
(* where a C string ends, and UP is "..", which validation keeps and a     *)
(* kernel follows.                                                         *)
(* An optional block is a set with at most one element.                    *)
(***************************************************************************)
EXTENDS HostPattern, Sequences, FiniteSets, FiniteSetsExt, SequencesExt

CONSTANTS
    Component,       \* of a path
    Lower(_),        \* the lower-case form of a component
    BLANK, NUL, UP,  \* see above
    Resolve(_),      \* where a kernel gets to along components from the root
    MinMemoryMb      \* MIN_MEMORY_MB

Paths == [abs : BOOLEAN, parts : Seq(Component)]

\* The two blocks of a policy that reach the guest.
Filesystems == [readonly : Seq(Paths), readwrite : Seq(Paths), denied : Seq(Paths)]
Networks == [defaultPolicy : {"absent", "allow", "block"}, allowedHosts : Seq(Entries),
             blockedHosts : BOOLEAN, proxy : BOOLEAN, enforcementMode : BOOLEAN]

IsOption(S, T) == S \subseteq T /\ \A x, y \in S : x = y

When(cond, what) == {x \in {what} : cond}

-----------------------------------------------------------------------------
\* validate.rs

\* Component-wise and blind to case; a root is a component, so an absolute
\* path is never inside a relative one.  UP is a component like any other.
PathContains_CaseSensitive(ancestor, candidate) ==
    /\ ancestor.abs = candidate.abs
    /\ IsPrefix(ancestor.parts, candidate.parts)

Folded(path) == [i \in DOMAIN path.parts |-> Lower(path.parts[i])]

PathContains(ancestor, candidate) ==
    /\ ancestor.abs = candidate.abs
    /\ IsPrefix(Folded(ancestor), Folded(candidate))

Has(path, component) == component \in ToSet(path.parts)

UiErrors(policy) == UNION {
    When(ui.disable = "false", "UiAccessUnsupported")
    \union When(ui.injection = "true", "UiInjectionUnsupported")
    \union When(ui.clipboard \notin {"absent", "none"}, "ClipboardUnsupported")
        : ui \in policy.ui}

NetworkErrors(policy) == UNION {
    When(net.proxy, "ProxyUnsupported")
    \union When(net.blockedHosts, "BlockedHostsUnsupported")
        : net \in policy.network}

\* Lists in the order in which shares are numbered.
SharePaths(fs) == fs.readonly \o fs.readwrite

SharePathErrors(fs) ==
    When(\E p \in ToSet(SharePaths(fs)) : Has(p, BLANK), "SharePathContainsWhitespace")

FilesystemErrors(policy) == UNION {
    LET all == ToSet(SharePaths(fs) \o fs.denied) IN
    When(\E p \in all : Has(p, NUL), "PathContainsNul")
    \union When(\E p \in all : ~Has(p, NUL) /\ ~p.abs, "NonAbsolutePath")
    \union SharePathErrors(fs)
    \union When(\E d \in ToSet(fs.denied), s \in ToSet(SharePaths(fs)) : PathContains(s, d),
                "DeniedPathInsideShare")
        : fs \in policy.filesystem}

\* experimental.vz, or its defaults.
Options(policy) ==
    IF policy.options = {} THEN [cpuCount |-> 2, memoryMb |-> 2048, bootTimeoutMs |-> 30000]
    ELSE CHOOSE o \in policy.options : TRUE

OptionErrors(policy) ==
    LET o == Options(policy) IN
    When(o.cpuCount < 1, "InvalidCpuCount")
    \union When(o.memoryMb < MinMemoryMb, "InvalidMemoryMb")
    \union When(o.bootTimeoutMs < 1, "InvalidBootTimeoutMs")

\* validate_vz_policy collects every error.
Errors(policy, experimental) ==
    When(policy.containment # "vz", "NotVzContainment")
    \union When(~experimental, "ExperimentalRequired")
    \union UiErrors(policy) \union NetworkErrors(policy)
    \union FilesystemErrors(policy) \union OptionErrors(policy)

Accepted(policy, experimental) == Errors(policy, experimental) = {}

Warnings(policy) ==
    UNION {When(net.enforcementMode, "IgnoredField")
           \union When(net.allowedHosts # <<>> /\ net.defaultPolicy = "allow",
                       "RedundantAllowedHosts")
           \union When(\E e \in ToSet(net.allowedHosts) : Parse(e) = {}, "SkippedAllowedHost")
               : net \in policy.network}
    \union When(policy.otherBackends # {}, "IgnoredField")
    \union UNION {When(\E d \in ToSet(fs.denied) :
                           \A s \in ToSet(SharePaths(fs)) : ~PathContains(s, d),
                       "RedundantDeniedPath")
                    : fs \in policy.filesystem}

-----------------------------------------------------------------------------
\* vm_spec.rs

\* Tags are numbers: the position in the list.
Shares(policy) ==
    UNION {{[tag |-> i, path |-> SharePaths(fs)[i], readOnly |-> i <= Len(fs.readonly)]
                : i \in DOMAIN SharePaths(fs)} : fs \in policy.filesystem}

Patterns(net) == UNION {Parse(e) : e \in ToSet(net.allowedHosts)}

ModeOf_OpenByDefault(net) ==
    CASE net.defaultPolicy # "block" -> "Nat"
      [] net.defaultPolicy = "block" -> IF Patterns(net) = {} THEN "None" ELSE "FilteredNat"

\* Only an explicit allow attaches a plain device, and an empty filter none.
ModeOf(net) ==
    CASE net.defaultPolicy = "allow"  -> "Nat"
      [] net.defaultPolicy = "block"  -> IF Patterns(net) = {} THEN "None" ELSE "FilteredNat"
      [] net.defaultPolicy = "absent" -> "None"

NetworkMode(policy) ==
    IF policy.network = {} THEN "None" ELSE ModeOf(CHOOSE n \in policy.network : TRUE)

\* The path of a share as the host's device gets it, a C string.
UpTo(parts, special) == SelectInSeq(parts, LAMBDA c : c = special)
Cut(parts, special) ==
    IF UpTo(parts, special) = 0 THEN parts ELSE SubSeq(parts, 1, UpTo(parts, special) - 1)

\* The line is a set of words here, in the order of the tags.
KernelCmdline(policy) ==
    [net    |-> IF NetworkMode(policy) = "FilteredNat" THEN "static" ELSE "",
     shares |-> {[tag |-> s.tag, mode |-> IF s.readOnly THEN "ro" ELSE "rw",
                  path |-> s.path.parts] : s \in Shares(policy)}]

-----------------------------------------------------------------------------
\* guest-init.sh, and the devices behind the tags

\* The shell splits the line at white space, so a word ends there; mkdir -p and
\* mount walk the path that is left.
MountsOf(cmdline) ==
    {[tag |-> w.tag, writable |-> w.mode # "ro", at |-> Resolve(Cut(w.path, BLANK))]
        : w \in cmdline.shares}

\* A later mount hides what an earlier one shows at or below its mount point; one
\* over the root is not seen, as every process keeps the root it started with.
Shows(mounts, path) ==
    LET over == {m \in mounts : m.at # <<>> /\ IsPrefix(m.at, path)}
    IN  {m \in over : \A other \in over : other.tag <= m.tag}

\* What the guest finds at a path: nothing, or a place on the host and whether
\* it can be written (the device and the mount both have to allow it).
GuestFinds(policy, path) ==
    {LET s == CHOOSE x \in Shares(policy) : x.tag = m.tag IN
     [place    |-> Resolve(Cut(s.path.parts, NUL)) \o SubSeq(path, Len(m.at) + 1, Len(path)),
      writable |-> m.writable /\ ~s.readOnly]
        : m \in Shows(MountsOf(KernelCmdline(policy)), path)}

StaticNet(policy) == KernelCmdline(policy).net = "static"
=============================================================================
