----------------------------- MODULE SandboxUids -----------------------------
(* The user ids agents run under (AgentSandbox::command of lib.rs). A daemon   *)
(* that trusts its container, as the worker image started as root does, gives  *)
(* every workspace a uid of its own, kept in a mapping file, and hands the     *)
(* workspace to it before the process starts. Any other - a native worker, a   *)
(* container forced to a user, the server - runs all agents as itself.         *)
(*                                                                             *)
(* Jobs call it side by side. The mapping of a workspace is never removed, so  *)
(* the pool only shrinks. A mapping is renamed into place but not synced: a    *)
(* power failure may leave it unreadable. Landlock, namespaces and seccomp,    *)
(* which fence the process in, are not modelled.                               *)
EXTENDS Naturals, FiniteSets

CONSTANTS
    Run,         \* calls of AgentSandbox::command and the processes they start
    Workspace,
    Nowhere,     \* no workspace
    MaxUid,      \* bound: the pool is 1 .. MaxUid
    Reserved,    \* the uids of the pool that own the daemon or its state
    DaemonUid,   \* the uid of the daemon
    MaxFailures  \* bound: power failures

ASSUME UidsAssumption ==
    /\ Nowhere \notin Workspace
    /\ MaxUid \in Nat /\ Reserved \subseteq 1 .. MaxUid
    /\ DaemonUid \in 1 .. MaxUid => DaemonUid \in Reserved
    /\ MaxFailures \in Nat

Uid == 1 .. MaxUid
NoUid == 0            \* no mapping yet, no uid yet
TornMapping == MaxUid + 1   \* a mapping file nobody can parse

VARIABLES
    trusted,   \* trusted_container_daemon, set by who starts the daemon
    mapping,   \* mapping[w]: the uid of w's mapping file
    holder,    \* the runs that hold the lock of the mapping directory
    runs,      \* runs[r]: how far r has come, in which workspace, as whom
    failures   \* how many power failures there were

uidVars == <<trusted, mapping, holder, runs, failures>>

IdleRun == [at |-> "idle", workspace |-> Nowhere, uid |-> NoUid]

UidsTypeOK ==
    /\ trusted \in BOOLEAN
    /\ mapping \in [Workspace -> Uid \union {NoUid, TornMapping}]
    /\ holder \subseteq Run
    /\ runs \in [Run -> [at : {"idle", "lock", "look", "publish", "own", "running"},
                         workspace : Workspace \union {Nowhere}, uid : Uid \union {NoUid, DaemonUid}]]
    /\ failures \in 0 .. MaxFailures

UidsInit ==
    /\ trusted \in BOOLEAN
    /\ mapping = [w \in Workspace |-> NoUid]
    /\ holder = {}
    /\ runs = [r \in Run |-> IdleRun]
    /\ failures = 0

-----------------------------------------------------------------------------
(* sandbox_uid_for_workspace *)

RunGoes(r, at) == [runs EXCEPT ![r].at = at]

Begins(r, w, at, uid) ==
    /\ runs[r].at = "idle"
    /\ runs' = [runs EXCEPT ![r] = [at |-> at, workspace |-> w, uid |-> uid]]
    /\ UNCHANGED <<trusted, mapping, holder, failures>>

BeginRun(r, w) == trusted /\ Begins(r, w, "lock", NoUid)

(* No sandbox_uid: the mappings are not looked at *)
BeginAsDaemon(r, w) == ~trusted /\ Begins(r, w, "own", DaemonUid)

Unlocked == TRUE  \* mutant: no flock
LockFree == holder = {}

(* flock, LOCK_EX *)
TakeLock(r) ==
    /\ runs[r].at = "lock"
    /\ LockFree
    /\ holder' = holder \union {r}
    /\ runs' = RunGoes(r, "look")
    /\ UNCHANGED <<trusted, mapping, failures>>

(* The uids other mappings name; one that cannot be parsed is skipped          *)
Used == Reserved \union {mapping[w] : w \in Workspace}
FirstUnused(u) == u \in Uid \ Used /\ \A v \in Uid \ Used : u <= v

(* The lock goes with the function's return *)
Mapped(r) ==
    /\ runs[r].at = "look"
    /\ mapping[runs[r].workspace] \in Uid
    /\ runs' = [runs EXCEPT ![r].at = "own", ![r].uid = mapping[runs[r].workspace]]
    /\ holder' = holder \ {r}
    /\ UNCHANGED <<trusted, mapping, failures>>

Scan(r) ==
    /\ runs[r].at = "look"
    /\ mapping[runs[r].workspace] = NoUid
    /\ \E u \in Uid :
          /\ FirstUnused(u)
          /\ runs' = [runs EXCEPT ![r].at = "publish", ![r].uid = u]
    /\ UNCHANGED <<trusted, mapping, holder, failures>>

(* The temporary file, and its rename *)
Publish(r) ==
    /\ runs[r].at = "publish"
    /\ mapping' = [mapping EXCEPT ![runs[r].workspace] = runs[r].uid]
    /\ holder' = holder \ {r}
    /\ runs' = RunGoes(r, "own")
    /\ UNCHANGED <<trusted, failures>>

(* The mapping cannot be read, the pool is exhausted, the disk is full         *)
AllocationFails(r) ==
    /\ runs[r].at \in {"lock", "look", "publish", "own"}
    /\ holder' = holder \ {r}
    /\ runs' = [runs EXCEPT ![r] = IdleRun]
    /\ UNCHANGED <<trusted, mapping, failures>>

-----------------------------------------------------------------------------
(* The process *)

(* set_sandbox_owned_tree, then the launcher enters the uid, if there is one   *)
Enter(r) ==
    /\ runs[r].at = "own"
    /\ runs' = RunGoes(r, "running")
    /\ UNCHANGED <<trusted, mapping, holder, failures>>

RunExits(r) ==
    /\ runs[r].at = "running"
    /\ runs' = [runs EXCEPT ![r] = IdleRun]
    /\ UNCHANGED <<trusted, mapping, holder, failures>>

(* The machine stops: what was not on the disk yet is torn. The next daemon    *)
(* may be started another way.                                                 *)
PowerFails(lost) ==
    /\ failures < MaxFailures
    /\ failures' = failures + 1
    /\ mapping' = [w \in Workspace |->
          IF w \in lost /\ mapping[w] # NoUid THEN TornMapping ELSE mapping[w]]
    /\ holder' = {}
    /\ runs' = [r \in Run |-> IdleRun]
    /\ trusted' \in BOOLEAN

-----------------------------------------------------------------------------

UidsNext ==
    \/ \E r \in Run, w \in Workspace : BeginRun(r, w) \/ BeginAsDaemon(r, w)
    \/ \E r \in Run : TakeLock(r)
    \/ \E r \in Run : Mapped(r)
    \/ \E r \in Run : Scan(r)
    \/ \E r \in Run : Publish(r)
    \/ \E r \in Run : AllocationFails(r)
    \/ \E r \in Run : Enter(r)
    \/ \E r \in Run : RunExits(r)
    \/ \E lost \in SUBSET Workspace : PowerFails(lost)

UidsSpec == UidsInit /\ [][UidsNext]_uidVars

-----------------------------------------------------------------------------
(* Properties *)

(* Under a daemon that trusts its container, agents of different workspaces    *)
(* never run under one uid, those of one workspace do, and none under the uid  *)
(* of the daemon or of its state: whatever runs side by side, whatever         *)
(* mappings a power failure tore or an earlier daemon left. Under any other    *)
(* daemon no uid tells agents apart: all have the daemon's                     *)
(* (AgentSandbox::command, sandbox_uid_for_workspace).                         *)
IdentitiesAreSeparate ==
    \A r, s \in Run :
        runs[r].at = "running" /\ runs[s].at = "running" =>
            IF trusted
            THEN /\ runs[r].uid \in Uid \ (Reserved \union {DaemonUid})
                 /\ (runs[r].workspace = runs[s].workspace) <=> (runs[r].uid = runs[s].uid)
            ELSE runs[r].uid = DaemonUid

(* What does not hold of a daemon that does not trust its container            *)
(* (AgentSandbox::command, the branch without a uid).                          *)
NobodyIsTheDaemon == \A r \in Run : runs[r].at = "running" => runs[r].uid # DaemonUid
=============================================================================
