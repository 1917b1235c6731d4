-------------------------- MODULE InteractiveSandbox --------------------------
(* One MCP sandbox, from work_pick to the end of its lease.                    *)
(*                                                                             *)
(* work_pick claims a lease, prepares a checkout and attaches it; a heartbeat  *)
(* then renews the lease. read, write, edit, bash, work_finish and             *)
(* work_release run concurrently, each as the steps between its awaits; none   *)
(* of them excludes another. The sandbox is torn down (detach_local) by the    *)
(* call that closes the lease or by the heartbeat when a renewal fails.        *)
(* Sandboxes share nothing but the rows of the database, so one is modelled.   *)
(*                                                                             *)
(* The lease is seen through the guards of its calls (WorkLifecycle has the    *)
(* rows): it is renewed and closed only while active. A directory is told by   *)
(* what it holds: "base" (no change), "work" (the agent's changes), "torn" (a  *)
(* part of the files), "gone". An earlier candidate seeds a sandbox with       *)
(* "work". Reading files, the log directory of bash and its output are left    *)
(* out; a refused call changes nothing and is no step.                         *)
EXTENDS Naturals, Sequences

CONSTANT Call  \* the calls made with this sandbox_id

VARIABLES
    role,       \* SandboxRole
    pick,       \* how far work_pick has come
    lease,      \* the execution or review the sandbox works for
    attached,   \* the manager's map has the sandbox
    cancelled,  \* its CancellationToken
    heartbeat,  \* the task that renews the lease
    teardown,   \* how far detach_local has come
    tree,       \* the agent's workspace and the trusted checkout
    history,    \* the commits of the trusted checkout, by what their trees hold
    published,  \* the commit the review ref points at, 0 for none
    result,     \* the commit_sha of the recorded ExecutionResult, 0 for none
    call,       \* call[c]: its operation, how far it has come, its head_sha
    process     \* process[c]: the shell a bash call started

vars == <<role, pick, lease, attached, cancelled, heartbeat, teardown, tree,
          history, published, result, call, process>>
checkout == <<tree, history, published, result>>
manager == <<attached, cancelled, teardown>>

-----------------------------------------------------------------------------

Role == {"implementation", "review"}
Operation == {"write", "bash", "finish", "release"}
Directory == {"agent", "trusted"}
Content == {"base", "work", "torn", "gone"}
Fallible == {"write", "spawn", "clear", "copy", "commit", "head", "push", "close"}

CallState ==
    [op : Operation, sha : Nat,
     at : Fallible \union {"watch", "detach", "done", "failed"}]
IdleCall == [at |-> "idle"]

TypeOK ==
    /\ role \in Role
    /\ pick \in {"preparing", "attached", "releasing", "failed"}
    /\ lease \in {"active", "expired", "completed", "cancelled", "lost"}
    /\ attached \in BOOLEAN /\ cancelled \in BOOLEAN
    /\ heartbeat \in {"none", "waiting", "stopping", "ended"}
    /\ teardown \in {"none", "kill", "remove", "done"}
    /\ tree \in [Directory -> Content]
    /\ history \in Seq(Content \ {"gone"})
    /\ published \in 0 .. Len(history) /\ result \in 0 .. Len(history)
    /\ call \in [Call -> CallState \union {IdleCall}]
    /\ process \in [Call -> {"none", "spawned", "watched", "over"}]

(* work_pick has its claim *)
Init ==
    /\ role \in Role
    /\ pick = "preparing" /\ lease = "active"
    /\ attached = FALSE /\ cancelled = FALSE
    /\ heartbeat = "none" /\ teardown = "none"
    /\ tree = [d \in Directory |-> "gone"]
    /\ history = <<>> /\ published = 0 /\ result = 0
    /\ call = [c \in Call |-> IdleCall]
    /\ process = [c \in Call |-> "none"]

Running == {"spawned", "watched"}
Goes(c, at) == call' = [call EXCEPT ![c].at = at]
Holds(d) == tree[d] # "gone"
PastHeadCommit == Len(history) + 1  \* mutant: off by one
HeadCommit == Len(history)
Edited == tree["agent"] \in {"base", "work"}

-----------------------------------------------------------------------------
(* work_pick *)

(* attach_implementation, attach_review: nobody renews the lease until the     *)
(* sandbox is in the map                                                       *)
Attach ==
    /\ pick = "preparing"
    /\ \E seed \in {"base", "work"} :
          /\ tree' = [d \in Directory |-> seed]
          /\ history' = <<seed>>
          /\ published' = IF seed = "work" THEN 1 ELSE 0
    /\ pick' = "attached" /\ attached' = TRUE /\ heartbeat' = "waiting"
    /\ UNCHANGED <<role, lease, cancelled, teardown, result, call, process>>

(* A preparation that fails leaves what it made on the disk *)
PreparationFails ==
    /\ pick = "preparing"
    /\ pick' = "releasing"
    /\ tree' \in [Directory -> {"gone", "torn"}]
    /\ UNCHANGED <<role, lease, attached, cancelled, heartbeat, teardown,
                   history, published, result, call, process>>

(* work_pick then releases its claim; an error of that is ignored *)
PickReleases ==
    /\ pick = "releasing"
    /\ pick' = "failed"
    /\ lease' \in {lease} \union IF lease = "active" THEN {"cancelled"} ELSE {}
    /\ UNCHANGED <<role, manager, heartbeat, checkout, call, process>>

-----------------------------------------------------------------------------
(* detach_local and the heartbeat *)

(* Whoever takes the sandbox from the map tears it down; others find nothing *)
DetachLocal ==
    IF attached
    THEN attached' = FALSE /\ cancelled' = TRUE /\ teardown' = "kill"
    ELSE UNCHANGED manager

(* kill of the registered process groups *)
KillProcesses ==
    /\ teardown = "kill"
    /\ teardown' = "remove"
    /\ process' = [c \in Call |-> IF process[c] = "watched" THEN "over" ELSE process[c]]
    /\ UNCHANGED <<role, pick, lease, attached, cancelled, heartbeat, checkout, call>>

(* remove_dir_all, file by file *)
RemoveFiles(d) ==
    /\ teardown = "remove" /\ Holds(d)
    /\ tree' = [tree EXCEPT ![d] = IF @ = "torn" THEN "gone" ELSE "torn"]
    /\ UNCHANGED <<role, pick, lease, manager, heartbeat, history, published,
                   result, call, process>>

(* It stops at a directory that somebody still writes into: what is left stays *)
(* until the server starts again                                               *)
Writing ==
    \E c \in Call : call[c].at \in {"write", "copy", "spawn"} \/ process[c] \in Running
RemoveEnds ==
    /\ teardown = "remove"
    /\ Writing \/ \A d \in Directory : ~Holds(d)
    /\ teardown' = "done"
    /\ UNCHANGED <<role, pick, lease, attached, cancelled, heartbeat, checkout,
                   call, process>>

(* renew_attachment is an error: the lease is over, or the database failed *)
HeartbeatFails ==
    /\ heartbeat = "waiting"
    /\ heartbeat' = "stopping"
    /\ UNCHANGED <<role, pick, lease, manager, checkout, call, process>>

HeartbeatGivesUp ==  \* mutant: the loop only ends
    /\ heartbeat = "stopping"
    /\ heartbeat' = "ended"
    /\ UNCHANGED <<role, pick, lease, manager, checkout, call, process>>
HeartbeatDetaches ==
    /\ heartbeat = "stopping"
    /\ heartbeat' = "ended"
    /\ DetachLocal
    /\ UNCHANGED <<role, pick, lease, checkout, call, process>>

HeartbeatCancelled ==
    /\ heartbeat = "waiting" /\ cancelled
    /\ heartbeat' = "ended"
    /\ UNCHANGED <<role, pick, lease, manager, checkout, call, process>>

-----------------------------------------------------------------------------
(* Calls *)

Renewable == lease = "active"

(* Where an operation goes once the sandbox is found and its lease renewed *)
First(op) ==
    CASE op = "write" -> "write"
      [] op = "bash" -> "spawn"
      [] op = "finish" /\ role = "implementation" -> "clear"
      [] OTHER -> "close"

Begin(c, op) ==
    /\ pick = "attached" /\ call[c].at = "idle"
    /\ attached /\ Renewable
    /\ call' = [call EXCEPT ![c] = [op |-> op, at |-> First(op), sha |-> 0]]
    /\ UNCHANGED <<role, pick, lease, manager, heartbeat, checkout, process>>

(* An error of the database, of Git or of the file system *)
Fails(c) ==
    /\ call[c].at \in Fallible
    /\ Goes(c, "failed")
    /\ UNCHANGED <<role, pick, lease, manager, heartbeat, checkout, process>>

Write(c) ==
    /\ call[c].at = "write" /\ Edited
    /\ \E content \in {"base", "work"} : tree' = [tree EXCEPT !["agent"] = content]
    /\ Goes(c, "done")
    /\ UNCHANGED <<role, pick, lease, manager, heartbeat, history, published,
                   result, process>>

(* start_command: the shell runs before its entry is in the map of processes *)
Spawn(c) ==
    /\ call[c].at = "spawn" /\ Holds("agent")
    /\ process' = [process EXCEPT ![c] = "spawned"]
    /\ Goes(c, "watch")
    /\ UNCHANGED <<role, pick, lease, manager, heartbeat, checkout>>

Watch(c) ==
    /\ call[c].at = "watch"
    /\ process' = [process EXCEPT ![c] = IF @ = "spawned" THEN "watched" ELSE @]
    /\ Goes(c, "done")
    /\ UNCHANGED <<role, pick, lease, manager, heartbeat, checkout>>

ShellWrites(c) ==
    /\ process[c] \in Running /\ Edited
    /\ \E content \in {"base", "work"} : tree' = [tree EXCEPT !["agent"] = content]
    /\ UNCHANGED <<role, pick, lease, manager, heartbeat, history, published,
                   result, call, process>>

ShellExits(c) ==
    /\ process[c] \in Running
    /\ process' = [process EXCEPT ![c] = "over"]
    /\ UNCHANGED <<role, pick, lease, manager, heartbeat, checkout, call>>

DiesIfMapped == cancelled /\ attached  \* mutant: looks for the sandbox in the map
MustDie == cancelled

WatcherKills(c) ==
    /\ process[c] = "watched" /\ MustDie
    /\ process' = [process EXCEPT ![c] = "over"]
    /\ UNCHANGED <<role, pick, lease, manager, heartbeat, checkout, call>>

(* sync_agent_workspace empties the trusted checkout and copies the agent's    *)
(* workspace into it                                                           *)
ClearTrusted(c) ==
    /\ call[c].at = "clear" /\ Holds("trusted")
    /\ tree' = [tree EXCEPT !["trusted"] = "torn"]
    /\ Goes(c, "copy")
    /\ UNCHANGED <<role, pick, lease, manager, heartbeat, history, published,
                   result, process>>

CopyWorkspace(c) ==
    /\ call[c].at = "copy" /\ Holds("agent") /\ Holds("trusted")
    /\ tree' = [tree EXCEPT !["trusted"] = tree["agent"]]
    /\ Goes(c, "commit")
    /\ UNCHANGED <<role, pick, lease, manager, heartbeat, history, published,
                   result, process>>

(* auto_commit: whatever the checkout holds, unless HEAD has it *)
AutoCommit(c) ==
    /\ call[c].at = "commit" /\ Holds("trusted")
    /\ history' = IF tree["trusted"] = history[Len(history)]
                  THEN history ELSE Append(history, tree["trusted"])
    /\ Goes(c, "head")
    /\ UNCHANGED <<role, pick, lease, manager, heartbeat, tree, published,
                   result, process>>

HandInFirst == "close"  \* mutant: the push is left out
AfterHead == "push"

(* rev-parse of HEAD and its tree, which must differ from the base's *)
ReadHead(c) ==
    /\ call[c].at = "head" /\ Holds("trusted")
    /\ history[Len(history)] # "base"
    /\ call' = [call EXCEPT ![c].sha = HeadCommit, ![c].at = AfterHead]
    /\ UNCHANGED <<role, pick, lease, manager, heartbeat, checkout, process>>

(* git push of HEAD, which another call may have moved since *)
PushCandidate(c) ==
    /\ call[c].at = "push" /\ Holds("trusted")
    /\ published' = HeadCommit
    /\ Goes(c, "close")
    /\ UNCHANGED <<role, pick, lease, manager, heartbeat, tree, history, result,
                   process>>

ClosableAnyway == lease \in {"active", "expired", "completed", "cancelled"}  \* mutant: no AND state IN (...)
Closable == lease = "active"

(* finish_execution_for_capability, finish_review_for_capability and the       *)
(* release of either: one transaction                                          *)
CloseLease(c) ==
    /\ call[c].at = "close" /\ Closable
    /\ lease' = IF call[c].op = "finish" THEN "completed" ELSE "cancelled"
    /\ result' = IF call[c].op = "finish" THEN call[c].sha ELSE result
    /\ Goes(c, "detach")
    /\ UNCHANGED <<role, pick, manager, heartbeat, tree, history, published, process>>

CallDetaches(c) ==
    /\ call[c].at = "detach"
    /\ DetachLocal
    /\ Goes(c, "done")
    /\ UNCHANGED <<role, pick, lease, heartbeat, checkout, process>>

-----------------------------------------------------------------------------
(* Time, the reaper and the server *)

LeasePasses ==
    /\ lease = "active"
    /\ lease' = "expired"
    /\ UNCHANGED <<role, pick, manager, heartbeat, checkout, call, process>>

ReapLease ==
    /\ lease = "expired"
    /\ lease' = "lost"
    /\ UNCHANGED <<role, pick, manager, heartbeat, checkout, call, process>>

(* The server and its container stop; cleanup_stale_sandboxes empties the disk *)
Restart ==
    /\ pick' = IF pick = "attached" THEN pick ELSE "failed"
    /\ attached' = FALSE /\ cancelled' = TRUE
    /\ heartbeat' = "ended" /\ teardown' = "done"
    /\ tree' = [d \in Directory |-> "gone"]
    /\ call' = [c \in Call |-> IF call[c].at \in {"idle", "done"} THEN call[c]
                               ELSE [call[c] EXCEPT !.at = "failed"]]
    /\ process' = [c \in Call |-> IF process[c] \in Running THEN "over" ELSE process[c]]
    /\ UNCHANGED <<role, lease, history, published, result>>

-----------------------------------------------------------------------------

Finishing(c) ==
    \/ ClearTrusted(c) \/ CopyWorkspace(c) \/ AutoCommit(c)
    \/ ReadHead(c) \/ PushCandidate(c) \/ CloseLease(c) \/ CallDetaches(c)

Next ==
    \/ Attach \/ PreparationFails \/ PickReleases
    \/ KillProcesses \/ RemoveEnds \/ \E d \in Directory : RemoveFiles(d)
    \/ HeartbeatFails \/ HeartbeatDetaches \/ HeartbeatCancelled
    \/ \E c \in Call :
          \/ \E op \in Operation : Begin(c, op)
          \/ Fails(c) \/ Write(c) \/ Finishing(c)
          \/ Spawn(c) \/ Watch(c) \/ ShellWrites(c) \/ ShellExits(c) \/ WatcherKills(c)
    \/ LeasePasses \/ ReapLease \/ Restart

Spec == Init /\ [][Next]_vars

(* The runtime drives every spawned task and every detach to its end, and a    *)
(* heartbeat comes round: when it finds the lease over, it fails. Nothing      *)
(* obliges a client to call, a lease to run out or a shell to exit.            *)
HeartbeatFindsLeaseOver == HeartbeatFails /\ lease # "active"

Fairness ==
    /\ WF_vars(HeartbeatFindsLeaseOver)
    /\ WF_vars(HeartbeatDetaches) /\ WF_vars(HeartbeatCancelled)
    /\ WF_vars(KillProcesses) /\ WF_vars(RemoveEnds)
    /\ \A d \in Directory : WF_vars(RemoveFiles(d))
    /\ \A c \in Call : WF_vars(Watch(c)) /\ WF_vars(WatcherKills(c))

FairSpec == Spec /\ Fairness

(* What fairness promises: a shell's watcher, the heartbeat that finds its     *)
(* lease over, and the teardown wait for nothing.                              *)
WatchEnabled(c) == call[c].at = "watch" => ENABLED <<Watch(c)>>_vars
KillEnabled(c) == process[c] = "watched" /\ MustDie => ENABLED <<WatcherKills(c)>>_vars
DetachEnabled ==
    /\ heartbeat = "waiting" /\ lease # "active" => ENABLED <<HeartbeatFindsLeaseOver>>_vars
    /\ heartbeat = "stopping" => ENABLED <<HeartbeatDetaches>>_vars
    /\ teardown = "kill" => ENABLED <<KillProcesses>>_vars

-----------------------------------------------------------------------------
(* Properties *)

(* What a client is told is what became of its lease: at most one work_finish  *)
(* or work_release gets past closing it, a finish having completed it and a    *)
(* release having given it back, however the calls, the reaper, the heartbeat  *)
(* and restarts interleave.                                                    *)
ClosedBy(c) == call[c].at \in {"detach", "done"} /\ call[c].op \in {"finish", "release"}
AnswersAgreeWithLease ==
    \A c \in Call : ClosedBy(c) =>
        /\ lease = IF call[c].op = "finish" THEN "completed" ELSE "cancelled"
        /\ \A d \in Call : ClosedBy(d) => d = c

(* The commit a completed execution records is on the review ref when the      *)
(* execution completes and stays on it, and it changes something: a reviewer   *)
(* can always fetch the candidate.                                             *)
HandInIsPublished ==
    role = "implementation" /\ lease = "completed" =>
        /\ result \in 1 .. published
        /\ history[result] # "base"

(* A hand-in holds: its answer is its lease's end, its commit can be reviewed. *)
HandInsHold == AnswersAgreeWithLease /\ HandInIsPublished

(* README.md:39: work_finish creates the candidate from the agent's changes.   *)
(* Calls do not exclude each other, so a second work_finish may empty the      *)
(* trusted checkout, or a failed renewal start to remove the workspace, while  *)
(* the first is about to copy and commit: it hands in a part of the files.     *)
HandedInWorkIsWhole == result # 0 => history[result] # "torn"

(* Once its lease is over, however it ended and whatever calls are under way,  *)
(* a sandbox leaves the map, its heartbeat ends and detach_local runs through. *)
TornDown == ~attached /\ heartbeat = "ended" /\ teardown = "done"
SandboxTornDown == (pick = "attached" /\ lease # "active") ~> []TornDown

(* No shell outlives its sandbox: one that a bash call starts while, or after, *)
(* detach_local kills the registered ones is killed too.                       *)
ShellsEndWithSandbox ==
    cancelled ~> [](\A c \in Call : process[c] \notin Running)
=============================================================================
