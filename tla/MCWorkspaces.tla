---------------------------- MODULE MCWorkspaces ----------------------------
(* The workspace a worker keeps for a task and the sandbox of an MCP client    *)
(* share no state: one run checks them side by side. `part` says which of them *)
(* a behaviour is about; the other rests in its initial state.                 *)
EXTENDS TaskWorkspace, InteractiveSandbox

VARIABLE part
MCVars == <<part, workspaceVars, vars>>

MCInit ==
    /\ part \in {"workspace", "sandbox"}
    /\ WorkspaceInit /\ Init
    /\ part = "workspace" => role = "implementation"

WorkspaceMoves ==
    /\ part = "workspace"
    /\ UNCHANGED <<part, role, pick, lease, attached, cancelled, heartbeat, teardown,
                   tree, history, published, result, call, process>>
SandboxMoves ==
    /\ part = "sandbox"
    /\ UNCHANGED <<part, upstream, candidate, works, pc, base, seed, out, exists, onTask,
                   head, wt, merging, unmerged, backups, made>>

MCNext ==
    \/ WorkspaceMoves /\ UpstreamMoves
    \/ WorkspaceMoves /\ OtherDelivers
    \/ WorkspaceMoves /\ OpenWorkspace
    \/ WorkspaceMoves /\ Abandon
    \/ WorkspaceMoves /\ Clone
    \/ WorkspaceMoves /\ FetchBase
    \/ WorkspaceMoves /\ MakeBranch
    \/ WorkspaceMoves /\ CheckoutBranch
    \/ WorkspaceMoves /\ Restore
    \/ WorkspaceMoves /\ Backup
    \/ WorkspaceMoves /\ Reset
    \/ WorkspaceMoves /\ AlreadyBased
    \/ WorkspaceMoves /\ MergeClean
    \/ WorkspaceMoves /\ MergeConflicts
    \/ WorkspaceMoves /\ MergeRefused
    \/ WorkspaceMoves /\ Run
    \/ WorkspaceMoves /\ Sync
    \/ WorkspaceMoves /\ SyncTorn
    \/ WorkspaceMoves /\ CommitResult
    \/ WorkspaceMoves /\ Push
    \/ WorkspaceMoves /\ Report
    \/ SandboxMoves /\ Attach
    \/ SandboxMoves /\ PreparationFails
    \/ SandboxMoves /\ PickReleases
    \/ SandboxMoves /\ KillProcesses
    \/ SandboxMoves /\ RemoveEnds
    \/ \E d \in Directory : SandboxMoves /\ RemoveFiles(d)
    \/ SandboxMoves /\ HeartbeatFails
    \/ SandboxMoves /\ HeartbeatDetaches
    \/ SandboxMoves /\ HeartbeatCancelled
    \/ \E c \in Call, op \in Operation : SandboxMoves /\ Begin(c, op)
    \/ \E c \in Call : SandboxMoves /\ Fails(c)
    \/ \E c \in Call : SandboxMoves /\ Write(c)
    \/ \E c \in Call : SandboxMoves /\ ClearTrusted(c)
    \/ \E c \in Call : SandboxMoves /\ CopyWorkspace(c)
    \/ \E c \in Call : SandboxMoves /\ AutoCommit(c)
    \/ \E c \in Call : SandboxMoves /\ ReadHead(c)
    \/ \E c \in Call : SandboxMoves /\ PushCandidate(c)
    \/ \E c \in Call : SandboxMoves /\ CloseLease(c)
    \/ \E c \in Call : SandboxMoves /\ CallDetaches(c)
    \/ \E c \in Call : SandboxMoves /\ Spawn(c)
    \/ \E c \in Call : SandboxMoves /\ Watch(c)
    \/ \E c \in Call : SandboxMoves /\ ShellWrites(c)
    \/ \E c \in Call : SandboxMoves /\ ShellExits(c)
    \/ \E c \in Call : SandboxMoves /\ WatcherKills(c)
    \/ SandboxMoves /\ LeasePasses
    \/ SandboxMoves /\ ReapLease
    \/ SandboxMoves /\ Restart

MCSpec ==
    /\ MCInit /\ [][MCNext]_MCVars
    /\ WF_MCVars(SandboxMoves /\ HeartbeatFails /\ lease # "active")
    /\ WF_MCVars(SandboxMoves /\ HeartbeatDetaches)
    /\ WF_MCVars(SandboxMoves /\ HeartbeatCancelled)
    /\ WF_MCVars(SandboxMoves /\ KillProcesses)
    /\ WF_MCVars(SandboxMoves /\ RemoveEnds)
    /\ \A d \in Directory : WF_MCVars(SandboxMoves /\ RemoveFiles(d))
    /\ \A c \in Call : /\ WF_MCVars(SandboxMoves /\ Watch(c))
                       /\ WF_MCVars(SandboxMoves /\ WatcherKills(c))
=============================================================================
