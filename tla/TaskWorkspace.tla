---------------------------- MODULE TaskWorkspace ----------------------------
(* The Git workspace a worker keeps for a task (prepare_workspace, run_task and *)
(* sync_agent_workspace): attempt after attempt opens it, brings it to the last *)
(* candidate and the current base, runs the agent on a copy, copies the result  *)
(* back, commits and pushes it. Any step may be the last of its attempt: a      *)
(* command fails, or the daemon dies. The session lock keeps attempts apart     *)
(* (WorkerDaemon), every attempt has an execution repository of its own.        *)
(* A tree is the upstream version its files have and the work of an agent in    *)
(* them; a commit also knows the upstream version and the work behind it.       *)
(* Bounds: MaxUp upstream versions, MaxWork results of agents.                  *)
EXTENDS Naturals

CONSTANTS MaxUp, MaxWork

ASSUME WorkspaceAssumption == MaxUp \in Nat \ {0} /\ MaxWork \in Nat

VARIABLES
    upstream,   \* the version of the default branch
    candidate,  \* what the host seeds: the last candidate that was accepted, or Nothing
    works,      \* the number of results agents produced so far
    pc, base, seed, out,  \* the attempt: its place, base_sha, SEEDED_CANDIDATE_REF, the result
    exists, onTask,       \* the workspace is there; the task branch is checked out
    head, wt,   \* HEAD and the tree of the worktree
    merging,    \* the version of MERGE_HEAD, 0 without one
    unmerged,   \* the index has unmerged files
    backups,    \* the work behind the lazyteam/retry-backup branches
    made        \* results copied back that no agent has built upon (history)

world == <<upstream, candidate, works>>
repo == <<exists, onTask, head, wt, merging, unmerged, backups>>
workspaceVars == <<world, pc, base, seed, out, repo, made>>

Versions == 0 .. MaxUp
Works == 0 .. MaxWork  \* 0: no work
Tree == [up : Versions, own : Works]
Commit == [up : Versions, tree : Tree, prior : SUBSET Works]

BaseTree(v) == [up |-> v, own |-> 0]
Base(v) == [up |-> v, tree |-> BaseTree(v), prior |-> {}]
Torn == [up |-> 0, own |-> 0]  \* the worktree of a copy that stopped half way
Nothing == Base(0)             \* no commit

Steps == {"idle", "clone", "fetch", "branch", "checkout", "restore", "backup", "reset",
          "merge", "run", "sync", "commit", "push", "report"}

WorkspaceTypeOK ==
    /\ upstream \in Versions \ {0} /\ candidate \in Commit /\ works \in Works
    /\ pc \in Steps /\ base \in Versions /\ seed \in Commit /\ out \in Tree
    /\ exists \in BOOLEAN /\ onTask \in BOOLEAN
    /\ head \in Commit /\ wt \in Tree /\ merging \in Versions /\ unmerged \in BOOLEAN
    /\ backups \subseteq Works /\ made \subseteq Works

WorkspaceInit ==
    /\ upstream = 1 /\ candidate = Nothing /\ works = 0
    /\ pc = "idle" /\ base = 0 /\ seed = Nothing /\ out = Torn
    /\ exists = FALSE /\ onTask = FALSE /\ head = Nothing /\ wt = Torn
    /\ merging = 0 /\ unmerged = FALSE /\ backups = {} /\ made = {}

-----------------------------------------------------------------------------
(* The world: upstream moves on, another worker delivers a candidate *)

UpstreamMoves ==
    /\ upstream < MaxUp /\ upstream' = upstream + 1
    /\ UNCHANGED <<candidate, works, pc, base, seed, out, repo, made>>

OtherDelivers ==
    /\ pc = "idle" /\ works < MaxWork
    /\ works' = works + 1
    /\ candidate' = [up |-> upstream, tree |-> [up |-> upstream, own |-> works + 1],
                     prior |-> candidate.prior \cup {works + 1}]
    /\ UNCHANGED <<upstream, pc, base, seed, out, repo, made>>

-----------------------------------------------------------------------------
(* prepare_workspace *)

OpenWorkspace ==
    /\ pc = "idle"
    /\ pc' = IF exists THEN "fetch" ELSE "clone"
    /\ seed' = Nothing
    /\ UNCHANGED <<world, base, out, repo, made>>

(* Whatever stops an attempt leaves the workspace as it is *)
Abandon ==
    /\ pc # "idle" /\ pc' = "idle"
    /\ UNCHANGED <<world, base, seed, out, repo, made>>

(* HEAD is on the default branch until the task branch is made *)
Clone ==
    /\ pc = "clone" /\ pc' = "branch"
    /\ base' = upstream
    /\ exists' = TRUE /\ head' = Base(upstream) /\ wt' = BaseTree(upstream)
    /\ UNCHANGED <<world, seed, out, onTask, merging, unmerged, backups, made>>

(* What the execution repository was seeded with; a candidate it has and that  *)
(* cannot be fetched ends the attempt                                          *)
Seeded == candidate

(* update-ref moves the default branch, and HEAD with it when HEAD is on it *)
FetchBase ==
    /\ pc = "fetch" /\ pc' = "checkout"
    /\ base' = upstream
    /\ head' = IF onTask THEN head ELSE Base(upstream)
    /\ seed' = Seeded
    /\ UNCHANGED <<world, out, exists, onTask, wt, merging, unmerged, backups, made>>

Dirty == wt # head.tree \/ merging # 0

(* A fresh clone starts on the candidate, or on the base *)
MakeBranch ==
    /\ pc = "branch"
    /\ seed' = Seeded
    /\ onTask' = TRUE
    /\ IF candidate = Nothing
       THEN pc' = "run" /\ UNCHANGED <<head, wt>>
       ELSE pc' = "merge" /\ head' = candidate /\ wt' = candidate.tree
    /\ UNCHANGED <<world, base, out, exists, merging, unmerged, backups, made>>

(* A branch made now takes what is uncommitted with it *)
CheckoutBranch ==
    /\ pc = "checkout"
    /\ pc' = IF seed = Nothing THEN "merge" ELSE "restore"
    /\ onTask' = TRUE
    /\ IF onTask \/ seed = Nothing THEN UNCHANGED <<head, wt>>
       ELSE /\ head' = seed
            /\ wt' = IF Dirty THEN [seed.tree EXCEPT !.up = wt.up] ELSE seed.tree
    /\ UNCHANGED <<world, base, seed, out, exists, merging, unmerged, backups, made>>

-----------------------------------------------------------------------------
(* restore_seeded_candidate_tree *)

CommitOf(tree) ==
    [up |-> IF merging > head.up THEN merging ELSE head.up, tree |-> tree,
     prior |-> head.prior \cup ({tree.own} \ {0})]

CommitAll ==  \* add -A and commit
    head' = CommitOf(wt) /\ merging' = 0 /\ unmerged' = FALSE

DirtyByMerge == merging # 0  \* mutant: git status is not asked
NeedsCommit == Dirty

Restore ==
    /\ pc = "restore"
    /\ IF NeedsCommit THEN pc' = "backup" /\ CommitAll
       ELSE pc' = (IF head = seed THEN "merge" ELSE "backup")
            /\ UNCHANGED <<head, merging, unmerged>>
    /\ UNCHANGED <<world, base, seed, out, exists, onTask, wt, backups, made>>

NoBackup == backups  \* mutant: the reset goes ahead without one
Backed == backups \cup head.prior

Backup ==
    /\ pc = "backup" /\ pc' = "reset"
    /\ backups' = Backed
    /\ UNCHANGED <<world, base, seed, out, exists, onTask, head, wt, merging, unmerged, made>>

Reset ==
    /\ pc = "reset" /\ pc' = "merge"
    /\ head' = seed /\ wt' = seed.tree /\ merging' = 0 /\ unmerged' = FALSE
    /\ UNCHANGED <<world, base, seed, out, exists, onTask, backups, made>>

-----------------------------------------------------------------------------
(* merge_ref_into_head *)

AlreadyBased ==
    /\ pc = "merge" /\ head.up >= base /\ pc' = "run"
    /\ UNCHANGED <<world, base, seed, out, repo, made>>

(* Git merges over uncommitted files it need not touch *)
MergeClean ==
    /\ pc = "merge" /\ head.up < base /\ merging = 0 /\ wt # Torn
    /\ pc' = "run"
    /\ head' = IF head.prior = {} THEN Base(base)
               ELSE [head EXCEPT !.up = base, !.tree.up = base]
    /\ wt' = [wt EXCEPT !.up = base]
    /\ UNCHANGED <<world, base, seed, out, exists, onTask, merging, unmerged, backups, made>>

MergeConflicts ==
    /\ pc = "merge" /\ head.up < base /\ merging = 0 /\ head.prior # {} /\ wt # Torn
    /\ pc' = "run"
    /\ merging' = base /\ unmerged' = TRUE
    /\ UNCHANGED <<world, base, seed, out, exists, onTask, head, wt, backups, made>>

(* Git refuses to merge into a merge; unmerged files pass for its conflicts *)
MergeRefused ==
    /\ pc = "merge" /\ head.up < base /\ merging # 0 /\ unmerged
    /\ pc' = "run"
    /\ UNCHANGED <<world, base, seed, out, repo, made>>

-----------------------------------------------------------------------------
(* run_task behind the preparation *)

(* The copy of the worktree the agent gets, without the Git metadata *)
AgentCopy == wt

(* The agent works on a copy: it may add, change nothing, or throw all away, *)
(* and takes the side it likes in a conflict                                 *)
Run ==
    /\ pc = "run" /\ pc' = "sync"
    /\ \/ out' \in {AgentCopy, [AgentCopy EXCEPT !.own = 0]} /\ UNCHANGED works
       \/ /\ works < MaxWork /\ works' = works + 1
          /\ \E v \in {AgentCopy.up} \cup ({merging} \ {0}) :
                out' = [up |-> v, own |-> works + 1]
    /\ UNCHANGED <<upstream, candidate, base, seed, repo, made>>

(* What the agent was given and no commit holds is its result's now *)
BuiltUpon == IF wt.own \in head.prior THEN made ELSE made \ {wt.own}

Sync ==
    /\ pc = "sync" /\ pc' = "commit"
    /\ wt' = out
    /\ made' = BuiltUpon \cup ({out.own} \ {0})
    /\ UNCHANGED <<world, base, seed, out, exists, onTask, head, merging, unmerged, backups>>

(* The copy removes all files first; a special file or a crash stops it *)
SyncTorn ==
    /\ pc = "sync" /\ pc' = "idle"
    /\ wt' = Torn
    /\ made' = BuiltUpon
    /\ UNCHANGED <<world, base, seed, out, exists, onTask, head, merging, unmerged, backups>>

(* Nothing staged against HEAD: auto_commit leaves even a merge as it is, its *)
(* conflicts marked resolved                                                  *)
CommitResult ==
    /\ pc = "commit"
    /\ LET result == IF wt = head.tree THEN head ELSE CommitOf(wt)
       IN  /\ head' = result
           /\ pc' = IF result.tree = BaseTree(base) THEN "idle" ELSE "push"
    /\ unmerged' = FALSE
    /\ merging' = IF wt = head.tree THEN merging ELSE 0
    /\ UNCHANGED <<world, base, seed, out, exists, onTask, wt, backups, made>>

Push ==
    /\ pc = "push" /\ pc' = "report"
    /\ UNCHANGED <<world, base, seed, out, repo, made>>

(* The host accepts it as the candidate *)
Report ==
    /\ pc = "report" /\ pc' = "idle"
    /\ candidate' = head
    /\ UNCHANGED <<upstream, works, base, seed, out, repo, made>>

WorkspaceNext ==
    \/ UpstreamMoves \/ OtherDelivers
    \/ OpenWorkspace \/ Abandon \/ Clone \/ FetchBase \/ MakeBranch \/ CheckoutBranch
    \/ Restore \/ Backup \/ Reset
    \/ AlreadyBased \/ MergeClean \/ MergeConflicts \/ MergeRefused
    \/ Run \/ Sync \/ SyncTorn \/ CommitResult \/ Push \/ Report

WorkspaceSpec == WorkspaceInit /\ [][WorkspaceNext]_workspaceVars

-----------------------------------------------------------------------------
(* "Nothing is discarded": a result that was copied back is in the worktree, on *)
(* the branch or on a backup, through every crash, until an agent that was      *)
(* given it replaces it (restore_seeded_candidate_tree)                         *)
NothingDiscarded ==
    \A k \in made :
        k = wt.own \/ k \in head.prior \cup backups

(* An agent of a retry starts with the candidate's work, on top of its commits, *)
(* whatever earlier attempts left behind (prepare_workspace)                    *)
RetryStartsFromCandidate ==
    pc = "run" /\ seed # Nothing =>
        wt.own = seed.tree.own /\ seed.prior \subseteq head.prior

(* Work is kept on both sides of a retry: in the workspace, and for the agent  *)
WorkIsKept == NothingDiscarded /\ RetryStartsFromCandidate

(* "a genuinely fresh task has no such ref and still starts from the current    *)
(* base": the files an agent of a task without a candidate is given are those   *)
(* of the base, or carry work or a conflict of an earlier attempt               *)
(* (prepare_workspace, main.rs:2249)                                            *)
FreshStartsFromBase ==
    pc = "run" /\ seed = Nothing /\ made = {} /\ works = 0 => wt = BaseTree(base)
=============================================================================
