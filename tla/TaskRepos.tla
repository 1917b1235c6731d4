------------------------------ MODULE TaskRepos ------------------------------
(* The bare repositories the host keeps, one per execution of a task, and how  *)
(* a new one is seeded with the last candidate (git_broker.rs).                *)
(*                                                                             *)
(* claim_task_for_worker computes the attempt, builds the repository of the    *)
(* execution it is about to create, and only then takes the task: the rows it  *)
(* read and the branches it copies may change under it. A push checks its      *)
(* lease when its body arrives and lands later, when the execution may be over.*)
(*                                                                             *)
(* A commit is the set of the changes of the task it contains; {} is the       *)
(* project's default branch, whose own progress is in MergeGate. Rows whose    *)
(* result names no commit or another task's branch, and those of older         *)
(* versions, are left out: no worker of this version reports them.             *)
EXTENDS Naturals, FiniteSets

CONSTANTS
    Claimant,       \* slots for claims on their way
    MaxExecutions,  \* bound: executions, those that were never persisted included
    MaxChanges      \* bound: changes implementers make

ASSUME ReposAssumption == MaxExecutions \in Nat /\ MaxChanges \in Nat

Execution == 1 .. MaxExecutions
Change == 1 .. MaxChanges
Commit == SUBSET Change

VARIABLES
    queued,   \* whether the task is queued
    rows,     \* rows[e]: state, attempt, and the candidate its result names
    repos,    \* repos[e]: whether it exists, and where the task's branch is
    claims,   \* claims[m]: how far the claim m has come
    pushes    \* pushes the broker let in and that have not landed

repoVars == <<queued, rows, repos, claims, pushes>>

-----------------------------------------------------------------------------

AbsentRow == [state |-> "absent", attempt |-> 0, commit |-> {}, based |-> FALSE]
IdleClaim == [at |-> "idle", execution |-> 1, attempt |-> 0, todo |-> {},
              broken |-> FALSE, owed |-> {}]

(* based: the commit's history contains the base its result names              *)
Row == [state : {"absent", "active", "completed", "lost"}, attempt : 0 .. MaxExecutions,
        commit : Commit, based : BOOLEAN]
Repo == [exists : BOOLEAN, head : Commit]
ClaimRow ==
    [at : {"idle", "repository", "lookup", "verify", "fetch", "persist"},
     execution : Execution, attempt : 0 .. MaxExecutions, todo : SUBSET Execution,
     broken : BOOLEAN, owed : SUBSET Execution]

ReposTypeOK ==
    /\ queued \in BOOLEAN
    /\ rows \in [Execution -> Row]
    /\ repos \in [Execution -> Repo]
    /\ claims \in [Claimant -> ClaimRow]
    /\ pushes \subseteq Execution \X Commit

ReposInit ==
    /\ queued = TRUE
    /\ rows = [e \in Execution |-> AbsentRow]
    /\ repos = [e \in Execution |-> [exists |-> FALSE, head |-> {}]]
    /\ claims = [m \in Claimant |-> IdleClaim]
    /\ pushes = {}

-----------------------------------------------------------------------------
(* A claim: claim_task_for_worker *)

(* A fresh Uuid: of no row, of no claim and of no repository a claim left      *)
Taken ==
    {e \in Execution : rows[e].state # "absent" \/ repos[e].exists}
        \union {claims[m].execution : m \in {n \in Claimant : claims[n].at # "idle"}}
Fresh(e) == e \notin Taken /\ \A f \in Execution : f < e => f \in Taken

Completed == {f \in Execution : rows[f].state = "completed"}
(* The candidates that can still be fetched as they were handed in             *)
Intact(f) ==
    rows[f].state = "completed" /\ repos[f].exists
    /\ repos[f].head = rows[f].commit /\ rows[f].based

NextAttempt ==
    LET used == {0} \union {rows[e].attempt : e \in Execution}
    IN 1 + CHOOSE a \in used : \A b \in used : b <= a

ClaimGoes(m, at) == [claims EXCEPT ![m].at = at]

(* owed is the specification's own: what was handed in when the claim began    *)
BeginClaim(m, e) ==
    /\ claims[m].at = "idle" /\ queued
    /\ Fresh(e)
    /\ claims' = [claims EXCEPT ![m] =
          [IdleClaim EXCEPT !.at = "repository", !.execution = e,
                            !.attempt = NextAttempt, !.owed = Completed]]
    /\ UNCHANGED <<queued, rows, repos, pushes>>

(* prepare_task_repo_inner, of a repository no one else knows yet              *)
MakeRepo(m) ==
    /\ claims[m].at = "repository"
    /\ repos' = [repos EXCEPT ![claims[m].execution] = [exists |-> TRUE, head |-> {}]]
    /\ claims' = ClaimGoes(m, "lookup")
    /\ UNCHANGED <<queued, rows, pushes>>

(* seed_prior_candidate, its rows                                              *)
LookUp(m) ==
    /\ claims[m].at = "lookup"
    /\ claims' = [claims EXCEPT ![m].todo = Completed,
                                ![m].at = IF Completed = {} THEN "persist" ELSE "verify"]
    /\ UNCHANGED <<queued, rows, repos, pushes>>

(* ORDER BY attempt DESC *)
Newest(f, candidates) ==
    f \in candidates /\ \A g \in candidates : rows[g].attempt <= rows[f].attempt
Oldest(f, candidates) ==  \* mutant: ORDER BY attempt
    f \in candidates /\ \A g \in candidates : rows[g].attempt >= rows[f].attempt
FirstTried(f, candidates) == Newest(f, candidates)

(* seed_candidate_ref, its checks before the fetch                             *)
Verify(m) ==
    /\ claims[m].at = "verify"
    /\ \E f \in Execution :
          /\ FirstTried(f, claims[m].todo)
          /\ claims' =
                IF Intact(f) THEN ClaimGoes(m, "fetch")
                ELSE [claims EXCEPT ![m].todo = @ \ {f}, ![m].broken = TRUE]
    /\ UNCHANGED <<queued, rows, repos, pushes>>

Arrived(e, f) == TRUE  \* mutant: the seed is not verified after the fetch
(* The fetch is not forced; what it brought is compared with the candidate     *)
Seeded(e, f) ==
    repos[e].head \subseteq repos[f].head /\ repos[f].head = rows[f].commit

Fetch(m) ==
    /\ claims[m].at = "fetch"
    /\ \E f \in Execution :
          LET e == claims[m].execution
          IN /\ FirstTried(f, claims[m].todo)
             /\ repos' = IF repos[e].head \subseteq repos[f].head
                         THEN [repos EXCEPT ![e].head = repos[f].head] ELSE repos
             /\ claims' =
                   IF Seeded(e, f) THEN ClaimGoes(m, "persist")
                   ELSE [claims EXCEPT ![m].todo = @ \ {f}, ![m].broken = TRUE,
                                       ![m].at = "verify"]
    /\ UNCHANGED <<queued, rows, pushes>>

(* persist_task_claim; the repository goes when the task is no longer queued   *)
Persist(m) ==
    /\ claims[m].at = "persist"
    /\ LET e == claims[m].execution
       IN IF queued
          THEN /\ rows' = [rows EXCEPT ![e] =
                     [AbsentRow EXCEPT !.state = "active", !.attempt = claims[m].attempt]]
               /\ queued' = FALSE
               /\ UNCHANGED repos
          ELSE /\ repos' = [repos EXCEPT ![e] = [exists |-> FALSE, head |-> {}]]
               /\ UNCHANGED <<queued, rows>>
    /\ claims' = [claims EXCEPT ![m] = IdleClaim]
    /\ UNCHANGED pushes

(* No candidate could be fetched, Git fails, the client goes away: ? leaves    *)
(* the repository behind                                                       *)
ClaimFails(m) ==
    /\ claims[m].at # "idle"
    /\ claims' = [claims EXCEPT ![m] = IdleClaim]
    /\ UNCHANGED <<queued, rows, repos, pushes>>

-----------------------------------------------------------------------------
(* The implementer's pushes and its result *)

Fresher(k) ==
    /\ \A e \in Execution : k \notin repos[e].head /\ k \notin rows[e].commit
    /\ \A p \in pushes : k \notin p[2]

(* task_git: the lease and the capability, and the body of the push            *)
BeginPush(e, k) ==
    /\ rows[e].state = "active"
    /\ repos[e].exists
    /\ Fresher(k)
    /\ \A j \in Change : j < k => ~Fresher(j)
    /\ pushes' = pushes \union {<<e, repos[e].head \union {k}>>}
    /\ UNCHANGED <<queued, rows, repos, claims>>

(* serve_git: git receive-pack, which refuses a push whose branch has moved     *)
(* since the push began                                                        *)
LandPush(p) ==
    /\ p \in pushes
    /\ LET e == p[1]
       IN repos' = IF repos[e].exists /\ repos[e].head \subseteq p[2]
                   THEN [repos EXCEPT ![e].head = p[2]] ELSE repos
    /\ pushes' = pushes \ {p}
    /\ UNCHANGED <<queued, rows, claims>>

(* finish_execution_for_capability, completed: the branch the worker pushed    *)
Complete(e, based) ==
    /\ rows[e].state = "active"
    /\ repos[e].head # {}
    /\ rows' = [rows EXCEPT ![e].state = "completed", ![e].commit = repos[e].head,
                            ![e].based = based]
    /\ UNCHANGED <<queued, repos, claims, pushes>>

(* The reviewer, or an operator, sends the task back                           *)
Retry ==
    /\ ~queued
    /\ \A e \in Execution : rows[e].state # "active"
    /\ queued' = TRUE
    /\ UNCHANGED <<rows, repos, claims, pushes>>

(* The lease runs out, or the worker reports a failure                         *)
Lose(e) ==
    /\ rows[e].state = "active"
    /\ rows' = [rows EXCEPT ![e].state = "lost"]
    /\ UNCHANGED <<queued, repos, claims, pushes>>

(* release_execution_for_capability: the repository goes after the commit      *)
Release(e) ==
    /\ rows[e].state = "active"
    /\ rows' = [rows EXCEPT ![e].state = "lost"]
    /\ queued' = TRUE
    /\ repos' = [repos EXCEPT ![e] = [exists |-> FALSE, head |-> {}]]
    /\ UNCHANGED <<claims, pushes>>

-----------------------------------------------------------------------------

ReposNext ==
    \/ \E m \in Claimant, e \in Execution : BeginClaim(m, e)
    \/ \E m \in Claimant : MakeRepo(m)
    \/ \E m \in Claimant : LookUp(m)
    \/ \E m \in Claimant : Verify(m)
    \/ \E m \in Claimant : Fetch(m)
    \/ \E m \in Claimant : Persist(m)
    \/ \E m \in Claimant : ClaimFails(m)
    \/ \E e \in Execution, k \in Change : BeginPush(e, k)
    \/ \E p \in pushes : LandPush(p)
    \/ \E e \in Execution, based \in BOOLEAN : Complete(e, based)
    \/ Retry
    \/ \E e \in Execution : Lose(e)
    \/ \E e \in Execution : Release(e)

ReposSpec == ReposInit /\ [][ReposNext]_repoVars

-----------------------------------------------------------------------------
(* Properties *)

Starts(e) == rows[e].state = "absent" /\ rows'[e].state = "active"

(* "refusing to start from base": an attempt starts from a candidate that was  *)
(* handed in, never from what a late push left on a branch, and not from an    *)
(* older one than the newest that was there, whole, when its claim began; it   *)
(* starts from the default branch only if nothing was handed in by then.       *)
AttemptsContinue ==
    [][\A m \in Claimant :
           LET e == claims[m].execution
               seed == repos[e].head
               owed == claims[m].owed
           IN claims[m].at = "persist" /\ Starts(e) =>
                 IF seed = {} THEN owed = {}
                 ELSE \E f \in Completed :
                         /\ rows[f].commit = seed
                         /\ \A g \in owed :
                               Intact(g) => rows[f].attempt >= rows[g].attempt]_repoVars

(* The same of all that was handed in before the attempt starts: a claim that  *)
(* took long enough for another attempt to come and go forgets its work.       *)
AttemptsForgetNothing ==
    [][\A e \in Execution :
           Starts(e) /\ Completed # {} => repos[e].head # {}]_repoVars
=============================================================================
