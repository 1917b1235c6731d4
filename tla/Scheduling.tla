----------------------------- MODULE Scheduling ------------------------------
(* Which worker gets which task (claim_task_for_worker, claim_review_for_worker *)
(* and the waiting diagnostics of api.rs): dependencies, tags and scope, the    *)
(* reservation of a task for the worker or reviewer that had it last, the       *)
(* affinity window, the review failure budget. A claim is one step here:        *)
(* WorkLifecycle has its interleavings. Leases are the task's own (no slot is   *)
(* leaked), time is the window of each task and the heartbeat of each worker.   *)
(* Bounds: MaxFaults attempts that do not lead on, for each LIMIT, MaxChanges   *)
(* of the fleet.                                                                *)
EXTENDS Naturals, FiniteSets

CONSTANTS
    Task,        \* numbers, in the order of their priorities, which all differ
    Worker, None,
    Slots,       \* Slots[w]
    Scope,       \* the workers allowed to run the project
    Fits,        \* Fits[w]: the tasks whose required tags w satisfies
    FirstRole,   \* FirstRole[w]: the role w registers with
    Limits,      \* what LIMIT of both claim queries may be (100 in the source)
    MaxFaults, MaxChanges

ASSUME SchedulingAssumption ==
    /\ Task \subseteq Nat /\ None \notin Worker
    /\ Slots \in [Worker -> Nat] /\ Scope \subseteq Worker
    /\ Fits \in [Worker -> SUBSET Task]
    /\ FirstRole \in [Worker -> {"worker", "reviewer"}]
    /\ Limits \subseteq Nat \ {0} /\ MaxFaults \in [Limits -> Nat] /\ MaxChanges \in Nat

VARIABLES
    task,    \* task[t]: the row and what the scheduler reads of its executions and reviews
    role, open, alive, ready,  \* of a worker: role, state idle or busy, fresh heartbeat, backend
    limit,   \* review_failure_limit
    reads,   \* the LIMIT of both claim queries; never changes
    broken,  \* the tasks whose repository the host cannot prepare
    faults, changes

fleet == <<role, open, alive, ready, limit, reads, broken>>
schedVars == <<task, fleet, faults, changes>>

States == {"none", "queued", "assigned", "review", "merge_pending", "done", "failed",
           "blocked", "cancelled"}

(* fresh: updated_at is within the affinity window. by: the worker of the latest *)
(* execution. reviewer: that of the latest review. failures: failed and lost     *)
(* reviews of that execution.                                                    *)
TaskRow ==
    [state : States, deps : SUBSET Task, sticky : Worker \cup {None}, fresh : BOOLEAN,
     by : Worker \cup {None}, reviewer : Worker \cup {None}, leased : BOOLEAN,
     failures : Nat]

SchedTypeOK ==
    /\ task \in [Task -> TaskRow]
    /\ role \in [Worker -> {"worker", "reviewer"}]
    /\ open \in [Worker -> BOOLEAN] /\ alive \in [Worker -> BOOLEAN]
    /\ ready \in [Worker -> BOOLEAN] /\ limit \in Nat /\ reads \in Limits
    /\ broken \subseteq Task
    /\ faults \in 0 .. MaxFaults[reads] /\ changes \in 0 .. MaxChanges

NoTask == [state |-> "none", deps |-> {}, sticky |-> None, fresh |-> FALSE, by |-> None,
           reviewer |-> None, leased |-> FALSE, failures |-> 0]

SchedInit ==
    /\ task = [t \in Task |-> NoTask]
    /\ role = FirstRole /\ broken = {}
    /\ open = [w \in Worker |-> TRUE] /\ alive = [w \in Worker |-> TRUE]
    /\ ready = [w \in Worker |-> TRUE] /\ limit = 2 /\ reads \in Limits
    /\ faults = 0 /\ changes = 0

-----------------------------------------------------------------------------
(* The predicates of the scheduler *)

In(s) == {t \in Task : task[t].state = s}
Holding(w) == {t \in In("assigned") : task[t].by = w}
              \cup {t \in In("review") : task[t].leased /\ task[t].reviewer = w}
Free(w) == Cardinality(Holding(w)) < Slots[w]

DepsDone(t) == \A d \in task[t].deps : task[d].state = "done"

Matches(w, t) == open[w] /\ Free(w) /\ w \in Scope /\ t \in Fits[w]

NoWindow(v, t) ==  \* mutant: the reservation never ends
    role[v] = "worker" /\ open[v] /\ alive[v] /\ Matches(v, t)
StickyActive(v, t) ==
    role[v] = "worker" /\ open[v] /\ alive[v] /\ task[t].fresh /\ Matches(v, t)

(* A live preferred reviewer need not have a free slot *)
Reserved(v, t) ==
    role[v] = "reviewer" /\ open[v] /\ alive[v] /\ task[t].fresh /\ v \in Scope

KeptFor(w, t) ==
    IF task[t].state = "queued"
    THEN task[t].sticky \notin {None, w} /\ StickyActive(task[t].sticky, t)
    ELSE task[t].reviewer \notin {None, w} /\ Reserved(task[t].reviewer, t)

Exhausted(t) == task[t].failures >= limit

(* What one turn of the claim loop asks of task t *)
Takes(w, t) == DepsDone(t) /\ ~KeptFor(w, t) /\ Matches(w, t)
Reviewable(w, t) ==
    w \in Scope /\ ~KeptFor(w, t) /\ task[t].by # w /\ ~task[t].leased

(* The rows of a claim, its own first *)
Rank(w, t) ==
    IF task[t].state = "queued"
    THEN CASE task[t].sticky = w -> 0 [] task[t].sticky = None -> 1 [] OTHER -> 2
    ELSE IF task[t].reviewer = w THEN 0 ELSE 1
Before(w, t, u) == Rank(w, t) < Rank(w, u) \/ (Rank(w, t) = Rank(w, u) /\ t < u)
Rows(w, s) == {t \in In(s) : Cardinality({u \in In(s) : Before(w, u, t)}) < reads}

-----------------------------------------------------------------------------
(* Claims. The daemon asks when it lives and its backend is ready. *)

Polls(w) == alive[w] /\ ready[w] /\ open[w] /\ Free(w)

Claim(w) ==
    LET rows == Rows(w, "queued")
        reached == {t \in rows : \A u \in rows : Before(w, u, t) => ~Takes(w, u)}
        cleared == {t \in reached : DepsDone(t) /\ task[t].sticky \notin {None, w}
                                    /\ ~StickyActive(task[t].sticky, t)}
        taken == {t \in reached : Takes(w, t)} \ broken
    IN  /\ role[w] = "worker" /\ Polls(w) /\ cleared \cup taken # {}
        /\ task' = [t \in Task |->
             IF t \in taken
             THEN [task[t] EXCEPT !.state = "assigned", !.fresh = TRUE, !.by = w, !.failures = 0,
                                  !.sticky = IF @ = None \/ t \in cleared THEN w ELSE @]
             ELSE IF t \in cleared THEN [task[t] EXCEPT !.sticky = None, !.fresh = TRUE]
             ELSE task[t]]
        /\ UNCHANGED <<fleet, faults, changes>>

Requeued(row) == [row EXCEPT !.state = "queued", !.sticky = row.by, !.fresh = TRUE]
Blocked(row) == [row EXCEPT !.state = "blocked", !.fresh = TRUE]

(* clash: the candidate whose integration conflicts, found on the way. A review *)
(* that was lost or failed before keeps its snapshot and prepares nothing.      *)
ClaimReview(w, clash) ==
    LET rows == Rows(w, "review")
        prepared == {t \in rows : Reviewable(w, t) /\ ~Exhausted(t)}
        ends == prepared \ {clash}
        reached == {t \in rows : \A u \in rows : Before(w, u, t) => u \notin ends}
        blocked == {t \in reached : Reviewable(w, t) /\ Exhausted(t)}
        back == {t \in reached \cap prepared : t = clash}
        taken == {t \in reached \cap ends : t \notin broken \/ task[t].failures > 0}
    IN  /\ role[w] = "reviewer" /\ Polls(w) /\ blocked \cup back \cup taken # {}
        /\ clash # None =>
             clash \in back /\ task[clash].failures = 0 /\ clash \notin broken
             /\ faults < MaxFaults[reads]
        /\ faults' = IF clash = None THEN faults ELSE faults + 1
        /\ task' = [t \in Task |->
             IF t \in taken THEN [task[t] EXCEPT !.leased = TRUE, !.reviewer = w]
             ELSE IF t \in back THEN Requeued(task[t])
             ELSE IF t \in blocked THEN Blocked(task[t])
             ELSE task[t]]
        /\ UNCHANGED <<fleet, changes>>

-----------------------------------------------------------------------------
(* What becomes of a task *)

Becomes(t, row) == task' = [task EXCEPT ![t] = row]

Create(t, deps) ==
    /\ task[t].state = "none" /\ \A d \in deps : task[d].state # "none"
    /\ Becomes(t, [NoTask EXCEPT !.state = "queued", !.deps = deps, !.fresh = TRUE])
    /\ UNCHANGED <<fleet, faults, changes>>

Delete(t) ==
    /\ task[t].state \in {"queued", "review", "failed", "blocked"}
    /\ \A u \in Task : task[u].state \notin {"none", "cancelled"} => t \notin task[u].deps
    /\ faults < MaxFaults[reads] /\ faults' = faults + 1
    /\ Becomes(t, [task[t] EXCEPT !.state = "cancelled", !.sticky = None, !.leased = FALSE,
                                  !.fresh = TRUE])
    /\ UNCHANGED <<fleet, changes>>

Finish(t) ==
    /\ task[t].state = "assigned" /\ alive[task[t].by]
    /\ Becomes(t, [task[t] EXCEPT !.state = "review", !.fresh = TRUE])
    /\ UNCHANGED <<fleet, faults, changes>>

(* An execution that fails, is released, or runs out of its lease *)
Stops(t, how) ==
    /\ task[t].state = "assigned"
    /\ \/ how \in {"failed", "released"} /\ alive[task[t].by]
       \/ how = "lost"
    /\ IF how = "lost" /\ ~alive[task[t].by] THEN UNCHANGED faults
       ELSE faults < MaxFaults[reads] /\ faults' = faults + 1
    /\ Becomes(t, [task[t] EXCEPT
                     !.state = IF how = "failed" THEN "failed" ELSE "queued", !.fresh = TRUE,
                     !.sticky = IF how = "lost" THEN @ ELSE None])
    /\ UNCHANGED <<fleet, changes>>

Approve(t) ==
    /\ task[t].state = "review" /\ task[t].leased /\ alive[task[t].reviewer]
    /\ Becomes(t, [task[t] EXCEPT !.state = "merge_pending", !.leased = FALSE, !.fresh = TRUE])
    /\ UNCHANGED <<fleet, faults, changes>>

Reject(t) ==
    /\ task[t].state = "review" /\ task[t].leased /\ alive[task[t].reviewer]
    /\ faults < MaxFaults[reads] /\ faults' = faults + 1
    /\ Becomes(t, [Requeued(task[t]) EXCEPT !.leased = FALSE])
    /\ UNCHANGED <<fleet, changes>>

OneMore(row) == [row EXCEPT !.leased = FALSE, !.failures = @ + 1]
Charged(row) ==
    IF row.failures + 1 >= limit THEN Blocked(OneMore(row)) ELSE [OneMore(row) EXCEPT !.fresh = TRUE]

(* A review that fails, or whose lease runs out *)
ReviewFails(t) ==
    /\ task[t].state = "review" /\ task[t].leased
    /\ IF alive[task[t].reviewer] THEN faults < MaxFaults[reads] /\ faults' = faults + 1
       ELSE UNCHANGED faults
    /\ Becomes(t, Charged(task[t]))
    /\ UNCHANGED <<fleet, changes>>

Merge(t) ==
    /\ task[t].state = "merge_pending"
    /\ Becomes(t, [task[t] EXCEPT !.state = "done", !.sticky = None, !.fresh = TRUE])
    /\ UNCHANGED <<fleet, faults, changes>>

(* The operator's or the gate's retry; Rereview is the gate's alone *)
Retry(t) ==
    /\ task[t].state \in {"review", "merge_pending", "failed", "blocked"} /\ ~task[t].leased
    /\ faults < MaxFaults[reads] /\ faults' = faults + 1
    /\ Becomes(t, Requeued(task[t]))
    /\ UNCHANGED <<fleet, changes>>

Rereview(t) ==
    /\ task[t].state = "merge_pending"
    /\ faults < MaxFaults[reads] /\ faults' = faults + 1
    /\ Becomes(t, [task[t] EXCEPT !.state = "review", !.fresh = TRUE])
    /\ UNCHANGED <<fleet, changes>>

(* session_affinity_seconds have passed *)
WindowEnds(t) ==
    /\ task[t].fresh
    /\ Becomes(t, [task[t] EXCEPT !.fresh = FALSE])
    /\ UNCHANGED <<fleet, faults, changes>>

-----------------------------------------------------------------------------
(* The fleet *)

Change == changes < MaxChanges /\ changes' = changes + 1

(* A daemon dies or comes back; its backend comes and goes *)
Toggle(w, what) ==
    /\ Change
    /\ \/ what = "alive" /\ alive' = [alive EXCEPT ![w] = ~@] /\ UNCHANGED ready
       \/ what = "ready" /\ ready' = [ready EXCEPT ![w] = ~@] /\ UNCHANGED alive
    /\ UNCHANGED <<task, role, open, limit, reads, broken, faults>>

Lost(row) ==  \* what a pause makes of a task its worker holds
    IF row.state = "assigned" THEN [row EXCEPT !.state = "queued", !.sticky = None, !.fresh = TRUE]
    ELSE IF row.failures + 1 >= limit THEN Blocked(OneMore(row)) ELSE OneMore(row)

Pause(w) ==
    /\ open[w] /\ Change
    /\ open' = [open EXCEPT ![w] = FALSE]
    /\ task' = [t \in Task |-> IF t \in Holding(w) THEN Lost(task[t]) ELSE task[t]]
    /\ UNCHANGED <<role, alive, ready, limit, reads, broken, faults>>

Resume(w) ==  \* not counted: there is one pause for each
    /\ ~open[w]
    /\ open' = [open EXCEPT ![w] = TRUE]
    /\ UNCHANGED <<task, role, alive, ready, limit, reads, broken, faults, changes>>

(* Of a worker that holds nothing: else its leases run out first *)
ChangeRole(w) ==
    /\ Holding(w) = {} /\ Change
    /\ role' = [role EXCEPT ![w] = IF @ = "worker" THEN "reviewer" ELSE "worker"]
    /\ UNCHANGED <<task, open, alive, ready, limit, reads, broken, faults>>

(* The host loses a repository it needs, or can prepare it again *)
Break(t) ==
    /\ Change
    /\ broken' = IF t \in broken THEN broken \ {t} ELSE broken \cup {t}
    /\ UNCHANGED <<task, role, open, alive, ready, limit, reads, faults>>

ChangeLimit(n) ==
    /\ n # limit /\ Change /\ limit' = n
    /\ UNCHANGED <<task, role, open, alive, ready, reads, broken, faults>>

-----------------------------------------------------------------------------
(* The waiting diagnostics *)

Live(r) == {w \in Worker : role[w] = r /\ open[w]}

NotFullOnly(t) ==  \* mutant: a free slot of any worker counts
    LET scoped == {w \in Live("worker") : w \in Scope /\ t \in Fits[w]}
    IN  IF ~DepsDone(t) THEN "blocked_dependencies"
        ELSE IF task[t].sticky # None /\ StickyActive(task[t].sticky, t) THEN "sticky_reserved"
        ELSE IF scoped = {} THEN "no_eligible_worker"
        ELSE IF \A w \in scoped : ~ready[w] THEN "backend_unavailable"
        ELSE IF \A w \in scoped : ~Free(w) THEN "no_free_slot"
        ELSE "awaiting_claim"

QueuedReason(t) ==
    LET scoped == {w \in Live("worker") : w \in Scope /\ t \in Fits[w]}
        backed == {w \in scoped : ready[w]}
    IN  IF ~DepsDone(t) THEN "blocked_dependencies"
        ELSE IF task[t].sticky # None /\ StickyActive(task[t].sticky, t) THEN "sticky_reserved"
        ELSE IF scoped = {} THEN "no_eligible_worker"
        ELSE IF backed = {} THEN "backend_unavailable"
        ELSE IF \A w \in backed : ~Free(w) THEN "no_free_slot"
        ELSE "awaiting_claim"

ReviewReason(t) ==
    LET scoped == {w \in Live("reviewer") : w \in Scope /\ w # task[t].by}
        backed == {w \in scoped : ready[w]}
    IN  IF task[t].reviewer # None /\ Reserved(task[t].reviewer, t) THEN "reviewer_reserved"
        ELSE IF scoped = {} THEN "no_eligible_reviewer"
        ELSE IF task[t].leased THEN "review_lease_active"
        ELSE IF Exhausted(t) THEN "review_failure_limit"
        ELSE IF backed = {} THEN "review_backend_unavailable"
        ELSE IF \A w \in backed : ~Free(w) THEN "reviewer_no_capacity"
        ELSE "awaiting_claim"

Reason(t) == IF task[t].state = "queued" THEN QueuedReason(t) ELSE ReviewReason(t)

-----------------------------------------------------------------------------
SchedNext ==
    \/ \E w \in Worker :
          \/ Claim(w) \/ Pause(w) \/ Resume(w) \/ ChangeRole(w)
          \/ \E clash \in Task \cup {None} : ClaimReview(w, clash)
          \/ \E what \in {"alive", "ready"} : Toggle(w, what)
    \/ \E t \in Task :
          \/ \E deps \in SUBSET Task : Create(t, deps)
          \/ \E how \in {"failed", "released", "lost"} : Stops(t, how)
          \/ Delete(t) \/ Finish(t) \/ Approve(t) \/ Reject(t) \/ ReviewFails(t)
          \/ Merge(t) \/ Retry(t) \/ Rereview(t) \/ WindowEnds(t) \/ Break(t)
    \/ \E n \in 1 .. 2 : ChangeLimit(n)

(* Daemons poll and time passes; nobody has to finish anything *)
SchedFairness ==
    /\ \A w \in Worker : WF_schedVars(Claim(w) \/ ClaimReview(w, None))
    /\ \A t \in Task : WF_schedVars(WindowEnds(t))

SchedSpec == SchedInit /\ [][SchedNext]_schedVars /\ SchedFairness

-----------------------------------------------------------------------------
Waiting == In("queued") \cup In("review")

(* The checks a claim of w makes of t, made now, pass *)
Passes(w, t) ==
    /\ ready[w] /\ open[w] /\ Free(w)
    /\ IF task[t].state = "queued" THEN role[w] = "worker" /\ Takes(w, t)
       ELSE role[w] = "reviewer" /\ Reviewable(w, t)

(* Whether the claim comes to a decision about t: it looks at the rows it reads *)
WouldTake(w, t) == Passes(w, t) /\ t \in Rows(w, task[t].state)

(* The board agrees with the checks of the claims: a task "awaiting claim"      *)
(* passes those of some worker, a reserved one those of nobody else, one at its *)
(* failure limit those of nobody who would not block it, and for any other      *)
(* reason it passes nobody's ("mirroring the exact check order of               *)
(* claim_review", waiting_info of api.rs)                                       *)
DiagnosticsAgree ==
    \A t \in Waiting :
        LET takers == {w \in Worker : Passes(w, t)}
        IN  CASE Reason(t) = "awaiting_claim" -> takers # {}
              [] Reason(t) = "sticky_reserved" -> takers \subseteq {task[t].sticky}
              [] Reason(t) = "reviewer_reserved" -> takers \subseteq {task[t].reviewer}
              [] Reason(t) = "review_failure_limit" -> Exhausted(t)
              [] OTHER -> takers = {}

(* And some worker that asked would decide about a task "awaiting claim", which *)
(* is false: LIMIT rows ahead of it keep it from being read                     *)
AwaitingIsDecided ==
    \A t \in Waiting : Reason(t) = "awaiting_claim" => \E w \in Worker : WouldTake(w, t)

(* A task that the claims of a worker read waits for ever only for a worker:    *)
(* not while one that may run it asks and has a slot, whoever the task is       *)
(* reserved for, unless the host cannot prepare a repository of one that waits  *)
(* too (the affinity window of api.rs)                                          *)
MayRun(w, t) ==
    \/ t \in In("queued") /\ role[w] = "worker" /\ DepsDone(t) /\ t \in Fits[w]
    \/ t \in In("review") /\ role[w] = "reviewer" /\ task[t].by # w /\ ~task[t].leased
NoReadTaskStarves ==
    \A t \in Task, w \in Scope :
        ~<>[](/\ Polls(w) /\ MayRun(w, t) /\ broken \cap Waiting = {}
              /\ t \in Rows(w, task[t].state))

(* The same of every task that waits, which is false: the claims test           *)
(* dependencies and tags after the LIMIT, so that as many rows with none of the *)
(* tags of w, or unmet dependencies, keep a task behind them from it            *)
NothingStarves ==
    \A t \in Task, w \in Scope :
        ~<>[](Polls(w) /\ MayRun(w, t) /\ broken \cap Waiting = {})

(* "task is still required by dependent task": no live task depends on a        *)
(* deleted one (delete_task of api.rs)                                          *)
NoOrphans ==
    \A t \in Task : task[t].state \notin {"none", "cancelled"} =>
        \A d \in task[t].deps : task[d].state # "cancelled"
=============================================================================
