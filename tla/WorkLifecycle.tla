---------------------------- MODULE WorkLifecycle ----------------------------
(* The life cycle of a task on the LazyTeam host: the tables tasks, executions,*)
(* reviews and workers of lazyteam-server, the HTTP and MCP calls that change  *)
(* them, and the lease reaper.                                                 *)
(*                                                                             *)
(* One action is one SQLite transaction (SQLite admits one writer at a time).  *)
(* A call that reads rows before the transaction it decides in is a handler:   *)
(* its reads are one step, which records what it saw in handler[h]; its        *)
(* transaction is a later step, between which any other call may commit; and   *)
(* it may end without that transaction, on an error, a disconnect or a crash   *)
(* of the host (CallDropped).                                                  *)
(*                                                                             *)
(* The states assigned and running are one here ("assigned" of a task,         *)
(* "active" of an execution or a review): the code treats them alike in every  *)
(* guard. A draft is left out: create_task inserts queued tasks.               *)
EXTENDS Naturals, FiniteSets

CONSTANTS
    Task,            \* the tasks the host was given
    Worker,          \* the registered workers
    Handler,         \* slots for calls between their reads and their transaction
    MaxExecutions,   \* bound: rows the executions table may get
    MaxReviews,      \* bound: rows the reviews table may get
    MaxCycle,        \* bound: manual retries of one task
    Slots,           \* Slots[w]: how many leases w may hold (workers.slots)
    InitialRole,     \* InitialRole[w]: the role w registered with
    Limits,          \* the settings update_host_settings is asked for
    WorkerRequests   \* the inputs update_worker is asked for

Roles == {"worker", "reviewer"}

ASSUME SlotsAssumption == Slots \in [Worker -> Nat \ {0}]
ASSUME RolesAssumption == InitialRole \in [Worker -> Roles]
ASSUME BoundsAssumption ==
    MaxExecutions \in Nat /\ MaxReviews \in Nat /\ MaxCycle \in Nat
ASSUME LimitsAssumption ==
    /\ Limits # {}
    /\ Limits \subseteq [retry : Nat \ {0}, failure : Nat \ {0}]
ASSUME RequestsAssumption ==
    WorkerRequests \subseteq
        [paused : {"yes", "no", "unset"}, role : Roles \union {"unset"}]

VARIABLES
    task,        \* task[t]: state and review_cycle
    executions,  \* executions[e]: row e of the table, in insertion order
    reviews,     \* reviews[r]: row r of the table, in insertion order
    worker,      \* worker[w]: role, paused (draining), retired_at, running_slots
    handler,     \* handler[h]: what the call h read before its transaction
    sweep,       \* the reaper: its phase, and the rows it read and has not handled
    limits       \* host_settings: review_retry_limit and review_failure_limit

vars == <<task, executions, reviews, worker, handler, sweep, limits>>

-----------------------------------------------------------------------------
(* Types *)

ExecutionId == 1 .. MaxExecutions
ReviewId == 1 .. MaxReviews

TaskStates == {"queued", "assigned", "review", "merge_pending", "done",
               "blocked", "failed", "cancelled"}

(* lease_until against the clock. "late": it has passed, but a call that       *)
(* sampled `now` before it did may still be waiting for the write lock, and    *)
(* will be accepted; "expired": every such call is over.                       *)
Leases == {"fresh", "late", "expired"}

TaskRow == [state : TaskStates, cycle : Nat]
WorkerRow == [role : Roles, paused : BOOLEAN, retired : BOOLEAN, running : Nat]

AbsentRow == [state |-> "absent"]

(* held: lease_capability_hash is not NULL *)
ExecutionRow ==
    [task : Task, worker : Worker, attempt : Nat,
     state : {"active", "completed", "failed", "lost", "cancelled"},
     held : BOOLEAN, lease : Leases]

(* "approved" and "retry" are the completed reviews, by verdict *)
ReviewRow ==
    [task : Task, execution : ExecutionId, worker : Worker, cycle : Nat,
     state : {"active", "approved", "retry", "failed", "lost", "cancelled"},
     held : BOOLEAN, lease : Leases]

UndeletableWhenFinal == {"merge_pending", "done"}  \* mutant: forgets assigned tasks
Retryable == {"review", "merge_pending", "failed", "blocked"}
Undeletable == {"assigned", "merge_pending", "done"}

IdleCall == [kind |-> "idle"]
ClaimTaskCall == [kind : {"claim_task"}, worker : Worker, task : Task, attempt : Nat]
ClaimReviewCall ==
    [kind : {"claim_review"}, worker : Worker, task : Task,
     execution : ExecutionId, cycle : Nat]
BlockReviewCall == [kind : {"block_review"}, task : Task]
RetryCall == [kind : {"retry"}, task : Task, seen : Retryable]
DeleteCall == [kind : {"delete"}, task : Task, seen : TaskStates \ Undeletable]
UpdateWorkerCall ==
    [kind : {"update_worker"}, worker : Worker, wasPaused : BOOLEAN,
     wasRole : Roles, request : WorkerRequests]
Calls == {IdleCall} \union ClaimTaskCall \union ClaimReviewCall \union BlockReviewCall
            \union RetryCall \union DeleteCall \union UpdateWorkerCall

TypeOK ==
    /\ task \in [Task -> TaskRow]
    /\ executions \in [ExecutionId -> ExecutionRow \union {AbsentRow}]
    /\ reviews \in [ReviewId -> ReviewRow \union {AbsentRow}]
    /\ worker \in [Worker -> WorkerRow]
    /\ handler \in [Handler -> Calls]
    /\ sweep \in [phase : {"idle", "executions", "reviews"},
                  executions : SUBSET ExecutionId, reviews : SUBSET ReviewId]
    /\ limits \in Limits

-----------------------------------------------------------------------------
(* What the queries of the code return *)

ExecutionsOf(t) ==
    {e \in ExecutionId : executions[e].state # "absent" /\ executions[e].task = t}
ReviewsOf(t) ==
    {r \in ReviewId : reviews[r].state # "absent" /\ reviews[r].task = t}
UnfailedExecution(e) ==  \* mutant: a filter on the state lets completed rows through
    executions[e].state \in {"active", "completed"}
ActiveExecution(e) == executions[e].state = "active"
ActiveReview(r) == reviews[r].state = "active"

EarliestAttempt(rows, e) ==  \* mutant: ORDER BY attempt without DESC
    e \in rows /\ \A f \in rows : executions[e].attempt <= executions[f].attempt

(* e is the row of rows that ORDER BY attempt DESC LIMIT 1 returns: the index  *)
(* idx_exec_task holds rows of one attempt in insertion order, and the first   *)
(* of them is returned.                                                        *)
FirstByAttempt(rows, e) ==
    /\ e \in rows
    /\ \A f \in rows :
          \/ executions[f].attempt < executions[e].attempt
          \/ executions[f].attempt = executions[e].attempt /\ e <= f

(* e is the latest execution of t, of whatever state *)
IsLatest(t, e) == FirstByAttempt(ExecutionsOf(t), e)

(* e is the candidate a reviewer is given: the latest completed execution of t *)
IsCandidate(t, e) ==
    FirstByAttempt({f \in ExecutionsOf(t) : executions[f].state = "completed"}, e)

CountsEarlierAttempts(t, a) ==  \* mutant: off by one, numbered from the rows there are
    LET n == Cardinality(ExecutionsOf(t)) IN a = IF n = 0 THEN 1 ELSE n

(* COALESCE(MAX(attempt), 0) + 1 over the executions of t *)
IsNextAttempt(t, a) ==
    /\ \A e \in ExecutionsOf(t) : executions[e].attempt < a
    /\ a = 1 \/ \E e \in ExecutionsOf(t) : executions[e].attempt = a - 1

HasFreshReview(t) ==  \* mutant: a lease that has passed no longer counts as a claim
    \E r \in ReviewsOf(t) : ActiveReview(r) /\ reviews[r].lease = "fresh"
HasActiveReview(t) == \E r \in ReviewsOf(t) : ActiveReview(r)

(* review_runtime_failures_exhausted on the rows of table for candidate e *)
RuntimeFailures(table, t, e) ==
    {r \in ReviewId : /\ table[r].state \in {"failed", "lost"}
                      /\ table[r].task = t
                      /\ table[r].execution = e}
FailuresExceeded(table, t, e) ==  \* mutant: > for >=
    Cardinality(RuntimeFailures(table, t, e)) > limits.failure
FailuresForeseen(table, t, e) ==  \* mutant: counts the claim that is about to be made
    Cardinality(RuntimeFailures(table, t, e)) + 1 >= limits.failure
FailuresExhausted(table, t, e) ==
    Cardinality(RuntimeFailures(table, t, e)) >= limits.failure

(* review_retries_exhausted: retry verdicts of t stamped with its review cycle *)
RetryVerdicts(table, t) ==
    {r \in ReviewId : /\ table[r].state = "retry"
                      /\ table[r].task = t
                      /\ table[r].cycle = task[t].cycle}
RetriesExceeded(table, t) ==  \* mutant: > for >=
    Cardinality(RetryVerdicts(table, t)) > limits.retry
RetriesExhausted(table, t) ==
    Cardinality(RetryVerdicts(table, t)) >= limits.retry

(* A call of the lease holder is accepted: the row is active, its capability   *)
(* is not revoked, its lease had not passed when the call began, and the       *)
(* worker's credential is not revoked.                                         *)
Accepted(row) ==
    row.state = "active" /\ row.held /\ row.lease # "expired" /\ ~worker[row.worker].retired

(* What the closing of a lease leaves of a row: no capability, no lease *)
Closed(row, s) == [row EXCEPT !.state = s, !.held = FALSE, !.lease = "expired"]

SlotBelowZero(w) ==  \* mutant: running_slots - 1 without the MAX
    [worker EXCEPT ![w].running = @ - 1]
SlotKept(w) == worker  \* mutant: the slot is not given back

(* MAX(running_slots - 1, 0) *)
OneSlotLess(w) ==
    [worker EXCEPT ![w].running = IF @ > 0 THEN @ - 1 ELSE 0]

(* running_slots + 1, and state 'busy': whatever the worker's state was *)
OneSlotMore(w) ==
    [worker EXCEPT ![w] = [@ EXCEPT !.running = worker[w].running + 1, !.paused = FALSE]]

FirstAbsent(table, Id, i) ==
    /\ i \in Id /\ table[i].state = "absent"
    /\ \A j \in Id : j < i => table[j].state # "absent"

Idle(h) == handler[h] = IdleCall
Finished(h) == [handler EXCEPT ![h] = IdleCall]
Started(h, call) == [handler EXCEPT ![h] = call]

Init ==
    /\ task = [t \in Task |-> [state |-> "queued", cycle |-> 0]]
    /\ executions = [e \in ExecutionId |-> AbsentRow]
    /\ reviews = [r \in ReviewId |-> AbsentRow]
    /\ worker = [w \in Worker |-> [role |-> InitialRole[w], paused |-> FALSE,
                                   retired |-> FALSE, running |-> 0]]
    /\ handler = [h \in Handler |-> IdleCall]
    /\ sweep = [phase |-> "idle", executions |-> {}, reviews |-> {}]
    /\ limits \in Limits

-----------------------------------------------------------------------------
(* Claiming *)

(* require_worker, and the checks both claim functions start with *)
MayClaim(w, role) ==
    /\ ~worker[w].retired
    /\ worker[w].role = role
    /\ ~worker[w].paused
    /\ worker[w].running < Slots[w]

(* claim_task_for_worker up to prepare_task_repo *)
ClaimTaskRead(h, w, t) ==
    /\ Idle(h)
    /\ MayClaim(w, "worker")
    /\ task[t].state = "queued"
    /\ \E a \in 1 .. MaxExecutions + 1 :
          /\ IsNextAttempt(t, a)
          /\ handler' = Started(h, [kind |-> "claim_task", worker |-> w,
                                    task |-> t, attempt |-> a])
    /\ UNCHANGED <<task, executions, reviews, worker, sweep, limits>>

NewExecution(t, w, a) ==
    [task |-> t, worker |-> w, attempt |-> a, state |-> "active",
     held |-> TRUE, lease |-> "fresh"]

(* persist_task_claim: the compare-and-swap of the task, the new row, the slot *)
PersistTaskClaim(h) ==
    /\ handler[h].kind = "claim_task"
    /\ LET t == handler[h].task
           w == handler[h].worker
       IN /\ task[t].state = "queued"
          /\ task' = [task EXCEPT ![t].state = "assigned"]
          /\ \E e \in ExecutionId :
                /\ FirstAbsent(executions, ExecutionId, e)
                /\ executions' = [executions EXCEPT
                                     ![e] = NewExecution(t, w, handler[h].attempt)]
          /\ worker' = OneSlotMore(w)
    /\ handler' = Finished(h)
    /\ UNCHANGED <<reviews, sweep, limits>>

MayReviewByRole(w, e) ==  \* mutant: trusts the roles to keep implementers away
    worker[w].role = "reviewer"
(* A reviewer is not given what it implemented itself *)
MayReview(w, e) == executions[e].worker # w

(* claim_review_for_worker for task t, up to its decision: block the task, or  *)
(* go on to the integration of candidate e                                     *)
ClaimReviewRead(h, w, t) ==
    /\ Idle(h)
    /\ MayClaim(w, "reviewer")
    /\ task[t].state = "review"
    /\ ~HasActiveReview(t)
    /\ \E e \in ExecutionId :
          /\ IsCandidate(t, e)
          /\ MayReview(w, e)
          /\ handler' = Started(h,
                IF FailuresExhausted(reviews, t, e)
                THEN [kind |-> "block_review", task |-> t]
                ELSE [kind |-> "claim_review", worker |-> w, task |-> t,
                      execution |-> e, cycle |-> task[t].cycle])
    /\ UNCHANGED <<task, executions, reviews, worker, sweep, limits>>

(* The UPDATE of the exhausted branch, guarded by the task's state alone *)
BlockExhaustedTask(h) ==
    /\ handler[h].kind = "block_review"
    /\ task[handler[h].task].state = "review"
    /\ task' = [task EXCEPT ![handler[h].task].state = "blocked"]
    /\ handler' = Finished(h)
    /\ UNCHANGED <<executions, reviews, worker, sweep, limits>>

NewReview(call) ==
    [task |-> call.task, execution |-> call.execution, worker |-> call.worker,
     cycle |-> call.cycle, state |-> "active", held |-> TRUE, lease |-> "fresh"]

(* persist_review_claim, after an integration without conflict *)
PersistReviewClaim(h) ==
    /\ handler[h].kind = "claim_review"
    /\ task[handler[h].task].state = "review"
    /\ ~HasActiveReview(handler[h].task)
    /\ \E r \in ReviewId :
          /\ FirstAbsent(reviews, ReviewId, r)
          /\ reviews' = [reviews EXCEPT ![r] = NewReview(handler[h])]
    /\ worker' = OneSlotMore(handler[h].worker)
    /\ handler' = Finished(h)
    /\ UNCHANGED <<task, executions, sweep, limits>>

RequeueWhateverState(h) ==  \* mutant: the UPDATE without AND state='review'
    /\ handler[h].kind = "claim_review"
    /\ task' = [task EXCEPT ![handler[h].task].state = "queued"]
    /\ handler' = Finished(h)
    /\ UNCHANGED <<executions, reviews, worker, sweep, limits>>

(* The conflict branch of claim_review_for_worker: the candidate does not      *)
(* integrate with upstream, so the task goes back to an implementer            *)
RequeueConflictingCandidate(h) ==
    /\ handler[h].kind = "claim_review"
    /\ task[handler[h].task].state = "review"
    /\ task' = [task EXCEPT ![handler[h].task].state = "queued"]
    /\ handler' = Finished(h)
    /\ UNCHANGED <<executions, reviews, worker, sweep, limits>>

(* A call ends without its transaction: the guard of the transaction fails, a  *)
(* Git or database error, a disconnect, a crash of the host                    *)
CallDropped(h) ==
    /\ ~Idle(h)
    /\ handler' = Finished(h)
    /\ UNCHANGED <<task, executions, reviews, worker, sweep, limits>>

-----------------------------------------------------------------------------
(* Calls of the holder of an execution lease *)

(* renew_execution_for_capability *)
RenewExecution(e) ==
    /\ Accepted(executions[e])
    /\ IsLatest(executions[e].task, e)
    /\ task[executions[e].task].state = "assigned"
    /\ executions' = [executions EXCEPT ![e].lease = "fresh"]
    /\ UNCHANGED <<task, reviews, worker, handler, sweep, limits>>

CloseExecution(e, s, taskState) ==
    /\ Accepted(executions[e])
    /\ IsLatest(executions[e].task, e)
    /\ task[executions[e].task].state = "assigned"
    /\ executions' = [executions EXCEPT ![e] = Closed(@, s)]
    /\ task' = [task EXCEPT ![executions[e].task].state = taskState]
    /\ worker' = OneSlotLess(executions[e].worker)
    /\ UNCHANGED <<reviews, handler, sweep, limits>>

(* finish_execution_for_capability, with a result that completed or failed *)
CompleteExecution(e) == CloseExecution(e, "completed", "review")
FailExecution(e) == CloseExecution(e, "failed", "failed")

(* release_execution_for_capability *)
ReleaseExecution(e) == CloseExecution(e, "cancelled", "queued")

-----------------------------------------------------------------------------
(* Calls of the holder of a review lease *)

ReviewAcceptedIfStale(r) ==  \* mutant: without the check against the latest execution
    Accepted(reviews[r]) /\ task[reviews[r].task].state = "review"
ReviewAccepted(r) ==
    /\ Accepted(reviews[r])
    /\ task[reviews[r].task].state = "review"
    /\ IsLatest(reviews[r].task, reviews[r].execution)

(* renew_review_for_capability *)
RenewReview(r) ==
    /\ ReviewAccepted(r)
    /\ reviews' = [reviews EXCEPT ![r].lease = "fresh"]
    /\ UNCHANGED <<task, executions, worker, handler, sweep, limits>>

CloseReview(r, s) ==
    /\ ReviewAccepted(r)
    /\ reviews' = [reviews EXCEPT ![r] = Closed(@, s)]
    /\ worker' = OneSlotLess(reviews[r].worker)
    /\ UNCHANGED <<executions, handler, sweep, limits>>

(* finish_review_for_capability with status failed *)
FailReview(r) ==
    /\ CloseReview(r, "failed")
    /\ LET t == reviews[r].task
       IN task' = IF FailuresExhausted(reviews', t, reviews[r].execution)
                  THEN [task EXCEPT ![t].state = "blocked"]
                  ELSE task

(* finish_review_for_capability with verdict approve *)
ApproveReview(r) ==
    /\ CloseReview(r, "approved")
    /\ task' = [task EXCEPT ![reviews[r].task].state = "merge_pending"]

(* finish_review_for_capability with verdict retry *)
RequestChanges(r) ==
    /\ CloseReview(r, "retry")
    /\ LET t == reviews[r].task
       IN task' = [task EXCEPT ![t].state =
                      IF RetriesExhausted(reviews', t) THEN "blocked" ELSE "queued"]

(* release_review_for_capability *)
ReleaseReview(r) ==
    /\ CloseReview(r, "cancelled")
    /\ UNCHANGED task

-----------------------------------------------------------------------------
(* The clock, and the reaper *)

Passed(lease) == IF lease = "fresh" THEN "late" ELSE "expired"

ExecutionLeasePasses(e) ==
    /\ ActiveExecution(e) /\ executions[e].lease # "expired"
    /\ executions' = [executions EXCEPT ![e].lease = Passed(@)]
    /\ UNCHANGED <<task, reviews, worker, handler, sweep, limits>>

ReviewLeasePasses(r) ==
    /\ ActiveReview(r) /\ reviews[r].lease # "expired"
    /\ reviews' = [reviews EXCEPT ![r].lease = Passed(@)]
    /\ UNCHANGED <<task, executions, worker, handler, sweep, limits>>

(* The rows reap_once reads: active, lease_until < now *)
ExpiredExecutions == {e \in ExecutionId : ActiveExecution(e) /\ executions[e].lease # "fresh"}
HeldExpiredReviews ==  \* mutant: passes over the leases whose capability was revoked
    {r \in ReviewId : ActiveReview(r) /\ reviews[r].held /\ reviews[r].lease # "fresh"}
ExpiredReviews == {r \in ReviewId : ActiveReview(r) /\ reviews[r].lease # "fresh"}

(* reap_once reads the expired executions *)
SweepExecutions ==
    /\ sweep.phase = "idle"
    /\ sweep' = [sweep EXCEPT !.phase = "executions", !.executions = ExpiredExecutions]
    /\ UNCHANGED <<task, executions, reviews, worker, handler, limits>>

(* reap_once's transaction for one of the executions it read. The row may have *)
(* been closed or renewed since: a closed row stays closed, but its worker     *)
(* loses a slot; a renewed one is lost all the same.                           *)
ReapExecution(e) ==
    /\ sweep.phase = "executions"
    /\ e \in sweep.executions
    /\ LET t == executions[e].task
       IN /\ executions' = IF ActiveExecution(e)
                           THEN [executions EXCEPT ![e] = Closed(@, "lost")]
                           ELSE executions
          /\ task' = IF IsLatest(t, e) /\ task[t].state = "assigned"
                     THEN [task EXCEPT ![t].state = "queued"]
                     ELSE task
    /\ worker' = OneSlotLess(executions[e].worker)
    /\ sweep' = [sweep EXCEPT !.executions = @ \ {e}]
    /\ UNCHANGED <<reviews, handler, limits>>

(* reap_once, done with the executions, reads the expired reviews *)
SweepReviews ==
    /\ sweep.phase = "executions"
    /\ sweep.executions = {}
    /\ sweep' = [sweep EXCEPT !.phase = "reviews", !.reviews = ExpiredReviews]
    /\ UNCHANGED <<task, executions, reviews, worker, handler, limits>>

(* reap_once's transaction for one of the reviews it read: nothing when the    *)
(* review was closed since; only the latest execution's budget blocks the task *)
ReapReview(r) ==
    /\ sweep.phase = "reviews"
    /\ r \in sweep.reviews
    /\ IF ActiveReview(r)
       THEN LET t == reviews[r].task
                e == reviews[r].execution
            IN /\ reviews' = [reviews EXCEPT ![r] = Closed(@, "lost")]
               /\ worker' = OneSlotLess(reviews[r].worker)
               /\ task' = IF /\ IsLatest(t, e)
                             /\ FailuresExhausted(reviews', t, e)
                             /\ task[t].state = "review"
                          THEN [task EXCEPT ![t].state = "blocked"]
                          ELSE task
       ELSE UNCHANGED <<task, reviews, worker>>
    /\ sweep' = [sweep EXCEPT !.reviews = @ \ {r}]
    /\ UNCHANGED <<executions, handler, limits>>

(* The sweep is over: every row is handled; or a transaction met a conflicting *)
(* writer (SQLITE_BUSY_SNAPSHOT) or an error, and the rest waits for the next  *)
(* tick                                                                        *)
SweepEnds ==
    /\ sweep.phase = "reviews"
    /\ sweep.reviews = {}
    /\ sweep' = [sweep EXCEPT !.phase = "idle"]
    /\ UNCHANGED <<task, executions, reviews, worker, handler, limits>>

SweepAborts ==
    /\ sweep.phase # "idle"
    /\ sweep' = [phase |-> "idle", executions |-> {}, reviews |-> {}]
    /\ UNCHANGED <<task, executions, reviews, worker, handler, limits>>

-----------------------------------------------------------------------------
(* The operator: workers *)

(* update_worker reads the worker it is to change *)
UpdateWorkerRead(h, w, request) ==
    /\ Idle(h)
    /\ handler' = Started(h, [kind |-> "update_worker", worker |-> w,
                              wasPaused |-> worker[w].paused,
                              wasRole |-> worker[w].role, request |-> request])
    /\ UNCHANGED <<task, executions, reviews, worker, sweep, limits>>

WorksFreshOn(w, t) ==  \* mutant: overlooks a lease that has passed already
    \E e \in ExecutionsOf(t) :
        ActiveExecution(e) /\ executions[e].worker = w /\ executions[e].lease = "fresh"
WorksOn(w, t) ==
    \E e \in ExecutionsOf(t) : ActiveExecution(e) /\ executions[e].worker = w

(* The pause: every lease of w is lost, its tasks are queued again, and a      *)
(* candidate whose failure budget this uses up is blocked                      *)
LoseLeases(w) ==
    /\ executions' = [e \in ExecutionId |->
          IF ActiveExecution(e) /\ executions[e].worker = w
          THEN Closed(executions[e], "lost") ELSE executions[e]]
    /\ reviews' = [r \in ReviewId |->
          IF ActiveReview(r) /\ reviews[r].worker = w
          THEN Closed(reviews[r], "lost") ELSE reviews[r]]
    /\ task' = [t \in Task |->
          IF task[t].state = "assigned" /\ WorksOn(w, t)
          THEN [task[t] EXCEPT !.state = "queued"]
          ELSE IF /\ task[t].state = "review"
                  /\ \E r \in ReviewsOf(t) :
                        /\ ActiveReview(r) /\ reviews[r].worker = w
                        /\ IsLatest(t, reviews[r].execution)
                        /\ FailuresExhausted(reviews', t, reviews[r].execution)
          THEN [task[t] EXCEPT !.state = "blocked"]
          ELSE task[t]]

(* A change of authority: the leases of w stay active and answer to nobody *)
RevokeLeases(w) ==
    /\ executions' = [e \in ExecutionId |->
          IF ActiveExecution(e) /\ executions[e].worker = w
          THEN [executions[e] EXCEPT !.held = FALSE, !.lease = "expired"]
          ELSE executions[e]]
    /\ reviews' = [r \in ReviewId |->
          IF ActiveReview(r) /\ reviews[r].worker = w
          THEN [reviews[r] EXCEPT !.held = FALSE, !.lease = "expired"]
          ELSE reviews[r]]
    /\ UNCHANGED task

(* update_worker's transaction: it decides on the worker it read, and writes   *)
(* back the fields the request leaves unset as it read them                    *)
UpdateWorkerCommit(h) ==
    /\ handler[h].kind = "update_worker"
    /\ LET w == handler[h].worker
           wish == handler[h].request
           paused == IF wish.paused = "unset" THEN handler[h].wasPaused
                     ELSE wish.paused = "yes"
           role == IF wish.role = "unset" THEN handler[h].wasRole ELSE wish.role
           pauseRequested == paused /\ ~handler[h].wasPaused
       IN /\ worker' = [worker EXCEPT ![w] =
                [@ EXCEPT !.role = role, !.paused = paused,
                          !.running = IF pauseRequested THEN 0 ELSE worker[w].running]]
          /\ \/ pauseRequested /\ LoseLeases(w)
             \/ ~pauseRequested /\ role # handler[h].wasRole /\ RevokeLeases(w)
             \/ /\ ~pauseRequested /\ role = handler[h].wasRole
                /\ UNCHANGED <<task, executions, reviews>>
    /\ handler' = Finished(h)
    /\ UNCHANGED <<sweep, limits>>

(* delete_worker *)
RetireWorker(w) ==
    /\ ~worker[w].retired
    /\ worker[w].running = 0
    /\ worker' = [worker EXCEPT ![w] = [@ EXCEPT !.retired = TRUE, !.paused = TRUE]]
    /\ UNCHANGED <<task, executions, reviews, handler, sweep, limits>>

-----------------------------------------------------------------------------
(* The operator: tasks and settings *)

(* retry_task_with_gate_evidence reads the task, and ensure_no_active_reviewer *)
RetryRead(h, t) ==
    /\ Idle(h)
    /\ task[t].state \in Retryable
    /\ task[t].state = "review" => ~HasActiveReview(t)
    /\ handler' = Started(h, [kind |-> "retry", task |-> t, seen |-> task[t].state])
    /\ UNCHANGED <<task, executions, reviews, worker, sweep, limits>>

RetryCommit(h) ==
    /\ handler[h].kind = "retry"
    /\ LET t == handler[h].task
       IN /\ task[t].state = handler[h].seen
          /\ task[t].cycle < MaxCycle
          /\ task' = [task EXCEPT ![t] = [@ EXCEPT !.state = "queued", !.cycle = task[t].cycle + 1]]
    /\ handler' = Finished(h)
    /\ UNCHANGED <<executions, reviews, worker, sweep, limits>>

(* delete_task reads the task *)
DeleteRead(h, t) ==
    /\ Idle(h)
    /\ task[t].state \notin Undeletable
    /\ handler' = Started(h, [kind |-> "delete", task |-> t, seen |-> task[t].state])
    /\ UNCHANGED <<task, executions, reviews, worker, sweep, limits>>

(* delete_task's transaction: the leases of its reviewers are revoked when the *)
(* task was in review as it was read                                           *)
DeleteCommit(h) ==
    /\ handler[h].kind = "delete"
    /\ LET t == handler[h].task
       IN /\ task[t].state \notin Undeletable
          /\ task' = [task EXCEPT ![t].state = "cancelled"]
          /\ reviews' = [r \in ReviewId |->
                IF handler[h].seen = "review" /\ r \in ReviewsOf(t) /\ ActiveReview(r)
                THEN [reviews[r] EXCEPT !.held = FALSE, !.lease = "expired"]
                ELSE reviews[r]]
    /\ handler' = Finished(h)
    /\ UNCHANGED <<executions, worker, sweep, limits>>

(* merged_task, after the host published the merge *)
MergedTask(t) ==
    /\ ExecutionsOf(t) # {}
    /\ task[t].state = "merge_pending"
    /\ task' = [task EXCEPT ![t].state = "done"]
    /\ UNCHANGED <<executions, reviews, worker, handler, sweep, limits>>

(* rereview_after_upstream_move *)
RereviewAfterUpstreamMove(t) ==
    /\ task[t].state = "merge_pending"
    /\ task' = [task EXCEPT ![t].state = "review"]
    /\ UNCHANGED <<executions, reviews, worker, handler, sweep, limits>>

(* update_host_settings *)
UpdateHostSettings(new) ==
    /\ limits' = new
    /\ UNCHANGED <<task, executions, reviews, worker, handler, sweep>>

-----------------------------------------------------------------------------

HandlerStep(h) ==
    \/ \E w \in Worker, t \in Task : ClaimTaskRead(h, w, t)
    \/ PersistTaskClaim(h)
    \/ \E w \in Worker, t \in Task : ClaimReviewRead(h, w, t)
    \/ BlockExhaustedTask(h)
    \/ PersistReviewClaim(h)
    \/ RequeueConflictingCandidate(h)
    \/ CallDropped(h)
    \/ \E w \in Worker, request \in WorkerRequests : UpdateWorkerRead(h, w, request)
    \/ UpdateWorkerCommit(h)
    \/ \E t \in Task : RetryRead(h, t)
    \/ RetryCommit(h)
    \/ \E t \in Task : DeleteRead(h, t)
    \/ DeleteCommit(h)

ExecutionStep(e) ==
    \/ RenewExecution(e)
    \/ CompleteExecution(e)
    \/ FailExecution(e)
    \/ ReleaseExecution(e)
    \/ ExecutionLeasePasses(e)
    \/ ReapExecution(e)

ReviewStep(r) ==
    \/ RenewReview(r)
    \/ FailReview(r)
    \/ ApproveReview(r)
    \/ RequestChanges(r)
    \/ ReleaseReview(r)
    \/ ReviewLeasePasses(r)
    \/ ReapReview(r)

SweepStep == SweepExecutions \/ SweepReviews \/ SweepEnds \/ SweepAborts

OperatorStep ==
    \/ \E w \in Worker : RetireWorker(w)
    \/ \E t \in Task : MergedTask(t)
    \/ \E t \in Task : RereviewAfterUpstreamMove(t)
    \/ \E new \in Limits : UpdateHostSettings(new)

Next ==
    \/ \E h \in Handler : HandlerStep(h)
    \/ \E e \in ExecutionId : ExecutionStep(e)
    \/ \E r \in ReviewId : ReviewStep(r)
    \/ SweepStep
    \/ OperatorStep

Spec == Init /\ [][Next]_vars

-----------------------------------------------------------------------------
(* Safety. What holds whatever calls are in flight.                            *)

(* A task waits for its merge, or is merged, only on the approval of the       *)
(* candidate the host will publish - its latest execution, completed - by a    *)
(* reviewer that is not its implementer: no retry, requeue, late call or       *)
(* concurrent claim slips a candidate nobody approved past the gate.           *)
CandidateApproved(t) ==
    \E r \in ReviewsOf(t) :
        LET e == reviews[r].execution
        IN /\ reviews[r].state = "approved"
           /\ IsLatest(t, e)
           /\ executions[e].state = "completed"
           /\ executions[e].worker # reviews[r].worker
MergeRequiresApproval ==
    \A t \in Task : task[t].state \in {"merge_pending", "done"} => CandidateApproved(t)

LeasesOf(w) ==
    {e \in ExecutionId : ActiveExecution(e) /\ executions[e].worker = w}
ReviewLeasesOf(w) ==
    {r \in ReviewId : ActiveReview(r) /\ reviews[r].worker = w}

(* No order of finishing, releasing, reaping and pausing leaves a slot counted *)
(* that no lease stands behind: a worker is never kept from work for good.     *)
SlotsNeverLeak ==
    \A w \in Worker :
        worker[w].running <= Cardinality(LeasesOf(w)) + Cardinality(ReviewLeasesOf(w))

(* A task still offered to reviewers has failure budget left for its candidate,*)
(* whichever of a failed finish, the reaper, a pause or a claim counted last.  *)
(* (The limit may have been changed since: some limit is not reached.)         *)
ReviewBudget ==
    \A t \in Task, e \in ExecutionId :
        task[t].state = "review" /\ IsLatest(t, e) =>
            \E l \in Limits : Cardinality(RuntimeFailures(reviews, t, e)) < l.failure

(* A task that may still be implemented or merged has had fewer retry verdicts *)
(* in its review cycle than some limit: reviewers cannot send it back for ever.*)
RetryBudget ==
    \A t \in Task : task[t].state \notin {"blocked", "cancelled"} =>
        \E l \in Limits : Cardinality(RetryVerdicts(reviews, t)) < l.retry

(* Both budgets, of failures and of retry verdicts, bound what a task may cost *)
AttemptBudgets == ReviewBudget /\ RetryBudget

(* What a reviewer is given, and what a claim on its way to a reviewer is      *)
(* about, is finished work of another worker: however long the claim waited,   *)
(* and whatever became of the workers' roles meanwhile, the candidate is       *)
(* neither its reviewer's own nor still being worked on.                       *)
Pins(x) ==
    /\ executions[x.execution].state = "completed"
    /\ executions[x.execution].task = x.task
    /\ executions[x.execution].worker # x.worker
ReviewsPinFinishedWork ==
    /\ \A r \in ReviewId : reviews[r].state # "absent" => Pins(reviews[r])
    /\ \A h \in Handler : handler[h].kind = "claim_review" => Pins(handler[h])

(* Rows are history: none disappears; a row keeps the task, the worker and the *)
(* candidate it was inserted with; and a closed row - a verdict above all -    *)
(* never changes, whichever call, pause or sweep comes late.                   *)
ExecutionHistoryKept ==
    \A e \in ExecutionId :
        /\ executions[e].state \notin {"absent", "active"} =>
               executions'[e] = executions[e]
        /\ executions[e].state = "active" =>
               /\ executions'[e].state # "absent"
               /\ executions'[e].task = executions[e].task
               /\ executions'[e].worker = executions[e].worker
               /\ executions'[e].attempt = executions[e].attempt
ReviewHistoryKept ==
    \A r \in ReviewId :
        /\ reviews[r].state \notin {"absent", "active"} => reviews'[r] = reviews[r]
        /\ reviews[r].state = "active" =>
               /\ reviews'[r].state # "absent"
               /\ reviews'[r].task = reviews[r].task
               /\ reviews'[r].execution = reviews[r].execution
               /\ reviews'[r].worker = reviews[r].worker
               /\ reviews'[r].cycle = reviews[r].cycle
HistoryIsImmutable == [][ExecutionHistoryKept /\ ReviewHistoryKept]_vars

(* A merged or deleted task is never worked on again: the leases, calls and    *)
(* sweeps that outlive it do not bring it back.                                *)
FinalTasksStay ==
    [][\A t \in Task : task[t].state \in {"done", "cancelled"} =>
           task'[t].state = task[t].state]_vars

(* The life cycle is an implementation of TaskContract: leases, overlapping    *)
(* calls, pauses and the reaper move no task but along its lanes, and none     *)
(* past the gate.                                                              *)
Contract == INSTANCE TaskContract WITH
    lane <- [t \in Task |-> task[t].state],
    approved <- [t \in Task |-> CandidateApproved(t)]
ContractKept == Contract!Spec

-----------------------------------------------------------------------------
(* Safety. What holds when calls do not overlap (one handler), and what        *)
(* overlapping calls can break.                                                *)

(* An assigned task is held by a lease: there is an active execution, whose    *)
(* end - finish, release, expiry or pause - gives the task back.               *)
AssignedTaskHasLease ==
    \A t \in Task : task[t].state = "assigned" =>
        \E e \in ExecutionsOf(t) : ActiveExecution(e)

(* A worker that holds an execution works on the task's latest attempt, and    *)
(* the task is assigned to it: its result will be accepted.                    *)
ExecutionsAreCurrent ==
    \A e \in ExecutionId : ActiveExecution(e) =>
        /\ task[executions[e].task].state = "assigned"
        /\ IsLatest(executions[e].task, e)

(* A reviewer at work reviews the latest candidate of a task in review: nobody *)
(* takes the task away under it, unless the task is deleted.                   *)
ReviewsAreCurrent ==
    \A r \in ReviewId : ActiveReview(r) =>
        LET t == reviews[r].task
        IN \/ task[t].state = "review" /\ IsLatest(t, reviews[r].execution)
           \/ task[t].state = "cancelled"

(* A manual retry never takes a task from a reviewer at work: it is refused    *)
(* while a reviewer holds the task ("task is currently claimed by a reviewer   *)
(* worker").                                                                   *)
RetrySparesReviewer ==
    [][\A t \in Task : task'[t].cycle # task[t].cycle =>
                            \A r \in ReviewsOf(t) : ~ActiveReview(r)]_vars

(* A task is blocked only when its own latest candidate or its own review      *)
(* cycle used up a budget: failures of older candidates never count.           *)
BlockedForCause ==
    \A t \in Task : task[t].state = "blocked" =>
        \E l \in Limits :
            \/ Cardinality(RetryVerdicts(reviews, t)) >= l.retry
            \/ \E e \in ExecutionId :
                  /\ IsLatest(t, e)
                  /\ Cardinality(RuntimeFailures(reviews, t, e)) >= l.failure

(* Whoever works, works on what the task now stands on: its result counts      *)
AttemptsAreCurrent == ExecutionsAreCurrent /\ ReviewsAreCurrent

(* No task is stuck: an assigned one has a lease whose end gives it back, and a *)
(* blocked one has a cause an operator can see in its latest candidate or cycle *)
TasksAreAccountedFor == AssignedTaskHasLease /\ BlockedForCause

(* workers.running_slots is the number of leases the worker holds.             *)
SlotsMatchLeases ==
    \A w \in Worker :
        worker[w].running = Cardinality(LeasesOf(w)) + Cardinality(ReviewLeasesOf(w))

-----------------------------------------------------------------------------
(* Fairness: reaper ticks every 15 s for as long as the host runs, so a sweep  *)
(* begins and goes on. A sweep may be cut short by a conflicting writer, again *)
(* and again, but not for ever on the same row, nor for ever between the last  *)
(* execution and the reviews, where it only reads.                             *)
Fairness ==
    /\ WF_vars(SweepExecutions)
    /\ SF_vars(SweepReviews)
    /\ WF_vars(SweepEnds)
    /\ \A e \in ExecutionId : SF_vars(ReapExecution(e))
    /\ \A r \in ReviewId : SF_vars(ReapReview(r))

FairSpec == Spec /\ Fairness

(* What strong fairness promises of a row: the sweep that lists it can take it. *)
ReapEnabled(e) ==
    sweep.phase = "executions" /\ e \in sweep.executions => ENABLED <<ReapExecution(e)>>_vars
ReapReviewEnabled(r) ==
    sweep.phase = "reviews" /\ r \in sweep.reviews => ENABLED <<ReapReview(r)>>_vars

(* A lease its holder let expire does not stay active: the reaper takes it     *)
(* back, whatever else goes on.                                                *)
ExpiredLeaseReclaimed ==
    /\ \A e \in ExecutionId :
          (ActiveExecution(e) /\ executions[e].lease = "expired") ~> ~ActiveExecution(e)
    /\ \A r \in ReviewId :
          (ActiveReview(r) /\ reviews[r].lease = "expired") ~> ~ActiveReview(r)

(* A task whose implementer is gone is assigned no longer: it comes back to    *)
(* the queue (or had ended before the reaper came).                            *)
AbandonedTaskReturns ==
    \A t \in Task :
        (/\ task[t].state = "assigned"
         /\ \A e \in ExecutionsOf(t) : ActiveExecution(e) => executions[e].lease = "expired")
            ~> task[t].state # "assigned"
=============================================================================
