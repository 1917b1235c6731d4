------------------------------ MODULE MergeGate ------------------------------
(* The gate between a reviewed candidate and the project's upstream branch:    *)
(* the integration snapshot a review pins, and tasks_merge, which publishes.   *)
(*                                                                             *)
(* git_broker.rs talks to Git between the rows it reads and the rows it        *)
(* writes, so a request is several steps, and upstream, the candidate branch   *)
(* and the task may change between any two of them; it may also end after any  *)
(* of them, on an error or a crash of the host (RequestEnds).                  *)
(*                                                                             *)
(* A commit is the set of changes it contains: upstream only ever gains        *)
(* commits, so its values are told apart by what they contain; two merges of   *)
(* one candidate with one upstream are the same commit here. What merging a    *)
(* change over another does to its diff is data: Touches and Clashes.          *)
(* Leases, slots and budgets are in WorkLifecycle; executions are numbered     *)
(* here by their attempt. Reviews without pins (rows of older versions) and    *)
(* an operator who reports a merge of his own are left out.                    *)
EXTENDS Naturals, FiniteSets

CONSTANTS
    Task,           \* the tasks of one project
    Candidate,      \* the changes implementers may push
    Foreign,        \* the changes others push to the upstream branch
    Touches,        \* pairs <<c, x>>: over x, c merges into a different diff
    Clashes,        \* pairs <<c, x>>: over x, c does not merge
    Request,        \* slots for requests on their way through the broker
    MaxExecutions,  \* bound: executions
    MaxReviews      \* bound: reviews

Change == Candidate \union Foreign

ASSUME ChangesAssumption ==
    /\ Candidate \intersect Foreign = {}
    /\ Touches \subseteq Candidate \X Change
    /\ Clashes \subseteq Candidate \X Change
ASSUME GateBoundsAssumption == MaxExecutions \in Nat /\ MaxReviews \in Nat

VARIABLES
    upstream,    \* the changes in the project's default branch
    task,        \* task[t]: state, and merged, the commit recorded for it
    executions,  \* executions[e]: the candidate and its branch in the task repository
    reviews,     \* reviews[r]: what the review is of, its pins and its verdict
    request      \* request[m]: how far the request m has come

vars == <<upstream, task, executions, reviews, request>>

-----------------------------------------------------------------------------

ExecutionId == 1 .. MaxExecutions
ReviewId == 1 .. MaxReviews
Commit == SUBSET Change

(* IntegrationSnapshot: integration is {} when the candidate conflicts *)
Snapshot == [upstream : Commit, integration : Commit, diff : Commit]
NoSnapshot == [upstream |-> {}, integration |-> {}, diff |-> {}]
Clean(snapshot) == snapshot.integration # {}

AbsentRow == [state |-> "absent"]
IdleRequest == [at |-> "idle"]

TaskRow ==
    [state : {"queued", "assigned", "review", "merge_pending", "done", "cancelled"},
     merged : Commit]
(* candidate: commit_sha of the result; head: where the branch points now *)
ExecutionRow ==
    [task : Task, state : {"active", "completed", "lost"}, base : Commit,
     candidate : Candidate, head : Candidate, integration : Snapshot]
ReviewRow ==
    [task : Task, execution : ExecutionId, pins : Snapshot,
     state : {"active", "approved", "retry", "failed", "cancelled"}]
RequestRow ==
    [at : {"verify", "integrate", "decide", "publish", "push", "record",
           "conflict", "rereview"},
     purpose : {"review", "merge"}, task : Task, execution : ExecutionId,
     pins : Snapshot, found : Snapshot]

TypeOK ==
    /\ upstream \in Commit
    /\ task \in [Task -> TaskRow]
    /\ executions \in [ExecutionId -> ExecutionRow \union {AbsentRow}]
    /\ reviews \in [ReviewId -> ReviewRow \union {AbsentRow}]
    /\ request \in [Request -> RequestRow \union {IdleRequest}]

Init ==
    /\ upstream = {}
    /\ task = [t \in Task |-> [state |-> "queued", merged |-> {}]]
    /\ executions = [e \in ExecutionId |-> AbsentRow]
    /\ reviews = [r \in ReviewId |-> AbsentRow]
    /\ request = [m \in Request |-> IdleRequest]

-----------------------------------------------------------------------------
(* What the queries return *)

ExecutionsOf(t) ==
    {e \in ExecutionId : executions[e].state # "absent" /\ executions[e].task = t}
ReviewsOf(t) ==
    {r \in ReviewId : reviews[r].state # "absent" /\ reviews[r].task = t}
HasActiveReview(t) == \E r \in ReviewsOf(t) : reviews[r].state = "active"

IsLast(rows, i) == i \in rows /\ \A j \in rows : j <= i
IsLatest(t, e) == IsLast(ExecutionsOf(t), e)
IsCandidate(t, e) ==
    IsLast({f \in ExecutionsOf(t) : executions[f].state = "completed"}, e)

ReviewsIn(t, e, state) ==
    {r \in ReviewsOf(t) : reviews[r].execution = e /\ reviews[r].state = state}

FirstAbsent(table, Id, i) ==
    /\ i \in Id /\ table[i].state = "absent"
    /\ \A j \in Id : j < i => table[j].state # "absent"

Unused(c) ==
    /\ c \notin upstream
    /\ \A e \in ExecutionId : executions[e].state # "absent" =>
           executions[e].candidate # c /\ executions[e].head # c

SetTask(t, state) == [task EXCEPT ![t].state = state]
At(m, at) == [request EXCEPT ![m].at = at]
Found(m, at, snapshot) == [request EXCEPT ![m] = [@ EXCEPT !.at = at, !.found = snapshot]]
OverUncleared(m) == At(m, "idle")  \* mutant: what the last request read stays behind
Over(m) == [request EXCEPT ![m] = IdleRequest]

-----------------------------------------------------------------------------
(* Implementers and upstream *)

(* A claim, of a candidate that is yet to be made; prepare_task_repo fetches   *)
(* the base                                                                    *)
ClaimTask(t, c) ==
    /\ task[t].state = "queued"
    /\ Unused(c)
    /\ task' = SetTask(t, "assigned")
    /\ \E e \in ExecutionId :
          /\ FirstAbsent(executions, ExecutionId, e)
          /\ executions' = [executions EXCEPT ![e] =
                [task |-> t, state |-> "active", base |-> upstream,
                 candidate |-> c, head |-> c, integration |-> NoSnapshot]]
    /\ UNCHANGED <<upstream, reviews, request>>

(* finish_execution_for_capability, completed *)
CompleteExecution(e) ==
    /\ executions[e].state = "active"
    /\ executions' = [executions EXCEPT ![e].state = "completed"]
    /\ task' = SetTask(executions[e].task, "review")
    /\ UNCHANGED <<upstream, reviews, request>>

(* The execution fails, is released or expires; the task is queued again *)
LoseExecution(e) ==
    /\ executions[e].state = "active"
    /\ executions' = [executions EXCEPT ![e].state = "lost"]
    /\ task' = SetTask(executions[e].task, "queued")
    /\ UNCHANGED <<upstream, reviews, request>>

(* task_git: the lease is checked when the push begins, so a push may move the *)
(* candidate's branch after the execution finished                             *)
LatePush(e, c) ==
    /\ executions[e].state = "completed"
    /\ executions[e].head = executions[e].candidate
    /\ Unused(c)
    /\ executions' = [executions EXCEPT ![e].head = c]
    /\ UNCHANGED <<upstream, task, reviews, request>>

(* Somebody else pushes to the upstream branch *)
ForeignPush(x) ==
    /\ x \notin upstream
    /\ upstream' = upstream \union {x}
    /\ UNCHANGED <<task, executions, reviews, request>>

-----------------------------------------------------------------------------
(* The integration snapshot: prepare_integration_snapshot *)

BeginSnapshot(m, purpose, t, e, pins) ==
    request' = [request EXCEPT ![m] =
        [at |-> "verify", purpose |-> purpose, task |-> t, execution |-> e,
         pins |-> pins, found |-> NoSnapshot]]

(* verify_reviewed_candidate, then the fetch of upstream *)
FetchUpstream(m) ==
    /\ request[m].at = "verify"
    /\ LET e == request[m].execution
       IN executions[e].head = executions[e].candidate
    /\ request' = Found(m, "integrate", [NoSnapshot EXCEPT !.upstream = upstream])
    /\ UNCHANGED <<upstream, task, executions, reviews>>

(* The merge of change c, made over base, into commit u, and the diff it adds  *)
Conflicts(c, base, u) == c \notin u /\ \E x \in u \ base : <<c, x>> \in Clashes
DiffOf(c, base, u) ==
    IF c \in u THEN {} ELSE {c} \union {x \in u \ base : <<c, x>> \in Touches}
Merge(c, base, u) ==
    IF Conflicts(c, base, u)
    THEN [upstream |-> u, integration |-> {}, diff |-> {}]
    ELSE [upstream |-> u, integration |-> u \union {c}, diff |-> DiffOf(c, base, u)]

(* Upstream where the candidate was made: the candidate itself. Moved: a merge *)
(* of what the branch holds now.                                               *)
Integrate(m) ==
    /\ request[m].at = "integrate"
    /\ LET row == executions[request[m].execution]
           u == request[m].found.upstream
           c == IF u = row.base THEN row.candidate ELSE row.head
       IN request' = Found(m, "decide", Merge(c, row.base, u))
    /\ UNCHANGED <<upstream, task, executions, reviews>>

(* A request ends without going on: a check fails, Git or the database fails,  *)
(* the host crashes                                                            *)
RequestEnds(m) ==
    /\ request[m].at # "idle"
    /\ request' = Over(m)
    /\ UNCHANGED <<upstream, task, executions, reviews>>

-----------------------------------------------------------------------------
(* Reviews *)

(* The pins of the last failed or lost review, when the execution still        *)
(* carries them                                                                *)
Reusable(t, e, snapshot) ==
    \E r \in ReviewId :
        /\ IsLast(ReviewsIn(t, e, "failed"), r)
        /\ reviews[r].pins = snapshot

(* claim_review_for_worker, up to the integration *)
BeginReview(m, t) ==
    /\ request[m].at = "idle"
    /\ task[t].state = "review"
    /\ ~HasActiveReview(t)
    /\ \E e \in ExecutionId :
          /\ IsCandidate(t, e)
          /\ IF Reusable(t, e, executions[e].integration)
             THEN request' = [request EXCEPT ![m] =
                     [at |-> "decide", purpose |-> "review", task |-> t, execution |-> e,
                      pins |-> NoSnapshot, found |-> executions[e].integration]]
             ELSE BeginSnapshot(m, "review", t, e, NoSnapshot)
    /\ UNCHANGED <<upstream, task, executions, reviews>>

SaveSnapshot(m) ==
    executions' = [executions EXCEPT ![request[m].execution].integration = request[m].found]

(* persist_review_claim *)
ClaimReview(m) ==
    /\ request[m].at = "decide" /\ request[m].purpose = "review"
    /\ Clean(request[m].found)
    /\ task[request[m].task].state = "review"
    /\ ~HasActiveReview(request[m].task)
    /\ \E r \in ReviewId :
          /\ FirstAbsent(reviews, ReviewId, r)
          /\ reviews' = [reviews EXCEPT ![r] =
                [task |-> request[m].task, execution |-> request[m].execution,
                 pins |-> request[m].found, state |-> "active"]]
    /\ SaveSnapshot(m)
    /\ request' = Over(m)
    /\ UNCHANGED <<upstream, task>>

(* The conflict branch: back to an implementer, if the task is still in review *)
RequeueConflict(m) ==
    /\ request[m].at = "decide" /\ request[m].purpose = "review"
    /\ ~Clean(request[m].found)
    /\ SaveSnapshot(m)
    /\ task' = IF task[request[m].task].state = "review"
               THEN SetTask(request[m].task, "queued") ELSE task
    /\ request' = Over(m)
    /\ UNCHANGED <<upstream, reviews>>

CloseReview(r, verdict) ==
    /\ reviews[r].state = "active"
    /\ reviews' = [reviews EXCEPT ![r].state = verdict]
    /\ UNCHANGED <<upstream, executions, request>>

VerdictCounts(r) ==
    /\ task[reviews[r].task].state = "review"
    /\ IsLatest(reviews[r].task, reviews[r].execution)

ApproveReview(r) ==
    /\ CloseReview(r, "approved")
    /\ VerdictCounts(r)
    /\ task' = SetTask(reviews[r].task, "merge_pending")
RequestChanges(r) ==
    /\ CloseReview(r, "retry")
    /\ VerdictCounts(r)
    /\ task' = SetTask(reviews[r].task, "queued")
(* A review that fails or is lost, and one that is released *)
LoseReview(r) == CloseReview(r, "failed") /\ UNCHANGED task
ReleaseReview(r) ==
    /\ CloseReview(r, "cancelled")
    /\ VerdictCounts(r)
    /\ UNCHANGED task

-----------------------------------------------------------------------------
(* tasks_merge *)

(* review_evidence, and the approval publish_reviewed_task reads *)
BeginMerge(m, t) ==
    /\ request[m].at = "idle"
    /\ task[t].state = "merge_pending"
    /\ \E e \in ExecutionId, r \in ReviewId :
          /\ IsLatest(t, e)
          /\ IsLast(ReviewsIn(t, e, "approved"), r)
          /\ BeginSnapshot(m, "merge", t, e, reviews[r].pins)
    /\ UNCHANGED <<upstream, task, executions, reviews>>

IntegratesStill(pins, found) == Clean(found)  \* mutant: any clean merge will do
(* The upstream the reviewer saw, or one that leaves the diff as it was *)
StillReviewed(pins, found) == found.upstream = pins.upstream \/ found.diff = pins.diff

(* publish_reviewed_task, once it has the current snapshot *)
DecideMerge(m) ==
    /\ request[m].at = "decide" /\ request[m].purpose = "merge"
    /\ SaveSnapshot(m)
    /\ request' = At(m, CASE ~Clean(request[m].found) -> "conflict"
                          [] Clean(request[m].found)
                             /\ StillReviewed(request[m].pins, request[m].found) -> "publish"
                          [] OTHER -> "rereview")
    /\ UNCHANGED <<upstream, task, reviews>>

(* verify_reviewed_candidate once more; what is pushed is named by its hash *)
VerifyAgain(m) ==
    /\ request[m].at = "publish"
    /\ LET e == request[m].execution
       IN executions[e].head = executions[e].candidate
    /\ request' = At(m, "push")
    /\ UNCHANGED <<upstream, task, executions, reviews>>

(* publish_sha: the reviewed integration, unless upstream has moved *)
Publication(row) ==
    IF row.found.upstream = row.pins.upstream THEN row.pins.integration
                                              ELSE row.found.integration

Forced(row) == TRUE  \* mutant: push --force
(* A push is accepted when upstream is where the snapshot found it, or is      *)
(* already the commit that is pushed                                           *)
FastForwards(row) == upstream \in {row.found.upstream, Publication(row)}

RecordedAnyway(m) == At(m, "record")  \* mutant: the push's exit status is ignored
AfterPush(m) == IF FastForwards(request[m]) THEN At(m, "record") ELSE Over(m)

Push(m) ==
    /\ request[m].at = "push"
    /\ upstream' = IF FastForwards(request[m]) THEN Publication(request[m]) ELSE upstream
    /\ request' = AfterPush(m)
    /\ UNCHANGED <<task, executions, reviews>>

(* merged_task *)
RecordMerged(m) ==
    /\ request[m].at = "record"
    /\ task[request[m].task].state = "merge_pending"
    /\ task' = [task EXCEPT ![request[m].task] =
                   [state |-> "done", merged |-> Publication(request[m])]]
    /\ request' = Over(m)
    /\ UNCHANGED <<upstream, executions, reviews>>

(* rereview_after_upstream_move *)
Rereview(m) ==
    /\ request[m].at = "rereview"
    /\ task[request[m].task].state = "merge_pending"
    /\ task' = SetTask(request[m].task, "review")
    /\ request' = Over(m)
    /\ UNCHANGED <<upstream, executions, reviews>>

MayRetry(t) ==
    \/ task[t].state = "merge_pending"
    \/ task[t].state = "review" /\ ~HasActiveReview(t)

(* retry_task_with_gate_evidence, of a conflict and of the main agent *)
RetryConflict(m) ==
    /\ request[m].at = "conflict"
    /\ MayRetry(request[m].task)
    /\ task' = SetTask(request[m].task, "queued")
    /\ request' = Over(m)
    /\ UNCHANGED <<upstream, executions, reviews>>

RetryTask(t) ==
    /\ MayRetry(t)
    /\ task' = SetTask(t, "queued")
    /\ UNCHANGED <<upstream, executions, reviews, request>>

(* delete_task *)
DeleteTask(t) ==
    /\ task[t].state \in {"queued", "review"}
    /\ task' = SetTask(t, "cancelled")
    /\ UNCHANGED <<upstream, executions, reviews, request>>

-----------------------------------------------------------------------------

RequestStep(m) ==
    \/ \E t \in Task : BeginReview(m, t)
    \/ \E t \in Task : BeginMerge(m, t)
    \/ FetchUpstream(m)
    \/ Integrate(m)
    \/ ClaimReview(m)
    \/ RequeueConflict(m)
    \/ DecideMerge(m)
    \/ VerifyAgain(m)
    \/ Push(m)
    \/ RecordMerged(m)
    \/ Rereview(m)
    \/ RetryConflict(m)
    \/ RequestEnds(m)

ExecutionStep(e) ==
    \/ CompleteExecution(e)
    \/ LoseExecution(e)
    \/ \E c \in Candidate : LatePush(e, c)

ReviewStep(r) ==
    ApproveReview(r) \/ RequestChanges(r) \/ LoseReview(r) \/ ReleaseReview(r)

TaskStep(t) ==
    \/ \E c \in Candidate : ClaimTask(t, c)
    \/ RetryTask(t)
    \/ DeleteTask(t)

Next ==
    \/ \E m \in Request : RequestStep(m)
    \/ \E e \in ExecutionId : ExecutionStep(e)
    \/ \E r \in ReviewId : ReviewStep(r)
    \/ \E t \in Task : TaskStep(t)
    \/ \E x \in Foreign : ForeignPush(x)

Spec == Init /\ [][Next]_vars

-----------------------------------------------------------------------------
(* Properties *)

Approved(r) == reviews[r].state = "approved"

(* Whatever the host adds to upstream adds the very diff a reviewer approved:  *)
(* upstream may move after the snapshot, the candidate's branch after the      *)
(* approval, and requests may overlap, but no diff nobody saw gets through.    *)
ApprovedDiffsLand ==
    [][\A c \in (upstream' \ upstream) \ Foreign :
           \E r \in ReviewId :
               /\ Approved(r)
               /\ executions[reviews[r].execution].candidate = c
               /\ reviews[r].pins.diff =
                     DiffOf(c, executions[reviews[r].execution].base, upstream)]_vars

ApprovedOnce(t) == \A p, q \in ReviewsOf(t) : Approved(p) /\ Approved(q) => p = q
InPlace(e) == executions[e].head = executions[e].candidate

(* A rejection after the only approval of a task stands: no merge request that *)
(* read the approval lands the candidate afterwards, unless a late push has    *)
(* moved its branch (publish_reviewed_task, rereview_after_upstream_move).     *)
RejectionStands ==
    [][\A r \in ReviewId :
           LET e == reviews[r].execution
           IN reviews[r].state = "retry" /\ InPlace(e) /\ ApprovedOnce(reviews[r].task) =>
                 executions[e].candidate \notin upstream' \ upstream]_vars

(* The same of any approvals and whatever has been pushed: "the exact          *)
(* integration context approved by the latest completed reviewer". Of two      *)
(* requests that find upstream moved the second may send back what has been    *)
(* approved again meanwhile, while a third publishes on that approval.         *)
RejectionIsFinal ==
    [][\A r \in ReviewId :
           reviews[r].state = "retry" =>
               executions[reviews[r].execution].candidate \notin upstream' \ upstream]_vars

(* A task that is done was published: its commit, with an approved candidate   *)
(* of the task in it, is in upstream, and no later push takes it out again.    *)
DoneTasksAreUpstream ==
    \A t \in Task : task[t].state = "done" =>
        /\ task[t].merged \subseteq upstream
        /\ \E r \in ReviewsOf(t) :
              Approved(r) /\ executions[reviews[r].execution].candidate \in task[t].merged

(* "Runtime-only reviewer reclaims must keep the exact clean snapshot": the    *)
(* review that follows a failed or lost one of the same candidate has its      *)
(* pins, however upstream moved, and whatever requests wrote to the execution. *)
ReclaimKeepsTarget ==
    \A r, s \in ReviewId :
        /\ reviews[r].state = "failed" /\ s > r
        /\ reviews[s].state # "absent"
        /\ reviews[s].execution = reviews[r].execution
        /\ \A i \in ReviewId : r < i /\ i < s =>
               reviews[i].execution # reviews[r].execution
        => reviews[s].pins = reviews[r].pins

(* A task whose latest candidate is upstream is at the gate or done: published *)
(* work is not sent back to an implementer or a reviewer.                      *)
PublishedTaskStaysAtTheGate ==
    \A t \in Task, e \in ExecutionId :
        IsLatest(t, e) /\ executions[e].candidate \in upstream =>
            task[t].state \in {"merge_pending", "done"}

(* The latest work on t stands approved                                        *)
CandidateApproved(t) ==
    \E r \in ReviewsOf(t) : Approved(r) /\ IsLatest(t, reviews[r].execution)

(* The gate implements TaskContract, as the life cycle of WorkLifecycle does:  *)
(* whatever Git, upstream and overlapping requests do between two rows, a task *)
(* moves along its lanes, and to "done" only while its latest work stands      *)
(* approved.                                                                   *)
Contract == INSTANCE TaskContract WITH
    lane <- [t \in Task |-> task[t].state],
    approved <- [t \in Task |-> CandidateApproved(t)]
GateKeepsContract == Contract!Spec
=============================================================================
