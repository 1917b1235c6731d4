------------------------ MODULE WorkLifecycleProofs -------------------------
(* What is proved of WorkLifecycle for every number of tasks, workers, calls *)
(* in flight and rows: type correctness, that a task reaches its merge only on *)
(* the approval of the candidate the host publishes, and that the life cycle *)
(* implements TaskContract.                                                  *)
EXTENDS WorkLifecycle, TLAPS

-----------------------------------------------------------------------------
(* What the helpers of the actions return *)

(* A row with some of its fields overwritten by typed values is a typed row.   *)
LEMMA OverwrittenTask ==
    ASSUME NEW row \in TaskRow, NEW s \in TaskStates, NEW n \in Nat
    PROVE  /\ [row EXCEPT !.state = s] \in TaskRow
           /\ [row EXCEPT !.state = s, !.cycle = n] \in TaskRow
BY DEF TaskRow

(* A worker's row with columns overwritten                                     *)
LEMMA OverwrittenWorker ==
    ASSUME NEW row \in WorkerRow, NEW r \in Roles, NEW p \in BOOLEAN, NEW n \in Nat
    PROVE  [row EXCEPT !.role = r, !.paused = p, !.running = n] \in WorkerRow
BY DEF WorkerRow

(* An execution whose lease was revoked                                        *)
LEMMA RevokedExecution ==
    ASSUME NEW row \in ExecutionRow
    PROVE  [row EXCEPT !.held = FALSE, !.lease = "expired"] \in ExecutionRow
BY DEF ExecutionRow, Leases

(* A review whose lease was revoked                                            *)
LEMMA RevokedReview ==
    ASSUME NEW row \in ReviewRow
    PROVE  [row EXCEPT !.held = FALSE, !.lease = "expired"] \in ReviewRow
BY DEF ReviewRow, Leases

(* Opening and closing a lease changes slots and the pause of one worker only. *)
LEMMA SlotTypes ==
    ASSUME TypeOK, NEW w
    PROVE  /\ OneSlotLess(w) \in [Worker -> WorkerRow]
           /\ w \in Worker => OneSlotMore(w) \in [Worker -> WorkerRow]
<1>1. worker \in [Worker -> WorkerRow]
  BY DEF TypeOK
<1>2. OneSlotLess(w) \in [Worker -> WorkerRow]
  <2>1. CASE w \in Worker
    BY <1>1, <2>1 DEF OneSlotLess, WorkerRow
  <2>2. CASE w \notin Worker
    BY <1>1, <2>2 DEF OneSlotLess
  <2> QED
    BY <2>1, <2>2
<1>3. ASSUME w \in Worker PROVE OneSlotMore(w) \in [Worker -> WorkerRow]
  <2> DEFINE n == worker[w].running + 1
  <2>1. n \in Nat
    BY <1>1, <1>3 DEF WorkerRow
  <2>2. OneSlotMore(w) = [worker EXCEPT ![w] = [@ EXCEPT !.running = n, !.paused = FALSE]]
    BY DEF OneSlotMore
  <2> HIDE DEF n
  <2> QED
    BY <1>1, <2>1, <2>2 DEF WorkerRow
<1> QED
  BY <1>2, <1>3

(* A call that ends leaves its slot idle. *)
LEMMA FinishedType ==
    ASSUME TypeOK, NEW h \in Handler
    PROVE  Finished(h) \in [Handler -> Calls]
BY DEF TypeOK, Finished, Calls

(* An active row is a row. *)
LEMMA ActiveRows ==
    ASSUME TypeOK
    PROVE  /\ \A e \in ExecutionId : ActiveExecution(e) => executions[e] \in ExecutionRow
           /\ \A r \in ReviewId : ActiveReview(r) => reviews[r] \in ReviewRow
BY DEF TypeOK, ActiveExecution, ActiveReview, AbsentRow

(* Closing a row keeps what it records. *)
LEMMA ClosedExecution ==
    ASSUME TypeOK, NEW e \in ExecutionId, ActiveExecution(e),
           NEW s \in {"completed", "failed", "lost", "cancelled"}
    PROVE  /\ Closed(executions[e], s) \in ExecutionRow
           /\ Closed(executions[e], s).state = s
           /\ Closed(executions[e], s).task = executions[e].task
           /\ Closed(executions[e], s).worker = executions[e].worker
           /\ Closed(executions[e], s).attempt = executions[e].attempt
<1>1. executions[e] \in ExecutionRow
  BY DEF TypeOK, ActiveExecution, AbsentRow
<1> QED
  BY <1>1 DEF Closed, ExecutionRow, Leases

(* What closing a review changes, and what it leaves                           *)
LEMMA ClosedReview ==
    ASSUME TypeOK, NEW r \in ReviewId, ActiveReview(r),
           NEW s \in {"approved", "retry", "failed", "lost", "cancelled"}
    PROVE  /\ Closed(reviews[r], s) \in ReviewRow
           /\ Closed(reviews[r], s).state = s
           /\ Closed(reviews[r], s).task = reviews[r].task
           /\ Closed(reviews[r], s).execution = reviews[r].execution
           /\ Closed(reviews[r], s).worker = reviews[r].worker
           /\ Closed(reviews[r], s).cycle = reviews[r].cycle
<1>1. reviews[r] \in ReviewRow
  BY DEF TypeOK, ActiveReview, AbsentRow
<1> QED
  BY <1>1 DEF Closed, ReviewRow, Leases

(* The kind of a call in flight tells what it recorded. *)
LEMMA CallTypes ==
    ASSUME TypeOK, NEW h \in Handler
    PROVE  /\ handler[h].kind = "claim_task" => handler[h] \in ClaimTaskCall
           /\ handler[h].kind = "claim_review" => handler[h] \in ClaimReviewCall
           /\ handler[h].kind = "block_review" => handler[h] \in BlockReviewCall
           /\ handler[h].kind = "retry" => handler[h] \in RetryCall
           /\ handler[h].kind = "delete" => handler[h] \in DeleteCall
           /\ handler[h].kind = "update_worker" => handler[h] \in UpdateWorkerCall
<1>1. handler[h] \in Calls
  BY DEF TypeOK
<1> QED
  BY <1>1 DEF Calls, IdleCall, ClaimTaskCall, ClaimReviewCall, BlockReviewCall,
              RetryCall, DeleteCall, UpdateWorkerCall

-----------------------------------------------------------------------------
(* Type correctness *)

(* A pause or a change of authority writes typed rows, decided as it may be on *)
(* a worker that has changed since.                                            *)
LEMMA UpdateWorkerType ==
    ASSUME TypeOK, NEW h \in Handler, UpdateWorkerCommit(h)
    PROVE  TypeOK'
<1> DEFINE w == handler[h].worker
           wish == handler[h].request
           paused == IF wish.paused = "unset" THEN handler[h].wasPaused
                     ELSE wish.paused = "yes"
           role == IF wish.role = "unset" THEN handler[h].wasRole ELSE wish.role
           pauseRequested == paused /\ ~handler[h].wasPaused
           slots == IF pauseRequested THEN 0 ELSE worker[w].running
<1>0. handler[h] \in UpdateWorkerCall
  BY CallTypes DEF UpdateWorkerCommit
<1>1. w \in Worker /\ slots \in Nat
  BY <1>0 DEF UpdateWorkerCall, TypeOK, WorkerRow
<1>2. role \in Roles
  BY <1>0, RequestsAssumption DEF UpdateWorkerCall
<1>3. paused \in BOOLEAN
  BY <1>0 DEF UpdateWorkerCall
<1>4. worker' = [worker EXCEPT ![w] =
                    [@ EXCEPT !.role = role, !.paused = paused, !.running = slots]]
  BY DEF UpdateWorkerCommit
<1>5. worker' \in [Worker -> WorkerRow]
  <2> HIDE DEF w, role, paused, slots
  <2> QED
    BY <1>1, <1>2, <1>3, <1>4, OverwrittenWorker DEF TypeOK
<1>6. \/ LoseLeases(w)
      \/ RevokeLeases(w)
      \/ UNCHANGED <<task, executions, reviews>>
  BY DEF UpdateWorkerCommit
<1>7. /\ task' \in [Task -> TaskRow]
      /\ executions' \in [ExecutionId -> ExecutionRow \union {AbsentRow}]
      /\ reviews' \in [ReviewId -> ReviewRow \union {AbsentRow}]
  <2> HIDE DEF w
  <2>1. CASE LoseLeases(w)
    <3>1. task' \in [Task -> TaskRow]
      <4>1. /\ \A t \in Task : task[t] \in TaskRow
            /\ "queued" \in TaskStates /\ "blocked" \in TaskStates
        BY DEF TypeOK, TaskStates
      <4> QED
        BY <2>1, <4>1, OverwrittenTask, 0 \in Nat DEF LoseLeases
    <3>2. executions' \in [ExecutionId -> ExecutionRow \union {AbsentRow}]
      BY <2>1, ClosedExecution DEF LoseLeases, TypeOK
    <3>3. reviews' \in [ReviewId -> ReviewRow \union {AbsentRow}]
      BY <2>1, ClosedReview DEF LoseLeases, TypeOK
    <3> QED
      BY <3>1, <3>2, <3>3
  <2>2. CASE RevokeLeases(w)
    <3>1. ASSUME NEW e \in ExecutionId, ActiveExecution(e)
          PROVE  [executions[e] EXCEPT !.held = FALSE, !.lease = "expired"] \in ExecutionRow
      BY <3>1, ActiveRows, RevokedExecution
    <3>2. ASSUME NEW r \in ReviewId, ActiveReview(r)
          PROVE  [reviews[r] EXCEPT !.held = FALSE, !.lease = "expired"] \in ReviewRow
      BY <3>2, ActiveRows, RevokedReview
    <3> QED
      BY <2>2, <3>1, <3>2 DEF RevokeLeases, TypeOK
  <2>3. CASE UNCHANGED <<task, executions, reviews>>
    BY <2>3 DEF TypeOK
  <2> QED
    BY <1>6, <2>1, <2>2, <2>3
<1>8. handler' \in [Handler -> Calls] /\ sweep' = sweep /\ limits' = limits
  BY FinishedType DEF UpdateWorkerCommit
<1> QED
  BY <1>5, <1>7, <1>8 DEF TypeOK

(* The calls of the host: their reads record what TypeOK says, and their       *)
(* transactions write typed rows.                                              *)
LEMMA HandlerStepType ==
    ASSUME TypeOK, NEW h \in Handler, HandlerStep(h)
    PROVE  TypeOK'
<1> USE DEF Started
<1>0. Finished(h) \in [Handler -> Calls]
  BY FinishedType
<1>1. ASSUME NEW w \in Worker, NEW t \in Task, ClaimTaskRead(h, w, t) PROVE TypeOK'
  <2>1. PICK n \in 1 .. MaxExecutions + 1 :
            handler' = [handler EXCEPT ![h] = [kind |-> "claim_task", worker |-> w,
                                               task |-> t, attempt |-> n]]
    BY <1>1 DEF ClaimTaskRead
  <2>2. n \in Nat
    BY BoundsAssumption
  <2> QED
    BY <1>1, <2>1, <2>2 DEF ClaimTaskRead, TypeOK, Calls, ClaimTaskCall
<1>2. CASE PersistTaskClaim(h)
  <2>1. handler[h] \in ClaimTaskCall
    BY <1>2, CallTypes DEF PersistTaskClaim
  <2>2. NewExecution(handler[h].task, handler[h].worker, handler[h].attempt) \in ExecutionRow
    BY <2>1 DEF ClaimTaskCall, NewExecution, ExecutionRow, Leases
  <2>3. worker' \in [Worker -> WorkerRow]
    BY <1>2, <2>1, SlotTypes DEF PersistTaskClaim, ClaimTaskCall
  <2>4. executions' \in [ExecutionId -> ExecutionRow \union {AbsentRow}]
    BY <1>2, <2>2 DEF PersistTaskClaim, TypeOK
  <2>5. task' \in [Task -> TaskRow]
    BY ZenonT(30), <1>2, <2>1 DEF PersistTaskClaim, TypeOK, TaskRow, TaskStates
  <2> QED
    BY <1>0, <1>2, <2>3, <2>4, <2>5 DEF PersistTaskClaim, TypeOK
<1>3. ASSUME NEW w \in Worker, NEW t \in Task, ClaimReviewRead(h, w, t) PROVE TypeOK'
  <2>1. PICK e \in ExecutionId : handler' = [handler EXCEPT ![h] =
                IF FailuresExhausted(reviews, t, e)
                THEN [kind |-> "block_review", task |-> t]
                ELSE [kind |-> "claim_review", worker |-> w, task |-> t,
                      execution |-> e, cycle |-> task[t].cycle]]
    BY <1>3 DEF ClaimReviewRead
  <2>2. [kind |-> "block_review", task |-> t] \in Calls
    BY DEF Calls, BlockReviewCall
  <2>3. [kind |-> "claim_review", worker |-> w, task |-> t,
         execution |-> e, cycle |-> task[t].cycle] \in Calls
    BY DEF Calls, ClaimReviewCall, TypeOK, TaskRow
  <2>4. handler' \in [Handler -> Calls]
    BY <2>1, <2>2, <2>3 DEF TypeOK
  <2> QED
    BY <1>3, <2>4 DEF ClaimReviewRead, TypeOK
<1>4. CASE BlockExhaustedTask(h)
  BY <1>0, <1>4 DEF BlockExhaustedTask, TypeOK, TaskRow, TaskStates
<1>5. CASE PersistReviewClaim(h)
  <2>1. handler[h] \in ClaimReviewCall
    BY <1>5, CallTypes DEF PersistReviewClaim
  <2>2. NewReview(handler[h]) \in ReviewRow
    BY <2>1 DEF ClaimReviewCall, NewReview, ReviewRow, Leases
  <2>3. worker' \in [Worker -> WorkerRow]
    BY <1>5, <2>1, SlotTypes DEF PersistReviewClaim, ClaimReviewCall
  <2>4. reviews' \in [ReviewId -> ReviewRow \union {AbsentRow}]
    BY <1>5, <2>2 DEF PersistReviewClaim, TypeOK
  <2> QED
    BY <1>0, <1>5, <2>3, <2>4 DEF PersistReviewClaim, TypeOK
<1>6. CASE RequeueConflictingCandidate(h)
  BY <1>0, <1>6 DEF RequeueConflictingCandidate, TypeOK, TaskRow, TaskStates
<1>7. CASE CallDropped(h)
  BY <1>0, <1>7 DEF CallDropped, TypeOK
<1>8. ASSUME NEW w \in Worker, NEW request \in WorkerRequests,
             UpdateWorkerRead(h, w, request)
      PROVE  TypeOK'
  <2>1. [kind |-> "update_worker", worker |-> w, wasPaused |-> worker[w].paused,
         wasRole |-> worker[w].role, request |-> request] \in Calls
    BY DEF TypeOK, Calls, UpdateWorkerCall, WorkerRow
  <2> QED
    BY <1>8, <2>1 DEF UpdateWorkerRead, TypeOK
<1>9. CASE UpdateWorkerCommit(h)
  BY <1>0, <1>9, UpdateWorkerType
<1>10. ASSUME NEW t \in Task, RetryRead(h, t) PROVE TypeOK'
  <2>1. [kind |-> "retry", task |-> t, seen |-> task[t].state] \in Calls
    BY <1>10 DEF RetryRead, Calls, RetryCall
  <2> QED
    BY <1>10, <2>1 DEF RetryRead, TypeOK
<1>11. CASE RetryCommit(h)
  <2>1. handler[h].task \in Task
    BY <1>11, CallTypes DEF RetryCommit, RetryCall
  <2>2. task' \in [Task -> TaskRow]
    <3>1. task[handler[h].task] \in TaskRow /\ task[handler[h].task].cycle + 1 \in Nat
      BY <2>1 DEF TypeOK, TaskRow
    <3> QED
      BY <1>11, <2>1, <3>1, OverwrittenTask, "queued" \in TaskStates DEF RetryCommit, TypeOK, TaskStates
  <2> QED
    BY <1>0, <1>11, <2>2 DEF RetryCommit, TypeOK
<1>12. ASSUME NEW t \in Task, DeleteRead(h, t) PROVE TypeOK'
  <2>1. [kind |-> "delete", task |-> t, seen |-> task[t].state] \in Calls
    BY <1>12 DEF DeleteRead, Calls, DeleteCall, TypeOK, TaskRow
  <2> QED
    BY <1>12, <2>1 DEF DeleteRead, TypeOK
<1>13. CASE DeleteCommit(h)
  <2>1. task' \in [Task -> TaskRow]
    BY <1>13 DEF DeleteCommit, TypeOK, TaskRow, TaskStates
  <2>2. ASSUME NEW r \in ReviewId, ActiveReview(r)
        PROVE  [reviews[r] EXCEPT !.held = FALSE, !.lease = "expired"] \in ReviewRow
    BY <2>2, ActiveRows, RevokedReview
  <2>3. reviews' \in [ReviewId -> ReviewRow \union {AbsentRow}]
    BY <1>13, <2>2 DEF DeleteCommit, TypeOK
  <2> QED
    BY <1>0, <1>13, <2>1, <2>3 DEF DeleteCommit, TypeOK
<1> QED
  BY <1>1, <1>2, <1>3, <1>4, <1>5, <1>6, <1>7, <1>8, <1>9, <1>10, <1>11, <1>12, <1>13
     DEF HandlerStep

(* The calls of an implementer, the clock and the reaper on one execution. *)
LEMMA ExecutionStepType ==
    ASSUME TypeOK, NEW e \in ExecutionId, ExecutionStep(e)
    PROVE  TypeOK'
<1>1. ASSUME NEW s \in {"completed", "failed", "cancelled"}, NEW ts \in TaskStates,
             CloseExecution(e, s, ts)
      PROVE  TypeOK'
  <2>1. ActiveExecution(e) /\ executions[e] \in ExecutionRow
    BY <1>1, ActiveRows DEF CloseExecution, Accepted, ActiveExecution
  <2>2. executions' \in [ExecutionId -> ExecutionRow \union {AbsentRow}]
    BY <1>1, <2>1, ClosedExecution DEF CloseExecution, TypeOK
  <2>3. worker' \in [Worker -> WorkerRow]
    BY <1>1, SlotTypes DEF CloseExecution
  <2>4. task' \in [Task -> TaskRow]
    BY <1>1, <2>1 DEF CloseExecution, TypeOK, TaskRow
  <2> QED
    BY <1>1, <2>2, <2>3, <2>4 DEF CloseExecution, TypeOK
<1>2. CASE RenewExecution(e) \/ ExecutionLeasePasses(e)
  <2>1. executions[e] \in ExecutionRow
    BY <1>2, ActiveRows DEF RenewExecution, ExecutionLeasePasses, Accepted, ActiveExecution
  <2>2. \A l \in Leases : [executions[e] EXCEPT !.lease = l] \in ExecutionRow
    BY <2>1 DEF ExecutionRow
  <2>3. Passed(executions[e].lease) \in Leases
    BY DEF Passed, Leases
  <2>4. PICK l \in Leases : executions' = [executions EXCEPT ![e].lease = l]
    BY <1>2, <2>3 DEF RenewExecution, ExecutionLeasePasses, Leases
  <2>5. executions' \in [ExecutionId -> ExecutionRow \union {AbsentRow}]
    BY <2>2, <2>4 DEF TypeOK
  <2> QED
    BY <1>2, <2>5 DEF RenewExecution, ExecutionLeasePasses, TypeOK
<1>3. CASE ReapExecution(e)
  <2>1. executions' \in [ExecutionId -> ExecutionRow \union {AbsentRow}]
    BY <1>3, ClosedExecution DEF ReapExecution, TypeOK
  <2>2. task' \in [Task -> TaskRow]
    BY ZenonT(30), <1>3 DEF ReapExecution, TypeOK, TaskRow, TaskStates
  <2>3. worker' \in [Worker -> WorkerRow]
    BY <1>3, SlotTypes DEF ReapExecution
  <2> QED
    BY <1>3, <2>1, <2>2, <2>3 DEF ReapExecution, TypeOK
<1> QED
  BY <1>1, <1>2, <1>3
     DEF ExecutionStep, CompleteExecution, FailExecution, ReleaseExecution, TaskStates

(* The calls of a reviewer, the clock and the reaper on one review. *)
LEMMA ReviewStepType ==
    ASSUME TypeOK, NEW r \in ReviewId, ReviewStep(r)
    PROVE  TypeOK'
<1>1. ASSUME NEW s \in {"approved", "retry", "failed", "cancelled"}, CloseReview(r, s),
             task' \in [Task -> TaskRow]
      PROVE  TypeOK'
  <2>1. ActiveReview(r)
    BY <1>1 DEF CloseReview, ReviewAccepted, Accepted, ActiveReview
  <2>2. reviews' \in [ReviewId -> ReviewRow \union {AbsentRow}]
    BY <1>1, <2>1, ClosedReview DEF CloseReview, TypeOK
  <2>3. worker' \in [Worker -> WorkerRow]
    BY <1>1, SlotTypes DEF CloseReview
  <2> QED
    BY <1>1, <2>2, <2>3 DEF CloseReview, TypeOK
<1>2. CASE FailReview(r)
  <2>1. task' \in [Task -> TaskRow]
    BY ZenonT(30), <1>2 DEF FailReview, TypeOK, TaskRow, TaskStates
  <2> QED
    BY <1>1, <1>2, <2>1 DEF FailReview
<1>3. CASE ApproveReview(r)
  <2>1. task' \in [Task -> TaskRow]
    BY <1>3 DEF ApproveReview, TypeOK, TaskRow, TaskStates
  <2> QED
    BY <1>1, <1>3, <2>1 DEF ApproveReview
<1>4. CASE RequestChanges(r)
  <2>1. task' \in [Task -> TaskRow]
    BY ZenonT(30), <1>4 DEF RequestChanges, TypeOK, TaskRow, TaskStates
  <2> QED
    BY <1>1, <1>4, <2>1 DEF RequestChanges
<1>5. CASE ReleaseReview(r)
  <2>1. task' \in [Task -> TaskRow]
    BY <1>5 DEF ReleaseReview, TypeOK
  <2> QED
    BY <1>1, <1>5, <2>1 DEF ReleaseReview
<1>6. CASE RenewReview(r) \/ ReviewLeasePasses(r)
  <2>1. reviews[r] \in ReviewRow
    BY <1>6, ActiveRows
       DEF RenewReview, ReviewLeasePasses, ReviewAccepted, Accepted, ActiveReview
  <2>2. \A l \in Leases : [reviews[r] EXCEPT !.lease = l] \in ReviewRow
    BY <2>1 DEF ReviewRow
  <2>3. Passed(reviews[r].lease) \in Leases
    BY DEF Passed, Leases
  <2>4. PICK l \in Leases : reviews' = [reviews EXCEPT ![r].lease = l]
    BY <1>6, <2>3 DEF RenewReview, ReviewLeasePasses, Leases
  <2>5. reviews' \in [ReviewId -> ReviewRow \union {AbsentRow}]
    BY <2>2, <2>4 DEF TypeOK
  <2> QED
    BY <1>6, <2>5 DEF RenewReview, ReviewLeasePasses, TypeOK
<1>7. CASE ReapReview(r)
  <2>1. reviews' \in [ReviewId -> ReviewRow \union {AbsentRow}]
    BY <1>7, ClosedReview DEF ReapReview, TypeOK
  <2>2. task' \in [Task -> TaskRow]
    BY <1>7 DEF ReapReview, TypeOK, TaskRow, TaskStates
  <2>3. worker' \in [Worker -> WorkerRow]
    BY <1>7, SlotTypes DEF ReapReview, TypeOK
  <2> QED
    BY <1>7, <2>1, <2>2, <2>3 DEF ReapReview, TypeOK
<1> QED
  BY <1>2, <1>3, <1>4, <1>5, <1>6, <1>7 DEF ReviewStep

(* The begin and the end of a sweep. *)
LEMMA SweepStepType ==
    ASSUME TypeOK, SweepStep
    PROVE  TypeOK'
<1> DEFINE SweepRow == [phase : {"idle", "executions", "reviews"},
                        executions : SUBSET ExecutionId, reviews : SUBSET ReviewId]
<1>1. ASSUME sweep' \in SweepRow, UNCHANGED <<task, executions, reviews, worker, handler, limits>>
      PROVE  TypeOK'
  BY <1>1 DEF TypeOK
<1>2. CASE SweepExecutions
  <2>1. ExpiredExecutions \in SUBSET ExecutionId
    BY DEF ExpiredExecutions
  <2>2. sweep' \in SweepRow
    BY <1>2, <2>1 DEF SweepExecutions, TypeOK
  <2> QED
    BY <1>1, <1>2, <2>2 DEF SweepExecutions
<1>3. CASE SweepReviews
  <2>1. ExpiredReviews \in SUBSET ReviewId
    BY DEF ExpiredReviews
  <2>2. sweep' \in SweepRow
    BY <1>3, <2>1 DEF SweepReviews, TypeOK
  <2> QED
    BY <1>1, <1>3, <2>2 DEF SweepReviews
<1>4. CASE SweepEnds
  <2>1. sweep' \in SweepRow
    BY <1>4 DEF SweepEnds, TypeOK
  <2> QED
    BY <1>1, <1>4, <2>1 DEF SweepEnds
<1>5. CASE SweepAborts
  <2>1. sweep' \in SweepRow
    BY <1>5 DEF SweepAborts
  <2> QED
    BY <1>1, <1>5, <2>1 DEF SweepAborts
<1> QED
  BY <1>2, <1>3, <1>4, <1>5 DEF SweepStep

(* The operator's changes of workers, tasks and settings. *)
LEMMA OperatorStepType ==
    ASSUME TypeOK, OperatorStep
    PROVE  TypeOK'
<1>1. ASSUME NEW w \in Worker, RetireWorker(w) PROVE TypeOK'
  <2>1. worker' \in [Worker -> WorkerRow]
    BY ZenonT(30), <1>1 DEF RetireWorker, TypeOK, WorkerRow
  <2> QED
    BY <1>1, <2>1 DEF RetireWorker, TypeOK
<1>2. ASSUME NEW t \in Task, MergedTask(t) \/ RereviewAfterUpstreamMove(t) PROVE TypeOK'
  BY <1>2 DEF MergedTask, RereviewAfterUpstreamMove, TypeOK, TaskRow, TaskStates
<1>3. ASSUME NEW new \in Limits, UpdateHostSettings(new) PROVE TypeOK'
  BY <1>3 DEF UpdateHostSettings, TypeOK
<1> QED
  BY <1>1, <1>2, <1>3 DEF OperatorStep

(* Empty tables                                                                *)
LEMMA InitType == Init => TypeOK
BY RolesAssumption DEF Init, TypeOK, TaskRow, TaskStates, WorkerRow, Calls, AbsentRow

(* The types are inductive                                                     *)
LEMMA NextType == TypeOK /\ [Next]_vars => TypeOK'
<1> SUFFICES ASSUME TypeOK, [Next]_vars PROVE TypeOK'
  OBVIOUS
<1>1. CASE Next
  BY <1>1, HandlerStepType, ExecutionStepType, ReviewStepType, SweepStepType,
     OperatorStepType DEF Next
<1>2. CASE UNCHANGED vars
  BY <1>2 DEF vars, TypeOK
<1> QED
  BY <1>1, <1>2

(* Every call, sweep and operator step leaves typed tables, whatever a call    *)
(* read before its transaction.                                                *)
THEOREM TypeCorrect == Spec => []TypeOK
<1> QED
  BY InitType, NextType, PTL DEF Spec

-----------------------------------------------------------------------------
(* History *)

(* Rows change only while they are active, and then keep what they record. *)
ExecutionsFramed ==
    \A e \in ExecutionId :
        \/ executions'[e] = executions[e]
        \/ /\ ActiveExecution(e)
           /\ executions'[e].state # "absent"
           /\ executions'[e].task = executions[e].task
           /\ executions'[e].worker = executions[e].worker
           /\ executions'[e].attempt = executions[e].attempt
ReviewsFramed ==
    \A r \in ReviewId :
        \/ reviews'[r] = reviews[r]
        \/ /\ ActiveReview(r)
           /\ reviews'[r].state # "absent"
           /\ reviews'[r].task = reviews[r].task
           /\ reviews'[r].execution = reviews[r].execution
           /\ reviews'[r].worker = reviews[r].worker
           /\ reviews'[r].cycle = reviews[r].cycle

(* A new value of the lease or the capability alone keeps what a row records. *)
LEMMA LeaseChangeKeepsExecution ==
    ASSUME TypeOK, NEW e \in ExecutionId, ActiveExecution(e), NEW l \in Leases, NEW c \in BOOLEAN
    PROVE  LET row == [executions[e] EXCEPT !.held = c, !.lease = l]
           IN /\ row.state = "active"
              /\ row.task = executions[e].task
              /\ row.worker = executions[e].worker
              /\ row.attempt = executions[e].attempt
<1>1. executions[e] \in ExecutionRow
  BY ActiveRows
<1> QED
  BY <1>1 DEF ExecutionRow, ActiveExecution

(* A lease that is re-dated leaves the review what it is                       *)
LEMMA LeaseChangeKeepsReview ==
    ASSUME TypeOK, NEW r \in ReviewId, ActiveReview(r), NEW l \in Leases, NEW c \in BOOLEAN
    PROVE  LET row == [reviews[r] EXCEPT !.held = c, !.lease = l]
           IN /\ row.state = "active"
              /\ row.task = reviews[r].task
              /\ row.execution = reviews[r].execution
              /\ row.worker = reviews[r].worker
              /\ row.cycle = reviews[r].cycle
<1>1. reviews[r] \in ReviewRow
  BY ActiveRows
<1> QED
  BY <1>1 DEF ReviewRow, ActiveReview

(* A call writes new rows only when it persists a claim                        *)
LEMMA HandlerStepFrame ==
    ASSUME TypeOK, NEW h \in Handler, HandlerStep(h)
    PROVE  /\ ExecutionsFramed \/ PersistTaskClaim(h)
           /\ ReviewsFramed \/ PersistReviewClaim(h)
<1>1. CASE /\ ~PersistTaskClaim(h) /\ ~PersistReviewClaim(h)
           /\ ~UpdateWorkerCommit(h) /\ ~DeleteCommit(h)
  <2>1. UNCHANGED <<executions, reviews>>
    BY <1>1 DEF HandlerStep, ClaimTaskRead, ClaimReviewRead, BlockExhaustedTask,
         RequeueConflictingCandidate, CallDropped, UpdateWorkerRead, RetryRead,
         RetryCommit, DeleteRead
  <2> QED
    BY <2>1 DEF ExecutionsFramed, ReviewsFramed
<1>2. CASE PersistTaskClaim(h)
  BY <1>2 DEF PersistTaskClaim, ReviewsFramed
<1>3. CASE PersistReviewClaim(h)
  BY <1>3 DEF PersistReviewClaim, ExecutionsFramed
<1>4. CASE UpdateWorkerCommit(h)
  <2>1. \/ LoseLeases(handler[h].worker)
        \/ RevokeLeases(handler[h].worker)
        \/ UNCHANGED <<executions, reviews>>
    BY <1>4 DEF UpdateWorkerCommit
  <2>2. CASE LoseLeases(handler[h].worker)
    <3>1. ExecutionsFramed
      BY <2>2, ClosedExecution DEF LoseLeases, ExecutionsFramed
    <3>2. ReviewsFramed
      BY <2>2, ClosedReview DEF LoseLeases, ReviewsFramed
    <3> QED
      BY <3>1, <3>2
  <2>3. CASE RevokeLeases(handler[h].worker)
    <3>1. ExecutionsFramed
      BY <2>3, LeaseChangeKeepsExecution DEF RevokeLeases, ExecutionsFramed, Leases
    <3>2. ReviewsFramed
      BY <2>3, LeaseChangeKeepsReview DEF RevokeLeases, ReviewsFramed, Leases
    <3> QED
      BY <3>1, <3>2
  <2> QED
    BY <2>1, <2>2, <2>3 DEF ExecutionsFramed, ReviewsFramed
<1>5. CASE DeleteCommit(h)
  <2>1. ReviewsFramed
    BY <1>5, LeaseChangeKeepsReview DEF DeleteCommit, ReviewsFramed, Leases
  <2> QED
    BY <1>5, <2>1 DEF DeleteCommit, ExecutionsFramed
<1> QED
  BY <1>1, <1>2, <1>3, <1>4, <1>5

(* Implementers add no rows                                                    *)
LEMMA ExecutionStepFrame ==
    ASSUME TypeOK, NEW e \in ExecutionId, ExecutionStep(e)
    PROVE  ExecutionsFramed /\ ReviewsFramed
<1>1. ReviewsFramed
  BY DEF ExecutionStep, RenewExecution, CompleteExecution, FailExecution, ReleaseExecution,
         CloseExecution, ExecutionLeasePasses, ReapExecution, ReviewsFramed
<1>2. ASSUME NEW s \in {"completed", "failed", "lost", "cancelled"}, ActiveExecution(e),
             executions' = [executions EXCEPT ![e] = Closed(@, s)]
      PROVE  ExecutionsFramed
  BY <1>2, ClosedExecution DEF ExecutionsFramed, TypeOK
<1>3. ASSUME NEW l \in Leases, ActiveExecution(e),
             executions' = [executions EXCEPT ![e].lease = l]
      PROVE  ExecutionsFramed
  <2>1. executions[e] \in ExecutionRow
    BY <1>3, ActiveRows
  <2> QED
    BY <1>3, <2>1 DEF ExecutionsFramed, TypeOK, ExecutionRow, ActiveExecution
<1>4. CASE CompleteExecution(e) \/ FailExecution(e) \/ ReleaseExecution(e)
  BY <1>1, <1>2, <1>4 DEF CompleteExecution, FailExecution, ReleaseExecution, CloseExecution,
                    Accepted, ActiveExecution
<1>5. CASE RenewExecution(e)
  BY <1>1, <1>3, <1>5 DEF RenewExecution, Accepted, ActiveExecution, Leases
<1>6. CASE ExecutionLeasePasses(e)
  BY <1>1, <1>3, <1>6 DEF ExecutionLeasePasses, Passed, Leases
<1>7. CASE ReapExecution(e)
  BY <1>1, <1>2, <1>7 DEF ReapExecution, ExecutionsFramed
<1> QED
  BY <1>1, <1>4, <1>5, <1>6, <1>7 DEF ExecutionStep

(* Reviewers add no rows                                                       *)
LEMMA ReviewStepFrame ==
    ASSUME TypeOK, NEW r \in ReviewId, ReviewStep(r)
    PROVE  ExecutionsFramed /\ ReviewsFramed
<1>1. ExecutionsFramed
  BY DEF ReviewStep, RenewReview, FailReview, ApproveReview, RequestChanges, ReleaseReview,
         CloseReview, ReviewLeasePasses, ReapReview, ExecutionsFramed
<1>2. ASSUME NEW s \in {"approved", "retry", "failed", "lost", "cancelled"}, ActiveReview(r),
             reviews' = [reviews EXCEPT ![r] = Closed(@, s)]
      PROVE  ReviewsFramed
  BY <1>2, ClosedReview DEF ReviewsFramed, TypeOK
<1>3. ASSUME NEW l \in Leases, ActiveReview(r),
             reviews' = [reviews EXCEPT ![r].lease = l]
      PROVE  ReviewsFramed
  <2>1. reviews[r] \in ReviewRow
    BY <1>3, ActiveRows
  <2> QED
    BY <1>3, <2>1 DEF ReviewsFramed, TypeOK, ReviewRow, ActiveReview
<1>4. CASE FailReview(r) \/ ApproveReview(r) \/ RequestChanges(r) \/ ReleaseReview(r)
  BY <1>1, <1>2, <1>4 DEF FailReview, ApproveReview, RequestChanges, ReleaseReview, CloseReview,
                    ReviewAccepted, Accepted, ActiveReview
<1>5. CASE RenewReview(r)
  BY <1>1, <1>3, <1>5 DEF RenewReview, ReviewAccepted, Accepted, ActiveReview, Leases
<1>6. CASE ReviewLeasePasses(r)
  BY <1>1, <1>3, <1>6 DEF ReviewLeasePasses, Passed, Leases
<1>7. CASE ReapReview(r)
  BY <1>1, <1>2, <1>7 DEF ReapReview, ReviewsFramed
<1> QED
  BY <1>1, <1>4, <1>5, <1>6, <1>7 DEF ReviewStep

(* Rows come into being by a claim and by nothing else                         *)
LEMMA NextFrame ==
    ASSUME TypeOK, [Next]_vars
    PROVE  /\ ExecutionsFramed \/ \E h \in Handler : PersistTaskClaim(h)
           /\ ReviewsFramed \/ \E h \in Handler : PersistReviewClaim(h)
<1>1. CASE \E h \in Handler : HandlerStep(h)
  BY <1>1, HandlerStepFrame
<1>2. CASE \E e \in ExecutionId : ExecutionStep(e)
  BY <1>2, ExecutionStepFrame
<1>3. CASE \E r \in ReviewId : ReviewStep(r)
  BY <1>3, ReviewStepFrame
<1>4. CASE SweepStep \/ OperatorStep \/ UNCHANGED vars
  <2>1. UNCHANGED <<executions, reviews>>
    BY <1>4 DEF SweepStep, SweepExecutions, SweepReviews, SweepEnds, SweepAborts,
         OperatorStep, RetireWorker, MergedTask, RereviewAfterUpstreamMove,
         UpdateHostSettings, vars
  <2> QED
    BY <2>1 DEF ExecutionsFramed, ReviewsFramed
<1> QED
  BY <1>1, <1>2, <1>3, <1>4 DEF Next

(* A claim inserts into an absent row, and touches no other. *)
LEMMA NextHistory ==
    ASSUME TypeOK, [Next]_vars
    PROVE  ExecutionHistoryKept /\ ReviewHistoryKept
<1>1. ExecutionHistoryKept
  <2>1. CASE ExecutionsFramed
    BY <2>1 DEF ExecutionsFramed, ExecutionHistoryKept, ActiveExecution
  <2>2. ASSUME NEW h \in Handler, PersistTaskClaim(h) PROVE ExecutionHistoryKept
    BY <2>2 DEF PersistTaskClaim, FirstAbsent, ExecutionHistoryKept, TypeOK
  <2> QED
    BY <2>1, <2>2, NextFrame
<1>2. ReviewHistoryKept
  <2>1. CASE ReviewsFramed
    BY <2>1 DEF ReviewsFramed, ReviewHistoryKept, ActiveReview
  <2>2. ASSUME NEW h \in Handler, PersistReviewClaim(h) PROVE ReviewHistoryKept
    BY <2>2 DEF PersistReviewClaim, FirstAbsent, ReviewHistoryKept, TypeOK
  <2> QED
    BY <2>1, <2>2, NextFrame
<1> QED
  BY <1>1, <1>2

(* No call, pause or sweep, however late, rewrites a closed row, a verdict     *)
(* above all, or moves a row to another task, worker or candidate.             *)
THEOREM HistoryKept == Spec => HistoryIsImmutable
<1> QED
  BY TypeCorrect, NextHistory, PTL DEF Spec, HistoryIsImmutable

-----------------------------------------------------------------------------
(* The gate: no merge without an approval of the candidate *)

(* A completed execution never changes                                         *)
LEMMA CompletedStays ==
    ASSUME TypeOK, [Next]_vars, NEW e \in ExecutionId, executions[e].state = "completed"
    PROVE  executions'[e] = executions[e]
BY NextHistory DEF ExecutionHistoryKept

(* A claim in flight is what it was, or has just read its candidate. *)
LEMMA ClaimReviewInFlight ==
    ASSUME TypeOK, [Next]_vars, NEW h \in Handler, handler'[h].kind = "claim_review"
    PROVE  \/ handler'[h] = handler[h]
           \/ \E w \in Worker, t \in Task : ClaimReviewRead(h, w, t)
<1> USE DEF Started, Finished, IdleCall
<1>1. CASE \E g \in Handler : HandlerStep(g)
  <2>1. PICK g \in Handler : HandlerStep(g)
    BY <1>1
  <2>2. CASE g # h
    <3>1. \E call : handler' = [handler EXCEPT ![g] = call]
      BY <2>1 DEF HandlerStep, ClaimTaskRead, PersistTaskClaim, ClaimReviewRead,
           BlockExhaustedTask, PersistReviewClaim, RequeueConflictingCandidate, CallDropped,
           UpdateWorkerRead, UpdateWorkerCommit, RetryRead, RetryCommit, DeleteRead, DeleteCommit
    <3> QED
      BY <2>2, <3>1 DEF TypeOK
  <2>3. CASE g = h /\ ~\E w \in Worker, t \in Task : ClaimReviewRead(h, w, t)
    <3>1. CASE handler' = [handler EXCEPT ![h] = [kind |-> "idle"]]
      BY <3>1 DEF TypeOK
    <3>2. CASE \E w \in Worker, t \in Task : ClaimTaskRead(h, w, t)
      BY <3>2 DEF ClaimTaskRead, TypeOK
    <3>3. CASE \E w \in Worker, request \in WorkerRequests : UpdateWorkerRead(h, w, request)
      BY <3>3 DEF UpdateWorkerRead, TypeOK
    <3>4. CASE \E t \in Task : RetryRead(h, t) \/ DeleteRead(h, t)
      BY <3>4 DEF RetryRead, DeleteRead, TypeOK
    <3> QED
      BY <2>1, <2>3, <3>1, <3>2, <3>3, <3>4
         DEF HandlerStep, PersistTaskClaim, BlockExhaustedTask, PersistReviewClaim,
             RequeueConflictingCandidate, CallDropped, UpdateWorkerCommit, RetryCommit,
             DeleteCommit
  <2> QED
    BY <2>2, <2>3
<1>2. CASE UNCHANGED handler
  BY <1>2
<1>3. (\E g \in Handler : HandlerStep(g)) \/ UNCHANGED handler
  BY DEF Next, vars, ExecutionStep, RenewExecution, CompleteExecution, FailExecution,
         ReleaseExecution, CloseExecution, ExecutionLeasePasses, ReapExecution,
         ReviewStep, RenewReview, FailReview, ApproveReview, RequestChanges, ReleaseReview,
         CloseReview, ReviewLeasePasses, ReapReview, SweepStep, SweepExecutions,
         SweepReviews, SweepEnds, SweepAborts, OperatorStep, RetireWorker, MergedTask,
         RereviewAfterUpstreamMove, UpdateHostSettings
<1> QED
  BY <1>1, <1>2, <1>3

(* The claim reads a candidate that pins finished work of another worker; from *)
(* then on completed rows stay as they are.                                    *)
LEMMA NextPins ==
    ASSUME TypeOK, ReviewsPinFinishedWork, [Next]_vars
    PROVE  ReviewsPinFinishedWork'
<1>1. ASSUME NEW r \in ReviewId, reviews'[r].state # "absent" PROVE Pins(reviews[r])'
  <2>1. CASE ReviewsFramed
    <3>1. /\ reviews[r].state # "absent"
          /\ reviews'[r].task = reviews[r].task
          /\ reviews'[r].execution = reviews[r].execution
          /\ reviews'[r].worker = reviews[r].worker
      BY <1>1, <2>1 DEF ReviewsFramed, ActiveReview
    <3>2. Pins(reviews[r]) /\ reviews[r].execution \in ExecutionId
      BY <3>1 DEF ReviewsPinFinishedWork, TypeOK, AbsentRow, ReviewRow
    <3>3. executions'[reviews[r].execution] = executions[reviews[r].execution]
      BY <3>2, CompletedStays DEF Pins
    <3> QED
      BY <3>1, <3>2, <3>3 DEF Pins
  <2>2. ASSUME NEW h \in Handler, PersistReviewClaim(h) PROVE Pins(reviews[r])'
    <3>1. /\ handler[h] \in ClaimReviewCall /\ Pins(handler[h])
          /\ UNCHANGED executions
      BY <2>2, CallTypes DEF PersistReviewClaim, ReviewsPinFinishedWork
    <3>2. PICK new \in ReviewId : /\ FirstAbsent(reviews, ReviewId, new)
                                  /\ reviews' = [reviews EXCEPT ![new] = NewReview(handler[h])]
      BY <2>2 DEF PersistReviewClaim
    <3>3. CASE r = new
      BY <3>1, <3>2, <3>3 DEF NewReview, Pins, TypeOK
    <3>4. CASE r # new
      <4>1. reviews'[r] = reviews[r]
        BY <3>2, <3>4 DEF TypeOK
      <4> QED
        BY <1>1, <3>1, <4>1 DEF ReviewsPinFinishedWork, Pins
    <3> QED
      BY <3>3, <3>4
  <2> QED
    BY <2>1, <2>2, NextFrame
<1>2. ASSUME NEW h \in Handler, handler'[h].kind = "claim_review" PROVE Pins(handler[h])'
  <2>1. CASE handler'[h] = handler[h]
    <3>1. handler[h] \in ClaimReviewCall /\ Pins(handler[h])
      BY <1>2, <2>1, CallTypes DEF ReviewsPinFinishedWork
    <3>2. executions'[handler[h].execution] = executions[handler[h].execution]
      BY <3>1, CompletedStays DEF Pins, ClaimReviewCall
    <3> QED
      BY <2>1, <3>1, <3>2 DEF Pins
  <2>2. ASSUME NEW w \in Worker, NEW t \in Task, ClaimReviewRead(h, w, t)
        PROVE  Pins(handler[h])'
    <3>1. PICK e \in ExecutionId :
             /\ IsCandidate(t, e) /\ executions[e].worker # w
             /\ handler' = [handler EXCEPT ![h] =
                   IF FailuresExhausted(reviews, t, e)
                   THEN [kind |-> "block_review", task |-> t]
                   ELSE [kind |-> "claim_review", worker |-> w, task |-> t,
                         execution |-> e, cycle |-> task[t].cycle]]
      BY <2>2 DEF ClaimReviewRead, MayReview, Started
    <3>2. handler'[h] = [kind |-> "claim_review", worker |-> w, task |-> t,
                         execution |-> e, cycle |-> task[t].cycle]
      BY <1>2, <3>1 DEF TypeOK
    <3>3. executions[e].state = "completed" /\ executions[e].task = t
      BY <3>1 DEF IsCandidate, FirstByAttempt, ExecutionsOf
    <3>4. UNCHANGED executions
      BY <2>2 DEF ClaimReviewRead
    <3> QED
      BY <3>1, <3>2, <3>3, <3>4 DEF Pins
  <2> QED
    BY <1>2, <2>1, <2>2, ClaimReviewInFlight
<1> QED
  BY <1>1, <1>2 DEF ReviewsPinFinishedWork

(* A reviewer only ever gets the finished work of another worker, even when    *)
(* workers change roles or the claim takes long.                               *)
THEOREM ReviewsArePinned == Spec => []ReviewsPinFinishedWork
<1>1. Init => ReviewsPinFinishedWork
  BY DEF Init, ReviewsPinFinishedWork, AbsentRow, IdleCall
<1>2. TypeOK /\ ReviewsPinFinishedWork /\ [Next]_vars => ReviewsPinFinishedWork'
  BY NextPins
<1> QED
  BY <1>1, <1>2, TypeCorrect, PTL DEF Spec

(* While no execution of t is inserted, the latest stays the latest. *)
LEMMA LatestStays ==
    ASSUME TypeOK, ExecutionsFramed, NEW t \in Task, NEW e \in ExecutionId, IsLatest(t, e)
    PROVE  IsLatest(t, e)'
<1>1. \A f \in ExecutionId :
          /\ executions'[f].state = "absent" <=> executions[f].state = "absent"
          /\ executions[f].state # "absent" =>
                /\ executions'[f].task = executions[f].task
                /\ executions'[f].attempt = executions[f].attempt
  BY DEF ExecutionsFramed, ActiveExecution
<1>2. ExecutionsOf(t)' = ExecutionsOf(t)
  BY <1>1 DEF ExecutionsOf
<1>3. \A f \in ExecutionsOf(t) : executions'[f].attempt = executions[f].attempt
  BY <1>1 DEF ExecutionsOf
<1> QED
  BY <1>2, <1>3 DEF IsLatest, FirstByAttempt

(* A claim inserts an execution of a queued task, and of no other. *)
LEMMA LatestStaysElsewhere ==
    ASSUME TypeOK, NEW h \in Handler, PersistTaskClaim(h), NEW t \in Task,
           task[t].state # "queued", NEW e \in ExecutionId, IsLatest(t, e)
    PROVE  IsLatest(t, e)'
<1>1. PICK new \in ExecutionId :
          /\ FirstAbsent(executions, ExecutionId, new)
          /\ executions' = [executions EXCEPT ![new] =
                NewExecution(handler[h].task, handler[h].worker, handler[h].attempt)]
  BY DEF PersistTaskClaim
<1>2. executions[new].state = "absent" /\ executions'[new].task # t
  BY <1>1 DEF PersistTaskClaim, FirstAbsent, NewExecution, TypeOK
<1>3. \A f \in ExecutionId : f # new => executions'[f] = executions[f]
  BY <1>1 DEF TypeOK
<1>4. ExecutionsOf(t)' = ExecutionsOf(t)
  BY <1>2, <1>3 DEF ExecutionsOf
<1>5. \A f \in ExecutionsOf(t) : executions'[f] = executions[f]
  BY <1>2, <1>3 DEF ExecutionsOf
<1> QED
  BY <1>4, <1>5 DEF IsLatest, FirstByAttempt

(* Only an approval brings a task to the gate. *)
GateStates == {"merge_pending", "done"}
(* The gate is opened by an accepted approval alone                            *)
LEMMA OnlyApprovalOpensGate ==
    ASSUME TypeOK, [Next]_vars, NEW t \in Task,
           task[t].state \notin GateStates, task'[t].state \in GateStates
    PROVE  \E r \in ReviewId : ApproveReview(r) /\ reviews[r].task = t
<1> USE DEF GateStates
<1>1. CASE \E h \in Handler : HandlerStep(h)
  <2>1. PICK h \in Handler : HandlerStep(h)
    BY <1>1
  <2>2. task[t] \in TaskRow /\ DOMAIN task = Task
    BY DEF TypeOK
  <2>3. CASE \E u : \E s \in TaskStates \ GateStates : task' = [task EXCEPT ![u].state = s]
    BY <2>2, <2>3 DEF TaskRow
  <2>4. CASE RetryCommit(h)
    BY <2>2, <2>4 DEF RetryCommit, TaskRow
  <2>5. CASE UpdateWorkerCommit(h)
    <3>1. (\E w : LoseLeases(w)) \/ UNCHANGED task
      BY <2>5 DEF UpdateWorkerCommit, RevokeLeases
    <3>2. ASSUME NEW w, LoseLeases(w) PROVE FALSE
      BY <2>2, <3>2 DEF LoseLeases, TaskRow
    <3> QED
      BY <3>1, <3>2
  <2>6. CASE \/ PersistTaskClaim(h) \/ BlockExhaustedTask(h)
             \/ RequeueConflictingCandidate(h) \/ DeleteCommit(h)
    <3>1. \E s \in {"assigned", "blocked", "queued", "cancelled"} :
              task' = [task EXCEPT ![handler[h].task].state = s]
      BY <2>6 DEF PersistTaskClaim, BlockExhaustedTask, RequeueConflictingCandidate, DeleteCommit
    <3> QED
      BY <2>3, <3>1 DEF TaskStates
  <2>7. CASE UNCHANGED task
    BY <2>7
  <2> QED
    BY <2>1, <2>4, <2>5, <2>6, <2>7
       DEF HandlerStep, ClaimTaskRead, ClaimReviewRead, PersistReviewClaim, CallDropped,
           UpdateWorkerRead, RetryRead, DeleteRead
<1>2. CASE \E e \in ExecutionId : ExecutionStep(e)
  BY <1>2 DEF ExecutionStep, RenewExecution, CompleteExecution, FailExecution,
       ReleaseExecution, CloseExecution, ExecutionLeasePasses, ReapExecution, TypeOK, TaskRow
<1>3. CASE \E r \in ReviewId : ReviewStep(r)
  <2>1. PICK r \in ReviewId : ReviewStep(r)
    BY <1>3
  <2>2. CASE ApproveReview(r)
    BY <2>2 DEF ApproveReview, TypeOK, TaskRow
  <2>3. CASE ~ApproveReview(r)
    BY <2>1, <2>3 DEF ReviewStep, RenewReview, FailReview, RequestChanges, ReleaseReview,
         ReviewLeasePasses, ReapReview, TypeOK, TaskRow
  <2> QED
    BY <2>2, <2>3
<1>4. CASE SweepStep \/ OperatorStep \/ UNCHANGED vars
  BY <1>4 DEF SweepStep, SweepExecutions, SweepReviews, SweepEnds, SweepAborts,
       OperatorStep, RetireWorker, MergedTask, RereviewAfterUpstreamMove,
       UpdateHostSettings, vars, TypeOK, TaskRow
<1> QED
  BY <1>1, <1>2, <1>3, <1>4 DEF Next

(* An approval is accepted only of the latest execution, which it pins; and at *)
(* the gate that execution stays the latest, because only a queued task is     *)
(* claimed, while the approval and the completed execution are history.        *)
LEMMA NextGate ==
    ASSUME TypeOK, ReviewsPinFinishedWork, MergeRequiresApproval, [Next]_vars
    PROVE  MergeRequiresApproval'
<1> DEFINE Approves(r, e, t) ==
       /\ reviews[r].state = "approved"
       /\ reviews[r].task = t
       /\ reviews[r].execution = e
       /\ executions[e].state = "completed"
       /\ executions[e].worker # reviews[r].worker
       /\ IsLatest(t, e)
<1>1. ASSUME NEW t \in Task, task[t].state \in GateStates
      PROVE  \E r \in ReviewId, e \in ExecutionId : Approves(r, e, t)
  BY <1>1 DEF MergeRequiresApproval, CandidateApproved, GateStates, ReviewsOf, IsLatest, FirstByAttempt,
              ExecutionsOf
<1>2. ASSUME NEW t \in Task, task[t].state \in GateStates
      PROVE  \E r \in ReviewId, e \in ExecutionId : Approves(r, e, t)'
  <2>1. PICK r \in ReviewId, e \in ExecutionId : Approves(r, e, t)
    BY <1>2, <1>1
  <2>2. reviews'[r] = reviews[r]
    BY <2>1, NextHistory DEF ReviewHistoryKept
  <2>3. executions'[e] = executions[e]
    BY <2>1, CompletedStays
  <2>4. task[t].state # "queued"
    BY <1>2 DEF GateStates
  <2>5. IsLatest(t, e)'
    BY <2>1, <2>4, NextFrame, LatestStays, LatestStaysElsewhere
  <2> QED
    BY <2>1, <2>2, <2>3, <2>5
<1>3. ASSUME NEW t \in Task, task[t].state \notin GateStates, task'[t].state \in GateStates
      PROVE  \E r \in ReviewId, e \in ExecutionId : Approves(r, e, t)'
  <2>1. PICK r \in ReviewId : ApproveReview(r) /\ reviews[r].task = t
    BY <1>3, OnlyApprovalOpensGate
  <2>2. ActiveReview(r) /\ IsLatest(t, reviews[r].execution)
    BY <2>1 DEF ApproveReview, CloseReview, ReviewAccepted, Accepted, ActiveReview
  <2>3. PICK e \in ExecutionId : reviews[r].execution = e /\ IsLatest(t, e)
    BY <2>2 DEF IsLatest, FirstByAttempt, ExecutionsOf
  <2>4. reviews' = [reviews EXCEPT ![r] = Closed(@, "approved")] /\ UNCHANGED executions
    BY <2>1 DEF ApproveReview, CloseReview
  <2>5. /\ reviews'[r].state = "approved"
        /\ reviews'[r].task = t
        /\ reviews'[r].execution = e
        /\ reviews'[r].worker = reviews[r].worker
    BY <2>1, <2>2, <2>3, <2>4, ClosedReview DEF TypeOK
  <2>6. Pins(reviews[r])
    BY <2>2 DEF ActiveReview, ReviewsPinFinishedWork
  <2>7. IsLatest(t, e)'
    BY <2>3, <2>4 DEF IsLatest, FirstByAttempt, ExecutionsOf
  <2> QED
    BY <2>3, <2>4, <2>5, <2>6, <2>7 DEF Pins
<1>4. ASSUME NEW t \in Task, task'[t].state \in GateStates
      PROVE  \E r \in ReviewId, e \in ExecutionId : Approves(r, e, t)'
  BY <1>2, <1>3, <1>4
<1>5. ASSUME NEW t \in Task, NEW r \in ReviewId, NEW e \in ExecutionId, Approves(r, e, t)'
      PROVE  /\ r \in ReviewsOf(t)'
             /\ reviews'[r].state = "approved"
             /\ IsLatest(t, reviews[r].execution)'
             /\ executions'[reviews'[r].execution].state = "completed"
             /\ executions'[reviews'[r].execution].worker # reviews'[r].worker
  BY <1>5 DEF ReviewsOf, IsLatest, FirstByAttempt, ExecutionsOf
<1> HIDE DEF Approves
<1> QED
  BY <1>4, <1>5 DEF MergeRequiresApproval, CandidateApproved, GateStates

(* Whatever calls overlap, are late or get lost: a task waits for its merge,   *)
(* or is merged, only on another worker's approval of its latest execution,    *)
(* the one the host publishes.                                                 *)
THEOREM GateIsSound == Spec => []MergeRequiresApproval
<1>1. Init => MergeRequiresApproval
  BY DEF Init, MergeRequiresApproval
<1>2. TypeOK /\ ReviewsPinFinishedWork /\ MergeRequiresApproval /\ [Next]_vars
        => MergeRequiresApproval'
  BY NextGate
<1> QED
  BY <1>1, <1>2, TypeCorrect, ReviewsArePinned, PTL DEF Spec

-----------------------------------------------------------------------------
(* Final states *)

FinalStates == {"done", "cancelled"}

(* Every transaction that moves a task checks that it is in another state. *)
LEMMA NextFinal ==
    ASSUME TypeOK, [Next]_vars, NEW t \in Task, task[t].state \in FinalStates
    PROVE  task'[t].state = task[t].state
<1> USE DEF FinalStates
<1>0. task[t] \in TaskRow /\ DOMAIN task = Task
  BY DEF TypeOK
<1>1. ASSUME NEW u, task[u].state \notin FinalStates, NEW s,
             task' = [task EXCEPT ![u].state = s]
      PROVE  task'[t].state = task[t].state
  BY <1>0, <1>1
<1>2. CASE \E h \in Handler : HandlerStep(h)
  <2>1. PICK h \in Handler : HandlerStep(h)
    BY <1>2
  <2>2. CASE PersistTaskClaim(h)
    BY <1>1, <2>2 DEF PersistTaskClaim
  <2>3. CASE BlockExhaustedTask(h)
    BY <1>1, <2>3 DEF BlockExhaustedTask
  <2>4. CASE RequeueConflictingCandidate(h)
    BY <1>1, <2>4 DEF RequeueConflictingCandidate
  <2>5. CASE UpdateWorkerCommit(h)
    <3>1. (\E w : LoseLeases(w)) \/ UNCHANGED task
      BY <2>5 DEF UpdateWorkerCommit, RevokeLeases
    <3>2. ASSUME NEW w, LoseLeases(w) PROVE task'[t].state = task[t].state
      BY <1>0, <3>2 DEF LoseLeases
    <3> QED
      BY <3>1, <3>2
  <2>6. CASE RetryCommit(h)
    <3>1. task[handler[h].task].state \in Retryable
      BY <2>6, CallTypes DEF RetryCommit, RetryCall
    <3> QED
      BY <1>0, <2>6, <3>1 DEF RetryCommit, Retryable
  <2>7. CASE DeleteCommit(h)
    <3>1. task' = [task EXCEPT ![handler[h].task].state = "cancelled"]
          /\ task[handler[h].task].state # "done"
      BY <2>7 DEF DeleteCommit, Undeletable
    <3> QED
      BY <1>0, <3>1
  <2>8. CASE UNCHANGED task
    BY <2>8
  <2> QED
    BY <2>1, <2>2, <2>3, <2>4, <2>5, <2>6, <2>7, <2>8
       DEF HandlerStep, ClaimTaskRead, ClaimReviewRead, PersistReviewClaim, CallDropped,
           UpdateWorkerRead, RetryRead, DeleteRead
<1>3. CASE \E e \in ExecutionId : ExecutionStep(e)
  <2>1. PICK e \in ExecutionId : ExecutionStep(e)
    BY <1>3
  <2>2. CASE CompleteExecution(e) \/ FailExecution(e) \/ ReleaseExecution(e)
    BY <1>1, <2>2 DEF CompleteExecution, FailExecution, ReleaseExecution, CloseExecution
  <2>3. CASE ReapExecution(e)
    BY <1>1, <2>3 DEF ReapExecution
  <2> QED
    BY <2>1, <2>2, <2>3 DEF ExecutionStep, RenewExecution, ExecutionLeasePasses
<1>4. CASE \E r \in ReviewId : ReviewStep(r)
  <2>1. PICK r \in ReviewId : ReviewStep(r)
    BY <1>4
  <2>2. CASE FailReview(r) \/ ApproveReview(r) \/ RequestChanges(r)
    <3>1. task[reviews[r].task].state \notin FinalStates
      BY <2>2 DEF FailReview, ApproveReview, RequestChanges, CloseReview, ReviewAccepted
    <3>2. UNCHANGED task \/ \E s : task' = [task EXCEPT ![reviews[r].task].state = s]
      BY <2>2 DEF FailReview, ApproveReview, RequestChanges
    <3> QED
      BY <1>1, <3>1, <3>2
  <2>3. CASE ReapReview(r)
    BY <1>1, <2>3 DEF ReapReview
  <2> QED
    BY <2>1, <2>2, <2>3 DEF ReviewStep, RenewReview, ReleaseReview, ReviewLeasePasses
<1>5. CASE OperatorStep
  BY <1>1, <1>5 DEF OperatorStep, RetireWorker, MergedTask, RereviewAfterUpstreamMove,
                    UpdateHostSettings
<1>6. CASE SweepStep \/ UNCHANGED vars
  BY <1>6 DEF SweepStep, SweepExecutions, SweepReviews, SweepEnds, SweepAborts, vars
<1> QED
  BY <1>2, <1>3, <1>4, <1>5, <1>6 DEF Next

(* A merged or deleted task stays so, though calls, leases and sweeps that     *)
(* began before may still be under way.                                        *)
THEOREM FinalTasks == Spec => FinalTasksStay
<1>1. TypeOK /\ [Next]_vars =>
          \A t \in Task : task[t].state \in {"done", "cancelled"} =>
              task'[t].state = task[t].state
  BY NextFinal DEF FinalStates
<1> QED
  BY <1>1, TypeCorrect, PTL DEF Spec, FinalTasksStay

-----------------------------------------------------------------------------
(* When the standing of a task's work may change *)

(* The latest execution changes only when one is inserted.                     *)
LEMMA LatestFramed ==
    ASSUME TypeOK, ExecutionsFramed, NEW t \in Task, NEW e \in ExecutionId
    PROVE  IsLatest(t, e)' <=> IsLatest(t, e)
<1>1. \A f \in ExecutionId :
          /\ executions'[f].state = "absent" <=> executions[f].state = "absent"
          /\ executions[f].state # "absent" =>
                /\ executions'[f].task = executions[f].task
                /\ executions'[f].attempt = executions[f].attempt
  BY DEF ExecutionsFramed, ActiveExecution
<1>2. ExecutionsOf(t)' = ExecutionsOf(t)
  BY <1>1 DEF ExecutionsOf
<1>3. \A f \in ExecutionsOf(t) : executions'[f].attempt = executions[f].attempt
  BY <1>1 DEF ExecutionsOf
<1> QED
  BY <1>2, <1>3 DEF IsLatest, FirstByAttempt

(* A claim adds an active execution, which is no finished work.                *)
LEMMA LatestOfClaimed ==
    ASSUME TypeOK, NEW h \in Handler, PersistTaskClaim(h), NEW t \in Task,
           NEW e \in ExecutionId, IsLatest(t, e)', executions'[e].state = "completed"
    PROVE  IsLatest(t, e) /\ executions[e].state = "completed"
           /\ executions'[e] = executions[e]
<1>1. PICK new \in ExecutionId :
          /\ FirstAbsent(executions, ExecutionId, new)
          /\ executions' = [executions EXCEPT ![new] =
                NewExecution(handler[h].task, handler[h].worker, handler[h].attempt)]
  BY DEF PersistTaskClaim
<1>2. executions[new].state = "absent" /\ executions'[new].state = "active"
  BY <1>1 DEF FirstAbsent, NewExecution, TypeOK
<1>3. \A f \in ExecutionId : f # new => executions'[f] = executions[f]
  BY <1>1 DEF TypeOK
<1>4. e # new /\ executions'[e] = executions[e]
  BY <1>2, <1>3
<1>5. \A f \in ExecutionsOf(t) : f \in ExecutionsOf(t)' /\ executions'[f] = executions[f]
  BY <1>2, <1>3 DEF ExecutionsOf
<1>6. e \in ExecutionsOf(t)
  BY <1>4 DEF IsLatest, FirstByAttempt, ExecutionsOf
<1> QED
  BY <1>4, <1>5, <1>6 DEF IsLatest, FirstByAttempt

(* An approval stands until the next claim.                                    *)
LEMMA ApprovalStands ==
    ASSUME TypeOK, [Next]_vars, NEW t \in Task, CandidateApproved(t)
    PROVE  CandidateApproved(t)' \/ \E h \in Handler : PersistTaskClaim(h) /\ handler[h].task = t
<1> SUFFICES ASSUME \A h \in Handler : PersistTaskClaim(h) => handler[h].task # t
             PROVE  CandidateApproved(t)'
  OBVIOUS
<1>1. PICK r \in ReviewsOf(t) :
         /\ reviews[r].state = "approved"
         /\ IsLatest(t, reviews[r].execution)
         /\ executions[reviews[r].execution].state = "completed"
         /\ executions[reviews[r].execution].worker # reviews[r].worker
  BY DEF CandidateApproved
<1>2. PICK e \in ExecutionId : e = reviews[r].execution
  BY <1>1 DEF IsLatest, FirstByAttempt, ExecutionsOf
<1>3. reviews'[r] = reviews[r] /\ r \in ReviewsOf(t)'
  BY <1>1, NextHistory DEF ReviewHistoryKept, ReviewsOf
<1>4. executions'[e] = executions[e]
  BY <1>1, <1>2, CompletedStays
<1>5. IsLatest(t, e)'
  <2>1. CASE ExecutionsFramed
    BY <1>1, <1>2, <2>1, LatestFramed
  <2>2. ASSUME NEW h \in Handler, PersistTaskClaim(h) PROVE IsLatest(t, e)'
    <3>1. handler[h].task # t
      BY <2>2
    <3>2. PICK new \in ExecutionId :
              /\ FirstAbsent(executions, ExecutionId, new)
              /\ executions' = [executions EXCEPT ![new] =
                    NewExecution(handler[h].task, handler[h].worker, handler[h].attempt)]
      BY <2>2 DEF PersistTaskClaim
    <3>3. executions[new].state = "absent" /\ executions'[new].task # t
      BY <3>1, <3>2 DEF FirstAbsent, NewExecution, TypeOK
    <3>4. \A f \in ExecutionId : f # new => executions'[f] = executions[f]
      BY <3>2 DEF TypeOK
    <3>5. ExecutionsOf(t)' = ExecutionsOf(t)
      BY <3>3, <3>4 DEF ExecutionsOf
    <3>6. \A f \in ExecutionsOf(t) : executions'[f] = executions[f]
      BY <3>3, <3>4 DEF ExecutionsOf
    <3> QED
      BY <1>1, <1>2, <3>5, <3>6 DEF IsLatest, FirstByAttempt
  <2> QED
    BY <2>1, <2>2, NextFrame
<1> QED
  BY <1>1, <1>2, <1>3, <1>4, <1>5 DEF CandidateApproved

(* Work comes to be approved only by an approval.                              *)
LEMMA OnlyApprovalApproves ==
    ASSUME TypeOK, ReviewsPinFinishedWork, [Next]_vars, NEW t \in Task,
           CandidateApproved(t)', ~CandidateApproved(t)
    PROVE  \E r \in ReviewId : ApproveReview(r) /\ reviews[r].task = t
<1>1. PICK r \in ReviewsOf(t)' :
         /\ reviews'[r].state = "approved"
         /\ IsLatest(t, reviews[r].execution)'
         /\ executions'[reviews'[r].execution].state = "completed"
         /\ executions'[reviews'[r].execution].worker # reviews'[r].worker
  BY DEF CandidateApproved
<1>2. r \in ReviewId /\ reviews'[r].task = t
  BY DEF ReviewsOf
<1>3. PICK e \in ExecutionId : e = reviews'[r].execution /\ IsLatest(t, e)'
  BY <1>1 DEF IsLatest, FirstByAttempt, ExecutionsOf
<1>4. CASE reviews'[r] = reviews[r]
  <2>1. Pins(reviews[r])
    BY <1>1, <1>2, <1>4 DEF ReviewsPinFinishedWork
  <2>2. executions[e].state = "completed" /\ executions'[e] = executions[e]
    BY <1>3, <1>4, <2>1, CompletedStays DEF Pins
  <2>3. IsLatest(t, e)
    BY <1>1, <1>3, <2>2, NextFrame, LatestFramed, LatestOfClaimed
  <2> QED
    BY <1>1, <1>2, <1>3, <1>4, <2>2, <2>3 DEF CandidateApproved, ReviewsOf
<1>5. CASE reviews'[r] # reviews[r]
  <2>1. reviews[r].state # "absent" => ActiveReview(r) /\ reviews[r].task = t
    BY <1>2, <1>5, NextHistory DEF ReviewHistoryKept, ActiveReview
  <2>2. ASSUME NEW h \in Handler, HandlerStep(h) PROVE FALSE
    <3>1. CASE PersistReviewClaim(h)
      BY <1>1, <1>2, <1>5, <3>1 DEF PersistReviewClaim, NewReview, TypeOK
    <3>2. CASE UpdateWorkerCommit(h)
      <4>1. \/ LoseLeases(handler[h].worker) \/ RevokeLeases(handler[h].worker)
            \/ UNCHANGED reviews
        BY <3>2 DEF UpdateWorkerCommit
      <4>2. CASE LoseLeases(handler[h].worker)
        <5>1. ActiveReview(r) /\ reviews'[r] = Closed(reviews[r], "lost")
          BY <1>2, <1>5, <4>2 DEF LoseLeases
        <5> QED
          BY <1>1, <1>2, <5>1, ClosedReview
      <4>3. CASE RevokeLeases(handler[h].worker)
        <5>1. /\ ActiveReview(r)
              /\ reviews'[r] = [reviews[r] EXCEPT !.held = FALSE, !.lease = "expired"]
          BY <1>2, <1>5, <4>3 DEF RevokeLeases
        <5> QED
          BY <1>1, <1>2, <5>1, LeaseChangeKeepsReview DEF Leases
      <4> QED
        BY <1>5, <4>1, <4>2, <4>3
    <3>3. CASE DeleteCommit(h)
      <4>1. /\ ActiveReview(r)
            /\ reviews'[r] = [reviews[r] EXCEPT !.held = FALSE, !.lease = "expired"]
        BY <1>2, <1>5, <3>3 DEF DeleteCommit
      <4> QED
        BY <1>1, <1>2, <4>1, LeaseChangeKeepsReview DEF Leases
    <3>4. CASE UNCHANGED reviews
      BY <1>5, <3>4
    <3> QED
      BY <2>2, <3>1, <3>2, <3>3, <3>4 DEF HandlerStep, ClaimTaskRead, PersistTaskClaim,
         ClaimReviewRead, BlockExhaustedTask, RequeueConflictingCandidate, CallDropped,
         UpdateWorkerRead, RetryRead, RetryCommit, DeleteRead
  <2>3. ASSUME NEW s \in ReviewId, ReviewStep(s) PROVE ApproveReview(s) /\ s = r
    <3>1. s = r
      BY <1>2, <1>5, <2>3 DEF ReviewStep, RenewReview, FailReview, ApproveReview,
         RequestChanges, ReleaseReview, CloseReview, ReviewLeasePasses, ReapReview, TypeOK
    <3>2. ActiveReview(r)
      BY <1>5, <2>3, <3>1 DEF ReviewStep, RenewReview, FailReview, ApproveReview,
         RequestChanges, ReleaseReview, CloseReview, ReviewLeasePasses, ReapReview,
         ReviewAccepted, Accepted, ActiveReview
    <3>3. reviews[r] \in ReviewRow
      BY <1>2, <3>2, ActiveRows
    <3>4. CASE \E l : reviews' = [reviews EXCEPT ![r].lease = l]
      BY <1>1, <1>2, <3>2, <3>3, <3>4 DEF TypeOK, ActiveReview, ReviewRow
    <3>5. CASE \E v \in {"failed", "retry", "cancelled", "lost"} :
                  reviews' = [reviews EXCEPT ![r] = Closed(@, v)]
      BY <1>1, <1>2, <3>2, <3>5, ClosedReview DEF TypeOK
    <3> QED
      BY <1>5, <2>3, <3>1, <3>4, <3>5 DEF ReviewStep, RenewReview, FailReview,
         RequestChanges, ReleaseReview, CloseReview, ReviewLeasePasses, ReapReview
  <2>4. CASE UNCHANGED reviews
    BY <1>5, <2>4
  <2>5. ASSUME NEW s \in ReviewId, ApproveReview(s), s = r
        PROVE  ApproveReview(r) /\ reviews[r].task = t
    BY <2>1, <2>5 DEF ApproveReview, CloseReview, ReviewAccepted, Accepted
  <2> QED
    BY <1>2, <2>2, <2>3, <2>4, <2>5 DEF Next, vars, ExecutionStep, RenewExecution,
       CompleteExecution, FailExecution, ReleaseExecution, CloseExecution,
       ExecutionLeasePasses, ReapExecution, SweepStep, SweepExecutions, SweepReviews,
       SweepEnds, SweepAborts, OperatorStep, RetireWorker, MergedTask,
       RereviewAfterUpstreamMove, UpdateHostSettings
<1> QED
  BY <1>4, <1>5
-----------------------------------------------------------------------------
(* Lanes *)

(* The moves of a task, and the two steps that TaskContract ties a verdict to. *)
LaneStep(t, from, to) == task[t].state = from /\ task'[t].state = to
LaneMove(t) ==
    \/ task'[t].state = task[t].state
    \/ /\ LaneStep(t, "queued", "assigned")
       /\ \E h \in Handler : PersistTaskClaim(h) /\ handler[h].task = t
    \/ /\ LaneStep(t, "review", "merge_pending")
       /\ \E r \in ReviewId : ApproveReview(r)
    \/ \E to \in {"review", "queued", "failed"} : LaneStep(t, "assigned", to)
    \/ \E to \in {"queued", "blocked"} : LaneStep(t, "review", to)
    \/ \E to \in {"done", "review", "queued"} : LaneStep(t, "merge_pending", to)
    \/ \E from \in {"failed", "blocked"} : LaneStep(t, from, "queued")
    \/ \E from \in {"queued", "review", "failed", "blocked"} : LaneStep(t, from, "cancelled")

(* A task that is written gets the new state, and no other task changes.       *)
LEMMA WrittenLane ==
    ASSUME TypeOK, NEW t \in Task, NEW u, NEW s, task' = [task EXCEPT ![u].state = s]
    PROVE  /\ t = u => task'[t].state = s
           /\ t # u => task'[t] = task[t]
<1>1. task[t] \in TaskRow /\ DOMAIN task = Task
  BY DEF TypeOK
<1> QED
  BY <1>1 DEF TaskRow

(* Calls move tasks along their lanes                                          *)
LEMMA HandlerMoves ==
    ASSUME TypeOK, NEW h \in Handler, HandlerStep(h), NEW t \in Task
    PROVE  LaneMove(t)
<1>1. CASE PersistTaskClaim(h)
  <2>1. /\ task[handler[h].task].state = "queued"
        /\ task' = [task EXCEPT ![handler[h].task].state = "assigned"]
    BY <1>1 DEF PersistTaskClaim
  <2> QED
    BY <1>1, <2>1, WrittenLane DEF LaneMove, LaneStep
<1>2. CASE BlockExhaustedTask(h)
  <2>1. /\ task[handler[h].task].state = "review"
        /\ task' = [task EXCEPT ![handler[h].task].state = "blocked"]
    BY <1>2 DEF BlockExhaustedTask
  <2> QED
    BY <2>1, WrittenLane DEF LaneMove, LaneStep
<1>3. CASE RequeueConflictingCandidate(h)
  <2>1. /\ task[handler[h].task].state = "review"
        /\ task' = [task EXCEPT ![handler[h].task].state = "queued"]
    BY <1>3 DEF RequeueConflictingCandidate
  <2> QED
    BY <2>1, WrittenLane DEF LaneMove, LaneStep
<1>4. CASE RetryCommit(h)
  <2>1. task[handler[h].task].state \in Retryable
    BY <1>4, CallTypes DEF RetryCommit, RetryCall
  <2>2. task[t] \in TaskRow /\ DOMAIN task = Task
    BY DEF TypeOK
  <2>3. /\ t = handler[h].task => task'[t].state = "queued"
        /\ t # handler[h].task => task'[t] = task[t]
    BY <1>4, <2>2 DEF RetryCommit, TaskRow
  <2> QED
    BY <2>1, <2>3 DEF LaneMove, LaneStep, Retryable
<1>5. CASE DeleteCommit(h)
  <2>1. /\ task[handler[h].task].state \notin Undeletable
        /\ task' = [task EXCEPT ![handler[h].task].state = "cancelled"]
    BY <1>5 DEF DeleteCommit
  <2>2. task[t] \in TaskRow
    BY DEF TypeOK
  <2>3. task[t].state \in TaskStates
    BY <2>2 DEF TaskRow
  <2> QED
    BY <2>1, <2>3, WrittenLane DEF LaneMove, LaneStep, Undeletable, TaskStates
<1>6. CASE UpdateWorkerCommit(h)
  <2>1. (\E w : LoseLeases(w)) \/ UNCHANGED task
    BY <1>6 DEF UpdateWorkerCommit, RevokeLeases
  <2>2. ASSUME NEW w, LoseLeases(w) PROVE LaneMove(t)
    <3>1. task[t] \in TaskRow
      BY DEF TypeOK
    <3>2. \/ task[t].state = "assigned" /\ task'[t] = [task[t] EXCEPT !.state = "queued"]
          \/ task[t].state = "review" /\ task'[t] = [task[t] EXCEPT !.state = "blocked"]
          \/ task'[t] = task[t]
      BY <2>2, Zenon DEF LoseLeases
    <3> QED
      BY <3>1, <3>2 DEF LaneMove, LaneStep, TaskRow
  <2> QED
    BY <2>1, <2>2 DEF LaneMove
<1>7. CASE UNCHANGED task
  BY <1>7 DEF LaneMove
<1> QED
  BY <1>1, <1>2, <1>3, <1>4, <1>5, <1>6, <1>7 DEF HandlerStep, ClaimTaskRead,
     ClaimReviewRead, PersistReviewClaim, CallDropped, UpdateWorkerRead, RetryRead,
     DeleteRead

(* Implementers move tasks along their lanes                                   *)
LEMMA ExecutionMoves ==
    ASSUME TypeOK, NEW e \in ExecutionId, ExecutionStep(e), NEW t \in Task
    PROVE  LaneMove(t)
<1>1. ASSUME NEW to \in {"review", "queued", "failed"},
             task[executions[e].task].state = "assigned",
             task' = [task EXCEPT ![executions[e].task].state = to]
      PROVE  LaneMove(t)
  BY <1>1, WrittenLane DEF LaneMove, LaneStep
<1>2. CASE CompleteExecution(e) \/ FailExecution(e) \/ ReleaseExecution(e)
  BY <1>1, <1>2 DEF CompleteExecution, FailExecution, ReleaseExecution, CloseExecution
<1>3. CASE ReapExecution(e) /\ ~UNCHANGED task
  BY <1>1, <1>3 DEF ReapExecution
<1>4. CASE UNCHANGED task
  BY <1>4 DEF LaneMove
<1> QED
  BY <1>2, <1>3, <1>4 DEF ExecutionStep, RenewExecution, ExecutionLeasePasses

(* Reviewers move tasks along their lanes                                      *)
LEMMA ReviewMoves ==
    ASSUME TypeOK, NEW r \in ReviewId, ReviewStep(r), NEW t \in Task
    PROVE  LaneMove(t)
<1>1. ASSUME NEW to \in {"queued", "blocked"},
             task[reviews[r].task].state = "review",
             task' = [task EXCEPT ![reviews[r].task].state = to]
      PROVE  LaneMove(t)
  BY <1>1, WrittenLane DEF LaneMove, LaneStep
<1>2. CASE ApproveReview(r)
  <2>1. /\ task[reviews[r].task].state = "review"
        /\ task' = [task EXCEPT ![reviews[r].task].state = "merge_pending"]
    BY <1>2 DEF ApproveReview, CloseReview, ReviewAccepted
  <2> QED
    BY <1>2, <2>1, WrittenLane DEF LaneMove, LaneStep
<1>3. CASE FailReview(r) /\ ~UNCHANGED task
  BY <1>1, <1>3 DEF FailReview, CloseReview, ReviewAccepted
<1>4. CASE RequestChanges(r)
  BY <1>1, <1>4 DEF RequestChanges, CloseReview, ReviewAccepted
<1>5. CASE ReapReview(r) /\ ~UNCHANGED task
  BY <1>1, <1>5 DEF ReapReview
<1>6. CASE UNCHANGED task
  BY <1>6 DEF LaneMove
<1> QED
  BY <1>2, <1>3, <1>4, <1>5, <1>6 DEF ReviewStep, RenewReview, ReleaseReview,
     ReviewLeasePasses

(* Every step does                                                             *)
LEMMA NextMoves ==
    ASSUME TypeOK, [Next]_vars, NEW t \in Task
    PROVE  LaneMove(t)
<1>1. CASE OperatorStep
  <2>1. CASE \E u \in Task : MergedTask(u)
    BY <2>1, WrittenLane DEF MergedTask, LaneMove, LaneStep
  <2>2. CASE \E u \in Task : RereviewAfterUpstreamMove(u)
    BY <2>2, WrittenLane DEF RereviewAfterUpstreamMove, LaneMove, LaneStep
  <2>3. CASE UNCHANGED task
    BY <2>3 DEF LaneMove
  <2> QED
    BY <1>1, <2>1, <2>2, <2>3 DEF OperatorStep, RetireWorker, UpdateHostSettings
<1>2. CASE SweepStep \/ UNCHANGED vars
  BY <1>2 DEF SweepStep, SweepExecutions, SweepReviews, SweepEnds, SweepAborts, vars, LaneMove
<1> QED
  BY <1>1, <1>2, HandlerMoves, ExecutionMoves, ReviewMoves DEF Next

-----------------------------------------------------------------------------
(* The refinement *)

(* What a step of the host is for the contract of one task                     *)
LEMMA ContractTaskStep ==
    ASSUME TypeOK, ReviewsPinFinishedWork, MergeRequiresApproval, [Next]_vars, NEW t \in Task
    PROVE  \/ task'[t].state = task[t].state /\ CandidateApproved(t)' = CandidateApproved(t)
           \/ LaneStep(t, "queued", "assigned")
              /\ (CandidateApproved(t)' => CandidateApproved(t))
           \/ LaneStep(t, "review", "merge_pending") /\ CandidateApproved(t)'
           \/ /\ CandidateApproved(t)' = CandidateApproved(t)
              /\ \/ \E to \in {"review", "queued", "failed"} : LaneStep(t, "assigned", to)
                 \/ \E to \in {"queued", "blocked"} : LaneStep(t, "review", to)
                 \/ LaneStep(t, "merge_pending", "done") /\ CandidateApproved(t)
                 \/ \E to \in {"review", "queued"} : LaneStep(t, "merge_pending", to)
                 \/ \E from \in {"failed", "blocked"} : LaneStep(t, from, "queued")
                 \/ \E from \in {"queued", "review", "failed", "blocked"} :
                       LaneStep(t, from, "cancelled")
<1>1. LaneMove(t)
  BY NextMoves
<1>2. ASSUME NEW r \in ReviewId, ApproveReview(r), reviews[r].task = t
      PROVE  LaneStep(t, "review", "merge_pending") /\ CandidateApproved(t)'
  <2>1. /\ task[t].state = "review"
        /\ task' = [task EXCEPT ![t].state = "merge_pending"]
    BY <1>2 DEF ApproveReview, CloseReview, ReviewAccepted
  <2>2. LaneStep(t, "review", "merge_pending")
    BY <2>1, WrittenLane DEF LaneStep
  <2>3. MergeRequiresApproval'
    BY NextGate
  <2> QED
    BY <2>2, <2>3 DEF LaneStep, MergeRequiresApproval
<1>3. ASSUME NEW h \in Handler, PersistTaskClaim(h), handler[h].task = t
      PROVE  LaneStep(t, "queued", "assigned")
             /\ (CandidateApproved(t)' => CandidateApproved(t))
  <2>1. /\ task[t].state = "queued"
        /\ task' = [task EXCEPT ![t].state = "assigned"]
    BY <1>3 DEF PersistTaskClaim
  <2>2. LaneStep(t, "queued", "assigned")
    BY <2>1, WrittenLane DEF LaneStep
  <2>3. CandidateApproved(t)' => CandidateApproved(t)
    BY <2>2, <1>2, OnlyApprovalApproves DEF LaneStep
  <2> QED
    BY <2>2, <2>3
<1>4. CASE /\ \A r \in ReviewId : ApproveReview(r) => reviews[r].task # t
           /\ \A h \in Handler : PersistTaskClaim(h) => handler[h].task # t
  <2>1. CandidateApproved(t)' <=> CandidateApproved(t)
    BY <1>4, ApprovalStands, OnlyApprovalApproves
  <2>2. CandidateApproved(t)' = CandidateApproved(t)
    BY <2>1 DEF CandidateApproved
  <2>3. LaneStep(t, "merge_pending", "done") => CandidateApproved(t)
    BY DEF LaneStep, MergeRequiresApproval
  <2>4. ~(LaneStep(t, "review", "merge_pending") /\ \E r \in ReviewId : ApproveReview(r))
    <3> SUFFICES ASSUME NEW r \in ReviewId, ApproveReview(r),
                        LaneStep(t, "review", "merge_pending")
                 PROVE  FALSE
      OBVIOUS
    <3>1. task' = [task EXCEPT ![reviews[r].task].state = "merge_pending"]
      BY DEF ApproveReview
    <3> QED
      BY <1>4, <3>1, WrittenLane DEF LaneStep
  <2> QED
    BY <1>1, <1>4, <2>2, <2>3, <2>4 DEF LaneMove
<1> QED
  BY <1>2, <1>3, <1>4

(* Every step of the host is a step of the contract, or none: no overlap of    *)
(* calls, pauses and sweeps moves a task outside its lanes or past the gate.   *)
THEOREM LifecycleKeepsContract == Spec => ContractKept
<1> DEFINE lanes == [t \in Task |-> task[t].state]
           verdicts == [t \in Task |-> CandidateApproved(t)]
<1>1. Init => Contract!Init
  <2> SUFFICES ASSUME Init PROVE Contract!Init
    OBVIOUS
  <2>1. ASSUME NEW t \in Task PROVE task[t].state = "queued" /\ CandidateApproved(t) = FALSE
    <3>1. task[t].state = "queued"
      BY DEF Init
    <3>2. ReviewsOf(t) = {}
      BY DEF Init, ReviewsOf, AbsentRow
    <3> QED
      BY <3>1, <3>2 DEF CandidateApproved
  <2> QED
    BY <2>1 DEF Contract!Init
<1>2. TypeOK /\ TypeOK' /\ ReviewsPinFinishedWork /\ MergeRequiresApproval /\ [Next]_vars
        => [Contract!Next]_(Contract!vars)
  <2> SUFFICES ASSUME TypeOK, TypeOK', ReviewsPinFinishedWork, MergeRequiresApproval,
                      [Next]_vars
               PROVE  Contract!Next
    OBVIOUS
  <2>1. lanes' \in [Task -> Contract!Lanes]
    BY DEF TypeOK, TaskRow, TaskStates, Contract!Lanes
  <2>2. verdicts' \in [Task -> BOOLEAN]
    BY DEF CandidateApproved
  <2>3. ASSUME NEW t \in Task PROVE Contract!TaskStep(t) \/ Contract!Stays(t)
    BY ContractTaskStep DEF LaneStep, Contract!TaskStep, Contract!Stays, Contract!Claim,
       Contract!HandIn, Contract!GiveBack, Contract!Approve, Contract!SendBack,
       Contract!Merge, Contract!Rereview, Contract!Retry, Contract!Delete,
       Contract!Moves, Contract!VerdictStands
  <2> QED
    BY <2>1, <2>2, <2>3 DEF Contract!Next
<1> QED
  BY <1>1, <1>2, TypeCorrect, ReviewsArePinned, GateIsSound, PTL
     DEF Spec, ContractKept, Contract!Spec
=============================================================================
