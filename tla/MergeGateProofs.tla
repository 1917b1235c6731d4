--------------------------- MODULE MergeGateProofs ---------------------------
(* What is proved of MergeGate for every number of tasks, candidates, foreign  *)
(* changes, requests and rows, and whatever merging does to diffs: the host    *)
(* adds to upstream only diffs that a reviewer approved, a task that is done   *)
(* stays published, a rejection after a task's only approval stands, and what  *)
(* the gate does to a task is what TaskContract allows.                        *)
EXTENDS MergeGate, TLAPS

-----------------------------------------------------------------------------
(* Merging *)

(* A merge gives a snapshot of the upstream it was made over.                  *)
LEMMA MergeType ==
    ASSUME NEW c \in Candidate, NEW base \in Commit, NEW u \in Commit
    PROVE  /\ Merge(c, base, u) \in Snapshot
           /\ Merge(c, base, u).upstream = u
BY DEF Merge, Snapshot, Commit, Change, DiffOf

(* A clean merge adds the candidate and nothing else, and pins its diff.       *)
LEMMA CleanMerge ==
    ASSUME NEW c \in Candidate, NEW base \in Commit, NEW u \in Commit,
           Clean(Merge(c, base, u))
    PROVE  /\ Merge(c, base, u).integration = u \union {c}
           /\ Merge(c, base, u).diff = DiffOf(c, base, u)
BY DEF Merge, Clean

-----------------------------------------------------------------------------
(* Type correctness *)

(* A request on its way is a request row                                       *)
LEMMA RequestTypes ==
    ASSUME TypeOK, NEW m \in Request, request[m].at # "idle"
    PROVE  request[m] \in RequestRow
BY DEF TypeOK, IdleRequest

(* An execution that is there is an execution row                              *)
LEMMA ExecutionTypes ==
    ASSUME TypeOK, NEW e \in ExecutionId, executions[e].state # "absent"
    PROVE  executions[e] \in ExecutionRow
BY DEF TypeOK, AbsentRow

(* A review that is there is a review row                                      *)
LEMMA ReviewTypes ==
    ASSUME TypeOK, NEW r \in ReviewId, reviews[r].state # "absent"
    PROVE  reviews[r] \in ReviewRow
BY DEF TypeOK, AbsentRow

(* The updates that several actions share give typed tables.                   *)
LEMMA UpdateTypes ==
    ASSUME TypeOK
    PROVE  /\ \A t \in Task, s \in {"queued", "assigned", "review", "merge_pending",
                                    "done", "cancelled"} :
                 SetTask(t, s) \in [Task -> TaskRow]
           /\ \A m \in Request : Over(m) \in [Request -> RequestRow \union {IdleRequest}]
           /\ \A m \in Request : \A at \in {"verify", "integrate", "decide", "publish",
                                            "push", "record", "conflict", "rereview"} :
                 request[m].at # "idle" =>
                    /\ At(m, at) \in [Request -> RequestRow \union {IdleRequest}]
                    /\ \A s \in Snapshot :
                          Found(m, at, s) \in [Request -> RequestRow \union {IdleRequest}]
<1>1. ASSUME NEW t \in Task, NEW s \in {"queued", "assigned", "review", "merge_pending",
                                        "done", "cancelled"}
      PROVE  SetTask(t, s) \in [Task -> TaskRow]
  BY <1>1 DEF TypeOK, SetTask, TaskRow
<1>2. ASSUME NEW m \in Request
      PROVE  Over(m) \in [Request -> RequestRow \union {IdleRequest}]
  BY DEF TypeOK, Over
<1>3. ASSUME NEW m \in Request, request[m].at # "idle",
             NEW at \in {"verify", "integrate", "decide", "publish", "push", "record",
                         "conflict", "rereview"}
      PROVE  At(m, at) \in [Request -> RequestRow \union {IdleRequest}]
  <2>1. request[m] \in RequestRow
    BY <1>3, RequestTypes
  <2>2. [request[m] EXCEPT !.at = at] \in RequestRow
    BY <2>1 DEF RequestRow
  <2> QED
    BY <2>2 DEF At, TypeOK
<1>4. ASSUME NEW m \in Request, request[m].at # "idle",
             NEW at \in {"verify", "integrate", "decide", "publish", "push", "record",
                         "conflict", "rereview"},
             NEW s \in Snapshot
      PROVE  Found(m, at, s) \in [Request -> RequestRow \union {IdleRequest}]
  <2>1. request[m] \in RequestRow
    BY <1>4, RequestTypes
  <2>2. [request[m] EXCEPT !.at = at, !.found = s] \in RequestRow
    BY <2>1 DEF RequestRow
  <2> QED
    BY <2>2 DEF Found, TypeOK
<1> QED
  BY <1>1, <1>2, <1>3, <1>4

(* At moves a request on, Found also gives it a snapshot; the rest stays.      *)
LEMMA MovesOn ==
    ASSUME TypeOK, NEW m \in Request, request[m].at # "idle", NEW at, NEW s
    PROVE  /\ At(m, at)[m].at = at
           /\ At(m, at)[m].found = request[m].found
           /\ At(m, at)[m].execution = request[m].execution
           /\ At(m, at)[m].task = request[m].task
           /\ At(m, at)[m].purpose = request[m].purpose
           /\ At(m, at)[m].pins = request[m].pins
           /\ Found(m, at, s)[m].at = at
           /\ Found(m, at, s)[m].found = s
           /\ Found(m, at, s)[m].execution = request[m].execution
           /\ Found(m, at, s)[m].task = request[m].task
           /\ Found(m, at, s)[m].purpose = request[m].purpose
           /\ Found(m, at, s)[m].pins = request[m].pins
<1>1. request[m] \in RequestRow
  BY RequestTypes
<1>2. At(m, at)[m] = [request[m] EXCEPT !.at = at]
  BY DEF At, TypeOK
<1>3. Found(m, at, s)[m] = [request[m] EXCEPT !.at = at, !.found = s]
  BY DEF Found, TypeOK
<1> QED
  BY <1>1, <1>2, <1>3 DEF RequestRow

(* What a request publishes is a commit.                                       *)
LEMMA PublicationType ==
    ASSUME NEW row \in RequestRow
    PROVE  Publication(row) \in Commit
BY DEF Publication, RequestRow, Snapshot

(* Implementers keep the types                                                 *)
LEMMA ImplementerTypes ==
    ASSUME TypeOK, NEW e \in ExecutionId, ExecutionStep(e)
    PROVE  TypeOK'
<1>1. executions[e] \in ExecutionRow
  BY ExecutionTypes DEF ExecutionStep, CompleteExecution, LoseExecution, LatePush
<1>2. executions[e].task \in Task
  BY <1>1 DEF ExecutionRow
<1>3. CASE CompleteExecution(e)
  <2>1. [executions[e] EXCEPT !.state = "completed"] \in ExecutionRow
    BY <1>1 DEF ExecutionRow
  <2>2. task' \in [Task -> TaskRow]
    BY <1>2, <1>3, UpdateTypes DEF CompleteExecution
  <2> QED
    BY <1>3, <2>1, <2>2 DEF CompleteExecution, TypeOK
<1>4. CASE LoseExecution(e)
  <2>1. [executions[e] EXCEPT !.state = "lost"] \in ExecutionRow
    BY <1>1 DEF ExecutionRow
  <2>2. task' \in [Task -> TaskRow]
    BY <1>2, <1>4, UpdateTypes DEF LoseExecution
  <2> QED
    BY <1>4, <2>1, <2>2 DEF LoseExecution, TypeOK
<1>5. ASSUME NEW c \in Candidate, LatePush(e, c) PROVE TypeOK'
  <2>1. [executions[e] EXCEPT !.head = c] \in ExecutionRow
    BY <1>1 DEF ExecutionRow
  <2> QED
    BY <1>5, <2>1 DEF LatePush, TypeOK
<1> QED
  BY <1>3, <1>4, <1>5 DEF ExecutionStep

(* Reviewers keep the types                                                    *)
LEMMA ReviewerTypes ==
    ASSUME TypeOK, NEW r \in ReviewId, ReviewStep(r)
    PROVE  TypeOK'
<1>1. reviews[r] \in ReviewRow
  BY ReviewTypes DEF ReviewStep, ApproveReview, RequestChanges, LoseReview,
                     ReleaseReview, CloseReview
<1>2. reviews[r].task \in Task
  BY <1>1 DEF ReviewRow
<1>3. ASSUME NEW s \in {"approved", "retry", "failed", "cancelled"}, CloseReview(r, s)
      PROVE  /\ reviews' \in [ReviewId -> ReviewRow \union {AbsentRow}]
             /\ UNCHANGED <<upstream, executions, request>>
  <2>1. [reviews[r] EXCEPT !.state = s] \in ReviewRow
    BY <1>1, <1>3 DEF ReviewRow
  <2> QED
    BY <1>3, <2>1 DEF CloseReview, TypeOK
<1>4. task' \in [Task -> TaskRow]
  BY <1>2, UpdateTypes DEF ReviewStep, ApproveReview, RequestChanges, LoseReview,
                           ReleaseReview, TypeOK
<1> QED
  BY <1>3, <1>4 DEF ReviewStep, ApproveReview, RequestChanges, LoseReview,
                    ReleaseReview, TypeOK

(* Operators and the queue keep the types                                      *)
LEMMA TaskTypes ==
    ASSUME TypeOK, NEW t \in Task, TaskStep(t)
    PROVE  TypeOK'
<1>1. ASSUME NEW c \in Candidate, ClaimTask(t, c) PROVE TypeOK'
  <2> DEFINE row == [task |-> t, state |-> "active", base |-> upstream,
                     candidate |-> c, head |-> c, integration |-> NoSnapshot]
  <2>1. row \in ExecutionRow
    BY DEF ExecutionRow, NoSnapshot, Snapshot, Commit, TypeOK
  <2>2. PICK e \in ExecutionId : executions' = [executions EXCEPT ![e] = row]
    BY <1>1 DEF ClaimTask
  <2> HIDE DEF row
  <2>3. executions' \in [ExecutionId -> ExecutionRow \union {AbsentRow}]
    BY <2>1, <2>2 DEF TypeOK
  <2> QED
    BY <1>1, <2>3, UpdateTypes DEF ClaimTask, TypeOK
<1>2. CASE RetryTask(t)
  BY <1>2, UpdateTypes DEF RetryTask, TypeOK
<1>3. CASE DeleteTask(t)
  BY <1>3, UpdateTypes DEF DeleteTask, TypeOK
<1> QED
  BY <1>1, <1>2, <1>3 DEF TaskStep

(* A snapshot begins with nothing found.                                       *)
LEMMA BeginTypes ==
    ASSUME TypeOK, NEW m \in Request, NEW purpose \in {"review", "merge"}, NEW t \in Task,
           NEW e \in ExecutionId, NEW pins \in Snapshot,
           BeginSnapshot(m, purpose, t, e, pins)
    PROVE  request' \in [Request -> RequestRow \union {IdleRequest}]
<1> DEFINE row == [at |-> "verify", purpose |-> purpose, task |-> t, execution |-> e,
                   pins |-> pins, found |-> NoSnapshot]
<1>1. row \in RequestRow
  BY DEF RequestRow, NoSnapshot, Snapshot, Commit
<1>2. request' = [request EXCEPT ![m] = row]
  BY DEF BeginSnapshot
<1> HIDE DEF row
<1> QED
  BY <1>1, <1>2 DEF TypeOK

(* A snapshot saved with an execution is a snapshot                            *)
LEMMA SavedTypes ==
    ASSUME TypeOK, NEW m \in Request, request[m].at # "idle", SaveSnapshot(m),
           executions[request[m].execution].state # "absent"
    PROVE  executions' \in [ExecutionId -> ExecutionRow \union {AbsentRow}]
<1> DEFINE e == request[m].execution
           row == [executions[e] EXCEPT !.integration = request[m].found]
<1>1. request[m] \in RequestRow
  BY RequestTypes
<1>2. e \in ExecutionId /\ request[m].found \in Snapshot
  BY <1>1 DEF RequestRow
<1>3. row \in ExecutionRow
  BY <1>2, ExecutionTypes DEF ExecutionRow
<1>4. executions' = [executions EXCEPT ![e] = row]
  BY DEF SaveSnapshot
<1> HIDE DEF e, row
<1> QED
  BY <1>2, <1>3, <1>4 DEF TypeOK

-----------------------------------------------------------------------------
(* The inductive invariant: what reviews and requests know of the execution    *)
(* they are about. A snapshot was merged from the candidate, or from what a    *)
(* late push put in its place; which of the two, VerifyAgain decides.          *)

SnapshotOf(e, s) ==
    \E k \in {executions[e].candidate, executions[e].head} :
        s = Merge(k, executions[e].base, s.upstream)
SnapshotOfCandidate(e, s) ==
    s = Merge(executions[e].candidate, executions[e].base, s.upstream)

ReviewKnown(r) ==
    /\ executions[reviews[r].execution].state = "completed"
    /\ executions[reviews[r].execution].task = reviews[r].task
    /\ Clean(reviews[r].pins)
    /\ SnapshotOf(reviews[r].execution, reviews[r].pins)

ApprovalRead(m) ==
    \E r \in ReviewId :
        /\ Approved(r)
        /\ reviews[r].execution = request[m].execution
        /\ reviews[r].pins = request[m].pins

RequestKnown(m) ==
    LET row == request[m]
        e == request[m].execution
    IN /\ executions[e].state = "completed"
       /\ executions[e].task = row.task
       /\ row.purpose = "merge" => ApprovalRead(m)
       /\ row.at \notin {"verify", "integrate"} => SnapshotOf(e, row.found)
       /\ row.at \notin {"verify", "integrate", "decide"} => row.purpose = "merge"
       /\ row.at \in {"publish", "push", "record"} =>
             Clean(row.found) /\ StillReviewed(row.pins, row.found)
       /\ row.at \in {"push", "record"} =>
             SnapshotOfCandidate(e, row.found) /\ SnapshotOfCandidate(e, row.pins)
       /\ row.at = "record" => Publication(row) \subseteq upstream

ReviewsKnown == \A r \in ReviewId : reviews[r].state # "absent" => ReviewKnown(r)
RequestsKnown == \A m \in Request : request[m].at # "idle" => RequestKnown(m)

IInv == TypeOK /\ ReviewsKnown /\ RequestsKnown /\ DoneTasksAreUpstream

(* What no step undoes *)
ExecutionsKept ==
    \A e \in ExecutionId : executions[e].state = "completed" =>
        /\ executions'[e].state = "completed"
        /\ executions'[e].task = executions[e].task
        /\ executions'[e].base = executions[e].base
        /\ executions'[e].candidate = executions[e].candidate
        /\ executions[e].head \in {executions'[e].candidate, executions'[e].head}
ReviewsKept ==
    \A r \in ReviewId : reviews[r].state # "absent" =>
        /\ reviews'[r].state # "absent"
        /\ reviews'[r].task = reviews[r].task
        /\ reviews'[r].execution = reviews[r].execution
        /\ reviews'[r].pins = reviews[r].pins
        /\ Approved(r) => Approved(r)'
Kept == ExecutionsKept /\ ReviewsKept /\ upstream \subseteq upstream'

(* What rows and requests point to                                             *)
LEMMA KnownRows ==
    ASSUME TypeOK
    PROVE  /\ \A r \in ReviewId : reviews[r].state # "absent" => reviews[r].execution \in ExecutionId
           /\ \A m \in Request : request[m].at # "idle" =>
                 /\ request[m].execution \in ExecutionId
                 /\ request[m].task \in Task
                 /\ request[m].pins \in Snapshot
                 /\ request[m].found \in Snapshot
<1>1. ASSUME NEW r \in ReviewId, reviews[r].state # "absent"
      PROVE  reviews[r].execution \in ExecutionId
  BY <1>1, ReviewTypes DEF ReviewRow
<1>2. ASSUME NEW m \in Request, request[m].at # "idle"
      PROVE  request[m] \in RequestRow
  BY <1>2, RequestTypes
<1> QED
  BY <1>1, <1>2 DEF RequestRow

(* A snapshot of a completed execution stays one.                              *)
LEMMA SnapshotsKept ==
    ASSUME ExecutionsKept, NEW e \in ExecutionId, executions[e].state = "completed", NEW s
    PROVE  /\ SnapshotOf(e, s) => SnapshotOf(e, s)'
           /\ SnapshotOfCandidate(e, s) => SnapshotOfCandidate(e, s)'
BY DEF ExecutionsKept, SnapshotOf, SnapshotOfCandidate, Merge, Conflicts, DiffOf

(* What is known of a review stays known, whatever its state becomes.          *)
LEMMA ReviewsStayKnown ==
    ASSUME IInv, Kept, NEW r \in ReviewId, reviews[r].state # "absent"
    PROVE  ReviewKnown(r)'
<1>1. reviews[r].execution \in ExecutionId
  BY KnownRows DEF IInv
<1>2. ReviewKnown(r)
  BY DEF IInv, ReviewsKnown
<1> PICK e \in ExecutionId : e = reviews[r].execution
  BY <1>1
<1> PICK s : s = reviews[r].pins
  OBVIOUS
<1>3. executions[e].state = "completed" /\ (SnapshotOf(e, s) => SnapshotOf(e, s)')
  BY <1>2, SnapshotsKept DEF Kept, ReviewKnown
<1>4. /\ reviews'[r].task = reviews[r].task
      /\ reviews'[r].execution = e
      /\ reviews'[r].pins = s
  BY DEF Kept, ReviewsKept
<1>5. /\ executions'[e].state = "completed"
      /\ executions'[e].task = executions[e].task
  BY <1>3 DEF Kept, ExecutionsKept
<1> QED
  BY <1>2, <1>3, <1>4, <1>5 DEF ReviewKnown, Clean, SnapshotOf

(* What is known of a request that does not move stays known.                  *)
LEMMA RequestsStayKnown ==
    ASSUME IInv, Kept, NEW m \in Request, request[m].at # "idle", request'[m] = request[m]
    PROVE  RequestKnown(m)'
<1>1. request[m].execution \in ExecutionId
  BY KnownRows DEF IInv
<1> PICK e \in ExecutionId : e = request[m].execution
  BY <1>1
<1> PICK found : found = request[m].found
  OBVIOUS
<1> PICK pins : pins = request[m].pins
  OBVIOUS
<1>2. RequestKnown(m)
  BY DEF IInv, RequestsKnown
<1>3. /\ executions[e].state = "completed"
      /\ executions'[e].state = "completed"
      /\ executions'[e].task = executions[e].task
  BY <1>2 DEF Kept, ExecutionsKept, RequestKnown
<1>4. ApprovalRead(m) => ApprovalRead(m)'
  BY DEF ApprovalRead, Kept, ReviewsKept, Approved
<1>5. /\ SnapshotOf(e, found) => SnapshotOf(e, found)'
      /\ SnapshotOfCandidate(e, found) => SnapshotOfCandidate(e, found)'
      /\ SnapshotOfCandidate(e, pins) => SnapshotOfCandidate(e, pins)'
  BY <1>3, SnapshotsKept DEF Kept
<1>6. Publication(request[m]) \subseteq upstream => (Publication(request[m]) \subseteq upstream)'
  BY DEF Kept, Publication
<1> QED
  BY <1>2, <1>3, <1>4, <1>5, <1>6 DEF RequestKnown, SnapshotOf, SnapshotOfCandidate,
     Clean, StillReviewed, Publication

(* What is pushed: the candidate on top of the upstream the snapshot found,    *)
(* and the diff it adds there is the approved one.                             *)
LEMMA PublicationFacts ==
    ASSUME IInv, NEW m \in Request, request[m].at \in {"push", "record"},
           NEW c, c = executions[request[m].execution].candidate
    PROVE  /\ c \in Candidate
           /\ Publication(request[m]) = request[m].found.upstream \union {c}
           /\ request[m].pins.diff = DiffOf(c, executions[request[m].execution].base,
                                            request[m].found.upstream)
<1> PICK e : e = request[m].execution
  OBVIOUS
<1> DEFINE found == request[m].found
           pins == request[m].pins
           base == executions[e].base
<1>1. RequestKnown(m) /\ request[m] \in RequestRow /\ e \in ExecutionId
  BY KnownRows, RequestTypes DEF IInv, RequestsKnown
<1>2. executions[e] \in ExecutionRow
  BY <1>1, ExecutionTypes DEF IInv, RequestKnown
<1>3. /\ c \in Candidate /\ base \in Commit
      /\ found.upstream \in Commit /\ pins.upstream \in Commit
  BY <1>1, <1>2 DEF ExecutionRow, RequestRow, Snapshot
<1>4. /\ Clean(found)
      /\ found = Merge(c, base, found.upstream)
      /\ pins = Merge(c, base, pins.upstream)
      /\ StillReviewed(pins, found)
  BY <1>1 DEF RequestKnown, SnapshotOfCandidate
<1>5. Clean(pins)
  <2>1. PICK r \in ReviewId : Approved(r) /\ reviews[r].pins = pins
    BY <1>1 DEF RequestKnown, ApprovalRead
  <2> QED
    BY <2>1 DEF IInv, ReviewsKnown, ReviewKnown, Approved
<1> HIDE DEF found, pins, base
<1>6. /\ found.integration = found.upstream \union {c}
      /\ found.diff = DiffOf(c, base, found.upstream)
  BY <1>3, <1>4, CleanMerge
<1>7. /\ pins.integration = pins.upstream \union {c}
      /\ pins.diff = DiffOf(c, base, pins.upstream)
  BY <1>3, <1>4, <1>5, CleanMerge
<1>8. Publication(request[m]) =
          IF found.upstream = pins.upstream THEN pins.integration ELSE found.integration
  BY DEF Publication, found, pins
<1>9. /\ Publication(request[m]) = found.upstream \union {c}
      /\ pins.diff = DiffOf(c, base, found.upstream)
  BY <1>4, <1>6, <1>7, <1>8 DEF StillReviewed
<1> QED
  BY <1>3, <1>9 DEF found, pins, base

(* No step takes upstream back, nor what rows say of their past                *)
LEMMA StepKeeps ==
    ASSUME IInv, Next
    PROVE  Kept
<1>1. ASSUME NEW m \in Request, RequestStep(m) PROVE Kept
  <2>1. CASE Push(m)
    <3>1. Publication(request[m]) =
              request[m].found.upstream \union {executions[request[m].execution].candidate}
      BY <2>1, PublicationFacts DEF Push
    <3>2. upstream \subseteq upstream'
      BY <2>1, <3>1 DEF Push, FastForwards
    <3> QED
      BY <2>1, <3>2 DEF Push, Kept, ExecutionsKept, ReviewsKept, Approved
  <2>2. CASE ClaimReview(m) \/ RequeueConflict(m) \/ DecideMerge(m)
    <3>1. ExecutionsKept
      BY <2>2 DEF ClaimReview, RequeueConflict, DecideMerge, SaveSnapshot, IInv, TypeOK,
                  ExecutionsKept, ExecutionRow, AbsentRow
    <3>2. ReviewsKept
      BY <2>2 DEF ClaimReview, RequeueConflict, DecideMerge, FirstAbsent, IInv, TypeOK,
                  ReviewsKept, Approved
    <3> QED
      BY <2>2, <3>1, <3>2 DEF ClaimReview, RequeueConflict, DecideMerge, Kept
  <2>3. CASE UNCHANGED <<upstream, executions, reviews>>
    BY <2>3 DEF Kept, ExecutionsKept, ReviewsKept, Approved
  <2> QED
    BY <1>1, <2>1, <2>2, <2>3 DEF RequestStep, BeginReview, BeginMerge, FetchUpstream,
       Integrate, VerifyAgain, RecordMerged, Rereview, RetryConflict, RequestEnds
<1>2. ASSUME NEW e \in ExecutionId, ExecutionStep(e) PROVE Kept
  <2>1. executions[e] \in ExecutionRow
    BY <1>2, ExecutionTypes DEF ExecutionStep, CompleteExecution, LoseExecution,
                                LatePush, IInv
  <2>2. ExecutionsKept
    BY <1>2, <2>1 DEF ExecutionStep, CompleteExecution, LoseExecution, LatePush,
                      ExecutionsKept, ExecutionRow, IInv, TypeOK
  <2> QED
    BY <1>2, <2>2 DEF ExecutionStep, CompleteExecution, LoseExecution, LatePush,
                      Kept, ReviewsKept, Approved
<1>3. ASSUME NEW r \in ReviewId, ReviewStep(r) PROVE Kept
  <2>1. reviews[r] \in ReviewRow
    BY <1>3, ReviewTypes DEF ReviewStep, ApproveReview, RequestChanges, LoseReview,
                             ReleaseReview, CloseReview, IInv
  <2>2. PICK s \in {"approved", "retry", "failed", "cancelled"} : CloseReview(r, s)
    BY <1>3 DEF ReviewStep, ApproveReview, RequestChanges, LoseReview, ReleaseReview
  <2>3. ReviewsKept
    BY <2>1, <2>2 DEF CloseReview, ReviewsKept, Approved, ReviewRow, IInv, TypeOK
  <2> QED
    BY <2>2, <2>3 DEF CloseReview, Kept, ExecutionsKept
<1>4. ASSUME NEW t \in Task, TaskStep(t) PROVE Kept
  <2>1. CASE \E c \in Candidate : ClaimTask(t, c)
    <3>1. ExecutionsKept
      BY <2>1 DEF ClaimTask, FirstAbsent, ExecutionsKept, IInv, TypeOK
    <3> QED
      BY <2>1, <3>1 DEF ClaimTask, Kept, ReviewsKept, Approved
  <2>2. CASE RetryTask(t) \/ DeleteTask(t)
    BY <2>2 DEF RetryTask, DeleteTask, Kept, ExecutionsKept, ReviewsKept, Approved
  <2> QED
    BY <1>4, <2>1, <2>2 DEF TaskStep
<1>5. ASSUME NEW x \in Foreign, ForeignPush(x) PROVE Kept
  BY <1>5 DEF ForeignPush, Kept, ExecutionsKept, ReviewsKept, Approved
<1> QED
  BY <1>1, <1>2, <1>3, <1>4, <1>5 DEF Next

-----------------------------------------------------------------------------
(* Steps of a request: types *)

(* A review claim begins                                                       *)
LEMMA BeginReviewTypes ==
    ASSUME TypeOK, NEW m \in Request, NEW t \in Task, BeginReview(m, t)
    PROVE  TypeOK'
<1>1. PICK e \in ExecutionId :
         /\ IsCandidate(t, e)
         /\ IF Reusable(t, e, executions[e].integration)
            THEN request' = [request EXCEPT ![m] =
                    [at |-> "decide", purpose |-> "review", task |-> t, execution |-> e,
                     pins |-> NoSnapshot, found |-> executions[e].integration]]
            ELSE BeginSnapshot(m, "review", t, e, NoSnapshot)
  BY DEF BeginReview
<1>2. NoSnapshot \in Snapshot
  BY DEF NoSnapshot, Snapshot, Commit
<1>3. executions[e].state = "completed"
  BY <1>1 DEF IsCandidate, IsLast
<1>4. executions[e].integration \in Snapshot
  BY <1>3, ExecutionTypes DEF ExecutionRow
<1>5. request' \in [Request -> RequestRow \union {IdleRequest}]
  <2>1. CASE Reusable(t, e, executions[e].integration)
    <3> DEFINE row == [at |-> "decide", purpose |-> "review", task |-> t, execution |-> e,
                       pins |-> NoSnapshot, found |-> executions[e].integration]
    <3>1. row \in RequestRow
      BY <1>2, <1>4 DEF RequestRow
    <3>2. request' = [request EXCEPT ![m] = row]
      BY <1>1, <2>1
    <3> HIDE DEF row
    <3> QED
      BY <3>1, <3>2 DEF TypeOK
  <2>2. CASE ~Reusable(t, e, executions[e].integration)
    BY <1>1, <1>2, <2>2, BeginTypes
  <2> QED
    BY <2>1, <2>2
<1> QED
  BY <1>5 DEF BeginReview, TypeOK

(* A merge request begins                                                      *)
LEMMA BeginMergeTypes ==
    ASSUME TypeOK, NEW m \in Request, NEW t \in Task, BeginMerge(m, t)
    PROVE  TypeOK'
<1>1. PICK e \in ExecutionId, r \in ReviewId :
         /\ IsLast(ReviewsIn(t, e, "approved"), r)
         /\ BeginSnapshot(m, "merge", t, e, reviews[r].pins)
  BY DEF BeginMerge
<1>2. reviews[r].state = "approved"
  BY <1>1 DEF IsLast, ReviewsIn
<1>3. reviews[r].pins \in Snapshot
  BY <1>2, ReviewTypes DEF ReviewRow
<1>4. request' \in [Request -> RequestRow \union {IdleRequest}]
  BY <1>1, <1>3, BeginTypes
<1> QED
  BY <1>4 DEF BeginMerge, TypeOK

(* The snapshot of a request                                                   *)
LEMMA SnapshotStepTypes ==
    ASSUME IInv, NEW m \in Request, FetchUpstream(m) \/ Integrate(m)
    PROVE  TypeOK'
<1>1. TypeOK /\ request[m].at # "idle"
  BY DEF IInv, FetchUpstream, Integrate
<1>2. request[m].execution \in ExecutionId /\ request[m].found.upstream \in Commit
  BY <1>1, RequestTypes DEF RequestRow, Snapshot
<1>3. executions[request[m].execution] \in ExecutionRow
  BY <1>1, <1>2, ExecutionTypes DEF IInv, RequestsKnown, RequestKnown
<1>4. CASE FetchUpstream(m)
  <2>1. [NoSnapshot EXCEPT !.upstream = upstream] \in Snapshot
    BY <1>1 DEF NoSnapshot, Snapshot, Commit, TypeOK
  <2>2. request' \in [Request -> RequestRow \union {IdleRequest}]
    BY <1>1, <1>4, <2>1, UpdateTypes DEF FetchUpstream
  <2> QED
    BY <1>1, <1>4, <2>2 DEF FetchUpstream, TypeOK
<1>5. CASE Integrate(m)
  <2> DEFINE row == executions[request[m].execution]
             u == request[m].found.upstream
             c == IF u = row.base THEN row.candidate ELSE row.head
  <2>1. c \in Candidate /\ row.base \in Commit
    BY <1>3 DEF ExecutionRow
  <2>2. Merge(c, row.base, u) \in Snapshot
    BY <1>2, <2>1, MergeType
  <2>3. request' = Found(m, "decide", Merge(c, row.base, u))
    BY <1>5 DEF Integrate
  <2>4. request' \in [Request -> RequestRow \union {IdleRequest}]
    BY <1>1, <2>2, <2>3, UpdateTypes
  <2> QED
    BY <1>1, <1>5, <2>4 DEF Integrate, TypeOK
<1> QED
  BY <1>4, <1>5

(* What a request does with its snapshot                                       *)
LEMMA DecisionTypes ==
    ASSUME IInv, NEW m \in Request, ClaimReview(m) \/ RequeueConflict(m) \/ DecideMerge(m)
    PROVE  TypeOK'
<1>1. TypeOK /\ request[m].at # "idle" /\ SaveSnapshot(m)
  BY DEF IInv, ClaimReview, RequeueConflict, DecideMerge
<1>2. executions[request[m].execution].state # "absent"
  BY <1>1 DEF IInv, RequestsKnown, RequestKnown
<1>3. executions' \in [ExecutionId -> ExecutionRow \union {AbsentRow}]
  BY <1>1, <1>2, SavedTypes
<1>4. request[m] \in RequestRow
  BY <1>1, RequestTypes
<1>5. Over(m) \in [Request -> RequestRow \union {IdleRequest}]
  BY <1>1, UpdateTypes
<1>6. CASE ClaimReview(m)
  <2> DEFINE row == [task |-> request[m].task, execution |-> request[m].execution,
                     pins |-> request[m].found, state |-> "active"]
  <2>1. row \in ReviewRow
    BY <1>4 DEF RequestRow, ReviewRow
  <2>2. PICK r \in ReviewId : reviews' = [reviews EXCEPT ![r] = row]
    BY <1>6 DEF ClaimReview
  <2> HIDE DEF row
  <2>3. reviews' \in [ReviewId -> ReviewRow \union {AbsentRow}]
    BY <1>1, <2>1, <2>2 DEF TypeOK
  <2> QED
    BY <1>1, <1>3, <1>5, <1>6, <2>3 DEF ClaimReview, TypeOK
<1>7. CASE RequeueConflict(m)
  <2>1. SetTask(request[m].task, "queued") \in [Task -> TaskRow]
    BY <1>1, <1>4, UpdateTypes DEF RequestRow
  <2> QED
    BY <1>1, <1>3, <1>5, <1>7, <2>1 DEF RequeueConflict, TypeOK
<1>8. CASE DecideMerge(m)
  <2>1. PICK at \in {"conflict", "publish", "rereview"} : request' = At(m, at)
    BY <1>8 DEF DecideMerge
  <2>2. request' \in [Request -> RequestRow \union {IdleRequest}]
    BY <1>1, <2>1, UpdateTypes
  <2> QED
    BY <1>1, <1>3, <1>8, <2>2 DEF DecideMerge, TypeOK
<1> QED
  BY <1>6, <1>7, <1>8

(* From the second check of the branch to the record                           *)
LEMMA PublishTypes ==
    ASSUME TypeOK, NEW m \in Request,
           \/ VerifyAgain(m) \/ Push(m) \/ RecordMerged(m)
           \/ Rereview(m) \/ RetryConflict(m) \/ RequestEnds(m)
    PROVE  TypeOK'
<1>1. request[m].at # "idle"
  BY DEF VerifyAgain, Push, RecordMerged, Rereview, RetryConflict, RequestEnds
<1>2. request[m] \in RequestRow /\ request[m].task \in Task
  BY <1>1, RequestTypes DEF RequestRow
<1>3. Publication(request[m]) \in Commit
  BY <1>2, PublicationType
<1>4. request' \in [Request -> RequestRow \union {IdleRequest}]
  BY <1>1, UpdateTypes DEF VerifyAgain, Push, AfterPush, RecordMerged, Rereview,
                           RetryConflict, RequestEnds
<1>5. upstream' \in Commit
  BY <1>3 DEF VerifyAgain, Push, RecordMerged, Rereview, RetryConflict, RequestEnds, TypeOK
<1>6. task' \in [Task -> TaskRow]
  <2>1. CASE RecordMerged(m)
    BY <1>2, <1>3, <2>1 DEF RecordMerged, TypeOK, TaskRow
  <2>2. CASE Rereview(m) \/ RetryConflict(m)
    BY <1>2, <2>2, UpdateTypes DEF Rereview, RetryConflict
  <2>3. CASE UNCHANGED task
    BY <2>3 DEF TypeOK
  <2> QED
    BY <2>1, <2>2, <2>3 DEF VerifyAgain, Push, RequestEnds
<1> QED
  BY <1>4, <1>5, <1>6 DEF VerifyAgain, Push, RecordMerged, Rereview, RetryConflict,
                          RequestEnds, TypeOK

(* Every step keeps the types.                                                 *)
LEMMA StepTypes ==
    ASSUME IInv, Next
    PROVE  TypeOK'
<1>1. TypeOK
  BY DEF IInv
<1>2. ASSUME NEW m \in Request, RequestStep(m) PROVE TypeOK'
  BY <1>1, <1>2, BeginReviewTypes, BeginMergeTypes, SnapshotStepTypes, DecisionTypes,
     PublishTypes DEF RequestStep
<1>3. ASSUME NEW x \in Foreign, ForeignPush(x) PROVE TypeOK'
  BY <1>1, <1>3 DEF ForeignPush, TypeOK, Commit, Change
<1> QED
  BY <1>1, <1>2, <1>3, ImplementerTypes, ReviewerTypes, TaskTypes DEF Next

-----------------------------------------------------------------------------
(* Steps of a request: what is known *)

(* A request that goes on with its execution, task, purpose and pins keeps     *)
(* what it knew of them.                                                       *)
LEMMA MovedRequest ==
    ASSUME IInv, Kept, NEW m \in Request, request[m].at # "idle",
           request'[m].execution = request[m].execution,
           request'[m].task = request[m].task,
           request'[m].purpose = request[m].purpose,
           request'[m].pins = request[m].pins
    PROVE  /\ executions'[request'[m].execution].state = "completed"
           /\ executions'[request'[m].execution].task = request'[m].task
           /\ request'[m].purpose = "merge" => ApprovalRead(m)'
           /\ /\ request[m].at \notin {"verify", "integrate"}
              /\ request'[m].found = request[m].found
              => SnapshotOf(request[m].execution, request[m].found)'
<1>1. RequestKnown(m) /\ request[m].execution \in ExecutionId
  BY KnownRows DEF IInv, RequestsKnown
<1> PICK e \in ExecutionId : e = request[m].execution
  BY <1>1
<1> PICK found : found = request[m].found
  OBVIOUS
<1>2. /\ executions'[e].state = "completed"
      /\ executions'[e].task = executions[e].task
      /\ executions[e].task = request[m].task
  BY <1>1 DEF RequestKnown, Kept, ExecutionsKept
<1>3. ApprovalRead(m) => ApprovalRead(m)'
  BY DEF ApprovalRead, Kept, ReviewsKept, Approved
<1>4. SnapshotOf(e, found) => SnapshotOf(e, found)'
  BY <1>1, SnapshotsKept DEF Kept, RequestKnown
<1>5. request[m].at \notin {"verify", "integrate"} => SnapshotOf(e, found)
  BY <1>1 DEF RequestKnown
<1>6. /\ request'[m].found = found => (SnapshotOf(e, found)' =>
            SnapshotOf(request[m].execution, request[m].found)')
  BY DEF SnapshotOf
<1> QED
  BY <1>1, <1>2, <1>3, <1>4, <1>5, <1>6 DEF RequestKnown

(* A review claim that begins knows nothing but its candidate                  *)
LEMMA BeginReviewKnown ==
    ASSUME IInv, NEW m \in Request, NEW t \in Task, BeginReview(m, t)
    PROVE  RequestKnown(m)'
<1>1. PICK e \in ExecutionId :
         /\ IsCandidate(t, e)
         /\ IF Reusable(t, e, executions[e].integration)
            THEN request' = [request EXCEPT ![m] =
                    [at |-> "decide", purpose |-> "review", task |-> t, execution |-> e,
                     pins |-> NoSnapshot, found |-> executions[e].integration]]
            ELSE BeginSnapshot(m, "review", t, e, NoSnapshot)
  BY DEF BeginReview
<1>2. /\ executions[e].state = "completed" /\ executions[e].task = t
      /\ UNCHANGED executions
  BY <1>1 DEF IsCandidate, IsLast, ExecutionsOf, BeginReview
<1>3. CASE Reusable(t, e, executions[e].integration)
  <2>1. PICK r \in ReviewId :
           /\ reviews[r].state = "failed" /\ reviews[r].execution = e
           /\ reviews[r].pins = executions[e].integration
    BY <1>3 DEF Reusable, IsLast, ReviewsIn
  <2>2. SnapshotOf(e, executions[e].integration)
    BY <2>1 DEF IInv, ReviewsKnown, ReviewKnown
  <2>3. /\ request'[m].at = "decide" /\ request'[m].purpose = "review"
        /\ request'[m].task = t /\ request'[m].execution = e
        /\ request'[m].found = executions[e].integration
    BY <1>1, <1>3 DEF IInv, TypeOK
  <2> QED
    BY <1>2, <2>2, <2>3 DEF RequestKnown, SnapshotOf
<1>4. CASE ~Reusable(t, e, executions[e].integration)
  <2>1. /\ request'[m].at = "verify" /\ request'[m].purpose = "review"
        /\ request'[m].task = t /\ request'[m].execution = e
    BY <1>1, <1>4 DEF BeginSnapshot, IInv, TypeOK
  <2> QED
    BY <1>2, <2>1 DEF RequestKnown
<1> QED
  BY <1>3, <1>4

(* A merge request has read the approval of its candidate                      *)
LEMMA BeginMergeKnown ==
    ASSUME IInv, NEW m \in Request, NEW t \in Task, BeginMerge(m, t)
    PROVE  RequestKnown(m)'
<1>1. PICK e \in ExecutionId, r \in ReviewId :
         /\ IsLast(ReviewsIn(t, e, "approved"), r)
         /\ BeginSnapshot(m, "merge", t, e, reviews[r].pins)
  BY DEF BeginMerge
<1>2. Approved(r) /\ reviews[r].execution = e /\ reviews[r].task = t
  BY <1>1 DEF IsLast, ReviewsIn, ReviewsOf, Approved
<1>3. executions[e].state = "completed" /\ executions[e].task = t
  BY <1>2 DEF IInv, ReviewsKnown, ReviewKnown, Approved
<1>4. /\ request'[m].at = "verify" /\ request'[m].purpose = "merge"
      /\ request'[m].task = t /\ request'[m].execution = e
      /\ request'[m].pins = reviews[r].pins
  BY <1>1 DEF BeginSnapshot, IInv, TypeOK
<1> QED
  BY <1>2, <1>3, <1>4 DEF RequestKnown, ApprovalRead, Approved, BeginMerge

(* A snapshot is of the candidate or of the branch's later head                *)
LEMMA SnapshotStepKnown ==
    ASSUME IInv, Kept, NEW m \in Request, FetchUpstream(m) \/ Integrate(m)
    PROVE  RequestKnown(m)'
<1>1. TypeOK /\ request[m].at \in {"verify", "integrate"}
  BY DEF IInv, FetchUpstream, Integrate
<1>2. request[m] \in RequestRow
  BY <1>1, RequestTypes
<1>3. /\ request'[m].execution = request[m].execution
      /\ request'[m].task = request[m].task
      /\ request'[m].purpose = request[m].purpose
      /\ request'[m].pins = request[m].pins
  BY <1>1, MovesOn DEF FetchUpstream, Integrate
<1>4. /\ executions'[request'[m].execution].state = "completed"
      /\ executions'[request'[m].execution].task = request'[m].task
      /\ request'[m].purpose = "merge" => ApprovalRead(m)'
  BY <1>1, <1>3, MovedRequest
<1>5. CASE FetchUpstream(m)
  <2>1. request'[m].at = "integrate"
    BY <1>1, <1>5, MovesOn DEF FetchUpstream
  <2> QED
    BY <1>4, <2>1 DEF RequestKnown
<1>6. CASE Integrate(m)
  <2> PICK e \in ExecutionId : e = request[m].execution
    BY <1>2 DEF RequestRow
  <2>1. executions[e] \in ExecutionRow
    BY <1>1, ExecutionTypes DEF IInv, RequestsKnown, RequestKnown
  <2> PICK base \in Commit : base = executions[e].base
    BY <2>1 DEF ExecutionRow
  <2> PICK u \in Commit : u = request[m].found.upstream
    BY <1>2 DEF RequestRow, Snapshot
  <2>2. PICK k \in {executions[e].candidate, executions[e].head} :
           request' = Found(m, "decide", Merge(k, base, u))
    BY <1>6 DEF Integrate
  <2>3. Merge(k, base, u).upstream = u
    BY <2>1, <2>2, MergeType DEF ExecutionRow
  <2>4. request'[m].at = "decide" /\ request'[m].found = Merge(k, base, u)
    BY <1>1, <2>2, MovesOn
  <2>5. SnapshotOf(e, Merge(k, base, u))
    BY <2>3 DEF SnapshotOf
  <2>6. executions' = executions
    BY <1>6 DEF Integrate
  <2> QED
    BY <1>3, <1>4, <2>4, <2>5, <2>6 DEF RequestKnown, SnapshotOf
<1> QED
  BY <1>5, <1>6

(* A request that is to publish agrees with the approved pins                  *)
LEMMA DecisionKnown ==
    ASSUME IInv, Kept, NEW m \in Request, DecideMerge(m)
    PROVE  RequestKnown(m)'
<1>1. TypeOK /\ request[m].at = "decide" /\ request[m].purpose = "merge"
  BY DEF IInv, DecideMerge
<1>2. request[m] \in RequestRow
  BY <1>1, RequestTypes
<1>3. PICK at \in {"conflict", "publish", "rereview"} :
         /\ request' = At(m, at)
         /\ at = "publish" => /\ Clean(request[m].found)
                              /\ StillReviewed(request[m].pins, request[m].found)
  <2>1. CASE ~Clean(request[m].found)
    <3>1. request' = At(m, "conflict")
      BY <2>1, Zenon DEF DecideMerge
    <3> QED
      BY <3>1
  <2>2. CASE /\ Clean(request[m].found)
             /\ StillReviewed(request[m].pins, request[m].found)
    <3>1. request' = At(m, "publish")
      BY <2>2, Zenon DEF DecideMerge
    <3> QED
      BY <2>2, <3>1
  <2>3. CASE /\ Clean(request[m].found)
             /\ ~StillReviewed(request[m].pins, request[m].found)
    <3>1. request' = At(m, "rereview")
      BY <2>3, Zenon DEF DecideMerge
    <3> QED
      BY <3>1
  <2> QED
    BY <2>1, <2>2, <2>3
<1>4. /\ request'[m].execution = request[m].execution
      /\ request'[m].task = request[m].task
      /\ request'[m].purpose = request[m].purpose
      /\ request'[m].pins = request[m].pins
      /\ request'[m].found = request[m].found
      /\ request'[m].at = at
  BY <1>1, <1>3, MovesOn
<1>5. /\ executions'[request'[m].execution].state = "completed"
      /\ executions'[request'[m].execution].task = request'[m].task
      /\ request'[m].purpose = "merge" => ApprovalRead(m)'
      /\ SnapshotOf(request[m].execution, request[m].found)'
  BY <1>1, <1>4, MovedRequest
<1> QED
  BY <1>1, <1>3, <1>4, <1>5 DEF RequestKnown, Clean, StillReviewed, SnapshotOf

(* The branch still points at the candidate: whatever of the two a snapshot    *)
(* was merged from before, it is a snapshot of the candidate.                  *)
LEMMA VerifyAgainKnown ==
    ASSUME IInv, Kept, NEW m \in Request, VerifyAgain(m)
    PROVE  RequestKnown(m)'
<1>1. TypeOK /\ request[m].at = "publish" /\ UNCHANGED <<upstream, executions, reviews>>
  BY DEF IInv, VerifyAgain
<1>2. request[m] \in RequestRow /\ RequestKnown(m)
  BY <1>1, RequestTypes DEF IInv, RequestsKnown
<1>3. /\ request'[m].execution = request[m].execution
      /\ request'[m].task = request[m].task
      /\ request'[m].purpose = request[m].purpose
      /\ request'[m].pins = request[m].pins
      /\ request'[m].found = request[m].found
      /\ request'[m].at = "push"
  BY <1>1, MovesOn DEF VerifyAgain
<1>4. executions[request[m].execution].head = executions[request[m].execution].candidate
  BY DEF VerifyAgain
<1>5. SnapshotOfCandidate(request[m].execution, request[m].found)
  BY <1>1, <1>2, <1>4 DEF RequestKnown, SnapshotOf, SnapshotOfCandidate
<1>6. SnapshotOfCandidate(request[m].execution, request[m].pins)
  <2>1. PICK r \in ReviewId : /\ Approved(r)
                              /\ reviews[r].execution = request[m].execution
                              /\ reviews[r].pins = request[m].pins
    BY <1>1, <1>2 DEF RequestKnown, ApprovalRead
  <2>2. SnapshotOf(request[m].execution, request[m].pins)
    BY <2>1 DEF IInv, ReviewsKnown, ReviewKnown, Approved
  <2> QED
    BY <1>4, <2>2 DEF SnapshotOf, SnapshotOfCandidate
<1> QED
  BY <1>1, <1>2, <1>3, <1>5, <1>6 DEF RequestKnown, ApprovalRead, Approved, Clean,
     StillReviewed, SnapshotOf, SnapshotOfCandidate

(* A push that was refused or came through                                     *)
LEMMA PushKnown ==
    ASSUME IInv, Kept, NEW m \in Request, Push(m), request'[m].at # "idle"
    PROVE  RequestKnown(m)'
<1>1. TypeOK /\ request[m].at = "push" /\ UNCHANGED <<executions, reviews>>
  BY DEF IInv, Push
<1>2. request[m] \in RequestRow /\ RequestKnown(m)
  BY <1>1, RequestTypes DEF IInv, RequestsKnown
<1>3. FastForwards(request[m]) /\ request' = At(m, "record")
  BY <1>1 DEF Push, AfterPush, Over, IdleRequest, TypeOK
<1>4. /\ request'[m].execution = request[m].execution
      /\ request'[m].task = request[m].task
      /\ request'[m].purpose = request[m].purpose
      /\ request'[m].pins = request[m].pins
      /\ request'[m].found = request[m].found
      /\ request'[m].at = "record"
  BY <1>1, <1>3, MovesOn
<1>5. upstream' = Publication(request[m])
  BY <1>3 DEF Push
<1> QED
  BY <1>1, <1>2, <1>4, <1>5 DEF RequestKnown, ApprovalRead, Approved, Clean,
     StillReviewed, SnapshotOf, SnapshotOfCandidate, Publication

(* A request step leaves its own request idle or knowing what it relies on.    *)
LEMMA MoverKnown ==
    ASSUME IInv, Kept, NEW m \in Request, RequestStep(m), request'[m].at # "idle"
    PROVE  RequestKnown(m)'
<1>1. request'[m] # IdleRequest
  BY DEF IdleRequest
<1>2. \/ \E t \in Task : BeginReview(m, t) \/ BeginMerge(m, t)
      \/ FetchUpstream(m) \/ Integrate(m) \/ DecideMerge(m) \/ VerifyAgain(m) \/ Push(m)
  BY <1>1 DEF RequestStep, ClaimReview, RequeueConflict, RecordMerged, Rereview,
              RetryConflict, RequestEnds, Over, IInv, TypeOK
<1> QED
  BY <1>2, BeginReviewKnown, BeginMergeKnown, SnapshotStepKnown, DecisionKnown,
     VerifyAgainKnown, PushKnown

(* Every step keeps what every request knows                                   *)
LEMMA StepRequestsKnown ==
    ASSUME IInv, Next
    PROVE  RequestsKnown'
<1>1. Kept
  BY StepKeeps
<1> SUFFICES ASSUME NEW n \in Request, request'[n].at # "idle"
             PROVE  RequestKnown(n)'
  BY DEF RequestsKnown
<1>2. CASE request'[n] = request[n]
  BY <1>1, <1>2, RequestsStayKnown
<1>3. CASE request'[n] # request[n]
  <2>1. PICK m \in Request : RequestStep(m)
    BY <1>3 DEF Next, ExecutionStep, CompleteExecution, LoseExecution, LatePush,
       ReviewStep, ApproveReview, RequestChanges, LoseReview, ReleaseReview, CloseReview,
       TaskStep, ClaimTask, RetryTask, DeleteTask, ForeignPush
  <2>2. m = n
    BY <1>3, <2>1 DEF RequestStep, BeginReview, BeginMerge, BeginSnapshot, FetchUpstream,
       Integrate, ClaimReview, RequeueConflict, DecideMerge, VerifyAgain, Push, AfterPush,
       RecordMerged, Rereview, RetryConflict, RequestEnds, At, Found, Over, IInv, TypeOK
  <2> QED
    BY <1>1, <2>1, <2>2, MoverKnown
<1> QED
  BY <1>2, <1>3

(* The row of a new review is the request's: a clean snapshot of the execution *)
(* whose candidate it is about.                                                *)
LEMMA ClaimedReviewKnown ==
    ASSUME IInv, Kept, NEW m \in Request, ClaimReview(m), NEW r \in ReviewId,
           reviews[r].state = "absent", reviews'[r].state # "absent"
    PROVE  ReviewKnown(r)'
<1>1. RequestKnown(m) /\ request[m].execution \in ExecutionId
  BY KnownRows DEF IInv, RequestsKnown, ClaimReview
<1> PICK e \in ExecutionId : e = request[m].execution
  BY <1>1
<1> PICK found : found = request[m].found
  OBVIOUS
<1>2. /\ reviews'[r].task = request[m].task
      /\ reviews'[r].execution = e
      /\ reviews'[r].pins = found
  BY DEF ClaimReview, IInv, TypeOK
<1>3. SnapshotOf(e, found)
  BY <1>1 DEF ClaimReview, RequestKnown
<1>4. /\ executions[e].state = "completed"
      /\ executions'[e].state = "completed"
      /\ executions'[e].task = request[m].task
  BY <1>1 DEF RequestKnown, Kept, ExecutionsKept
<1>5. SnapshotOf(e, found)'
  BY <1>3, <1>4, SnapshotsKept DEF Kept
<1>6. Clean(found)
  BY DEF ClaimReview
<1> QED
  BY <1>2, <1>4, <1>5, <1>6 DEF ReviewKnown, SnapshotOf, Clean

(* Every step keeps what every review pins                                     *)
LEMMA StepReviewsKnown ==
    ASSUME IInv, Next
    PROVE  ReviewsKnown'
<1>1. Kept
  BY StepKeeps
<1> SUFFICES ASSUME NEW r \in ReviewId, reviews'[r].state # "absent"
             PROVE  ReviewKnown(r)'
  BY DEF ReviewsKnown
<1>2. CASE reviews[r].state # "absent"
  BY <1>1, <1>2, ReviewsStayKnown
<1>3. CASE reviews[r].state = "absent"
  <2>1. \E m \in Request : ClaimReview(m)
    BY <1>3 DEF Next, RequestStep, BeginReview, BeginMerge, FetchUpstream, Integrate,
       RequeueConflict, DecideMerge, VerifyAgain, Push, RecordMerged, Rereview,
       RetryConflict, RequestEnds, ExecutionStep, CompleteExecution, LoseExecution,
       LatePush, ReviewStep, ApproveReview, RequestChanges, LoseReview, ReleaseReview,
       CloseReview, TaskStep, ClaimTask, RetryTask, DeleteTask, ForeignPush, IInv, TypeOK
  <2> QED
    BY <1>1, <1>3, <2>1, ClaimedReviewKnown
<1> QED
  BY <1>2, <1>3

(* A task that a step makes done has its commit, with an approved candidate of *)
(* its own, in upstream.                                                       *)
LEMMA RecordedIsPublished ==
    ASSUME IInv, NEW m \in Request, RecordMerged(m), NEW t, t = request[m].task
    PROVE  /\ task' = [task EXCEPT ![t] = [state |-> "done",
                                           merged |-> Publication(request[m])]]
           /\ Publication(request[m]) \subseteq upstream
           /\ \E r \in ReviewsOf(t) :
                 /\ Approved(r)
                 /\ executions[reviews[r].execution].candidate \in Publication(request[m])
<1>1. RequestKnown(m) /\ request[m].at = "record"
  BY DEF IInv, RequestsKnown, RecordMerged
<1>2. PICK r \in ReviewId : Approved(r) /\ reviews[r].execution = request[m].execution
  BY <1>1 DEF RequestKnown, ApprovalRead
<1>3. r \in ReviewsOf(t)
  <2>1. reviews[r].state # "absent" /\ ReviewKnown(r)
    BY <1>2 DEF IInv, ReviewsKnown, Approved
  <2>2. reviews[r].task = t
    BY <1>1, <1>2, <2>1 DEF ReviewKnown, RequestKnown
  <2> QED
    BY <2>1, <2>2 DEF ReviewsOf
<1>4. executions[reviews[r].execution].candidate \in Publication(request[m])
  <2>1. PICK c : c = executions[request[m].execution].candidate
    OBVIOUS
  <2>2. Publication(request[m]) = request[m].found.upstream \union {c}
    BY <1>1, <2>1, PublicationFacts
  <2> QED
    BY <1>2, <2>1, <2>2
<1> QED
  BY <1>1, <1>2, <1>3, <1>4 DEF RequestKnown, RecordMerged

(* Nothing is recorded as merged before it is upstream                         *)
LEMMA StepDone ==
    ASSUME IInv, Next
    PROVE  DoneTasksAreUpstream'
<1>1. Kept
  BY StepKeeps
<1> SUFFICES ASSUME NEW t \in Task, task'[t].state = "done"
             PROVE  /\ task'[t].merged \subseteq upstream'
                    /\ \E r \in ReviewsOf(t)' :
                          /\ Approved(r)'
                          /\ executions'[reviews'[r].execution].candidate
                                \in task'[t].merged
  BY DEF DoneTasksAreUpstream
<1>2. /\ task'[t].merged \subseteq upstream
      /\ \E r \in ReviewsOf(t) :
            Approved(r) /\ executions[reviews[r].execution].candidate \in task'[t].merged
  <2>1. CASE task'[t] = task[t]
    BY <2>1 DEF IInv, DoneTasksAreUpstream
  <2>2. CASE task'[t] # task[t]
    <3>1. ASSUME NEW u \in Task, NEW state, state # "done" PROVE task' # SetTask(u, state)
      <4>1. task[t] \in TaskRow
        BY DEF IInv, TypeOK
      <4> QED
        BY <2>2, <3>1, <4>1 DEF SetTask, IInv, TypeOK, TaskRow
    <3>2. PICK m \in Request : RecordMerged(m)
      <4>1. ASSUME NEW m \in Request, RequestStep(m) PROVE RecordMerged(m)
        <5>1. request[m].at # "idle" => request[m].task \in Task
          BY KnownRows DEF IInv
        <5> QED
          BY <2>2, <3>1, <4>1, <5>1 DEF RequestStep, BeginReview, BeginMerge,
             FetchUpstream, Integrate, ClaimReview, RequeueConflict, DecideMerge,
             VerifyAgain, Push, Rereview, RetryConflict, RequestEnds
      <4>2. ASSUME NEW e \in ExecutionId, ExecutionStep(e) PROVE FALSE
        <5>1. executions[e].state # "absent" => executions[e].task \in Task
          BY ExecutionTypes DEF IInv, ExecutionRow
        <5> QED
          BY <2>2, <3>1, <4>2, <5>1 DEF ExecutionStep, CompleteExecution, LoseExecution,
             LatePush
      <4>3. ASSUME NEW r \in ReviewId, ReviewStep(r) PROVE FALSE
        <5>1. reviews[r].state # "absent" => reviews[r].task \in Task
          BY ReviewTypes DEF IInv, ReviewRow
        <5> QED
          BY <2>2, <3>1, <4>3, <5>1 DEF ReviewStep, ApproveReview, RequestChanges,
             LoseReview, ReleaseReview, CloseReview
      <4>4. ASSUME NEW u \in Task, TaskStep(u) PROVE FALSE
        BY <3>1, <4>4 DEF TaskStep, ClaimTask, RetryTask, DeleteTask
      <4>5. ASSUME NEW x \in Foreign, ForeignPush(x) PROVE FALSE
        BY <2>2, <4>5 DEF ForeignPush
      <4> QED
        BY <4>1, <4>2, <4>3, <4>4, <4>5 DEF Next
    <3>3. t = request[m].task /\ task'[t].merged = Publication(request[m])
      BY <2>2, <3>2 DEF RecordMerged, IInv, TypeOK
    <3> QED
      BY <3>2, <3>3, RecordedIsPublished
  <2> QED
    BY <2>1, <2>2
<1>3. PICK r \in ReviewsOf(t) :
         Approved(r) /\ executions[reviews[r].execution].candidate \in task'[t].merged
  BY <1>2
<1>4. reviews[r].execution \in ExecutionId /\ ReviewKnown(r) /\ reviews[r].state # "absent"
  BY <1>3, KnownRows DEF IInv, ReviewsKnown, ReviewsOf
<1>5. /\ executions'[reviews[r].execution].candidate
            = executions[reviews[r].execution].candidate
      /\ reviews'[r].execution = reviews[r].execution
      /\ r \in ReviewsOf(t)'
      /\ Approved(r)'
  BY <1>1, <1>3, <1>4 DEF Kept, ExecutionsKept, ReviewsKept, ReviewKnown, ReviewsOf
<1> QED
  BY <1>1, <1>2, <1>3, <1>5 DEF Kept

-----------------------------------------------------------------------------
(* The theorems *)

(* No requests and no rows                                                     *)
LEMMA GateInit == Init => IInv
BY DEF Init, IInv, TypeOK, ReviewsKnown, RequestsKnown, DoneTasksAreUpstream, Commit,
       TaskRow, AbsentRow, IdleRequest

(* The invariant is inductive                                                  *)
LEMMA GateStep == IInv /\ [Next]_vars => IInv'
<1> SUFFICES ASSUME IInv, [Next]_vars PROVE IInv'
  OBVIOUS
<1>1. CASE Next
  BY <1>1, StepTypes, StepReviewsKnown, StepRequestsKnown, StepDone DEF IInv
<1>2. CASE UNCHANGED vars
  BY <1>2 DEF vars, IInv, TypeOK, ReviewsKnown, ReviewKnown, RequestsKnown, RequestKnown,
     ApprovalRead, SnapshotOf, SnapshotOfCandidate, DoneTasksAreUpstream, ReviewsOf,
     Approved
<1> QED
  BY <1>1, <1>2

(* The gate's invariant: its types, and what every request and review knows    *)
(* of what it has read (git_broker.rs, review.rs, mcp.rs).                     *)
THEOREM GateInvariant == Spec => []IInv
BY GateInit, GateStep, PTL DEF Spec

(* Type correctness of the rows and requests of the gate.                      *)
THEOREM GateTypeCorrect == Spec => []TypeOK
BY GateInvariant, PTL DEF IInv

(* merged_task never records what is not upstream, and no later push takes a   *)
(* recorded commit out again.                                                  *)
THEOREM DoneStaysPublished == Spec => []DoneTasksAreUpstream
BY GateInvariant, PTL DEF IInv

(* Every change that a push adds and nobody else made is an approved candidate *)
(* with the approved diff.                                                     *)
LEMMA StepLands ==
    ASSUME IInv, [Next]_vars, NEW c \in (upstream' \ upstream) \ Foreign
    PROVE  \E r \in ReviewId :
               /\ Approved(r)
               /\ executions[reviews[r].execution].candidate = c
               /\ reviews[r].pins.diff =
                     DiffOf(c, executions[reviews[r].execution].base, upstream)
<1>1. PICK m \in Request : Push(m)
  BY DEF vars, Next, RequestStep, BeginReview, BeginMerge, FetchUpstream, Integrate,
     ClaimReview, RequeueConflict, DecideMerge, VerifyAgain, RecordMerged, Rereview,
     RetryConflict, RequestEnds, ExecutionStep, CompleteExecution, LoseExecution,
     LatePush, ReviewStep, ApproveReview, RequestChanges, LoseReview, ReleaseReview,
     CloseReview, TaskStep, ClaimTask, RetryTask, DeleteTask, ForeignPush
<1>2. RequestKnown(m) /\ request[m].at = "push"
  BY <1>1 DEF IInv, RequestsKnown, Push
<1>3. PICK k : k = executions[request[m].execution].candidate
  OBVIOUS
<1>4. /\ Publication(request[m]) = request[m].found.upstream \union {k}
      /\ request[m].pins.diff = DiffOf(k, executions[request[m].execution].base,
                                       request[m].found.upstream)
  BY <1>2, <1>3, PublicationFacts
<1>5. upstream' = Publication(request[m]) /\ upstream = request[m].found.upstream
  BY <1>1 DEF Push, FastForwards
<1>6. c = k
  BY <1>4, <1>5
<1>7. PICK r \in ReviewId : /\ Approved(r)
                            /\ reviews[r].execution = request[m].execution
                            /\ reviews[r].pins = request[m].pins
  BY <1>2 DEF RequestKnown, ApprovalRead
<1> QED
  BY <1>3, <1>4, <1>5, <1>6, <1>7

(* No diff that no reviewer approved is added to upstream by the host, however *)
(* requests, late pushes and foreign pushes overlap.                           *)
THEOREM OnlyApprovedDiffsLand == Spec => ApprovedDiffsLand
<1>1. IInv /\ [Next]_vars =>
        [\A c \in (upstream' \ upstream) \ Foreign :
            \E r \in ReviewId :
               /\ Approved(r)
               /\ executions[reviews[r].execution].candidate = c
               /\ reviews[r].pins.diff =
                     DiffOf(c, executions[reviews[r].execution].base, upstream)]_vars
  BY StepLands
<1> QED
  BY <1>1, GateInvariant, PTL DEF Spec, ApprovedDiffsLand

-----------------------------------------------------------------------------
(* Rejections. The argument needs the past of upstream: what a review or a     *)
(* request pinned was upstream once, so it is contained in what is upstream    *)
(* now; a re-review happens only when that has grown beyond the approval in    *)
(* a way that changed the diff; and since upstream only grows, it stays so.    *)

PastSnapshots ==
    /\ \A e \in ExecutionId : executions[e].state # "absent" =>
          executions[e].integration.upstream \subseteq upstream
    /\ \A r \in ReviewId : reviews[r].state # "absent" =>
          reviews[r].pins.upstream \subseteq upstream
    /\ \A m \in Request : request[m].at # "idle" =>
          /\ request[m].found.upstream \subseteq upstream
          /\ request[m].pins.upstream \subseteq upstream
          /\ request[m].purpose = "merge" /\ request[m].at # "verify" =>
                request[m].pins.upstream \subseteq request[m].found.upstream

RereviewsHaveReason ==
    \A m \in Request : request[m].at = "rereview" =>
        Clean(request[m].found) /\ ~StillReviewed(request[m].pins, request[m].found)

ActiveIsLatest ==
    \A e \in ExecutionId : executions[e].state = "active" =>
        /\ task[executions[e].task].state = "assigned"
        /\ IsLatest(executions[e].task, e)

RowsInOrder ==
    \A e, f \in ExecutionId : e < f /\ executions[f].state # "absent" =>
        executions[e].state # "absent"

CandidatesDiffer ==
    \A e, f \in ExecutionId :
        /\ executions[e].state # "absent" /\ executions[f].state # "absent"
        /\ executions[e].candidate = executions[f].candidate
        => e = f

RejectedIsQueued ==
    \A r \in ReviewId :
        reviews[r].state = "retry" /\ IsLatest(reviews[r].task, reviews[r].execution) =>
            task[reviews[r].task].state \in {"queued", "cancelled"}

(* Upstream has grown beyond what the approval r is of                         *)
Outdated(r) ==
    LET e == reviews[r].execution
        c == executions[e].candidate
    IN \/ c \in upstream
       \/ /\ ~(upstream \subseteq reviews[r].pins.upstream)
          /\ ~(DiffOf(c, executions[e].base, upstream) \subseteq reviews[r].pins.diff)

(* Its candidate is being reviewed again, or has been rejected                 *)
InQuestion(r) ==
    \/ \E q \in ReviewId :
          reviews[q].state = "retry" /\ reviews[q].execution = reviews[r].execution
    \/ /\ task[reviews[r].task].state = "review"
       /\ IsLatest(reviews[r].task, reviews[r].execution)

OnlyApproval(r) ==
    Approved(r) /\ InPlace(reviews[r].execution) /\ ApprovedOnce(reviews[r].task)

RevokedIsOutdated ==
    \A r \in ReviewId : OnlyApproval(r) /\ InQuestion(r) => Outdated(r)

VerdictInv ==
    /\ IInv /\ PastSnapshots /\ RereviewsHaveReason /\ ActiveIsLatest /\ RowsInOrder
    /\ CandidatesDiffer /\ RejectedIsQueued /\ RevokedIsOutdated

-----------------------------------------------------------------------------
(* What a step does to the tables *)

(* Every step but a claim keeps the rows of executions, but for the state of   *)
(* an active one, its branch and its integration.                              *)
LEMMA RowsStay ==
    ASSUME IInv, Next, ~\E t \in Task, c \in Candidate : ClaimTask(t, c)
    PROVE  /\ \A e \in ExecutionId : executions'[e].state = "absent" <=> executions[e].state = "absent"
           /\ \A e \in ExecutionId : executions[e].state # "absent" =>
                 /\ executions'[e].task = executions[e].task
                 /\ executions'[e].candidate = executions[e].candidate
                 /\ executions'[e].state = "active" => executions[e].state = "active"
<1> DEFINE Stay == /\ \A e \in ExecutionId :
                         executions'[e].state = "absent" <=> executions[e].state = "absent"
                   /\ \A e \in ExecutionId : executions[e].state # "absent" =>
                         /\ executions'[e].task = executions[e].task
                         /\ executions'[e].candidate = executions[e].candidate
                         /\ executions'[e].state = "active" => executions[e].state = "active"
<1>1. CASE UNCHANGED executions
  BY <1>1
<1>2. ASSUME NEW m \in Request, ClaimReview(m) \/ RequeueConflict(m) \/ DecideMerge(m)
      PROVE  Stay
  <2>1. PICK e \in ExecutionId : e = request[m].execution
    BY <1>2, KnownRows DEF IInv, ClaimReview, RequeueConflict, DecideMerge
  <2>2. executions[e] \in ExecutionRow
    BY <1>2, <2>1, ExecutionTypes DEF IInv, RequestsKnown, RequestKnown, ClaimReview,
                                      RequeueConflict, DecideMerge
  <2>3. PICK s : executions' = [executions EXCEPT ![e].integration = s]
    BY <1>2, <2>1 DEF ClaimReview, RequeueConflict, DecideMerge, SaveSnapshot
  <2> QED
    BY <2>2, <2>3 DEF ExecutionRow, IInv, TypeOK
<1>3. ASSUME NEW e \in ExecutionId, ExecutionStep(e) PROVE Stay
  <2>1. executions[e] \in ExecutionRow
    BY <1>3, ExecutionTypes DEF ExecutionStep, CompleteExecution, LoseExecution,
                                LatePush, IInv
  <2>2. CASE CompleteExecution(e) \/ LoseExecution(e)
    BY <2>1, <2>2 DEF CompleteExecution, LoseExecution, ExecutionRow, IInv, TypeOK
  <2>3. ASSUME NEW c \in Candidate, LatePush(e, c) PROVE Stay
    BY <2>1, <2>3 DEF LatePush, ExecutionRow, IInv, TypeOK
  <2> QED
    BY <1>3, <2>2, <2>3 DEF ExecutionStep
<1>4. \/ UNCHANGED executions
      \/ \E m \in Request : ClaimReview(m) \/ RequeueConflict(m) \/ DecideMerge(m)
      \/ \E e \in ExecutionId : ExecutionStep(e)
  BY DEF Next, RequestStep, BeginReview, BeginMerge, FetchUpstream, Integrate, VerifyAgain,
     Push, RecordMerged, Rereview, RetryConflict, RequestEnds, ReviewStep, ApproveReview,
     RequestChanges, LoseReview, ReleaseReview, CloseReview, TaskStep, RetryTask,
     DeleteTask, ForeignPush
<1> QED
  BY <1>1, <1>2, <1>3, <1>4

(* A claim's row is the last of all.                                           *)
LEMMA ClaimedRow ==
    ASSUME VerdictInv, NEW t \in Task, NEW c \in Candidate, ClaimTask(t, c)
    PROVE  \E e \in ExecutionId :
              /\ executions[e].state = "absent"
              /\ \A f \in ExecutionId : executions[f].state # "absent" => f < e
              /\ executions' = [executions EXCEPT ![e] =
                    [task |-> t, state |-> "active", base |-> upstream,
                     candidate |-> c, head |-> c, integration |-> NoSnapshot]]
<1>1. PICK e \in ExecutionId :
         /\ FirstAbsent(executions, ExecutionId, e)
         /\ executions' = [executions EXCEPT ![e] =
               [task |-> t, state |-> "active", base |-> upstream,
                candidate |-> c, head |-> c, integration |-> NoSnapshot]]
  BY DEF ClaimTask
<1>2. executions[e].state = "absent"
  BY <1>1 DEF FirstAbsent
<1>3. ASSUME NEW f \in ExecutionId, executions[f].state # "absent" PROVE f < e
  <2>1. ~(e < f) /\ e # f
    BY <1>2, <1>3 DEF VerdictInv, RowsInOrder
  <2> QED
    BY <2>1, GateBoundsAssumption DEF ExecutionId
<1> QED
  BY <1>1, <1>2, <1>3

(* The latest execution of a task is the latest until the task is claimed; it  *)
(* is queued then.                                                             *)
LEMMA LatestStays ==
    ASSUME VerdictInv, Next, NEW t \in Task, NEW e \in ExecutionId,
           executions[e].state # "absent", executions[e].task = t, IsLatest(t, e)'
    PROVE  /\ IsLatest(t, e)
           /\ ~\E c \in Candidate : ClaimTask(t, c)
<1>1. CASE \E u \in Task, c \in Candidate : ClaimTask(u, c)
  <2>1. PICK u \in Task, c \in Candidate : ClaimTask(u, c)
    BY <1>1
  <2>2. PICK f \in ExecutionId :
           /\ executions[f].state = "absent"
           /\ \A g \in ExecutionId : executions[g].state # "absent" => g < f
           /\ executions' = [executions EXCEPT ![f] =
                 [task |-> u, state |-> "active", base |-> upstream,
                  candidate |-> c, head |-> c, integration |-> NoSnapshot]]
    BY <2>1, ClaimedRow
  <2>3. /\ executions'[f].state = "active" /\ executions'[f].task = u
        /\ \A g \in ExecutionId : g # f => executions'[g] = executions[g]
    BY <2>2 DEF VerdictInv, IInv, TypeOK
  <2>4. e < f
    BY <2>2
  <2>5. u # t
    <3>1. SUFFICES ASSUME u = t PROVE FALSE
      OBVIOUS
    <3>2. f \in ExecutionsOf(t)'
      BY <2>3, <3>1 DEF ExecutionsOf
    <3>3. f <= e
      BY <3>2 DEF IsLatest, IsLast
    <3> QED
      BY <2>4, <3>3, GateBoundsAssumption DEF ExecutionId
  <2>6. ExecutionsOf(t)' = ExecutionsOf(t)
    BY <2>2, <2>3, <2>5 DEF ExecutionsOf
  <2>7. IsLatest(t, e)
    BY <2>6 DEF IsLatest, IsLast
  <2>8. ASSUME NEW d \in Candidate, ClaimTask(t, d) PROVE FALSE
    <3>1. task'[t].state = "assigned" /\ task[t].state = "queued" /\ task'[t] = task[t]
      BY <2>1, <2>5, <2>8 DEF ClaimTask, SetTask, VerdictInv, IInv, TypeOK, TaskRow
    <3> QED
      BY <3>1
  <2> QED
    BY <2>7, <2>8
<1>2. CASE ~\E u \in Task, c \in Candidate : ClaimTask(u, c)
  <2>1. ExecutionsOf(t)' = ExecutionsOf(t)
    BY <1>2, RowsStay DEF VerdictInv, ExecutionsOf
  <2> QED
    BY <1>2, <2>1 DEF IsLatest, IsLast
<1> QED
  BY <1>1, <1>2

(* Which steps move a task, and from where to where.                           *)
LEMMA TaskMoves ==
    ASSUME IInv, Next, NEW t \in Task
    PROVE  \/ task'[t].state = task[t].state
           \/ \E c \in Candidate : ClaimTask(t, c)
           \/ \E e \in ExecutionId :
                 (CompleteExecution(e) \/ LoseExecution(e)) /\ executions[e].task = t
           \/ /\ task[t].state = "review"
              /\ \/ \E r \in ReviewId : ApproveReview(r) /\ reviews[r].task = t
                 \/ task'[t].state \in {"queued", "cancelled"}
           \/ /\ task[t].state = "merge_pending"
              /\ \/ \E m \in Request : Rereview(m) /\ request[m].task = t
                 \/ task'[t].state \in {"queued", "done"}
           \/ task[t].state = "queued" /\ task'[t].state = "cancelled"
<1> DEFINE Moves == \/ task'[t].state = task[t].state
                    \/ \E c \in Candidate : ClaimTask(t, c)
                    \/ \E e \in ExecutionId :
                          (CompleteExecution(e) \/ LoseExecution(e)) /\ executions[e].task = t
                    \/ /\ task[t].state = "review"
                       /\ \/ \E r \in ReviewId : ApproveReview(r) /\ reviews[r].task = t
                          \/ task'[t].state \in {"queued", "cancelled"}
                    \/ /\ task[t].state = "merge_pending"
                       /\ \/ \E m \in Request : Rereview(m) /\ request[m].task = t
                          \/ task'[t].state \in {"queued", "done"}
                    \/ task[t].state = "queued" /\ task'[t].state = "cancelled"
<1>1. \A u \in Task : \A s : task' = SetTask(u, s) =>
         /\ u # t => task'[t] = task[t]
         /\ u = t => task'[t].state = s
  BY DEF SetTask, IInv, TypeOK, TaskRow
<1>2. ASSUME NEW m \in Request, RequestStep(m) PROVE Moves
  <2>1. CASE UNCHANGED task
    BY <2>1
  <2>2. CASE RequeueConflict(m) \/ Rereview(m) \/ RetryConflict(m) \/ RecordMerged(m)
    <3>1. PICK u \in Task : u = request[m].task
      BY <2>2, KnownRows DEF IInv, RequeueConflict, Rereview, RetryConflict, RecordMerged
    <3>2. CASE RequeueConflict(m)
      BY <1>1, <3>1, <3>2 DEF RequeueConflict
    <3>3. CASE Rereview(m)
      BY <1>1, <3>1, <3>3 DEF Rereview
    <3>4. CASE RetryConflict(m)
      BY <1>1, <3>1, <3>4 DEF RetryConflict, MayRetry
    <3>5. CASE RecordMerged(m)
      BY <3>1, <3>5 DEF RecordMerged, IInv, TypeOK
    <3> QED
      BY <2>2, <3>2, <3>3, <3>4, <3>5
  <2> QED
    BY <1>2, <2>1, <2>2 DEF RequestStep, BeginReview, BeginMerge, FetchUpstream, Integrate,
       ClaimReview, DecideMerge, VerifyAgain, Push, RequestEnds
<1>3. ASSUME NEW e \in ExecutionId, ExecutionStep(e) PROVE Moves
  <2>1. CASE CompleteExecution(e) \/ LoseExecution(e)
    <3>1. executions[e].task \in Task
      BY <2>1, ExecutionTypes DEF CompleteExecution, LoseExecution, IInv, ExecutionRow
    <3> QED
      BY <1>1, <2>1, <3>1 DEF CompleteExecution, LoseExecution
  <2> QED
    BY <1>3, <2>1 DEF ExecutionStep, LatePush
<1>4. ASSUME NEW r \in ReviewId, ReviewStep(r) PROVE Moves
  <2>1. CASE ApproveReview(r) \/ RequestChanges(r)
    <3>1. reviews[r].task \in Task
      BY <2>1, ReviewTypes DEF ApproveReview, RequestChanges, CloseReview, IInv, ReviewRow
    <3> QED
      BY <1>1, <2>1, <3>1 DEF ApproveReview, RequestChanges, VerdictCounts
  <2> QED
    BY <1>4, <2>1 DEF ReviewStep, LoseReview, ReleaseReview
<1>5. ASSUME NEW u \in Task, TaskStep(u) PROVE Moves
  <2>1. CASE \E c \in Candidate : ClaimTask(u, c)
    BY <1>1, <2>1 DEF ClaimTask
  <2>2. CASE RetryTask(u)
    BY <1>1, <2>2 DEF RetryTask, MayRetry
  <2>3. CASE DeleteTask(u)
    BY <1>1, <2>3 DEF DeleteTask
  <2> QED
    BY <1>5, <2>1, <2>2, <2>3 DEF TaskStep
<1>6. ASSUME NEW x \in Foreign, ForeignPush(x) PROVE Moves
  BY <1>6 DEF ForeignPush
<1> QED
  BY <1>2, <1>3, <1>4, <1>5, <1>6 DEF Next

(* Which steps give a verdict.                                                 *)
LEMMA VerdictSteps ==
    ASSUME IInv, Next, NEW r \in ReviewId
    PROVE  /\ Approved(r)' => Approved(r) \/ ApproveReview(r)
           /\ reviews'[r].state = "retry" =>
                 reviews[r].state = "retry" \/ RequestChanges(r)
<1> DEFINE Given == /\ Approved(r)' => Approved(r) \/ ApproveReview(r)
                    /\ reviews'[r].state = "retry" =>
                          reviews[r].state = "retry" \/ RequestChanges(r)
<1>1. CASE UNCHANGED reviews
  BY <1>1 DEF Approved
<1>2. ASSUME NEW m \in Request, ClaimReview(m) PROVE Given
  BY <1>2 DEF ClaimReview, Approved, IInv, TypeOK
<1>3. ASSUME NEW q \in ReviewId, ReviewStep(q) PROVE Given
  <2>1. reviews[q] \in ReviewRow
    BY <1>3, ReviewTypes DEF ReviewStep, ApproveReview, RequestChanges, LoseReview,
                             ReleaseReview, CloseReview, IInv
  <2>2. PICK s : CloseReview(q, s) /\ \/ s = "approved" /\ ApproveReview(q)
                                      \/ s = "retry" /\ RequestChanges(q)
                                      \/ s \in {"failed", "cancelled"}
    BY <1>3 DEF ReviewStep, ApproveReview, RequestChanges, LoseReview, ReleaseReview
  <2>3. /\ q # r => reviews'[r] = reviews[r]
        /\ q = r => reviews'[r].state = s
    BY <2>1, <2>2 DEF CloseReview, ReviewRow, IInv, TypeOK
  <2> QED
    BY <2>2, <2>3 DEF Approved
<1>4. \/ UNCHANGED reviews
      \/ \E m \in Request : ClaimReview(m)
      \/ \E q \in ReviewId : ReviewStep(q)
  BY DEF Next, RequestStep, BeginReview, BeginMerge, FetchUpstream, Integrate,
     RequeueConflict, DecideMerge, VerifyAgain, Push, RecordMerged, Rereview, RetryConflict,
     RequestEnds, ExecutionStep, CompleteExecution, LoseExecution, LatePush, TaskStep,
     ClaimTask, RetryTask, DeleteTask, ForeignPush
<1> QED
  BY <1>1, <1>2, <1>3, <1>4

-----------------------------------------------------------------------------
(* Snapshots are of the past *)

(* The snapshot of an execution was taken of an upstream of the past           *)
LEMMA PastExecutions ==
    ASSUME VerdictInv, Next, NEW e \in ExecutionId, executions'[e].state # "absent"
    PROVE  executions'[e].integration.upstream \subseteq upstream'
<1>1. IInv /\ PastSnapshots /\ TypeOK /\ upstream \subseteq upstream'
  BY StepKeeps DEF VerdictInv, IInv, Kept
<1>2. CASE \E t \in Task, c \in Candidate : ClaimTask(t, c)
  <2>1. PICK t \in Task, c \in Candidate : ClaimTask(t, c)
    BY <1>2
  <2>2. PICK f \in ExecutionId :
           executions' = [executions EXCEPT ![f] =
               [task |-> t, state |-> "active", base |-> upstream,
                candidate |-> c, head |-> c, integration |-> NoSnapshot]]
    BY <2>1 DEF ClaimTask
  <2>3. f = e => executions'[e].integration = NoSnapshot
    BY <1>1, <2>2 DEF TypeOK
  <2>4. f # e => executions'[e] = executions[e]
    BY <1>1, <2>2 DEF TypeOK
  <2> QED
    BY <1>1, <2>3, <2>4 DEF PastSnapshots, NoSnapshot
<1>3. CASE ~\E t \in Task, c \in Candidate : ClaimTask(t, c)
  <2>1. executions[e] \in ExecutionRow /\ executions[e].integration.upstream \subseteq upstream
    BY <1>1, <1>3, RowsStay, ExecutionTypes DEF PastSnapshots
  <2>2. CASE executions'[e].integration = executions[e].integration
    BY <1>1, <2>1, <2>2
  <2>3. ASSUME NEW m \in Request, ClaimReview(m) \/ RequeueConflict(m) \/ DecideMerge(m)
        PROVE  executions'[e].integration.upstream \subseteq upstream'
    <3>1. /\ request[m].at # "idle"
          /\ executions' = [executions EXCEPT ![request[m].execution].integration
                                                  = request[m].found]
      BY <2>3 DEF ClaimReview, RequeueConflict, DecideMerge, SaveSnapshot
    <3>2. request[m].found.upstream \subseteq upstream
      BY <1>1, <3>1 DEF PastSnapshots
    <3>3. \/ executions'[e] = executions[e]
          \/ executions'[e].integration = request[m].found
      BY <1>1, <2>1, <3>1 DEF TypeOK, ExecutionRow
    <3> QED
      BY <1>1, <2>1, <3>2, <3>3
  <2>4. ASSUME NEW f \in ExecutionId, ExecutionStep(f)
        PROVE  executions'[e].integration = executions[e].integration
    BY <1>1, <2>1, <2>4 DEF ExecutionStep, CompleteExecution, LoseExecution, LatePush,
       TypeOK, ExecutionRow
  <2>5. \/ UNCHANGED executions
        \/ \E m \in Request : ClaimReview(m) \/ RequeueConflict(m) \/ DecideMerge(m)
        \/ \E f \in ExecutionId : ExecutionStep(f)
    BY <1>3 DEF Next, RequestStep, BeginReview, BeginMerge, FetchUpstream, Integrate,
       VerifyAgain, Push, RecordMerged, Rereview, RetryConflict, RequestEnds, ReviewStep,
       ApproveReview, RequestChanges, LoseReview, ReleaseReview, CloseReview, TaskStep,
       RetryTask, DeleteTask, ForeignPush
  <2> QED
    BY <2>2, <2>3, <2>4, <2>5
<1> QED
  BY <1>2, <1>3

(* So were the pins of a review, which are such a snapshot                     *)
LEMMA PastReviews ==
    ASSUME VerdictInv, Next, NEW r \in ReviewId, reviews'[r].state # "absent"
    PROVE  reviews'[r].pins.upstream \subseteq upstream'
<1>1. IInv /\ PastSnapshots /\ TypeOK /\ ReviewsKept /\ upstream \subseteq upstream'
  BY StepKeeps DEF VerdictInv, IInv, Kept
<1>2. CASE reviews[r].state # "absent"
  BY <1>1, <1>2 DEF PastSnapshots, ReviewsKept
<1>3. CASE reviews[r].state = "absent"
  <2>1. PICK m \in Request : ClaimReview(m)
    BY <1>1, <1>3 DEF Next, RequestStep, BeginReview, BeginMerge, FetchUpstream, Integrate,
       RequeueConflict, DecideMerge, VerifyAgain, Push, RecordMerged, Rereview,
       RetryConflict, RequestEnds, ExecutionStep, CompleteExecution, LoseExecution,
       LatePush, ReviewStep, ApproveReview, RequestChanges, LoseReview, ReleaseReview,
       CloseReview, TaskStep, ClaimTask, RetryTask, DeleteTask, ForeignPush, TypeOK
  <2>2. reviews'[r].pins = request[m].found
    BY <1>1, <1>3, <2>1 DEF ClaimReview, TypeOK
  <2>3. request[m].found.upstream \subseteq upstream
    BY <1>1, <2>1 DEF PastSnapshots, ClaimReview
  <2> QED
    BY <1>1, <2>2, <2>3
<1> QED
  BY <1>2, <1>3

(* What a request knows of the past *)
PastOf(m) ==
    /\ request[m].found.upstream \subseteq upstream
    /\ request[m].pins.upstream \subseteq upstream
    /\ request[m].purpose = "merge" /\ request[m].at # "verify" =>
          request[m].pins.upstream \subseteq request[m].found.upstream

(* So was everything a request carries                                         *)
LEMMA PastRequests ==
    ASSUME VerdictInv, Next, NEW m \in Request, request'[m].at # "idle"
    PROVE  PastOf(m)'
<1>1. IInv /\ PastSnapshots /\ TypeOK /\ upstream \subseteq upstream'
  BY StepKeeps DEF VerdictInv, IInv, Kept
<1>2. CASE request'[m] = request[m]
  BY <1>1, <1>2 DEF PastSnapshots, PastOf
<1>3. ASSUME NEW t \in Task, BeginReview(m, t) PROVE PastOf(m)'
  <2>1. PICK e \in ExecutionId :
           /\ IsCandidate(t, e)
           /\ IF Reusable(t, e, executions[e].integration)
              THEN request' = [request EXCEPT ![m] =
                      [at |-> "decide", purpose |-> "review", task |-> t, execution |-> e,
                       pins |-> NoSnapshot, found |-> executions[e].integration]]
              ELSE BeginSnapshot(m, "review", t, e, NoSnapshot)
    BY <1>3 DEF BeginReview
  <2>2. executions[e].integration.upstream \subseteq upstream
    BY <1>1, <2>1 DEF IsCandidate, IsLast, PastSnapshots
  <2>3. /\ request'[m].found \in {executions[e].integration, NoSnapshot}
        /\ request'[m].pins = NoSnapshot
        /\ request'[m].purpose = "review"
    BY <1>1, <2>1 DEF BeginSnapshot, TypeOK
  <2> QED
    BY <1>1, <2>2, <2>3 DEF PastOf, NoSnapshot
<1>4. ASSUME NEW t \in Task, BeginMerge(m, t) PROVE PastOf(m)'
  <2>1. PICK e \in ExecutionId, r \in ReviewId :
           /\ IsLast(ReviewsIn(t, e, "approved"), r)
           /\ BeginSnapshot(m, "merge", t, e, reviews[r].pins)
    BY <1>4 DEF BeginMerge
  <2>2. reviews[r].pins.upstream \subseteq upstream
    BY <1>1, <2>1 DEF IsLast, ReviewsIn, PastSnapshots
  <2>3. /\ request'[m].found = NoSnapshot
        /\ request'[m].pins = reviews[r].pins
        /\ request'[m].at = "verify"
    BY <1>1, <2>1 DEF BeginSnapshot, TypeOK
  <2> QED
    BY <1>1, <2>2, <2>3 DEF PastOf, NoSnapshot
<1>5. CASE FetchUpstream(m)
  <2>1. /\ request[m].at # "idle"
        /\ request' = Found(m, "integrate", [NoSnapshot EXCEPT !.upstream = upstream])
    BY <1>5 DEF FetchUpstream
  <2>2. /\ request'[m].found = [NoSnapshot EXCEPT !.upstream = upstream]
        /\ request'[m].pins = request[m].pins
    BY <1>1, <2>1, MovesOn
  <2>3. request'[m].found.upstream = upstream
    BY <2>2 DEF NoSnapshot
  <2> QED
    BY <1>1, <2>1, <2>2, <2>3 DEF PastOf, PastSnapshots
<1>6. CASE Integrate(m)
  <2>1. PICK c, base, s : /\ s = Merge(c, base, request[m].found.upstream)
                          /\ request' = Found(m, "decide", s)
                          /\ request[m].at = "integrate"
    BY <1>6 DEF Integrate
  <2>2. /\ request'[m].found = s
        /\ request'[m].pins = request[m].pins
        /\ request'[m].purpose = request[m].purpose
    BY <1>1, <2>1, MovesOn
  <2>3. s.upstream = request[m].found.upstream
    BY <2>1 DEF Merge
  <2> QED
    BY <1>1, <2>1, <2>2, <2>3 DEF PastOf, PastSnapshots
<1>7. CASE DecideMerge(m) \/ VerifyAgain(m) \/ Push(m)
  <2>1. request[m].at \notin {"idle", "verify"}
    BY <1>7 DEF DecideMerge, VerifyAgain, Push
  <2>2. PICK at : request' = At(m, at) \/ request' = Over(m)
    BY <1>7 DEF DecideMerge, VerifyAgain, Push, AfterPush
  <2>3. request' = At(m, at)
    BY <1>1, <2>2 DEF Over, IdleRequest, TypeOK
  <2>4. /\ request'[m].found = request[m].found
        /\ request'[m].pins = request[m].pins
        /\ request'[m].purpose = request[m].purpose
    BY <1>1, <2>1, <2>3, MovesOn
  <2> QED
    BY <1>1, <2>1, <2>4 DEF PastOf, PastSnapshots
<1>8. \/ request'[m] = request[m]
      \/ \E t \in Task : BeginReview(m, t) \/ BeginMerge(m, t)
      \/ FetchUpstream(m) \/ Integrate(m) \/ DecideMerge(m) \/ VerifyAgain(m) \/ Push(m)
  <2>1. CASE \E n \in Request : RequestStep(n) /\ n # m
    BY <1>1, <2>1 DEF RequestStep, BeginReview, BeginMerge, BeginSnapshot, FetchUpstream,
       Integrate, ClaimReview, RequeueConflict, DecideMerge, VerifyAgain, Push, AfterPush,
       RecordMerged, Rereview, RetryConflict, RequestEnds, At, Found, Over, TypeOK
  <2>2. CASE RequestStep(m)
    BY <1>1, <2>2 DEF RequestStep, ClaimReview, RequeueConflict, RecordMerged, Rereview,
       RetryConflict, RequestEnds, Over, IdleRequest, TypeOK
  <2>3. CASE ~\E n \in Request : RequestStep(n)
    BY <2>3 DEF Next, ExecutionStep, CompleteExecution, LoseExecution, LatePush,
       ReviewStep, ApproveReview, RequestChanges, LoseReview, ReleaseReview, CloseReview,
       TaskStep, ClaimTask, RetryTask, DeleteTask, ForeignPush
  <2> QED
    BY <2>1, <2>2, <2>3
<1> QED
  BY <1>2, <1>3, <1>4, <1>5, <1>6, <1>7, <1>8

(* All snapshots are of the past                                               *)
LEMMA StepPast ==
    ASSUME VerdictInv, Next
    PROVE  PastSnapshots'
BY PastExecutions, PastReviews, PastRequests DEF PastSnapshots, PastOf

(* A request asks for a re-review after its comparison only.                   *)
LEMMA StepReasons ==
    ASSUME VerdictInv, Next
    PROVE  RereviewsHaveReason'
<1> SUFFICES ASSUME NEW m \in Request, request'[m].at = "rereview"
             PROVE  /\ Clean(request'[m].found)
                    /\ ~StillReviewed(request'[m].pins, request'[m].found)
  BY DEF RereviewsHaveReason, Clean, StillReviewed
<1>1. TypeOK
  BY DEF VerdictInv, IInv
<1>2. CASE request'[m] = request[m]
  BY <1>2 DEF VerdictInv, RereviewsHaveReason
<1>3. CASE request'[m] # request[m]
  <2>1. PICK n \in Request : RequestStep(n)
    BY <1>3 DEF Next, ExecutionStep, CompleteExecution, LoseExecution, LatePush,
       ReviewStep, ApproveReview, RequestChanges, LoseReview, ReleaseReview, CloseReview,
       TaskStep, ClaimTask, RetryTask, DeleteTask, ForeignPush
  <2>2. n = m
    BY <1>1, <1>3, <2>1 DEF RequestStep, BeginReview, BeginMerge, BeginSnapshot,
       FetchUpstream, Integrate, ClaimReview, RequeueConflict, DecideMerge, VerifyAgain,
       Push, AfterPush, RecordMerged, Rereview, RetryConflict, RequestEnds, At, Found,
       Over, TypeOK
  <2>3. ASSUME NEW at, NEW s, at # "rereview", request[m].at # "idle"
        PROVE  request' # At(m, at) /\ request' # Found(m, at, s)
    BY <1>1, <2>3, MovesOn
  <2>4. request' # Over(m)
    BY <1>1 DEF Over, IdleRequest, TypeOK
  <2>5. DecideMerge(m)
    <3>1. ASSUME NEW t \in Task, BeginReview(m, t) \/ BeginMerge(m, t) PROVE FALSE
      BY <1>1, <3>1 DEF BeginReview, BeginMerge, BeginSnapshot, TypeOK
    <3> QED
      BY <2>1, <2>2, <2>3, <2>4, <3>1 DEF RequestStep, FetchUpstream, Integrate,
         ClaimReview, RequeueConflict, VerifyAgain, Push, AfterPush, RecordMerged,
         Rereview, RetryConflict, RequestEnds
  <2>6. /\ Clean(request[m].found)
        /\ ~StillReviewed(request[m].pins, request[m].found)
    <3>1. request[m].at # "idle"
      BY <2>5 DEF DecideMerge
    <3>2. request' # At(m, "conflict") /\ request' # At(m, "publish")
      BY <2>3, <3>1
    <3> QED
      BY <2>5, <3>2 DEF DecideMerge
  <2>7. PICK at : request' = At(m, at) /\ request[m].at # "idle"
    BY <2>5 DEF DecideMerge
  <2>8. request'[m].found = request[m].found /\ request'[m].pins = request[m].pins
    BY <1>1, <2>7, MovesOn
  <2> QED
    BY <2>6, <2>8
<1> QED
  BY <1>2, <1>3

-----------------------------------------------------------------------------
(* Tasks, executions and verdicts *)

(* A claim's task is assigned and has its row; the rows before keep theirs.    *)
LEMMA ClaimEffect ==
    ASSUME VerdictInv, Next, NEW t \in Task, NEW c \in Candidate, ClaimTask(t, c)
    PROVE  \E e \in ExecutionId :
              /\ executions[e].state = "absent"
              /\ executions'[e].task = t /\ executions'[e].candidate = c
              /\ executions'[e].state = "active"
              /\ IsLatest(t, e)'
              /\ \A f \in ExecutionId : executions[f].state # "absent" => f < e
              /\ \A f \in ExecutionId : f # e => executions'[f] = executions[f]
              /\ \A u \in Task : u # t =>
                    /\ task'[u] = task[u]
                    /\ \A f \in ExecutionId : IsLatest(u, f) => IsLatest(u, f)'
              /\ task'[t].state = "assigned"
<1>1. PICK e \in ExecutionId :
         /\ executions[e].state = "absent"
         /\ \A f \in ExecutionId : executions[f].state # "absent" => f < e
         /\ executions' = [executions EXCEPT ![e] =
               [task |-> t, state |-> "active", base |-> upstream,
                candidate |-> c, head |-> c, integration |-> NoSnapshot]]
  BY ClaimedRow
<1>2. /\ executions'[e].task = t /\ executions'[e].candidate = c
      /\ executions'[e].state = "active"
      /\ \A f \in ExecutionId : f # e => executions'[f] = executions[f]
  BY <1>1 DEF VerdictInv, IInv, TypeOK
<1>3. ASSUME NEW f \in ExecutionId, executions'[f].state # "absent" PROVE f <= e
  <2>1. CASE f = e
    BY <2>1, GateBoundsAssumption DEF ExecutionId
  <2>2. CASE f # e
    <3>1. f < e
      BY <1>1, <1>2, <1>3, <2>2
    <3> QED
      BY <3>1, GateBoundsAssumption DEF ExecutionId
  <2> QED
    BY <2>1, <2>2
<1>4. IsLatest(t, e)'
  BY <1>2, <1>3 DEF IsLatest, IsLast, ExecutionsOf
<1>5. ASSUME NEW u \in Task, u # t
      PROVE  /\ task'[u] = task[u]
             /\ \A f \in ExecutionId : IsLatest(u, f) => IsLatest(u, f)'
  <2>1. ExecutionsOf(u)' = ExecutionsOf(u)
    BY <1>1, <1>2, <1>5 DEF ExecutionsOf
  <2>2. task'[u] = task[u]
    BY <1>5 DEF ClaimTask, SetTask, VerdictInv, IInv, TypeOK
  <2> QED
    BY <2>1, <2>2 DEF IsLatest, IsLast
<1>6. task'[t].state = "assigned"
  BY DEF ClaimTask, SetTask, VerdictInv, IInv, TypeOK, TaskRow
<1> QED
  BY <1>1, <1>2, <1>4, <1>5, <1>6

(* Rows are inserted in their order                                            *)
LEMMA StepOrder ==
    ASSUME VerdictInv, Next
    PROVE  RowsInOrder'
<1>1. CASE \E t \in Task, c \in Candidate : ClaimTask(t, c)
  <2>1. PICK t \in Task, c \in Candidate : ClaimTask(t, c)
    BY <1>1
  <2>2. PICK d \in ExecutionId :
           /\ FirstAbsent(executions, ExecutionId, d)
           /\ executions' = [executions EXCEPT ![d] =
                 [task |-> t, state |-> "active", base |-> upstream,
                  candidate |-> c, head |-> c, integration |-> NoSnapshot]]
    BY <2>1 DEF ClaimTask
  <2>3. /\ executions'[d].state = "active"
        /\ \A f \in ExecutionId : f # d => executions'[f] = executions[f]
        /\ \A f \in ExecutionId : f < d => executions[f].state # "absent"
    BY <2>2 DEF VerdictInv, IInv, TypeOK, FirstAbsent
  <2> QED
    BY <2>3 DEF VerdictInv, RowsInOrder
<1>2. CASE ~\E t \in Task, c \in Candidate : ClaimTask(t, c)
  BY <1>2, RowsStay DEF VerdictInv, RowsInOrder
<1> QED
  BY <1>1, <1>2

(* No two executions hand in the same candidate                                *)
LEMMA StepDiffer ==
    ASSUME VerdictInv, Next
    PROVE  CandidatesDiffer'
<1>1. CASE \E t \in Task, c \in Candidate : ClaimTask(t, c)
  <2>1. PICK t \in Task, c \in Candidate : ClaimTask(t, c)
    BY <1>1
  <2>2. PICK d \in ExecutionId :
           /\ executions'[d].candidate = c
           /\ \A f \in ExecutionId : f # d => executions'[f] = executions[f]
    BY <2>1, ClaimEffect
  <2>3. \A f \in ExecutionId : executions[f].state # "absent" => executions[f].candidate # c
    BY <2>1 DEF ClaimTask, Unused
  <2> QED
    BY <2>2, <2>3 DEF VerdictInv, CandidatesDiffer
<1>2. CASE ~\E t \in Task, c \in Candidate : ClaimTask(t, c)
  BY <1>2, RowsStay DEF VerdictInv, CandidatesDiffer
<1> QED
  BY <1>1, <1>2

(* An open execution is the latest of a task that is assigned                  *)
LEMMA StepActive ==
    ASSUME VerdictInv, Next
    PROVE  ActiveIsLatest'
<1> SUFFICES ASSUME NEW e \in ExecutionId, executions'[e].state = "active",
                    NEW owner, owner = executions'[e].task
             PROVE  task'[owner].state = "assigned" /\ IsLatest(owner, e)'
  BY DEF ActiveIsLatest, IsLatest, IsLast, ExecutionsOf
<1>1. TypeOK /\ IInv
  BY DEF VerdictInv, IInv
<1>2. ASSUME executions[e].state = "active"
      PROVE  /\ executions[e].task \in Task
             /\ task[executions[e].task].state = "assigned"
             /\ IsLatest(executions[e].task, e)
  BY <1>1, <1>2, ExecutionTypes DEF ExecutionRow, VerdictInv, ActiveIsLatest
<1>3. CASE \E t \in Task, c \in Candidate : ClaimTask(t, c)
  <2>1. PICK t \in Task, c \in Candidate : ClaimTask(t, c)
    BY <1>3
  <2>2. PICK d \in ExecutionId :
           /\ executions'[d].task = t /\ IsLatest(t, d)'
           /\ \A f \in ExecutionId : f # d => executions'[f] = executions[f]
           /\ \A u \in Task : u # t =>
                 /\ task'[u] = task[u]
                 /\ \A f \in ExecutionId : IsLatest(u, f) => IsLatest(u, f)'
           /\ task'[t].state = "assigned"
    BY <2>1, ClaimEffect
  <2>3. CASE e = d
    BY <2>2, <2>3
  <2>4. CASE e # d
    <3>1. executions'[e] = executions[e] /\ executions[e].state = "active"
      BY <2>2, <2>4
    <3>2. owner \in Task /\ owner # t /\ task[owner].state = "assigned" /\ IsLatest(owner, e)
      BY <1>2, <2>1, <3>1 DEF ClaimTask
    <3> QED
      BY <1>2, <2>2, <3>1, <3>2
  <2> QED
    BY <2>3, <2>4
<1>4. CASE ~\E t \in Task, c \in Candidate : ClaimTask(t, c)
  <2>1. executions[e].state = "active" /\ executions'[e].task = executions[e].task
    BY <1>1, <1>4, RowsStay, ExecutionTypes DEF ExecutionRow
  <2> PICK t \in Task : t = owner
    BY <1>2, <2>1
  <2>2. ExecutionsOf(t)' = ExecutionsOf(t)
    BY <1>1, <1>4, RowsStay DEF ExecutionsOf
  <2>3. IsLatest(t, e) /\ IsLatest(t, e)'
    BY <1>2, <2>1, <2>2 DEF IsLatest, IsLast
  <2>4. ASSUME NEW f \in ExecutionId, CompleteExecution(f) \/ LoseExecution(f),
               executions[f].task = t
        PROVE  FALSE
    <3>1. executions[f].state = "active"
      BY <2>4 DEF CompleteExecution, LoseExecution
    <3>2. IsLatest(t, f)
      BY <2>4, <3>1 DEF VerdictInv, ActiveIsLatest
    <3>3. e = f
      <4>1. e <= f /\ f <= e
        BY <2>3, <3>2 DEF IsLatest, IsLast
      <4> QED
        BY <4>1, GateBoundsAssumption DEF ExecutionId
    <3>4. executions[e] \in ExecutionRow
      BY <1>1, <2>1, ExecutionTypes
    <3> QED
      BY <1>1, <2>4, <3>3, <3>4 DEF CompleteExecution, LoseExecution, TypeOK, ExecutionRow
  <2>5. task'[t].state = "assigned"
    BY <1>1, <1>2, <1>4, <2>1, <2>4, TaskMoves
  <2> QED
    BY <2>1, <2>3, <2>5
<1> QED
  BY <1>3, <1>4

(* What a review of finished work is of                                        *)
LEMMA ReviewOf ==
    ASSUME VerdictInv, NEW r \in ReviewId, reviews[r].state # "absent"
    PROVE  /\ reviews[r].execution \in ExecutionId /\ reviews[r].task \in Task
           /\ executions[reviews[r].execution] \in ExecutionRow
           /\ executions[reviews[r].execution].state = "completed"
           /\ executions[reviews[r].execution].task = reviews[r].task
           /\ r \in ReviewsOf(reviews[r].task)
<1>1. IInv /\ TypeOK /\ ReviewKnown(r)
  BY DEF VerdictInv, IInv, ReviewsKnown
<1>2. reviews[r] \in ReviewRow
  BY <1>1, ReviewTypes
<1>3. reviews[r].execution \in ExecutionId /\ reviews[r].task \in Task
  BY <1>2 DEF ReviewRow
<1>4. executions[reviews[r].execution].state = "completed"
  BY <1>1 DEF ReviewKnown
<1>5. executions[reviews[r].execution] \in ExecutionRow
  BY <1>1, <1>3, <1>4, ExecutionTypes
<1> QED
  BY <1>1, <1>3, <1>4, <1>5 DEF ReviewKnown, ReviewsOf

(* No execution ends while a finished one is its task's latest.                *)
LEMMA NoneEnds ==
    ASSUME VerdictInv, NEW t \in Task, NEW e \in ExecutionId, IsLatest(t, e),
           executions[e].state = "completed"
    PROVE  ~\E f \in ExecutionId :
              (CompleteExecution(f) \/ LoseExecution(f)) /\ executions[f].task = t
<1> SUFFICES ASSUME NEW f \in ExecutionId, executions[f].state = "active",
                    executions[f].task = t
             PROVE  FALSE
  BY DEF CompleteExecution, LoseExecution
<1>1. IsLatest(t, f)
  BY DEF VerdictInv, ActiveIsLatest
<1>2. e <= f /\ f <= e
  BY <1>1 DEF IsLatest, IsLast
<1> QED
  BY <1>2, GateBoundsAssumption DEF ExecutionId

(* A rejected candidate goes back to an implementer, and nothing moves the     *)
(* task until one claims it.                                                   *)
LEMMA StepRejected ==
    ASSUME VerdictInv, Next
    PROVE  RejectedIsQueued'
<1> SUFFICES ASSUME NEW r \in ReviewId, reviews'[r].state = "retry",
                    NEW t, t = reviews'[r].task, NEW e, e = reviews'[r].execution,
                    IsLatest(t, e)'
             PROVE  task'[t].state \in {"queued", "cancelled"}
  BY DEF RejectedIsQueued, IsLatest, IsLast, ExecutionsOf
<1>1. IInv /\ TypeOK /\ ReviewsKept
  BY StepKeeps DEF VerdictInv, IInv, Kept
<1>2. CASE RequestChanges(r)
  <2>1. reviews[r].state # "absent" /\ task' = SetTask(reviews[r].task, "queued")
    BY <1>2 DEF RequestChanges, CloseReview
  <2>2. t = reviews[r].task /\ t \in Task
    BY <1>1, <2>1, ReviewOf DEF ReviewsKept
  <2> QED
    BY <1>1, <2>1, <2>2 DEF SetTask, TypeOK, TaskRow
<1>3. CASE reviews[r].state = "retry"
  <2>1. t = reviews[r].task /\ e = reviews[r].execution
    BY <1>1, <1>3 DEF ReviewsKept
  <2>2. /\ t \in Task /\ e \in ExecutionId
        /\ executions[e].state = "completed" /\ executions[e].task = t
    BY <1>3, <2>1, ReviewOf
  <2>3. IsLatest(t, e) /\ ~\E c \in Candidate : ClaimTask(t, c)
    BY <2>2, LatestStays
  <2>4. task[t].state \in {"queued", "cancelled"}
    BY <1>3, <2>1, <2>3 DEF VerdictInv, RejectedIsQueued
  <2> QED
    BY <1>1, <2>2, <2>3, <2>4, TaskMoves, NoneEnds
<1> QED
  BY <1>1, <1>2, <1>3, VerdictSteps

(* The diff a candidate adds to upstream grows with upstream.                  *)
LEMMA DiffGrows ==
    ASSUME NEW c, NEW base, NEW u, NEW v, u \subseteq v, c \notin v
    PROVE  DiffOf(c, base, u) \subseteq DiffOf(c, base, v)
BY DEF DiffOf

(* What is outdated stays so: upstream only grows.                             *)
LEMMA OutdatedStays ==
    ASSUME VerdictInv, Next, NEW r \in ReviewId, Approved(r), Outdated(r)
    PROVE  Outdated(r)'
<1>1. Kept /\ reviews[r].state # "absent"
  BY StepKeeps DEF VerdictInv, Approved
<1> PICK e \in ExecutionId : e = reviews[r].execution
  BY <1>1, ReviewOf
<1> PICK c, base, pins : /\ c = executions[e].candidate /\ base = executions[e].base
                         /\ pins = reviews[r].pins
  OBVIOUS
<1>2. /\ reviews'[r].execution = e /\ reviews'[r].pins = pins
      /\ executions'[e].candidate = c /\ executions'[e].base = base
      /\ upstream \subseteq upstream'
  BY <1>1, ReviewOf DEF Kept, ExecutionsKept, ReviewsKept
<1>3. \/ c \in upstream
      \/ ~(upstream \subseteq pins.upstream) /\ ~(DiffOf(c, base, upstream) \subseteq pins.diff)
  BY DEF Outdated
<1>4. \/ c \in upstream'
      \/ ~(upstream' \subseteq pins.upstream) /\ ~(DiffOf(c, base, upstream') \subseteq pins.diff)
  BY <1>2, <1>3, DiffGrows
<1> QED
  BY <1>2, <1>4 DEF Outdated, DiffOf

(* The only approval of a task was the only one before.                        *)
LEMMA OnlyApprovalBefore ==
    ASSUME VerdictInv, Next, NEW r \in ReviewId, OnlyApproval(r)', Approved(r)
    PROVE  OnlyApproval(r)
<1>1. Kept /\ reviews[r].state # "absent"
  BY StepKeeps DEF VerdictInv, Approved
<1> PICK e \in ExecutionId : e = reviews[r].execution
  BY <1>1, ReviewOf
<1>2. InPlace(e)
  BY <1>1, ReviewOf DEF OnlyApproval, InPlace, Kept, ExecutionsKept, ReviewsKept
<1>3. ApprovedOnce(reviews[r].task)
  <2> PICK t : t = reviews[r].task
    OBVIOUS
  <2>1. reviews'[r].task = t
    BY <1>1 DEF Kept, ReviewsKept
  <2>2. \A p, q \in ReviewsOf(t)' : Approved(p)' /\ Approved(q)' => p = q
    BY <2>1 DEF OnlyApproval, ApprovedOnce, ReviewsOf
  <2>3. \A p \in ReviewsOf(t) : p \in ReviewsOf(t)' /\ (Approved(p) => Approved(p)')
    BY <1>1 DEF ReviewsOf, Kept, ReviewsKept
  <2> QED
    BY <2>2, <2>3 DEF ApprovedOnce
<1> QED
  BY <1>2, <1>3 DEF OnlyApproval

(* A re-review of the only approval: upstream has outgrown it.                 *)
LEMMA RereviewRevokes ==
    ASSUME VerdictInv, NEW m \in Request, Rereview(m), NEW r \in ReviewId, OnlyApproval(r),
           reviews[r].task = request[m].task
    PROVE  Outdated(r)
<1>1. IInv /\ TypeOK /\ request[m].at = "rereview"
  BY DEF VerdictInv, IInv, Rereview
<1>2. RequestKnown(m) /\ request[m].execution \in ExecutionId
  BY <1>1, KnownRows DEF IInv, RequestsKnown
<1>3. PICK q \in ReviewId : /\ Approved(q)
                            /\ reviews[q].execution = request[m].execution
                            /\ reviews[q].pins = request[m].pins
  BY <1>1, <1>2 DEF RequestKnown, ApprovalRead
<1>4. q = r
  <2>1. reviews[q].task = reviews[r].task
    BY <1>2, <1>3, ReviewOf DEF RequestKnown, Approved
  <2> QED
    BY <1>3, <2>1, ReviewOf DEF OnlyApproval, ApprovedOnce, Approved
<1> PICK e \in ExecutionId : e = request[m].execution
  BY <1>2
<1> PICK found, pins : found = request[m].found /\ pins = request[m].pins
  OBVIOUS
<1> PICK c, base : c = executions[e].candidate /\ base = executions[e].base
  OBVIOUS
<1>5. /\ reviews[r].execution = e /\ reviews[r].pins = pins
      /\ executions[e].head = c
  BY <1>3, <1>4 DEF OnlyApproval, InPlace
<1>6. /\ c \in Candidate /\ base \in Commit
      /\ found.upstream \in Commit /\ pins.upstream \in Commit
  <2>1. executions[e] \in ExecutionRow /\ request[m] \in RequestRow
    BY <1>1, <1>2, ExecutionTypes, RequestTypes DEF RequestKnown
  <2> QED
    BY <2>1 DEF ExecutionRow, RequestRow, Snapshot
<1>7. Clean(found) /\ found = Merge(c, base, found.upstream)
  BY <1>1, <1>2, <1>5 DEF RequestKnown, SnapshotOf, VerdictInv, RereviewsHaveReason
<1>8. Clean(pins) /\ pins = Merge(c, base, pins.upstream)
  BY <1>1, <1>3, <1>4, <1>5 DEF IInv, ReviewsKnown, ReviewKnown, SnapshotOf, Approved
<1>9. found.diff = DiffOf(c, base, found.upstream) /\ pins.diff = DiffOf(c, base, pins.upstream)
  BY <1>6, <1>7, <1>8, CleanMerge
<1>10. found.upstream # pins.upstream /\ found.diff # pins.diff
  BY <1>1 DEF VerdictInv, RereviewsHaveReason, StillReviewed
<1>11. pins.upstream \subseteq found.upstream /\ found.upstream \subseteq upstream
  BY <1>1, <1>2 DEF VerdictInv, PastSnapshots, RequestKnown
<1>12. CASE c \notin upstream
  <2>1. /\ pins.diff \subseteq found.diff
        /\ found.diff \subseteq DiffOf(c, base, upstream)
    BY <1>9, <1>11, <1>12, DiffGrows
  <2> QED
    BY <1>5, <1>10, <1>11, <2>1 DEF Outdated
<1> QED
  BY <1>5, <1>12 DEF Outdated

(* The only approval of a task, its branch in place, is questioned only        *)
(* when upstream has grown beyond it                                           *)
LEMMA StepRevoked ==
    ASSUME VerdictInv, Next
    PROVE  RevokedIsOutdated'
<1> SUFFICES ASSUME NEW r \in ReviewId, OnlyApproval(r)', InQuestion(r)'
             PROVE  Outdated(r)'
  BY DEF RevokedIsOutdated
<1>1. IInv /\ TypeOK /\ ReviewsKept
  BY StepKeeps DEF VerdictInv, IInv, Kept
<1>2. CASE Approved(r)
  <2>1. reviews[r].state # "absent" /\ OnlyApproval(r)
    BY <1>2, OnlyApprovalBefore DEF Approved
  <2> PICK e \in ExecutionId, t \in Task : e = reviews[r].execution /\ t = reviews[r].task
    BY <2>1, ReviewOf
  <2>2. executions[e].state = "completed" /\ executions[e].task = t
    BY <2>1, ReviewOf
  <2>3. reviews'[r].execution = e /\ reviews'[r].task = t
    BY <1>1, <2>1 DEF ReviewsKept
  <2>4. CASE InQuestion(r)
    BY <1>2, <2>1, <2>4, OutdatedStays DEF VerdictInv, RevokedIsOutdated
  <2>5. CASE ~InQuestion(r)
    <3>1. ASSUME NEW q \in ReviewId, reviews'[q].state = "retry", reviews'[q].execution = e
          PROVE  FALSE
      <4>1. reviews[q].state = "retry" \/ RequestChanges(q)
        BY <1>1, <3>1, VerdictSteps
      <4>2. reviews[q].state # "absent" /\ reviews[q].execution = e
        BY <1>1, <3>1, <4>1 DEF ReviewsKept, RequestChanges, CloseReview
      <4>3. reviews[q].task = t
        BY <2>2, <4>2, ReviewOf
      <4> QED
        BY <2>5, <4>1, <4>2, <4>3 DEF InQuestion, RequestChanges, VerdictCounts
    <3>2. task'[t].state = "review" /\ IsLatest(t, e)'
      BY <2>3, <3>1 DEF InQuestion, IsLatest, IsLast, ExecutionsOf
    <3>3. IsLatest(t, e) /\ ~\E c \in Candidate : ClaimTask(t, c)
      BY <2>2, <3>2, LatestStays
    <3>4. task[t].state # "review"
      BY <2>5, <3>3 DEF InQuestion
    <3>5. PICK m \in Request : Rereview(m) /\ request[m].task = t
      BY <1>1, <2>2, <3>2, <3>3, <3>4, TaskMoves, NoneEnds
    <3> QED
      BY <1>2, <2>1, <3>5, RereviewRevokes, OutdatedStays
  <2> QED
    BY <2>4, <2>5
<1>3. CASE ~Approved(r)
  <2>1. ApproveReview(r)
    BY <1>1, <1>3, VerdictSteps DEF OnlyApproval
  <2>2. /\ reviews[r].state = "active"
        /\ task[reviews[r].task].state = "review"
        /\ IsLatest(reviews[r].task, reviews[r].execution)
        /\ task' = SetTask(reviews[r].task, "merge_pending")
        /\ reviews' = [reviews EXCEPT ![r].state = "approved"]
    BY <2>1 DEF ApproveReview, CloseReview, VerdictCounts
  <2> PICK e \in ExecutionId, t \in Task : e = reviews[r].execution /\ t = reviews[r].task
    BY <2>2, ReviewOf
  <2>3. reviews'[r].execution = e /\ reviews'[r].task = t
    BY <1>1, <2>2 DEF ReviewsKept
  <2>4. task'[t].state = "merge_pending"
    BY <1>1, <2>2 DEF SetTask, TypeOK, TaskRow
  <2>5. PICK q \in ReviewId : reviews'[q].state = "retry" /\ reviews'[q].execution = e
    BY <2>3, <2>4 DEF InQuestion
  <2>6. reviews[q].state = "retry" /\ reviews[q].execution = e
    <3>1. reviews[r] \in ReviewRow
      BY <1>1, <2>2, ReviewTypes
    <3>2. q # r
      BY <1>1, <2>2, <2>5, <3>1 DEF TypeOK, ReviewRow
    <3> QED
      BY <1>1, <2>2, <2>5, <3>2 DEF TypeOK
  <2>7. reviews[q].task = t
    BY <2>2, <2>6, ReviewOf
  <2> QED
    BY <2>2, <2>6, <2>7 DEF VerdictInv, RejectedIsQueued
<1> QED
  BY <1>2, <1>3

-----------------------------------------------------------------------------
(* The theorem *)

(* No verdicts yet                                                             *)
LEMMA VerdictInit == Init => VerdictInv
<1> SUFFICES ASSUME Init PROVE VerdictInv
  OBVIOUS
<1>1. IInv
  BY GateInit
<1>2. /\ \A e \in ExecutionId : executions[e].state = "absent"
      /\ \A r \in ReviewId : reviews[r].state = "absent"
      /\ \A m \in Request : request[m].at = "idle"
  BY DEF Init, AbsentRow, IdleRequest
<1> QED
  BY <1>1, <1>2 DEF VerdictInv, PastSnapshots, RereviewsHaveReason, ActiveIsLatest,
     RowsInOrder, CandidatesDiffer, RejectedIsQueued, RevokedIsOutdated, OnlyApproval,
     Approved

(* The invariant is inductive                                                  *)
LEMMA VerdictStep == VerdictInv /\ [Next]_vars => VerdictInv'
<1> SUFFICES ASSUME VerdictInv, [Next]_vars PROVE VerdictInv'
  OBVIOUS
<1>1. IInv'
  BY GateStep DEF VerdictInv
<1>2. CASE Next
  BY <1>1, <1>2, StepPast, StepReasons, StepActive, StepOrder, StepDiffer, StepRejected,
     StepRevoked DEF VerdictInv
<1>3. CASE UNCHANGED vars
  <2>1. /\ PastSnapshots' /\ RereviewsHaveReason' /\ ActiveIsLatest' /\ RowsInOrder'
        /\ CandidatesDiffer' /\ RejectedIsQueued'
    BY <1>3 DEF vars, VerdictInv, PastSnapshots, RereviewsHaveReason, ActiveIsLatest,
       RowsInOrder, CandidatesDiffer, RejectedIsQueued, IsLatest, IsLast, ExecutionsOf
  <2>2. RevokedIsOutdated'
    BY <1>3 DEF vars, VerdictInv, RevokedIsOutdated, OnlyApproval, Approved, InPlace,
       ApprovedOnce, ReviewsOf, InQuestion, Outdated, IsLatest, IsLast, ExecutionsOf
  <2> QED
    BY <1>1, <2>1, <2>2 DEF VerdictInv
<1> QED
  BY <1>2, <1>3

(* While a task has one approval and its branch is in place, whatever          *)
(* questions that approval, a re-review or a rejection, finds upstream         *)
(* grown beyond it, so that no request can publish on it (review.rs,           *)
(* git_broker.rs).                                                             *)
THEOREM VerdictInvariant == Spec => []VerdictInv
BY VerdictInit, VerdictStep, PTL DEF Spec

(* A push cannot add what the only approval no longer covers.                  *)
LEMMA StepRespectsRejection ==
    ASSUME VerdictInv, [Next]_vars, NEW r \in ReviewId, reviews[r].state = "retry",
           InPlace(reviews[r].execution), ApprovedOnce(reviews[r].task)
    PROVE  executions[reviews[r].execution].candidate \notin upstream' \ upstream
<1> SUFFICES ASSUME executions[reviews[r].execution].candidate \in upstream' \ upstream
             PROVE  FALSE
  OBVIOUS
<1> PICK e \in ExecutionId : e = reviews[r].execution
  BY ReviewOf
<1> PICK c : c = executions[e].candidate
  OBVIOUS
<1>1. IInv /\ TypeOK /\ executions[e] \in ExecutionRow /\ executions[e].state = "completed"
  BY ReviewOf DEF VerdictInv, IInv
<1>2. c \notin Foreign
  BY <1>1, ChangesAssumption DEF ExecutionRow
<1>3. PICK m \in Request : Push(m)
  BY <1>2 DEF vars, Next, RequestStep, BeginReview, BeginMerge, FetchUpstream, Integrate,
     ClaimReview, RequeueConflict, DecideMerge, VerifyAgain, RecordMerged, Rereview,
     RetryConflict, RequestEnds, ExecutionStep, CompleteExecution, LoseExecution,
     LatePush, ReviewStep, ApproveReview, RequestChanges, LoseReview, ReleaseReview,
     CloseReview, TaskStep, ClaimTask, RetryTask, DeleteTask, ForeignPush
<1>4. RequestKnown(m) /\ request[m].at = "push" /\ request[m] \in RequestRow
  BY <1>1, <1>3, RequestTypes DEF IInv, RequestsKnown, Push
<1> PICK f \in ExecutionId : f = request[m].execution
  BY <1>4 DEF RequestRow
<1> PICK found, pins : found = request[m].found /\ pins = request[m].pins
  OBVIOUS
<1>5. /\ Publication(request[m]) = found.upstream \union {executions[f].candidate}
      /\ pins.diff = DiffOf(executions[f].candidate, executions[f].base, found.upstream)
  BY <1>1, <1>4, PublicationFacts
<1>6. upstream' = Publication(request[m]) /\ upstream = found.upstream
  BY <1>3 DEF Push, FastForwards
<1>7. c = executions[f].candidate
  BY <1>5, <1>6
<1>8. e = f
  BY <1>1, <1>4, <1>7 DEF VerdictInv, CandidatesDiffer, RequestKnown
<1>9. PICK q \in ReviewId : Approved(q) /\ reviews[q].execution = e /\ reviews[q].pins = pins
  BY <1>4, <1>8 DEF RequestKnown, ApprovalRead
<1>10. Outdated(q)
  <2>1. reviews[q].task = reviews[r].task
    BY <1>9, ReviewOf DEF Approved
  <2> QED
    BY <1>9, <2>1 DEF VerdictInv, RevokedIsOutdated, OnlyApproval, InQuestion
<1>11. /\ ~(upstream \subseteq pins.upstream)
       /\ ~(DiffOf(c, executions[e].base, upstream) \subseteq pins.diff)
  BY <1>9, <1>10 DEF Outdated
<1> QED
  BY <1>5, <1>6, <1>7, <1>8, <1>11

(* A rejection after the only approval of a task, whose branch no late push    *)
(* has moved, stands: nothing publishes the candidate (review.rs:240,          *)
(* git_broker.rs:600), for any number of overlapping requests, reviews and     *)
(* pushes by others.                                                           *)
THEOREM RejectionsStand == Spec => RejectionStands
<1>1. VerdictInv /\ [Next]_vars =>
        [\A r \in ReviewId :
            LET e == reviews[r].execution
            IN reviews[r].state = "retry" /\ InPlace(e) /\ ApprovedOnce(reviews[r].task) =>
                  executions[e].candidate \notin upstream' \ upstream]_vars
  BY StepRespectsRejection
<1> QED
  BY <1>1, VerdictInvariant, PTL DEF Spec, RejectionStands

-----------------------------------------------------------------------------
(* The gate implements TaskContract. Its own part of the argument is the past  *)
(* of a task at the gate: the approval that brought it there is of its latest  *)
(* execution, until a claim, which only a queued task allows, makes another.   *)

ApprovedAtGate ==
    \A t \in Task : task[t].state = "merge_pending" => CandidateApproved(t)

(* An approval counts, and moves its task to the gate.                         *)
LEMMA ApprovalMoves ==
    ASSUME VerdictInv, NEW r \in ReviewId, ApproveReview(r), NEW t, t = reviews[r].task
    PROVE  /\ t \in Task /\ task[t].state = "review" /\ task'[t].state = "merge_pending"
           /\ CandidateApproved(t)'
<1>1. /\ reviews[r].state = "active" /\ task[t].state = "review"
      /\ IsLatest(t, reviews[r].execution)
      /\ reviews' = [reviews EXCEPT ![r].state = "approved"]
      /\ task' = SetTask(t, "merge_pending")
      /\ executions' = executions
  BY DEF ApproveReview, CloseReview, VerdictCounts
<1>2. TypeOK /\ reviews[r] \in ReviewRow /\ t \in Task
  BY <1>1, ReviewTypes, ReviewOf DEF VerdictInv, IInv
<1>3. task'[t].state = "merge_pending"
  BY <1>1, <1>2 DEF SetTask, TypeOK, TaskRow
<1>4. /\ reviews'[r].state = "approved" /\ reviews'[r].task = t
      /\ reviews'[r].execution = reviews[r].execution
  BY <1>1, <1>2 DEF TypeOK, ReviewRow
<1>5. CandidateApproved(t)'
  BY <1>1, <1>4 DEF CandidateApproved, ReviewsOf, Approved, IsLatest, IsLast, ExecutionsOf
<1> QED
  BY <1>1, <1>2, <1>3, <1>5

(* An approval of the latest work stands until the task is claimed.            *)
LEMMA ApprovalStands ==
    ASSUME VerdictInv, Next, NEW t \in Task, CandidateApproved(t),
           ~\E c \in Candidate : ClaimTask(t, c)
    PROVE  CandidateApproved(t)'
<1>1. PICK r \in ReviewsOf(t) : Approved(r) /\ IsLatest(t, reviews[r].execution)
  BY DEF CandidateApproved
<1>2. r \in ReviewId /\ reviews[r].state # "absent" /\ reviews[r].task = t
  BY <1>1 DEF ReviewsOf
<1> PICK e \in ExecutionId : e = reviews[r].execution
  BY <1>2, ReviewOf
<1>3. /\ reviews'[r].state # "absent" /\ reviews'[r].task = t /\ reviews'[r].execution = e
      /\ Approved(r)'
  BY <1>1, <1>2, StepKeeps DEF VerdictInv, Kept, ReviewsKept
<1>4. IsLatest(t, e)'
  <2>1. CASE \E u \in Task, c \in Candidate : ClaimTask(u, c)
    <3>1. PICK u \in Task, c \in Candidate : ClaimTask(u, c)
      BY <2>1
    <3>2. u # t
      BY <3>1
    <3> QED
      BY <1>1, <3>1, <3>2, ClaimEffect
  <2>2. CASE ~\E u \in Task, c \in Candidate : ClaimTask(u, c)
    <3>1. ExecutionsOf(t)' = ExecutionsOf(t)
      BY <2>2, RowsStay DEF VerdictInv, ExecutionsOf
    <3> QED
      BY <1>1, <3>1 DEF IsLatest, IsLast
  <2> QED
    BY <2>1, <2>2
<1> QED
  BY <1>2, <1>3, <1>4 DEF CandidateApproved, ReviewsOf, IsLatest, IsLast, ExecutionsOf

(* Nothing but an approval makes the latest work of a task approved.           *)
LEMMA OnlyApprovalApproves ==
    ASSUME VerdictInv, Next, NEW t \in Task, CandidateApproved(t)'
    PROVE  \/ CandidateApproved(t)
           \/ \E r \in ReviewId : ApproveReview(r) /\ reviews[r].task = t
<1>1. PICK r \in ReviewId : /\ reviews'[r].state # "absent" /\ reviews'[r].task = t
                            /\ Approved(r)' /\ IsLatest(t, reviews[r].execution)'
  BY DEF CandidateApproved, ReviewsOf, IsLatest, IsLast, ExecutionsOf
<1>2. reviews[r].state # "absent"
  BY <1>1, VerdictSteps DEF VerdictInv, Approved, ApproveReview, CloseReview
<1>3. reviews[r].task = t /\ reviews'[r].execution = reviews[r].execution
  BY <1>1, <1>2, StepKeeps DEF VerdictInv, Kept, ReviewsKept
<1> PICK e \in ExecutionId : e = reviews[r].execution
  BY <1>2, ReviewOf
<1>4. IsLatest(t, e)'
  BY <1>1, <1>3 DEF IsLatest, IsLast, ExecutionsOf
<1>5. executions[e].state # "absent" /\ executions[e].task = t
  BY <1>2, <1>3, ReviewOf
<1>6. IsLatest(t, e)
  BY <1>4, <1>5, LatestStays
<1> QED
  BY <1>1, <1>2, <1>3, <1>6, VerdictSteps DEF VerdictInv, CandidateApproved, ReviewsOf

(* Every other step leaves the verdict on a task as it is.                     *)
LEMMA VerdictStays ==
    ASSUME VerdictInv, Next, NEW t \in Task,
           ~\E c \in Candidate : ClaimTask(t, c),
           ~\E r \in ReviewId : ApproveReview(r) /\ reviews[r].task = t
    PROVE  CandidateApproved(t)' = CandidateApproved(t)
<1>1. CandidateApproved(t)' <=> CandidateApproved(t)
  BY ApprovalStands, OnlyApprovalApproves
<1> QED
  BY <1>1 DEF CandidateApproved

(* Executions that end leave an assigned task in review or queued.             *)
LEMMA EndMoves ==
    ASSUME VerdictInv, NEW e \in ExecutionId, CompleteExecution(e) \/ LoseExecution(e)
    PROVE  /\ task[executions[e].task].state = "assigned"
           /\ task'[executions[e].task].state \in {"review", "queued"}
<1>1. executions[e].state = "active"
  BY DEF CompleteExecution, LoseExecution
<1>2. TypeOK /\ executions[e].task \in Task
  BY <1>1, ExecutionTypes DEF VerdictInv, IInv, ExecutionRow
<1>3. task[executions[e].task].state = "assigned"
  BY <1>1 DEF VerdictInv, ActiveIsLatest
<1> QED
  BY <1>2, <1>3 DEF CompleteExecution, LoseExecution, SetTask, TypeOK, TaskRow

(* What a step is to one task: a step of the contract, or none                 *)
LaneStep(t, from, to) == task[t].state \in from /\ task'[t].state \in to
VerdictKept(t) == CandidateApproved(t)' = CandidateApproved(t)

(* Every step is one of the contract's, or none.                               *)
LEMMA ContractTaskStep ==
    ASSUME VerdictInv, ApprovedAtGate, Next, NEW t \in Task
    PROVE  \/ task'[t].state = task[t].state /\ VerdictKept(t)
           \/ LaneStep(t, {"queued"}, {"assigned"}) /\ ~CandidateApproved(t)'
           \/ LaneStep(t, {"assigned"}, {"review", "queued"}) /\ VerdictKept(t)
           \/ LaneStep(t, {"review"}, {"merge_pending"}) /\ CandidateApproved(t)'
           \/ LaneStep(t, {"review"}, {"queued", "cancelled"}) /\ VerdictKept(t)
           \/ LaneStep(t, {"merge_pending"}, {"review", "queued"}) /\ VerdictKept(t)
           \/ /\ LaneStep(t, {"merge_pending"}, {"done"})
              /\ CandidateApproved(t) /\ VerdictKept(t)
           \/ LaneStep(t, {"queued"}, {"cancelled"}) /\ VerdictKept(t)
<1>1. ASSUME NEW r \in ReviewId, ApproveReview(r), reviews[r].task = t
      PROVE  LaneStep(t, {"review"}, {"merge_pending"}) /\ CandidateApproved(t)'
  BY <1>1, ApprovalMoves DEF LaneStep
<1>2. ASSUME NEW c \in Candidate, ClaimTask(t, c)
      PROVE  LaneStep(t, {"queued"}, {"assigned"}) /\ ~CandidateApproved(t)'
  <2>1. task[t].state = "queued" /\ task'[t].state = "assigned"
    BY <1>2, ClaimEffect DEF ClaimTask
  <2>2. ASSUME CandidateApproved(t)' PROVE FALSE
    <3>1. PICK r \in ReviewId : /\ reviews'[r].state # "absent" /\ reviews'[r].task = t
                                /\ Approved(r)' /\ IsLatest(t, reviews[r].execution)'
      BY <2>2 DEF CandidateApproved, ReviewsOf, IsLatest, IsLast, ExecutionsOf
    <3>2. Approved(r) \/ ApproveReview(r)
      BY <3>1, VerdictSteps DEF VerdictInv
    <3>3. reviews[r].state # "absent"
      BY <3>2 DEF Approved, ApproveReview, CloseReview
    <3>4. reviews[r].task = t /\ reviews'[r].execution = reviews[r].execution
      BY <3>1, <3>3, StepKeeps DEF VerdictInv, Kept, ReviewsKept
    <3> PICK e \in ExecutionId : e = reviews[r].execution
      BY <3>3, ReviewOf
    <3>5. IsLatest(t, e)'
      BY <3>1, <3>4 DEF IsLatest, IsLast, ExecutionsOf
    <3>6. executions[e].state # "absent" /\ executions[e].task = t
      BY <3>3, <3>4, ReviewOf
    <3> QED
      BY <1>2, <3>5, <3>6, LatestStays
  <2> QED
    BY <2>1, <2>2 DEF LaneStep
<1>3. CASE /\ ~\E c \in Candidate : ClaimTask(t, c)
           /\ ~\E r \in ReviewId : ApproveReview(r) /\ reviews[r].task = t
  <2>1. VerdictKept(t)
    BY <1>3, VerdictStays DEF VerdictKept
  <2>2. ASSUME NEW e \in ExecutionId, CompleteExecution(e) \/ LoseExecution(e),
               executions[e].task = t
        PROVE  LaneStep(t, {"assigned"}, {"review", "queued"})
    BY <2>2, EndMoves DEF LaneStep
  <2>3. ASSUME NEW m \in Request, Rereview(m), request[m].task = t
        PROVE  task'[t].state = "review"
    BY <2>3 DEF Rereview, SetTask, VerdictInv, IInv, TypeOK, TaskRow
  <2>4. task[t].state = "merge_pending" => CandidateApproved(t)
    BY DEF ApprovedAtGate
  <2> QED
    BY <1>3, <2>1, <2>2, <2>3, <2>4, TaskMoves DEF VerdictInv, LaneStep
<1> QED
  BY <1>1, <1>2, <1>3

(* A task at the gate stands approved.                                         *)
LEMMA StepGate ==
    ASSUME VerdictInv, ApprovedAtGate, Next
    PROVE  ApprovedAtGate'
<1> SUFFICES ASSUME NEW t \in Task, task'[t].state = "merge_pending"
             PROVE  CandidateApproved(t)'
  BY DEF ApprovedAtGate, CandidateApproved, ReviewsOf, Approved, IsLatest, IsLast, ExecutionsOf
<1> QED
  BY ContractTaskStep DEF LaneStep, VerdictKept, ApprovedAtGate

(* Every step of the broker and the host is a step of the contract, or none:   *)
(* the gate keeps what the life cycle of WorkLifecycle keeps, for any number   *)
(* of tasks, requests and pushes by others.                                    *)
THEOREM GateImplementsContract == Spec => GateKeepsContract
<1> DEFINE lanes == [t \in Task |-> task[t].state]
           verdicts == [t \in Task |-> CandidateApproved(t)]
<1>1. Init => Contract!Init /\ ApprovedAtGate
  <2> SUFFICES ASSUME Init PROVE Contract!Init /\ ApprovedAtGate
    OBVIOUS
  <2>1. ASSUME NEW t \in Task PROVE task[t].state = "queued" /\ CandidateApproved(t) = FALSE
    <3>1. task[t].state = "queued"
      BY DEF Init
    <3>2. ReviewsOf(t) = {}
      BY DEF Init, ReviewsOf, AbsentRow
    <3> QED
      BY <3>1, <3>2 DEF CandidateApproved
  <2> QED
    BY <2>1 DEF Contract!Init, ApprovedAtGate
<1>2. VerdictInv /\ ApprovedAtGate /\ [Next]_vars => ApprovedAtGate'
  <2> SUFFICES ASSUME VerdictInv, ApprovedAtGate, [Next]_vars PROVE ApprovedAtGate'
    OBVIOUS
  <2>1. CASE UNCHANGED vars
    BY <2>1 DEF vars, ApprovedAtGate, CandidateApproved, ReviewsOf, Approved, IsLatest, IsLast,
       ExecutionsOf
  <2> QED
    BY <2>1, StepGate
<1>3. VerdictInv /\ VerdictInv' /\ ApprovedAtGate /\ [Next]_vars
        => [Contract!Next]_(Contract!vars)
  <2> SUFFICES ASSUME VerdictInv, VerdictInv', ApprovedAtGate, [Next]_vars
               PROVE  Contract!Next
    OBVIOUS
  <2>1. lanes' \in [Task -> Contract!Lanes]
    BY DEF VerdictInv, IInv, TypeOK, TaskRow, Contract!Lanes
  <2>2. verdicts' \in [Task -> BOOLEAN]
    BY DEF CandidateApproved
  <2>3. ASSUME NEW t \in Task PROVE Contract!TaskStep(t) \/ Contract!Stays(t)
    <3>1. CASE UNCHANGED vars
      BY <3>1 DEF vars, CandidateApproved, ReviewsOf, Approved, IsLatest, IsLast, ExecutionsOf,
         Contract!Stays, Contract!VerdictStands
    <3>2. CASE Next
      BY <3>2, ContractTaskStep DEF LaneStep, VerdictKept, Contract!TaskStep, Contract!Stays,
         Contract!Claim, Contract!HandIn, Contract!GiveBack, Contract!Approve,
         Contract!SendBack, Contract!Merge, Contract!Rereview, Contract!Retry,
         Contract!Delete, Contract!Moves, Contract!VerdictStands
    <3> QED
      BY <3>1, <3>2
  <2> QED
    BY <2>1, <2>2, <2>3 DEF Contract!Next
<1> QED
  BY <1>1, <1>2, <1>3, VerdictInvariant, PTL DEF Spec, GateKeepsContract, Contract!Spec

=============================================================================
