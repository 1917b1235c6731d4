------------------------- MODULE WorkAttemptProofs --------------------------
(* What is proved of the attempts and slots of WorkLifecycle, for every number *)
(* of tasks, workers and rows: with any number of calls in flight that slots are *)
(* never leaked and budgets hold, and when the host handles one call at a time *)
(* that attempts are current and tasks are accounted for; and that the reaper  *)
(* takes back what a holder let expire.                                        *)
EXTENDS WorkLifecycleProofs, FiniteSetTheorems

-----------------------------------------------------------------------------
(* Counting rows *)

(* Any set of rows of a table is finite, so its size is a number.              *)
LEMMA RowsAreFinite ==
    /\ \A S \in SUBSET ExecutionId : IsFiniteSet(S) /\ Cardinality(S) \in Nat
    /\ \A S \in SUBSET ReviewId : IsFiniteSet(S) /\ Cardinality(S) \in Nat
<1>1. IsFiniteSet(ExecutionId) /\ IsFiniteSet(ReviewId)
  BY BoundsAssumption, FS_Interval DEF ExecutionId, ReviewId
<1> QED
  BY <1>1, FS_Subset, FS_CardinalityType

(* A set that keeps all but one of its members shrinks by one at most.         *)
LEMMA AllButOneKept ==
    ASSUME NEW S, IsFiniteSet(S), NEW T, IsFiniteSet(T), NEW x, S \ {x} \subseteq T
    PROVE  Cardinality(T) >= Cardinality(S) - 1
<1>1. IsFiniteSet(S \ {x}) /\ Cardinality(S \ {x}) >= Cardinality(S) - 1
  <2>1. Cardinality(S) \in Nat
    BY FS_CardinalityType
  <2>2. /\ IsFiniteSet(S \ {x})
        /\ Cardinality(S \ {x}) = IF x \in S THEN Cardinality(S) - 1 ELSE Cardinality(S)
    BY FS_RemoveElement, Zenon
  <2> QED
    BY <2>1, <2>2
<1>2. Cardinality(S \ {x}) <= Cardinality(T)
  BY FS_Subset
<1>3. Cardinality(S) \in Nat /\ Cardinality(T) \in Nat /\ Cardinality(S \ {x}) \in Nat
  BY <1>1, FS_CardinalityType
<1> QED
  BY <1>1, <1>2, <1>3

(* A superset has no fewer members                                             *)
LEMMA AllKept ==
    ASSUME NEW S, NEW T, IsFiniteSet(T), S \subseteq T
    PROVE  Cardinality(S) <= Cardinality(T)
BY FS_Subset

(* A superset with one more has one more                                       *)
LEMMA OneMoreKept ==
    ASSUME NEW S, IsFiniteSet(S), NEW T, IsFiniteSet(T), NEW x \in T, x \notin S, S \subseteq T
    PROVE  Cardinality(T) >= Cardinality(S) + 1
<1>1. Cardinality(S \union {x}) = Cardinality(S) + 1
  BY FS_AddElement
<1>2. Cardinality(S \union {x}) <= Cardinality(T)
  BY FS_Subset
<1>3. Cardinality(S) \in Nat /\ Cardinality(T) \in Nat
  BY FS_CardinalityType
<1> QED
  BY <1>1, <1>2, <1>3

-----------------------------------------------------------------------------
(* Slots *)

SlotsOf(w) ==
    worker[w].running <= Cardinality(LeasesOf(w)) + Cardinality(ReviewLeasesOf(w))

(* The three ways a step may treat the slots of a worker: it counts none more  *)
(* and takes no lease; it counts one less and takes one lease at most; it      *)
(* counts one more and gives a lease; or it counts none (a pause).             *)
LEMMA SlotsKept ==
    ASSUME TypeOK, NEW w \in Worker, SlotsOf(w),
           worker'[w].running = worker[w].running,
           LeasesOf(w) \subseteq LeasesOf(w)', ReviewLeasesOf(w) \subseteq ReviewLeasesOf(w)'
    PROVE  SlotsOf(w)'
<1>1. /\ Cardinality(LeasesOf(w)) <= Cardinality(LeasesOf(w)')
      /\ Cardinality(ReviewLeasesOf(w)) <= Cardinality(ReviewLeasesOf(w)')
  BY AllKept, RowsAreFinite DEF LeasesOf, ReviewLeasesOf
<1>2. /\ Cardinality(LeasesOf(w)) \in Nat /\ Cardinality(LeasesOf(w)') \in Nat
      /\ Cardinality(ReviewLeasesOf(w)) \in Nat /\ Cardinality(ReviewLeasesOf(w)') \in Nat
  BY RowsAreFinite DEF LeasesOf, ReviewLeasesOf
<1>3. worker[w].running \in Nat
  BY DEF TypeOK, WorkerRow
<1> QED
  BY <1>1, <1>2, <1>3 DEF SlotsOf

(* One lease of the worker ends and one slot is given back                     *)
LEMMA SlotClosed ==
    ASSUME TypeOK, NEW w \in Worker, SlotsOf(w), NEW x,
           worker'[w].running = IF worker[w].running > 0 THEN worker[w].running - 1 ELSE 0,
           \/ /\ LeasesOf(w) \ {x} \subseteq LeasesOf(w)'
              /\ ReviewLeasesOf(w) \subseteq ReviewLeasesOf(w)'
           \/ /\ LeasesOf(w) \subseteq LeasesOf(w)'
              /\ ReviewLeasesOf(w) \ {x} \subseteq ReviewLeasesOf(w)'
    PROVE  SlotsOf(w)'
<1>1. \/ /\ Cardinality(LeasesOf(w)) - 1 <= Cardinality(LeasesOf(w)')
         /\ Cardinality(ReviewLeasesOf(w)) <= Cardinality(ReviewLeasesOf(w)')
      \/ /\ Cardinality(LeasesOf(w)) <= Cardinality(LeasesOf(w)')
         /\ Cardinality(ReviewLeasesOf(w)) - 1 <= Cardinality(ReviewLeasesOf(w)')
  <2>1. /\ IsFiniteSet(LeasesOf(w)) /\ IsFiniteSet(LeasesOf(w)')
        /\ IsFiniteSet(ReviewLeasesOf(w)) /\ IsFiniteSet(ReviewLeasesOf(w)')
    BY RowsAreFinite DEF LeasesOf, ReviewLeasesOf
  <2>2. /\ Cardinality(LeasesOf(w)) \in Nat /\ Cardinality(LeasesOf(w)') \in Nat
        /\ Cardinality(ReviewLeasesOf(w)) \in Nat /\ Cardinality(ReviewLeasesOf(w)') \in Nat
    BY <2>1, FS_CardinalityType
  <2>3. CASE LeasesOf(w) \ {x} \subseteq LeasesOf(w)'
             /\ ReviewLeasesOf(w) \subseteq ReviewLeasesOf(w)'
    <3>1. Cardinality(LeasesOf(w)') >= Cardinality(LeasesOf(w)) - 1
      BY <2>1, <2>3, AllButOneKept
    <3>2. Cardinality(ReviewLeasesOf(w)) <= Cardinality(ReviewLeasesOf(w)')
      BY <2>1, <2>3, AllKept
    <3> QED
      BY <2>2, <3>1, <3>2
  <2>4. CASE LeasesOf(w) \subseteq LeasesOf(w)'
             /\ ReviewLeasesOf(w) \ {x} \subseteq ReviewLeasesOf(w)'
    <3>1. Cardinality(ReviewLeasesOf(w)') >= Cardinality(ReviewLeasesOf(w)) - 1
      BY <2>1, <2>4, AllButOneKept
    <3>2. Cardinality(LeasesOf(w)) <= Cardinality(LeasesOf(w)')
      BY <2>1, <2>4, AllKept
    <3> QED
      BY <2>2, <3>1, <3>2
  <2> QED
    BY <2>3, <2>4
<1>2. /\ Cardinality(LeasesOf(w)) \in Nat /\ Cardinality(LeasesOf(w)') \in Nat
      /\ Cardinality(ReviewLeasesOf(w)) \in Nat /\ Cardinality(ReviewLeasesOf(w)') \in Nat
  BY RowsAreFinite DEF LeasesOf, ReviewLeasesOf
<1>3. worker[w].running \in Nat
  BY DEF TypeOK, WorkerRow
<1> QED
  BY <1>1, <1>2, <1>3 DEF SlotsOf

(* One lease begins and one slot is taken                                      *)
LEMMA SlotOpened ==
    ASSUME TypeOK, NEW w \in Worker, SlotsOf(w), NEW x,
           worker'[w].running = worker[w].running + 1,
           LeasesOf(w) \subseteq LeasesOf(w)',
           ReviewLeasesOf(w) \subseteq ReviewLeasesOf(w)',
           \/ x \in LeasesOf(w)' \ LeasesOf(w)
           \/ x \in ReviewLeasesOf(w)' \ ReviewLeasesOf(w)
    PROVE  SlotsOf(w)'
<1>1. /\ IsFiniteSet(LeasesOf(w)) /\ IsFiniteSet(LeasesOf(w)')
      /\ IsFiniteSet(ReviewLeasesOf(w)) /\ IsFiniteSet(ReviewLeasesOf(w)')
  BY RowsAreFinite DEF LeasesOf, ReviewLeasesOf
<1>2. /\ Cardinality(LeasesOf(w)) \in Nat /\ Cardinality(LeasesOf(w)') \in Nat
      /\ Cardinality(ReviewLeasesOf(w)) \in Nat /\ Cardinality(ReviewLeasesOf(w)') \in Nat
  BY <1>1, FS_CardinalityType
<1>3. /\ Cardinality(LeasesOf(w)) <= Cardinality(LeasesOf(w)')
      /\ Cardinality(ReviewLeasesOf(w)) <= Cardinality(ReviewLeasesOf(w)')
  BY <1>1, AllKept
<1>4. \/ Cardinality(LeasesOf(w)') >= Cardinality(LeasesOf(w)) + 1
      \/ Cardinality(ReviewLeasesOf(w)') >= Cardinality(ReviewLeasesOf(w)) + 1
  BY <1>1, OneMoreKept
<1>5. worker[w].running \in Nat
  BY DEF TypeOK, WorkerRow
<1> QED
  BY <1>2, <1>3, <1>4, <1>5 DEF SlotsOf

(* A worker that was reset owes nothing                                        *)
LEMMA SlotsUncounted ==
    ASSUME NEW w \in Worker, worker'[w].running = 0
    PROVE  SlotsOf(w)'
<1>1. Cardinality(LeasesOf(w)') \in Nat /\ Cardinality(ReviewLeasesOf(w)') \in Nat
  BY RowsAreFinite DEF LeasesOf, ReviewLeasesOf
<1> QED
  BY <1>1 DEF SlotsOf

(* What opening and closing a lease does to the running slots of each worker.  *)
LEMMA RunningSlots ==
    ASSUME TypeOK, NEW u, NEW w \in Worker
    PROVE  /\ worker' = OneSlotLess(u) =>
                 worker'[w].running =
                     IF w # u THEN worker[w].running
                     ELSE IF worker[w].running > 0 THEN worker[w].running - 1 ELSE 0
           /\ worker' = OneSlotMore(u) =>
                 worker'[w].running =
                     IF w # u THEN worker[w].running ELSE worker[w].running + 1
<1>1. worker \in [Worker -> WorkerRow] /\ worker[w] \in WorkerRow
  BY DEF TypeOK
<1>2. ASSUME worker' = OneSlotLess(u)
      PROVE  worker'[w].running =
                     IF w # u THEN worker[w].running
                     ELSE IF worker[w].running > 0 THEN worker[w].running - 1 ELSE 0
  BY <1>1, <1>2 DEF OneSlotLess, WorkerRow
<1>3. ASSUME worker' = OneSlotMore(u)
      PROVE  worker'[w].running =
                 IF w # u THEN worker[w].running ELSE worker[w].running + 1
  <2> DEFINE n == worker[u].running + 1
  <2>1. worker' = [worker EXCEPT ![u] = [@ EXCEPT !.running = n, !.paused = FALSE]]
    BY <1>3 DEF OneSlotMore
  <2>2. worker'[w].running = IF w # u THEN worker[w].running ELSE n
    <3> HIDE DEF n
    <3> QED
      BY <1>1, <2>1 DEF WorkerRow
  <2> QED
    BY <2>2
<1> QED
  BY <1>2, <1>3

(* Closing row e takes one lease, of the worker the row names.                 *)
LEMMA ClosingTakesOne ==
    ASSUME TypeOK, SlotsNeverLeak, NEW e \in ExecutionId,
           worker' = OneSlotLess(executions[e].worker), UNCHANGED reviews,
           \A f \in ExecutionId : f # e => executions'[f] = executions[f],
           executions'[e] = executions[e] \/ ActiveExecution(e)
    PROVE  SlotsNeverLeak'
<1> SUFFICES ASSUME NEW w \in Worker PROVE SlotsOf(w)'
  BY DEF SlotsNeverLeak, SlotsOf
<1>1. SlotsOf(w)
  BY DEF SlotsNeverLeak, SlotsOf
<1>2. ReviewLeasesOf(w) \subseteq ReviewLeasesOf(w)'
  BY DEF ReviewLeasesOf, ActiveReview
<1>3. LeasesOf(w) \ {e} \subseteq LeasesOf(w)'
  BY DEF LeasesOf, ActiveExecution
<1>4. CASE w = executions[e].worker
  BY <1>1, <1>2, <1>3, <1>4, RunningSlots, SlotClosed
<1>5. CASE w # executions[e].worker
  <2>1. LeasesOf(w) \subseteq LeasesOf(w)'
    BY <1>3, <1>5 DEF LeasesOf
  <2> QED
    BY <1>1, <1>2, <1>5, <2>1, RunningSlots, SlotsKept
<1> QED
  BY <1>4, <1>5

(* The call that closes a review gives back one slot                           *)
LEMMA ClosingReviewTakesOne ==
    ASSUME TypeOK, SlotsNeverLeak, NEW r \in ReviewId,
           worker' = OneSlotLess(reviews[r].worker), UNCHANGED executions,
           \A s \in ReviewId : s # r => reviews'[s] = reviews[s]
    PROVE  SlotsNeverLeak'
<1> SUFFICES ASSUME NEW w \in Worker PROVE SlotsOf(w)'
  BY DEF SlotsNeverLeak, SlotsOf
<1>1. SlotsOf(w)
  BY DEF SlotsNeverLeak, SlotsOf
<1>2. LeasesOf(w) \subseteq LeasesOf(w)'
  BY DEF LeasesOf, ActiveExecution
<1>3. ReviewLeasesOf(w) \ {r} \subseteq ReviewLeasesOf(w)'
  BY DEF ReviewLeasesOf, ActiveReview
<1>4. CASE w = reviews[r].worker
  BY <1>1, <1>2, <1>3, <1>4, RunningSlots, SlotClosed
<1>5. CASE w # reviews[r].worker
  <2>1. ReviewLeasesOf(w) \subseteq ReviewLeasesOf(w)'
    BY <1>3, <1>5 DEF ReviewLeasesOf
  <2> QED
    BY <1>1, <1>2, <1>5, <2>1, RunningSlots, SlotsKept
<1> QED
  BY <1>4, <1>5

(* A step that keeps every lease, and counts no worker more, leaks nothing.    *)
LEMMA LeasesStand ==
    ASSUME TypeOK, SlotsNeverLeak,
           \A w \in Worker : worker'[w].running = worker[w].running,
           \A e \in ExecutionId : ActiveExecution(e) =>
               ActiveExecution(e)' /\ executions'[e].worker = executions[e].worker,
           \A r \in ReviewId : ActiveReview(r) =>
               ActiveReview(r)' /\ reviews'[r].worker = reviews[r].worker
    PROVE  SlotsNeverLeak'
<1> SUFFICES ASSUME NEW w \in Worker PROVE SlotsOf(w)'
  BY DEF SlotsNeverLeak, SlotsOf
<1>1. SlotsOf(w)
  BY DEF SlotsNeverLeak, SlotsOf
<1>2. LeasesOf(w) \subseteq LeasesOf(w)' /\ ReviewLeasesOf(w) \subseteq ReviewLeasesOf(w)'
  BY DEF LeasesOf, ReviewLeasesOf
<1> QED
  BY <1>1, <1>2, SlotsKept

(* A claim counts a slot and gives a lease.                                    *)
LEMMA ClaimCountsOne ==
    ASSUME TypeOK, SlotsNeverLeak, NEW h \in Handler,
           PersistTaskClaim(h) \/ PersistReviewClaim(h)
    PROVE  SlotsNeverLeak'
<1> SUFFICES ASSUME NEW w \in Worker PROVE SlotsOf(w)'
  BY DEF SlotsNeverLeak, SlotsOf
<1> DEFINE u == handler[h].worker
<1>1. SlotsOf(w)
  BY DEF SlotsNeverLeak, SlotsOf
<1>2. worker' = OneSlotMore(u)
  BY DEF PersistTaskClaim, PersistReviewClaim
<1>3. CASE PersistTaskClaim(h)
  <2>1. PICK new \in ExecutionId :
            /\ FirstAbsent(executions, ExecutionId, new)
            /\ executions' = [executions EXCEPT ![new] =
                  NewExecution(handler[h].task, handler[h].worker, handler[h].attempt)]
    BY <1>3 DEF PersistTaskClaim
  <2>2. ~ActiveExecution(new) /\ ActiveExecution(new)' /\ executions'[new].worker = u
    BY <2>1 DEF FirstAbsent, NewExecution, ActiveExecution, TypeOK
  <2>3. \A e \in ExecutionId : e # new => executions'[e] = executions[e]
    BY <2>1 DEF TypeOK
  <2>4. LeasesOf(w) \subseteq LeasesOf(w)'
    BY <2>2, <2>3 DEF LeasesOf, ActiveExecution
  <2>5. ReviewLeasesOf(w) \subseteq ReviewLeasesOf(w)'
    BY <1>3 DEF PersistTaskClaim, ReviewLeasesOf, ActiveReview
  <2>6. w = u => new \in LeasesOf(w)' \ LeasesOf(w)
    BY <2>2 DEF LeasesOf
  <2> QED
    BY <1>1, <1>2, <2>4, <2>5, <2>6, RunningSlots, SlotsKept, SlotOpened
<1>4. CASE PersistReviewClaim(h)
  <2>1. PICK new \in ReviewId :
            /\ FirstAbsent(reviews, ReviewId, new)
            /\ reviews' = [reviews EXCEPT ![new] = NewReview(handler[h])]
    BY <1>4 DEF PersistReviewClaim
  <2>2. ~ActiveReview(new) /\ ActiveReview(new)' /\ reviews'[new].worker = u
    BY <2>1 DEF FirstAbsent, NewReview, ActiveReview, TypeOK
  <2>3. \A r \in ReviewId : r # new => reviews'[r] = reviews[r]
    BY <2>1 DEF TypeOK
  <2>4. ReviewLeasesOf(w) \subseteq ReviewLeasesOf(w)'
    BY <2>2, <2>3 DEF ReviewLeasesOf, ActiveReview
  <2>5. LeasesOf(w) \subseteq LeasesOf(w)'
    BY <1>4 DEF PersistReviewClaim, LeasesOf, ActiveExecution
  <2>6. w = u => new \in ReviewLeasesOf(w)' \ ReviewLeasesOf(w)
    BY <2>2 DEF ReviewLeasesOf
  <2> QED
    BY <1>1, <1>2, <2>4, <2>5, <2>6, RunningSlots, SlotsKept, SlotOpened
<1> QED
  BY <1>3, <1>4

(* A pause counts no slot of the worker whose leases it loses, and loses no    *)
(* other's; a change of authority keeps every lease active.                    *)
LEMMA UpdateLeaksNothing ==
    ASSUME TypeOK, SlotsNeverLeak, NEW h \in Handler, UpdateWorkerCommit(h)
    PROVE  SlotsNeverLeak'
<1> DEFINE u == handler[h].worker
           wish == handler[h].request
           paused == IF wish.paused = "unset" THEN handler[h].wasPaused
                     ELSE wish.paused = "yes"
           role == IF wish.role = "unset" THEN handler[h].wasRole ELSE wish.role
           pauseRequested == paused /\ ~handler[h].wasPaused
           slots == IF pauseRequested THEN 0 ELSE worker[u].running
<1>1. worker' = [worker EXCEPT ![u] =
                    [@ EXCEPT !.role = role, !.paused = paused, !.running = slots]]
  BY DEF UpdateWorkerCommit
<1>2. ASSUME NEW w \in Worker
      PROVE  worker'[w].running = IF w # u THEN worker[w].running ELSE slots
  <2>1. worker \in [Worker -> WorkerRow] /\ worker[w] \in WorkerRow
    BY DEF TypeOK
  <2> HIDE DEF u, role, paused, slots
  <2> QED
    BY <1>1, <2>1 DEF WorkerRow
<1>3. \/ pauseRequested /\ LoseLeases(u)
      \/ ~pauseRequested /\ (RevokeLeases(u) \/ UNCHANGED <<executions, reviews>>)
  BY DEF UpdateWorkerCommit
<1>4. CASE pauseRequested /\ LoseLeases(u)
  <2> SUFFICES ASSUME NEW w \in Worker PROVE SlotsOf(w)'
    BY DEF SlotsNeverLeak, SlotsOf
  <2>1. CASE w = u
    <3>1. worker'[w].running = 0
      BY <1>2, <1>4, <2>1
    <3> QED
      BY <3>1, SlotsUncounted
  <2>2. CASE w # u
    <3> HIDE DEF u
    <3>1. LeasesOf(w) \subseteq LeasesOf(w)' /\ ReviewLeasesOf(w) \subseteq ReviewLeasesOf(w)'
      BY <1>4, <2>2 DEF LoseLeases, LeasesOf, ReviewLeasesOf, ActiveExecution, ActiveReview
    <3>2. SlotsOf(w)
      BY DEF SlotsNeverLeak, SlotsOf
    <3> QED
      BY <1>2, <2>2, <3>1, <3>2, SlotsKept
  <2> QED
    BY <2>1, <2>2
<1>5. CASE ~pauseRequested /\ (RevokeLeases(u) \/ UNCHANGED <<executions, reviews>>)
  <2>1. \A w \in Worker : worker'[w].running = worker[w].running
    BY <1>2, <1>5
  <2> HIDE DEF u, pauseRequested
  <2>2. \A e \in ExecutionId : ActiveExecution(e) =>
               ActiveExecution(e)' /\ executions'[e].worker = executions[e].worker
    BY <1>5, LeaseChangeKeepsExecution DEF RevokeLeases, ActiveExecution, Leases
  <2>3. \A r \in ReviewId : ActiveReview(r) =>
               ActiveReview(r)' /\ reviews'[r].worker = reviews[r].worker
    BY <1>5, LeaseChangeKeepsReview DEF RevokeLeases, ActiveReview, Leases
  <2> QED
    BY <2>1, <2>2, <2>3, LeasesStand
<1> QED
  BY <1>3, <1>4, <1>5

(* SlotsNeverLeak is inductive with the types                                  *)
LEMMA NextSlots ==
    ASSUME TypeOK, SlotsNeverLeak, [Next]_vars
    PROVE  SlotsNeverLeak'
<1>1. ASSUME NEW h \in Handler, HandlerStep(h) PROVE SlotsNeverLeak'
  <2>1. CASE DeleteCommit(h)
    <3>1. \A r \in ReviewId : ActiveReview(r) =>
               ActiveReview(r)' /\ reviews'[r].worker = reviews[r].worker
      BY <2>1, LeaseChangeKeepsReview DEF DeleteCommit, ActiveReview, Leases
    <3>2. UNCHANGED <<executions, worker>>
      BY <2>1 DEF DeleteCommit
    <3> QED
      BY <3>1, <3>2, LeasesStand DEF ActiveExecution
  <2>2. CASE UNCHANGED <<executions, reviews, worker>>
    BY <2>2, LeasesStand DEF ActiveExecution, ActiveReview
  <2> QED
    BY <1>1, <2>1, <2>2, ClaimCountsOne, UpdateLeaksNothing
       DEF HandlerStep, ClaimTaskRead, ClaimReviewRead, BlockExhaustedTask,
           RequeueConflictingCandidate, CallDropped, UpdateWorkerRead, RetryRead,
           RetryCommit, DeleteRead
<1>2. ASSUME NEW e \in ExecutionId, ExecutionStep(e) PROVE SlotsNeverLeak'
  <2>1. CASE CompleteExecution(e) \/ FailExecution(e) \/ ReleaseExecution(e) \/ ReapExecution(e)
    <3>1. /\ worker' = OneSlotLess(executions[e].worker)
          /\ UNCHANGED reviews
          /\ \/ /\ ActiveExecution(e)
                /\ \E s : executions' = [executions EXCEPT ![e] = Closed(@, s)]
             \/ UNCHANGED executions
      BY <2>1 DEF CompleteExecution, FailExecution, ReleaseExecution, CloseExecution,
                  ReapExecution, Accepted, ActiveExecution
    <3>2. \A f \in ExecutionId : f # e => executions'[f] = executions[f]
      BY <3>1 DEF TypeOK
    <3> QED
      BY <3>1, <3>2, ClosingTakesOne
  <2>2. CASE RenewExecution(e) \/ ExecutionLeasePasses(e)
    <3>1. \E l : executions' = [executions EXCEPT ![e].lease = l]
      BY <2>2 DEF RenewExecution, ExecutionLeasePasses
    <3>2. \A f \in ExecutionId : ActiveExecution(f) =>
              ActiveExecution(f)' /\ executions'[f].worker = executions[f].worker
      <4>1. \A f \in ExecutionId : ActiveExecution(f) => executions[f] \in ExecutionRow
        BY ActiveRows
      <4> QED
        BY <3>1, <4>1 DEF TypeOK, ExecutionRow, ActiveExecution
    <3>3. UNCHANGED <<reviews, worker>>
      BY <2>2 DEF RenewExecution, ExecutionLeasePasses
    <3> QED
      BY <3>2, <3>3, LeasesStand DEF ActiveReview
  <2> QED
    BY <1>2, <2>1, <2>2 DEF ExecutionStep
<1>3. ASSUME NEW r \in ReviewId, ReviewStep(r) PROVE SlotsNeverLeak'
  <2>1. CASE FailReview(r) \/ ApproveReview(r) \/ RequestChanges(r) \/ ReleaseReview(r)
             \/ (ReapReview(r) /\ ActiveReview(r))
    <3>1. /\ worker' = OneSlotLess(reviews[r].worker)
          /\ UNCHANGED executions
          /\ \E s : reviews' = [reviews EXCEPT ![r] = Closed(@, s)]
      BY <2>1 DEF FailReview, ApproveReview, RequestChanges, ReleaseReview, CloseReview,
                  ReapReview
    <3>2. \A s \in ReviewId : s # r => reviews'[s] = reviews[s]
      BY <3>1 DEF TypeOK
    <3> QED
      BY <3>1, <3>2, ClosingReviewTakesOne
  <2>2. CASE RenewReview(r) \/ ReviewLeasePasses(r)
    <3>1. \E l : reviews' = [reviews EXCEPT ![r].lease = l]
      BY <2>2 DEF RenewReview, ReviewLeasePasses
    <3>2. \A s \in ReviewId : ActiveReview(s) =>
              ActiveReview(s)' /\ reviews'[s].worker = reviews[s].worker
      <4>1. \A s \in ReviewId : ActiveReview(s) => reviews[s] \in ReviewRow
        BY ActiveRows
      <4> QED
        BY <3>1, <4>1 DEF TypeOK, ReviewRow, ActiveReview
    <3>3. UNCHANGED <<executions, worker>>
      BY <2>2 DEF RenewReview, ReviewLeasePasses
    <3> QED
      BY <3>2, <3>3, LeasesStand DEF ActiveExecution
  <2>3. CASE ReapReview(r) /\ ~ActiveReview(r)
    BY <2>3, LeasesStand DEF ReapReview, ActiveExecution, ActiveReview
  <2> QED
    BY <1>3, <2>1, <2>2, <2>3 DEF ReviewStep
<1>4. CASE SweepStep \/ OperatorStep \/ UNCHANGED vars
  <2>1. UNCHANGED <<executions, reviews>>
    BY <1>4 DEF SweepStep, SweepExecutions, SweepReviews, SweepEnds, SweepAborts,
         OperatorStep, RetireWorker, MergedTask, RereviewAfterUpstreamMove,
         UpdateHostSettings, vars
  <2>2. UNCHANGED worker \/ \E u \in Worker : RetireWorker(u)
    BY <1>4 DEF SweepStep, SweepExecutions, SweepReviews, SweepEnds, SweepAborts,
         OperatorStep, MergedTask, RereviewAfterUpstreamMove, UpdateHostSettings, vars
  <2>3. ASSUME NEW u \in Worker, RetireWorker(u), NEW w \in Worker
        PROVE  worker'[w].running = worker[w].running
    <3>1. worker \in [Worker -> WorkerRow] /\ worker[w] \in WorkerRow
      BY DEF TypeOK
    <3> QED
      BY <2>3, <3>1 DEF RetireWorker, WorkerRow
  <2> QED
    BY <2>1, <2>2, <2>3, LeasesStand DEF ActiveExecution, ActiveReview
<1> QED
  BY <1>1, <1>2, <1>3, <1>4 DEF Next

(* However calls, the reaper and pauses interleave, a worker is never counted  *)
(* busy without a lease: running_slots never exceeds the leases it holds.      *)
THEOREM SlotsAccountedFor == Spec => []SlotsNeverLeak
<1>1. Init => SlotsNeverLeak
  <2> SUFFICES ASSUME Init, NEW w \in Worker PROVE SlotsOf(w)
    BY DEF SlotsNeverLeak, SlotsOf
  <2>1. worker[w].running = 0
    BY DEF Init
  <2>2. Cardinality(LeasesOf(w)) \in Nat /\ Cardinality(ReviewLeasesOf(w)) \in Nat
    BY RowsAreFinite DEF LeasesOf, ReviewLeasesOf
  <2> QED
    BY <2>1, <2>2 DEF SlotsOf
<1>2. TypeOK /\ SlotsNeverLeak /\ [Next]_vars => SlotsNeverLeak'
  BY NextSlots
<1> QED
  BY <1>1, <1>2, TypeCorrect, PTL DEF Spec

-----------------------------------------------------------------------------
(* Budgets: one reviewer at a time *)

(* No two reviewers hold a task at once, and none holds it at the gate.        *)
OneReviewer ==
    \A r, s \in ReviewId :
        ActiveReview(r) /\ ActiveReview(s) /\ reviews[r].task = reviews[s].task => r = s
NoReviewerAtGate ==
    \A r \in ReviewId : ActiveReview(r) => task[reviews[r].task].state # "merge_pending"

(* A review that is active after a step was active before it, of the same      *)
(* task, or was claimed in it, of a task in review that no reviewer held.      *)
LEMMA ActiveReviewsFramed ==
    ASSUME TypeOK, [Next]_vars, NEW r \in ReviewId, ActiveReview(r)'
    PROVE  \/ /\ ActiveReview(r)
              /\ reviews'[r].task = reviews[r].task
              /\ reviews'[r].execution = reviews[r].execution
              /\ reviews'[r].cycle = reviews[r].cycle
           \/ /\ ~HasActiveReview(reviews'[r].task)
              /\ UNCHANGED task
              /\ task[reviews'[r].task].state = "review"
              /\ \A s \in ReviewId : s # r => reviews'[s] = reviews[s]
<1>1. CASE ReviewsFramed
  BY <1>1 DEF ReviewsFramed, ActiveReview
<1>2. ASSUME NEW h \in Handler, PersistReviewClaim(h)
      PROVE  \/ ActiveReview(r) /\ reviews'[r] = reviews[r]
             \/ /\ ~HasActiveReview(reviews'[r].task)
                /\ UNCHANGED task
                /\ task[reviews'[r].task].state = "review"
                /\ \A s \in ReviewId : s # r => reviews'[s] = reviews[s]
  BY <1>2 DEF PersistReviewClaim, NewReview, TypeOK, ActiveReview
<1> QED
  BY <1>1, <1>2, NextFrame

(* A task has at most one open review                                          *)
LEMMA NextOneReviewer ==
    ASSUME TypeOK, OneReviewer, [Next]_vars
    PROVE  OneReviewer'
<1> SUFFICES ASSUME NEW r \in ReviewId, NEW s \in ReviewId,
                    ActiveReview(r)', ActiveReview(s)', reviews'[r].task = reviews'[s].task
             PROVE  r = s
  BY DEF OneReviewer
<1>1. CASE ActiveReview(r) /\ reviews'[r].task = reviews[r].task
           /\ ActiveReview(s) /\ reviews'[s].task = reviews[s].task
  BY <1>1 DEF OneReviewer
<1>2. CASE /\ ~HasActiveReview(reviews'[r].task)
           /\ \A q \in ReviewId : q # r => reviews'[q] = reviews[q]
  BY <1>2 DEF HasActiveReview, ReviewsOf, ActiveReview
<1>3. CASE /\ ~HasActiveReview(reviews'[s].task)
           /\ \A q \in ReviewId : q # s => reviews'[q] = reviews[q]
  BY <1>3 DEF HasActiveReview, ReviewsOf, ActiveReview
<1> QED
  BY <1>1, <1>2, <1>3, ActiveReviewsFramed

(* Only the approval of its one reviewer, which closes that review, takes a    *)
(* task to the gate, and no claim is made there.                               *)
LEMMA NextNoReviewerAtGate ==
    ASSUME TypeOK, OneReviewer, NoReviewerAtGate, [Next]_vars
    PROVE  NoReviewerAtGate'
<1> SUFFICES ASSUME NEW r \in ReviewId, ActiveReview(r)',
                    task'[reviews'[r].task].state = "merge_pending"
             PROVE  FALSE
  BY DEF NoReviewerAtGate
<1> DEFINE t == reviews'[r].task
<1>1. ActiveReview(r) /\ reviews'[r].task = reviews[r].task
  BY ActiveReviewsFramed
<1>2. t \in Task
  BY <1>1, ActiveRows DEF ReviewRow
<1>3. task[t].state # "merge_pending"
  BY <1>1 DEF NoReviewerAtGate
<1>4. task[t].state = "review" /\ \E s \in ReviewId : ApproveReview(s)
  <2>1. LaneMove(t)
    BY <1>2, NextMoves
  <2> QED
    BY <1>3, <2>1 DEF LaneMove, LaneStep
<1>5. PICK s \in ReviewId : ApproveReview(s) /\ reviews[s].task = t
  <2>1. PICK s \in ReviewId : ApproveReview(s)
    BY <1>4
  <2>2. task' = [task EXCEPT ![reviews[s].task].state = "merge_pending"]
    BY <2>1 DEF ApproveReview
  <2>3. reviews[s].task = t
    BY <1>2, <1>3, <2>2, WrittenLane
  <2> QED
    BY <2>1, <2>3
<1>6. ActiveReview(s) /\ reviews' = [reviews EXCEPT ![s] = Closed(@, "approved")]
  BY <1>5 DEF ApproveReview, CloseReview, ReviewAccepted, Accepted, ActiveReview
<1>7. r = s
  BY <1>1, <1>5, <1>6 DEF OneReviewer
<1>8. reviews'[r].state = "approved"
  BY <1>6, <1>7, ClosedReview DEF TypeOK
<1> QED
  BY <1>8 DEF ActiveReview

-----------------------------------------------------------------------------
(* Budgets: failures of reviewers *)

(* The review r fails, or is lost, in this step.                               *)
Fell(r) == ActiveReview(r) /\ reviews'[r].state \in {"failed", "lost"}

(* The failures of a candidate are counted from the reviews that fall.         *)
LEMMA FailuresFramed ==
    ASSUME TypeOK, [Next]_vars, NEW t \in Task, NEW e \in ExecutionId,
           \A r \in ReviewId : Fell(r) => reviews[r].task # t \/ reviews[r].execution # e
    PROVE  RuntimeFailures(reviews', t, e) \subseteq RuntimeFailures(reviews, t, e)
<1> SUFFICES ASSUME NEW r \in RuntimeFailures(reviews', t, e)
             PROVE  r \in RuntimeFailures(reviews, t, e)
  OBVIOUS
<1>1. /\ r \in ReviewId /\ reviews'[r].state \in {"failed", "lost"}
      /\ reviews'[r].task = t /\ reviews'[r].execution = e
  BY DEF RuntimeFailures
<1>2. CASE reviews'[r] = reviews[r]
  BY <1>1, <1>2 DEF RuntimeFailures
<1>3. CASE ReviewsFramed /\ reviews'[r] # reviews[r]
  BY <1>1, <1>3 DEF ReviewsFramed, Fell
<1>4. ASSUME NEW h \in Handler, PersistReviewClaim(h) PROVE reviews'[r] = reviews[r]
  BY <1>1, <1>4 DEF PersistReviewClaim, NewReview, TypeOK
<1> QED
  BY <1>2, <1>3, <1>4, NextFrame

(* Whoever makes a review of the latest candidate fall counts it: the task is  *)
(* blocked, or has budget left.                                                *)
FailuresCounted(t, e) ==
    \E l \in Limits : Cardinality(RuntimeFailures(reviews, t, e)) < l.failure

(* Failures below the limit, of one of the settings there are                  *)
LEMMA NotExhausted ==
    ASSUME TypeOK, NEW table, NEW t, NEW e, ~FailuresExhausted(table, t, e)
    PROVE  \E l \in Limits : Cardinality(RuntimeFailures(table, t, e)) < l.failure
<1>1. limits \in Limits /\ limits.failure \in Nat
  BY LimitsAssumption DEF TypeOK
<1>2. Cardinality(RuntimeFailures(table, t, e)) \in Nat
  BY RowsAreFinite DEF RuntimeFailures
<1> QED
  BY <1>1, <1>2 DEF FailuresExhausted

(* A review that failed or was lost blocks its task or is below the limit      *)
LEMMA FallenIsCounted ==
    ASSUME TypeOK, [Next]_vars, NEW r \in ReviewId, Fell(r),
           task[reviews[r].task].state = "review",
           IsLatest(reviews[r].task, reviews[r].execution)
    PROVE  \/ task'[reviews[r].task].state = "blocked"
           \/ \E l \in Limits :
                 Cardinality(RuntimeFailures(reviews', reviews[r].task, reviews[r].execution))
                     < l.failure
<1> DEFINE t == reviews[r].task
           e == reviews[r].execution
           Counted == \E l \in Limits : Cardinality(RuntimeFailures(reviews', t, e)) < l.failure
<1>0. t \in Task /\ task[t] \in TaskRow /\ reviews[r] \in ReviewRow
  BY ActiveRows DEF Fell, ReviewRow, TypeOK
<1>1. ASSUME NEW h \in Handler, HandlerStep(h) PROVE task'[t].state = "blocked" \/ Counted
  <2>1. CASE PersistReviewClaim(h)
    BY <2>1 DEF PersistReviewClaim, NewReview, TypeOK, Fell, ActiveReview
  <2>2. CASE UpdateWorkerCommit(h)
    <3>1. \/ LoseLeases(handler[h].worker) \/ RevokeLeases(handler[h].worker)
          \/ UNCHANGED reviews
      BY <2>2 DEF UpdateWorkerCommit
    <3>2. CASE LoseLeases(handler[h].worker)
      <4> DEFINE w == handler[h].worker
      <4>1. reviews[r].worker = w
        BY <3>2 DEF LoseLeases, Fell, ActiveReview
      <4>2. r \in ReviewsOf(t) /\ ActiveReview(r)
        BY DEF ReviewsOf, Fell, ActiveReview
      <4>3. CASE FailuresExhausted(reviews', t, e)
        <5>1. task'[t] = [task[t] EXCEPT !.state = "blocked"]
          BY <1>0, <3>2, <4>1, <4>2, <4>3 DEF LoseLeases
        <5> QED
          BY <1>0, <5>1 DEF TaskRow
      <4>4. CASE ~FailuresExhausted(reviews', t, e)
        BY <4>4, NotExhausted
      <4> QED
        BY <4>3, <4>4
    <3>3. CASE RevokeLeases(handler[h].worker)
      BY <3>3, LeaseChangeKeepsReview DEF RevokeLeases, Fell, ActiveReview, Leases
    <3> QED
      BY <3>1, <3>2, <3>3 DEF Fell, ActiveReview
  <2>3. CASE DeleteCommit(h)
    BY <2>3, LeaseChangeKeepsReview DEF DeleteCommit, Fell, ActiveReview, Leases
  <2>4. CASE UNCHANGED reviews
    BY <2>4 DEF Fell, ActiveReview
  <2> QED
    BY <1>1, <2>1, <2>2, <2>3, <2>4 DEF HandlerStep, ClaimTaskRead, PersistTaskClaim,
       ClaimReviewRead, BlockExhaustedTask, RequeueConflictingCandidate, CallDropped,
       UpdateWorkerRead, RetryRead, RetryCommit, DeleteRead
<1>2. ASSUME NEW s \in ReviewId, ReviewStep(s) PROVE task'[t].state = "blocked" \/ Counted
  <2>1. s = r
    BY <1>2 DEF Fell, ActiveReview, ReviewStep, RenewReview, FailReview, ApproveReview,
       RequestChanges, ReleaseReview, CloseReview, ReviewLeasePasses, ReapReview, TypeOK
  <2>2. CASE FailReview(r) \/ ReapReview(r)
    <3>1. task' = IF FailuresExhausted(reviews', t, e)
                  THEN [task EXCEPT ![t].state = "blocked"] ELSE task
      BY <2>2 DEF FailReview, ReapReview, Fell
    <3>2. CASE FailuresExhausted(reviews', t, e)
      BY <1>0, <3>1, <3>2 DEF TaskRow, TypeOK
    <3>3. CASE ~FailuresExhausted(reviews', t, e)
      BY <3>3, NotExhausted
    <3> QED
      BY <3>2, <3>3
  <2>3. CASE \E l : reviews' = [reviews EXCEPT ![r].lease = l]
    BY <1>0, <2>3 DEF TypeOK, Fell, ActiveReview, ReviewRow
  <2>4. CASE \E v \in {"approved", "retry", "cancelled"} :
                  reviews' = [reviews EXCEPT ![r] = Closed(@, v)]
    BY <2>4, ClosedReview DEF TypeOK, Fell
  <2> QED
    BY <1>2, <2>1, <2>2, <2>3, <2>4 DEF ReviewStep, RenewReview, ApproveReview,
       RequestChanges, ReleaseReview, CloseReview, ReviewLeasePasses
<1>3. CASE UNCHANGED reviews
  BY <1>3 DEF Fell, ActiveReview
<1> QED
  BY <1>1, <1>2, <1>3 DEF Next, vars, ExecutionStep, RenewExecution,
     CompleteExecution, FailExecution, ReleaseExecution, CloseExecution,
     ExecutionLeasePasses, ReapExecution, SweepStep, SweepExecutions, SweepReviews,
     SweepEnds, SweepAborts, OperatorStep, RetireWorker, MergedTask,
     RereviewAfterUpstreamMove, UpdateHostSettings

(* At the gate a task is as good as in review: it may come back to it.         *)
FailureBudget ==
    \A t \in Task, e \in ExecutionId :
        task[t].state \in {"review", "merge_pending"} /\ IsLatest(t, e) => FailuresCounted(t, e)

(* The latest execution of a task is one                                       *)
LEMMA OneLatest ==
    ASSUME TypeOK, NEW t \in Task, NEW e, NEW f, IsLatest(t, e), IsLatest(t, f)
    PROVE  e = f
<1>1. e \in ExecutionsOf(t) /\ f \in ExecutionsOf(t)
  BY DEF IsLatest, FirstByAttempt
<1>2. /\ e \in ExecutionId /\ executions[e].attempt \in Nat
      /\ f \in ExecutionId /\ executions[f].attempt \in Nat
  BY <1>1 DEF ExecutionsOf, TypeOK, AbsentRow, ExecutionRow
<1>3. e \in Nat /\ f \in Nat
  BY <1>2, BoundsAssumption DEF ExecutionId
<1> QED
  BY <1>1, <1>2, <1>3 DEF IsLatest, FirstByAttempt

(* Only a claim of the task itself changes which execution is its latest.      *)
LEMMA LatestUnlessClaimed ==
    ASSUME TypeOK, [Next]_vars, NEW t \in Task, NEW e \in ExecutionId,
           \A h \in Handler : PersistTaskClaim(h) => handler[h].task # t
    PROVE  IsLatest(t, e)' <=> IsLatest(t, e)
<1>1. CASE ExecutionsFramed
  BY <1>1, LatestFramed
<1>2. ASSUME NEW h \in Handler, PersistTaskClaim(h) PROVE IsLatest(t, e)' <=> IsLatest(t, e)
  <2>1. PICK new \in ExecutionId :
            /\ FirstAbsent(executions, ExecutionId, new)
            /\ executions' = [executions EXCEPT ![new] =
                  NewExecution(handler[h].task, handler[h].worker, handler[h].attempt)]
    BY <1>2 DEF PersistTaskClaim
  <2>2. executions[new].state = "absent" /\ executions'[new].task # t
    BY <1>2, <2>1 DEF FirstAbsent, NewExecution, TypeOK
  <2>3. \A f \in ExecutionId : f # new => executions'[f] = executions[f]
    BY <2>1 DEF TypeOK
  <2>4. ExecutionsOf(t)' = ExecutionsOf(t)
    BY <2>2, <2>3 DEF ExecutionsOf
  <2>5. \A f \in ExecutionsOf(t) : executions'[f] = executions[f]
    BY <2>2, <2>3 DEF ExecutionsOf
  <2> QED
    BY <2>4, <2>5 DEF IsLatest, FirstByAttempt
<1> QED
  BY <1>1, <1>2, NextFrame

(* A task comes to its review by the completion of its latest execution.       *)
LEMMA OnlyCompletionOpensReview ==
    ASSUME TypeOK, [Next]_vars, NEW t \in Task,
           task[t].state \notin {"review", "merge_pending"},
           task'[t].state \in {"review", "merge_pending"}
    PROVE  \E e \in ExecutionId : CompleteExecution(e) /\ executions[e].task = t
<1>0. task[t].state = "assigned" /\ task'[t].state = "review"
  BY NextMoves DEF LaneMove, LaneStep
<1>t. task[t] \in TaskRow /\ DOMAIN task = Task
  BY DEF TypeOK
<1>1. ASSUME NEW e \in ExecutionId, ExecutionStep(e)
      PROVE  CompleteExecution(e) /\ executions[e].task = t
  <2>1. CASE CompleteExecution(e)
    <3>1. task' = [task EXCEPT ![executions[e].task].state = "review"]
      BY <2>1 DEF CompleteExecution, CloseExecution
    <3> QED
      BY <1>0, <1>t, <2>1, <3>1 DEF TaskRow
  <2>2. CASE ~CompleteExecution(e)
    <3>1. UNCHANGED task \/ \E s \in {"failed", "queued"} :
                                task' = [task EXCEPT ![executions[e].task].state = s]
      BY <1>1, <2>2 DEF ExecutionStep, RenewExecution, FailExecution, ReleaseExecution,
         CloseExecution, ExecutionLeasePasses, ReapExecution
    <3> QED
      BY <1>0, <1>t, <3>1 DEF TaskRow
  <2> QED
    BY <2>1, <2>2
<1>2. ASSUME NEW h \in Handler, HandlerStep(h) PROVE FALSE
  <2>1. CASE UpdateWorkerCommit(h)
    <3>1. task'[t] = [task[t] EXCEPT !.state = "queued"] \/ task'[t] = task[t]
      BY <1>0, <2>1 DEF UpdateWorkerCommit, LoseLeases, RevokeLeases
    <3>2. task[t] \in TaskRow
      BY DEF TypeOK
    <3> QED
      BY <1>0, <3>1, <3>2 DEF TaskRow
  <2>2. CASE RetryCommit(h)
    <3>1. task[t] \in TaskRow /\ DOMAIN task = Task
      BY DEF TypeOK
    <3> QED
      BY <1>0, <2>2, <3>1 DEF RetryCommit, TaskRow
  <2>3. CASE UNCHANGED task \/ \E s \in {"assigned", "blocked", "queued", "cancelled"} :
                                task' = [task EXCEPT ![handler[h].task].state = s]
    BY <1>0, <1>t, <2>3 DEF TaskRow
  <2> QED
    BY <1>2, <2>1, <2>2, <2>3 DEF HandlerStep, ClaimTaskRead, PersistTaskClaim,
       ClaimReviewRead, BlockExhaustedTask, PersistReviewClaim, RequeueConflictingCandidate,
       CallDropped, UpdateWorkerRead, RetryRead, DeleteRead, DeleteCommit
<1>3. ASSUME NEW r \in ReviewId, ReviewStep(r) PROVE FALSE
  <2>1. UNCHANGED task \/ \E s \in {"blocked", "queued", "merge_pending"} :
                              task' = [task EXCEPT ![reviews[r].task].state = s]
    BY <1>3 DEF ReviewStep, RenewReview, FailReview, ApproveReview, RequestChanges,
       ReleaseReview, CloseReview, ReviewLeasePasses, ReapReview
  <2> QED
    BY <1>0, <1>t, <2>1 DEF TaskRow
<1>4. ASSUME OperatorStep PROVE FALSE
  <2>1. UNCHANGED task
        \/ \E u \in Task : task[u].state = "merge_pending" /\ \E s : task' = [task EXCEPT ![u].state = s]
    BY <1>4 DEF OperatorStep, RetireWorker, MergedTask, RereviewAfterUpstreamMove,
       UpdateHostSettings
  <2> QED
    BY <1>0, <1>t, <2>1 DEF TaskRow
<1>5. CASE SweepStep \/ UNCHANGED vars
  BY <1>0, <1>5 DEF SweepStep, SweepExecutions, SweepReviews, SweepEnds, SweepAborts, vars
<1> QED
  BY <1>1, <1>2, <1>3, <1>4, <1>5 DEF Next

(* A candidate comes to its review without failures: reviews are given of      *)
(* finished work only. From then on whoever adds a failure counts them.        *)
LEMMA NextFailureBudget ==
    ASSUME TypeOK, ReviewsPinFinishedWork, NoReviewerAtGate, FailureBudget, [Next]_vars
    PROVE  FailureBudget'
<1> SUFFICES ASSUME NEW t \in Task, NEW e \in ExecutionId,
                    task'[t].state \in {"review", "merge_pending"}, IsLatest(t, e)'
             PROVE  \E l \in Limits : Cardinality(RuntimeFailures(reviews', t, e)) < l.failure
  BY DEF FailureBudget, FailuresCounted
<1>1. \A table, l : l \in Limits =>
          Cardinality(RuntimeFailures(table, t, e)) \in Nat /\ l.failure \in Nat \ {0}
  BY RowsAreFinite, LimitsAssumption DEF RuntimeFailures
<1>2. IsLatest(t, e)
  <2>1. ASSUME NEW h \in Handler, PersistTaskClaim(h) PROVE handler[h].task # t
    <3>1. task' = [task EXCEPT ![handler[h].task].state = "assigned"]
      BY <2>1 DEF PersistTaskClaim
    <3>2. task[t] \in TaskRow /\ DOMAIN task = Task
      BY DEF TypeOK
    <3> QED
      BY <3>1, <3>2 DEF TaskRow
  <2> QED
    BY <2>1, LatestUnlessClaimed
<1>3. CASE task[t].state \in {"review", "merge_pending"}
  <2>1. PICK l \in Limits : Cardinality(RuntimeFailures(reviews, t, e)) < l.failure
    BY <1>2, <1>3 DEF FailureBudget, FailuresCounted
  <2>2. CASE \E r \in ReviewId : Fell(r) /\ reviews[r].task = t /\ reviews[r].execution = e
    <3>1. PICK r \in ReviewId : Fell(r) /\ reviews[r].task = t /\ reviews[r].execution = e
      BY <2>2
    <3>2. task[t].state = "review"
      BY <1>3, <3>1 DEF NoReviewerAtGate, Fell
    <3> QED
      BY <1>2, <3>1, <3>2, FallenIsCounted
  <2>3. CASE \A r \in ReviewId : Fell(r) => reviews[r].task # t \/ reviews[r].execution # e
    <3>1. RuntimeFailures(reviews', t, e) \subseteq RuntimeFailures(reviews, t, e)
      BY <2>3, FailuresFramed
    <3>2. Cardinality(RuntimeFailures(reviews', t, e)) <= Cardinality(RuntimeFailures(reviews, t, e))
      BY <3>1, AllKept, RowsAreFinite DEF RuntimeFailures
    <3> QED
      BY <1>1, <2>1, <3>2
  <2> QED
    BY <2>2, <2>3
<1>4. CASE task[t].state \notin {"review", "merge_pending"}
  <2>1. PICK f \in ExecutionId : CompleteExecution(f) /\ executions[f].task = t
    BY <1>4, OnlyCompletionOpensReview
  <2>2. ActiveExecution(f) /\ IsLatest(t, f) /\ UNCHANGED reviews
    BY <2>1 DEF CompleteExecution, CloseExecution, Accepted, ActiveExecution
  <2>3. f = e
    BY <1>2, <2>2, OneLatest
  <2>4. RuntimeFailures(reviews', t, e) = {}
    BY <2>2, <2>3 DEF RuntimeFailures, ReviewsPinFinishedWork, Pins, ActiveExecution
  <2>5. Cardinality(RuntimeFailures(reviews', t, e)) = 0
    BY <2>4, FS_EmptySet
  <2> QED
    BY <1>1, <2>5, LimitsAssumption
<1> QED
  BY <1>3, <1>4

-----------------------------------------------------------------------------
(* Budgets: retry verdicts *)

(* A review, and a claim on its way to one, carries a cycle the task has been  *)
(* in: a manual retry begins a cycle no verdict counts in yet.                 *)
CyclesAreRecorded ==
    /\ \A r \in ReviewId :
          reviews[r].state # "absent" => reviews[r].cycle <= task[reviews[r].task].cycle
    /\ \A h \in Handler :
          handler[h].kind = "claim_review" => handler[h].cycle <= task[handler[h].task].cycle

(* A manual retry of t. *)
Retried(t) ==
    /\ task'[t].state = "queued"
    /\ task'[t].cycle = task[t].cycle + 1
    /\ UNCHANGED <<executions, reviews>>

(* Nothing else begins a cycle or takes a blocked task back to work.           *)
LEMMA OnlyRetryBeginsCycle ==
    ASSUME TypeOK, [Next]_vars, NEW t \in Task
    PROVE  \/ Retried(t)
           \/ /\ task'[t].cycle = task[t].cycle
              /\ task[t].state = "blocked" => task'[t].state \in {"blocked", "cancelled"}
<1> DEFINE Kept == /\ task'[t].cycle = task[t].cycle
                   /\ task[t].state = "blocked" => task'[t].state \in {"blocked", "cancelled"}
<1>t. task[t] \in TaskRow /\ DOMAIN task = Task
  BY DEF TypeOK
<1>0. ASSUME NEW u, NEW s, task' = [task EXCEPT ![u].state = s],
             task[u].state # "blocked" \/ s = "cancelled"
      PROVE  Kept
  BY <1>t, <1>0 DEF TaskRow
<1>1. ASSUME NEW h \in Handler, HandlerStep(h) PROVE Retried(t) \/ Kept
  <2>1. CASE UpdateWorkerCommit(h)
    <3>1. \/ task[t].state = "assigned" /\ task'[t] = [task[t] EXCEPT !.state = "queued"]
          \/ task[t].state = "review" /\ task'[t] = [task[t] EXCEPT !.state = "blocked"]
          \/ task'[t] = task[t]
      <4>1. LoseLeases(handler[h].worker) \/ UNCHANGED task
        BY <2>1 DEF UpdateWorkerCommit, RevokeLeases
      <4> QED
        BY <4>1, Zenon DEF LoseLeases
    <3> QED
      BY <1>t, <3>1 DEF TaskRow
  <2>2. CASE RetryCommit(h) /\ handler[h].task = t
    <3> DEFINE n == task[t].cycle + 1
    <3>1. task' = [task EXCEPT ![t] = [@ EXCEPT !.state = "queued", !.cycle = n]]
          /\ UNCHANGED <<executions, reviews>>
      BY <2>2 DEF RetryCommit
    <3>2. task'[t].state = "queued" /\ task'[t].cycle = n
      <4> HIDE DEF n
      <4> QED
        BY <1>t, <3>1 DEF TaskRow
    <3> QED
      BY <3>1, <3>2 DEF Retried
  <2>3. CASE RetryCommit(h) /\ handler[h].task # t
    <3>1. task'[t] = task[t]
      BY <1>t, <2>3 DEF RetryCommit
    <3> QED
      BY <3>1
  <2>4. CASE PersistTaskClaim(h)
    BY <1>0, <2>4 DEF PersistTaskClaim
  <2>5. CASE BlockExhaustedTask(h)
    BY <1>0, <2>5 DEF BlockExhaustedTask
  <2>6. CASE RequeueConflictingCandidate(h)
    BY <1>0, <2>6 DEF RequeueConflictingCandidate
  <2>7. CASE DeleteCommit(h)
    BY <1>0, <2>7 DEF DeleteCommit
  <2>8. CASE UNCHANGED task
    BY <2>8
  <2> QED
    BY <1>1, <2>1, <2>2, <2>3, <2>4, <2>5, <2>6, <2>7, <2>8 DEF HandlerStep, ClaimTaskRead,
       ClaimReviewRead, PersistReviewClaim, CallDropped, UpdateWorkerRead, RetryRead, DeleteRead
<1>2. ASSUME NEW e \in ExecutionId, ExecutionStep(e) PROVE Kept
  <2>1. CASE CompleteExecution(e) \/ FailExecution(e) \/ ReleaseExecution(e)
    BY <1>0, <2>1 DEF CompleteExecution, FailExecution, ReleaseExecution, CloseExecution
  <2>2. CASE ReapExecution(e)
    BY <1>0, <2>2 DEF ReapExecution
  <2> QED
    BY <1>2, <2>1, <2>2 DEF ExecutionStep, RenewExecution, ExecutionLeasePasses
<1>3. ASSUME NEW r \in ReviewId, ReviewStep(r) PROVE Kept
  <2>1. CASE FailReview(r) \/ ApproveReview(r) \/ RequestChanges(r)
    <3>1. task[reviews[r].task].state = "review"
      BY <2>1 DEF FailReview, ApproveReview, RequestChanges, CloseReview, ReviewAccepted
    <3>2. UNCHANGED task \/ \E s : task' = [task EXCEPT ![reviews[r].task].state = s]
      BY <2>1 DEF FailReview, ApproveReview, RequestChanges
    <3> QED
      BY <1>0, <3>1, <3>2
  <2>2. CASE ReapReview(r)
    BY <1>0, <2>2 DEF ReapReview
  <2> QED
    BY <1>3, <2>1, <2>2 DEF ReviewStep, RenewReview, ReleaseReview, ReviewLeasePasses
<1>4. CASE OperatorStep
  BY <1>0, <1>4 DEF OperatorStep, RetireWorker, MergedTask, RereviewAfterUpstreamMove,
                    UpdateHostSettings
<1>5. CASE SweepStep \/ UNCHANGED vars
  BY <1>5 DEF SweepStep, SweepExecutions, SweepReviews, SweepEnds, SweepAborts, vars
<1> QED
  BY <1>1, <1>2, <1>3, <1>4, <1>5 DEF Next

(* No review, and no claim of one, is ahead of its task's cycle                *)
LEMMA NextCycles ==
    ASSUME TypeOK, TypeOK', CyclesAreRecorded, [Next]_vars
    PROVE  CyclesAreRecorded'
<1>1. ASSUME NEW t \in Task PROVE task[t].cycle \in Nat /\ task'[t].cycle \in Nat
                                  /\ task[t].cycle <= task'[t].cycle
  <2>1. task[t].cycle \in Nat /\ task'[t].cycle \in Nat
    BY DEF TypeOK, TaskRow
  <2>2. task'[t].cycle = task[t].cycle \/ task'[t].cycle = task[t].cycle + 1
    BY OnlyRetryBeginsCycle DEF Retried
  <2> QED
    BY <2>1, <2>2
<1>2. ASSUME NEW r \in ReviewId, reviews'[r].state # "absent"
      PROVE  reviews'[r].cycle <= task'[reviews'[r].task].cycle
  <2>0. reviews'[r].task \in Task /\ reviews'[r].cycle \in Nat
    BY <1>2 DEF TypeOK, AbsentRow, ReviewRow
  <2>1. CASE ReviewsFramed
    <3>1. /\ reviews[r].state # "absent"
          /\ reviews'[r].task = reviews[r].task /\ reviews'[r].cycle = reviews[r].cycle
      BY <1>2, <2>1 DEF ReviewsFramed, ActiveReview
    <3>2. reviews'[r].cycle <= task[reviews'[r].task].cycle
      BY <3>1 DEF CyclesAreRecorded
    <3> QED
      BY <1>1, <2>0, <3>2
  <2>2. ASSUME NEW h \in Handler, PersistReviewClaim(h)
        PROVE  reviews'[r].cycle <= task'[reviews'[r].task].cycle
    <3>1. PICK new \in ReviewId : /\ FirstAbsent(reviews, ReviewId, new)
                                  /\ reviews' = [reviews EXCEPT ![new] = NewReview(handler[h])]
      BY <2>2 DEF PersistReviewClaim
    <3>2. UNCHANGED task /\ handler[h].kind = "claim_review"
      BY <2>2 DEF PersistReviewClaim
    <3>3. CASE r = new
      BY <3>1, <3>2, <3>3 DEF CyclesAreRecorded, NewReview, TypeOK
    <3>4. CASE r # new
      <4>1. reviews'[r] = reviews[r]
        BY <3>1, <3>4 DEF TypeOK
      <4> QED
        BY <1>2, <3>2, <4>1 DEF CyclesAreRecorded
    <3> QED
      BY <3>3, <3>4
  <2> QED
    BY <2>1, <2>2, NextFrame
<1>3. ASSUME NEW h \in Handler, handler'[h].kind = "claim_review"
      PROVE  handler'[h].cycle <= task'[handler'[h].task].cycle
  <2>1. CASE handler'[h] = handler[h]
    <3>1. handler[h] \in ClaimReviewCall
      BY <1>3, <2>1, CallTypes
    <3>2. handler[h].cycle \in Nat /\ handler[h].task \in Task
      BY <3>1 DEF ClaimReviewCall
    <3>3. handler[h].cycle <= task[handler[h].task].cycle
      BY <1>3, <2>1 DEF CyclesAreRecorded
    <3> QED
      BY <1>1, <2>1, <3>2, <3>3
  <2>2. ASSUME NEW w \in Worker, NEW t \in Task, ClaimReviewRead(h, w, t)
        PROVE  handler'[h].cycle <= task'[handler'[h].task].cycle
    <3>1. PICK e \in ExecutionId :
             handler' = [handler EXCEPT ![h] =
                   IF FailuresExhausted(reviews, t, e)
                   THEN [kind |-> "block_review", task |-> t]
                   ELSE [kind |-> "claim_review", worker |-> w, task |-> t,
                         execution |-> e, cycle |-> task[t].cycle]]
      BY <2>2 DEF ClaimReviewRead, Started
    <3>2. handler'[h] = [kind |-> "claim_review", worker |-> w, task |-> t,
                         execution |-> e, cycle |-> task[t].cycle]
      BY <1>3, <3>1 DEF TypeOK
    <3>3. UNCHANGED task
      BY <2>2 DEF ClaimReviewRead
    <3> QED
      BY <1>1, <3>2, <3>3
  <2> QED
    BY <1>3, <2>1, <2>2, ClaimReviewInFlight
<1> QED
  BY <1>2, <1>3 DEF CyclesAreRecorded

(* A retry verdict is given in one way.                                        *)
LEMMA OnlyRequestChangesSendsBack ==
    ASSUME TypeOK, [Next]_vars, NEW r \in ReviewId,
           reviews[r].state # "retry", reviews'[r].state = "retry"
    PROVE  RequestChanges(r)
<1>0. ActiveReview(r) /\ reviews[r] \in ReviewRow
  <2>1. CASE ReviewsFramed
    BY <2>1, ActiveRows DEF ReviewsFramed
  <2>2. ASSUME NEW h \in Handler, PersistReviewClaim(h) PROVE FALSE
    BY <2>2 DEF PersistReviewClaim, NewReview, TypeOK
  <2> QED
    BY <2>1, <2>2, NextFrame
<1>1. ASSUME NEW h \in Handler, HandlerStep(h) PROVE FALSE
  <2>1. CASE PersistReviewClaim(h)
    BY <2>1 DEF PersistReviewClaim, NewReview, TypeOK
  <2>2. CASE UpdateWorkerCommit(h)
    <3>1. \/ LoseLeases(handler[h].worker) \/ RevokeLeases(handler[h].worker)
          \/ UNCHANGED reviews
      BY <2>2 DEF UpdateWorkerCommit
    <3>2. CASE LoseLeases(handler[h].worker)
      BY <3>2, ClosedReview DEF LoseLeases
    <3>3. CASE RevokeLeases(handler[h].worker)
      BY <3>3, LeaseChangeKeepsReview DEF RevokeLeases, Leases
    <3> QED
      BY <3>1, <3>2, <3>3
  <2>3. CASE DeleteCommit(h)
    BY <2>3, LeaseChangeKeepsReview DEF DeleteCommit, Leases
  <2>4. CASE UNCHANGED reviews
    BY <2>4
  <2> QED
    BY <1>1, <2>1, <2>2, <2>3, <2>4 DEF HandlerStep, ClaimTaskRead, PersistTaskClaim,
       ClaimReviewRead, BlockExhaustedTask, RequeueConflictingCandidate, CallDropped,
       UpdateWorkerRead, RetryRead, RetryCommit, DeleteRead
<1>2. ASSUME NEW s \in ReviewId, ReviewStep(s) PROVE RequestChanges(r)
  <2>1. s = r
    BY <1>2 DEF ReviewStep, RenewReview, FailReview, ApproveReview,
       RequestChanges, ReleaseReview, CloseReview, ReviewLeasePasses, ReapReview, TypeOK
  <2>2. CASE \E l : reviews' = [reviews EXCEPT ![r].lease = l]
    BY <1>0, <2>2 DEF TypeOK, ActiveReview, ReviewRow
  <2>3. CASE \E v \in {"approved", "failed", "lost", "cancelled"} :
                  reviews' = [reviews EXCEPT ![r] = Closed(@, v)]
    BY <1>0, <2>3, ClosedReview DEF TypeOK
  <2>4. CASE UNCHANGED reviews
    BY <2>4
  <2> QED
    BY <1>2, <2>1, <2>2, <2>3, <2>4 DEF ReviewStep, RenewReview, FailReview, ApproveReview,
       ReleaseReview, CloseReview, ReviewLeasePasses, ReapReview
<1>3. CASE UNCHANGED reviews
  BY <1>3
<1> QED
  BY <1>1, <1>2, <1>3 DEF Next, vars, ExecutionStep, RenewExecution,
     CompleteExecution, FailExecution, ReleaseExecution, CloseExecution,
     ExecutionLeasePasses, ReapExecution, SweepStep, SweepExecutions, SweepReviews,
     SweepEnds, SweepAborts, OperatorStep, RetireWorker, MergedTask,
     RereviewAfterUpstreamMove, UpdateHostSettings

(* No task is sent back more often than the settings allow                     *)
LEMMA NextRetryBudget ==
    ASSUME TypeOK, TypeOK', CyclesAreRecorded, RetryBudget, [Next]_vars
    PROVE  RetryBudget'
<1> SUFFICES ASSUME NEW t \in Task, task'[t].state \notin {"blocked", "cancelled"}
             PROVE  \E l \in Limits : Cardinality(RetryVerdicts(reviews, t)') < l.retry
  BY DEF RetryBudget
<1>1. /\ \A l \in Limits : l.retry \in Nat \ {0}
      /\ Limits # {} /\ limits \in Limits
  BY LimitsAssumption DEF TypeOK
<1>2. /\ Cardinality(RetryVerdicts(reviews, t)) \in Nat
      /\ Cardinality(RetryVerdicts(reviews, t)') \in Nat
      /\ Cardinality(RetryVerdicts(reviews', t)) \in Nat
  BY RowsAreFinite DEF RetryVerdicts
<1>3. CASE Retried(t)
  <2>1. task[t].cycle \in Nat
    BY DEF TypeOK, TaskRow
  <2>2. ASSUME NEW r \in ReviewId, reviews[r].state = "retry", reviews[r].task = t
        PROVE  reviews[r].cycle # task[t].cycle + 1
    <3>1. reviews[r].cycle <= task[t].cycle /\ reviews[r].cycle \in Nat
      BY <2>2 DEF CyclesAreRecorded, TypeOK, AbsentRow, ReviewRow
    <3> QED
      BY <2>1, <3>1
  <2>3. RetryVerdicts(reviews, t)' = {}
    BY <1>3, <2>2 DEF Retried, RetryVerdicts
  <2>4. Cardinality(RetryVerdicts(reviews, t)') = 0
    BY <2>3, FS_EmptySet
  <2> QED
    BY <1>1, <2>4
<1>4. CASE ~Retried(t)
  <2>1. task'[t].cycle = task[t].cycle /\ task[t].state \notin {"blocked", "cancelled"}
    BY <1>4, OnlyRetryBeginsCycle, NextFinal DEF FinalStates
  <2>2. RetryVerdicts(reviews, t)' = RetryVerdicts(reviews', t)
    BY <2>1 DEF RetryVerdicts
  <2>3. CASE \E r \in ReviewId : RequestChanges(r) /\ reviews[r].task = t
    <3>1. PICK r \in ReviewId : RequestChanges(r) /\ reviews[r].task = t
      BY <2>3
    <3>2. task' = [task EXCEPT ![t].state =
                      IF RetriesExhausted(reviews', t) THEN "blocked" ELSE "queued"]
      BY <3>1 DEF RequestChanges
    <3>3. ~RetriesExhausted(reviews', t)
      BY <3>2, WrittenLane
    <3> QED
      BY <1>1, <1>2, <2>2, <3>3 DEF RetriesExhausted
  <2>4. CASE \A r \in ReviewId : RequestChanges(r) => reviews[r].task # t
    <3>1. RetryVerdicts(reviews', t) \subseteq RetryVerdicts(reviews, t)
      <4> SUFFICES ASSUME NEW r \in RetryVerdicts(reviews', t)
                   PROVE  r \in RetryVerdicts(reviews, t)
        OBVIOUS
      <4>1. /\ r \in ReviewId /\ reviews'[r].state = "retry"
            /\ reviews'[r].task = t /\ reviews'[r].cycle = task[t].cycle
        BY DEF RetryVerdicts
      <4>2. CASE reviews[r].state = "retry"
        <5>1. reviews'[r] = reviews[r]
          BY <4>1, <4>2, NextHistory DEF ReviewHistoryKept
        <5> QED
          BY <4>1, <4>2, <5>1 DEF RetryVerdicts
      <4>3. CASE reviews[r].state # "retry"
        <5>1. RequestChanges(r)
          BY <4>1, <4>3, OnlyRequestChangesSendsBack
        <5>2. reviews'[r].task = reviews[r].task
          BY <5>1, ClosedReview DEF RequestChanges, CloseReview, ReviewAccepted, Accepted,
                                    ActiveReview, TypeOK
        <5> QED
          BY <2>4, <4>1, <5>1, <5>2
      <4> QED
        BY <4>2, <4>3
    <3>2. Cardinality(RetryVerdicts(reviews', t)) <= Cardinality(RetryVerdicts(reviews, t))
      BY <3>1, AllKept, RowsAreFinite DEF RetryVerdicts
    <3>3. PICK l \in Limits : Cardinality(RetryVerdicts(reviews, t)) < l.retry
      BY <2>1 DEF RetryBudget
    <3> QED
      BY <1>1, <1>2, <2>2, <3>2, <3>3
  <2> QED
    BY <2>3, <2>4
<1> QED
  BY <1>3, <1>4

-----------------------------------------------------------------------------
(* Both budgets *)

BudgetInvariant ==
    /\ OneReviewer
    /\ NoReviewerAtGate
    /\ FailureBudget
    /\ CyclesAreRecorded
    /\ RetryBudget

(* No rows                                                                     *)
LEMMA InitBudgets == Init => BudgetInvariant
<1> SUFFICES ASSUME Init PROVE BudgetInvariant
  OBVIOUS
<1>1. OneReviewer /\ NoReviewerAtGate
  BY DEF Init, OneReviewer, NoReviewerAtGate, ActiveReview, AbsentRow
<1>2. FailureBudget
  BY DEF Init, FailureBudget
<1>3. CyclesAreRecorded
  BY DEF Init, CyclesAreRecorded, AbsentRow, IdleCall
<1>4. RetryBudget
  <2>1. \A t \in Task : RetryVerdicts(reviews, t) = {}
    BY DEF Init, RetryVerdicts, AbsentRow
  <2>2. \A t \in Task : Cardinality(RetryVerdicts(reviews, t)) = 0
    BY <2>1, FS_EmptySet
  <2>3. \E l \in Limits : 0 < l.retry
    BY LimitsAssumption
  <2> QED
    BY <2>2, <2>3 DEF RetryBudget
<1> QED
  BY <1>1, <1>2, <1>3, <1>4 DEF BudgetInvariant

(* A task still offered to reviewers has failures left for its candidate, and  *)
(* one still worked on has verdicts left in its cycle, whichever of a finish,  *)
(* the reaper, a pause or a claim counted last and whatever calls overlapped.  *)
THEOREM BudgetsHold == Spec => []AttemptBudgets
<1>1. TypeOK /\ TypeOK' /\ ReviewsPinFinishedWork /\ BudgetInvariant /\ [Next]_vars
        => BudgetInvariant'
  BY NextOneReviewer, NextNoReviewerAtGate, NextFailureBudget, NextCycles, NextRetryBudget
     DEF BudgetInvariant
<1>2. BudgetInvariant => AttemptBudgets
  BY DEF BudgetInvariant, FailureBudget, FailuresCounted, AttemptBudgets, ReviewBudget
<1> QED
  BY <1>1, <1>2, InitBudgets, TypeCorrect, ReviewsArePinned, PTL DEF Spec

-----------------------------------------------------------------------------
(* What a call still knows when its transaction begins *)

ReviewedWorkIsDone ==
    \A t \in Task : task[t].state \in {"review", "merge_pending"} =>
        \E e \in ExecutionId : IsLatest(t, e) /\ executions[e].state = "completed"

UsedUp(t) ==
    \E e \in ExecutionId, l \in Limits :
        IsLatest(t, e) /\ Cardinality(RuntimeFailures(reviews, t, e)) >= l.failure

(* What the call x read is still so.                                           *)
Fresh(x) ==
    /\ x.kind = "claim_task" =>
          \A e \in ExecutionsOf(x.task) : executions[e].attempt < x.attempt
    /\ x.kind = "claim_review" => IsLatest(x.task, x.execution)
    /\ x.kind = "block_review" => UsedUp(x.task)
    /\ (\/ x.kind \in {"claim_review", "block_review"}
        \/ x.kind = "retry" /\ x.seen = "review")
           => ~HasActiveReview(x.task)
CallsAreFresh == \A h \in Handler : Fresh(handler[h])

SerialInvariant ==
    /\ OneReviewer
    /\ ReviewedWorkIsDone
    /\ CallsAreFresh
    /\ AttemptsAreCurrent
    /\ TasksAreAccountedFor

-----------------------------------------------------------------------------
(* Work under review *)

(* Work under review stays completed                                           *)
LEMMA NextReviewedWorkIsDone ==
    ASSUME TypeOK, [Next]_vars, ReviewedWorkIsDone
    PROVE  ReviewedWorkIsDone'
<1> SUFFICES ASSUME NEW t \in Task, task'[t].state \in {"review", "merge_pending"}
             PROVE  \E e \in ExecutionId : IsLatest(t, e)' /\ executions'[e].state = "completed"
  BY DEF ReviewedWorkIsDone
<1>1. ASSUME NEW h \in Handler, PersistTaskClaim(h) PROVE handler[h].task # t
  <2>1. task' = [task EXCEPT ![handler[h].task].state = "assigned"]
    BY <1>1 DEF PersistTaskClaim
  <2>2. task[t] \in TaskRow /\ DOMAIN task = Task
    BY DEF TypeOK
  <2> QED
    BY <2>1, <2>2 DEF TaskRow
<1>2. CASE task[t].state \in {"review", "merge_pending"}
  <2>1. PICK e \in ExecutionId : IsLatest(t, e) /\ executions[e].state = "completed"
    BY <1>2 DEF ReviewedWorkIsDone
  <2>2. IsLatest(t, e)'
    BY <1>1, <2>1, LatestUnlessClaimed
  <2>3. executions'[e] = executions[e]
    BY <2>1, CompletedStays
  <2> QED
    BY <2>1, <2>2, <2>3
<1>3. CASE task[t].state \notin {"review", "merge_pending"}
  <2>1. PICK e \in ExecutionId : CompleteExecution(e) /\ executions[e].task = t
    BY <1>3, OnlyCompletionOpensReview
  <2>2. /\ ActiveExecution(e) /\ IsLatest(t, e)
        /\ executions' = [executions EXCEPT ![e] = Closed(@, "completed")]
    BY <2>1 DEF CompleteExecution, CloseExecution, Accepted, ActiveExecution
  <2>3. executions'[e].state = "completed"
    BY <2>2, ClosedExecution DEF TypeOK
  <2>4. IsLatest(t, e)'
    BY <1>1, <2>2, LatestUnlessClaimed
  <2> QED
    BY <2>3, <2>4
<1> QED
  BY <1>2, <1>3

(* The candidate of a task in review is its latest execution.                  *)
LEMMA CandidateIsLatest ==
    ASSUME TypeOK, ReviewedWorkIsDone, NEW t \in Task, task[t].state = "review",
           NEW e \in ExecutionId, IsCandidate(t, e)
    PROVE  IsLatest(t, e)
<1>1. PICK f \in ExecutionId : IsLatest(t, f) /\ executions[f].state = "completed"
  BY DEF ReviewedWorkIsDone
<1>2. e \in ExecutionsOf(t) /\ f \in ExecutionsOf(t)
      /\ executions[e].state = "completed"
  BY <1>1 DEF IsCandidate, FirstByAttempt, IsLatest
<1>3. /\ \/ executions[f].attempt < executions[e].attempt
         \/ executions[f].attempt = executions[e].attempt /\ e <= f
      /\ \/ executions[e].attempt < executions[f].attempt
         \/ executions[e].attempt = executions[f].attempt /\ f <= e
  BY <1>1, <1>2 DEF IsCandidate, FirstByAttempt, IsLatest
<1>4. /\ executions[e].attempt \in Nat /\ executions[f].attempt \in Nat
      /\ e \in Nat /\ f \in Nat
  BY <1>2, BoundsAssumption DEF ExecutionsOf, TypeOK, AbsentRow, ExecutionRow, ExecutionId
<1>5. e = f
  BY <1>3, <1>4
<1> QED
  BY <1>1, <1>5

-----------------------------------------------------------------------------
(* One call at a time *)

(* The step of a call ends it, or is its read.                                 *)
LEMMA CallStep ==
    ASSUME TypeOK, NEW h \in Handler, HandlerStep(h)
    PROVE  \/ handler'[h] = IdleCall
           \/ \E w \in Worker, t \in Task : ClaimTaskRead(h, w, t) \/ ClaimReviewRead(h, w, t)
           \/ \E w \in Worker, request \in WorkerRequests : UpdateWorkerRead(h, w, request)
           \/ \E t \in Task : RetryRead(h, t) \/ DeleteRead(h, t)
<1>1. CASE handler' = Finished(h)
  BY <1>1 DEF Finished, TypeOK
<1> QED
  BY <1>1 DEF HandlerStep, PersistTaskClaim, BlockExhaustedTask, PersistReviewClaim,
     RequeueConflictingCandidate, CallDropped, UpdateWorkerCommit, RetryCommit, DeleteCommit

(* While no call has a step, what the calls have read stays so: no row is      *)
(* inserted, and failures only grow in number.                                 *)
LEMMA FailuresGrow ==
    ASSUME TypeOK, [Next]_vars, NEW t, NEW e
    PROVE  /\ RuntimeFailures(reviews, t, e) \subseteq RuntimeFailures(reviews', t, e)
           /\ Cardinality(RuntimeFailures(reviews, t, e))
                 <= Cardinality(RuntimeFailures(reviews', t, e))
           /\ Cardinality(RuntimeFailures(reviews, t, e)) \in Nat
           /\ Cardinality(RuntimeFailures(reviews', t, e)) \in Nat
<1>1. RuntimeFailures(reviews, t, e) \subseteq RuntimeFailures(reviews', t, e)
  BY NextHistory DEF ReviewHistoryKept, RuntimeFailures
<1> QED
  BY <1>1, AllKept, RowsAreFinite DEF RuntimeFailures

(* What a call has read stays true while no call steps                         *)
LEMMA ReadsStand ==
    ASSUME TypeOK, [Next]_vars, ExecutionsFramed, ReviewsFramed, NEW h \in Handler,
           Fresh(handler[h]), UNCHANGED handler
    PROVE  Fresh(handler[h])'
<1> DEFINE x == handler[h]
<1>0. /\ x.kind = "claim_task" => x.task \in Task
      /\ x.kind = "claim_review" => x.task \in Task /\ x.execution \in ExecutionId
      /\ x.kind = "block_review" => x.task \in Task
      /\ x.kind = "retry" => x.task \in Task
  BY CallTypes DEF ClaimTaskCall, ClaimReviewCall, BlockReviewCall, RetryCall
<1>1. ASSUME NEW t \in Task, ~HasActiveReview(t) PROVE ~HasActiveReview(t)'
  BY <1>1 DEF ReviewsFramed, HasActiveReview, ReviewsOf, ActiveReview
<1>2. ASSUME NEW t \in Task, UsedUp(t) PROVE UsedUp(t)'
  <2>1. PICK e \in ExecutionId, l \in Limits :
            IsLatest(t, e) /\ Cardinality(RuntimeFailures(reviews, t, e)) >= l.failure
    BY <1>2 DEF UsedUp
  <2>2. IsLatest(t, e)'
    BY <2>1, LatestFramed
  <2>3. /\ Cardinality(RuntimeFailures(reviews, t, e))
              <= Cardinality(RuntimeFailures(reviews', t, e))
        /\ Cardinality(RuntimeFailures(reviews, t, e)) \in Nat
        /\ Cardinality(RuntimeFailures(reviews', t, e)) \in Nat
        /\ l.failure \in Nat
    BY FailuresGrow, LimitsAssumption
  <2>4. Cardinality(RuntimeFailures(reviews', t, e)) >= l.failure
    BY <2>1, <2>3
  <2> QED
    BY <2>2, <2>4 DEF UsedUp
<1>3. ASSUME NEW t \in Task, NEW a, \A e \in ExecutionsOf(t) : executions[e].attempt < a
      PROVE  \A e \in ExecutionsOf(t)' : executions'[e].attempt < a
  <2>1. \A e \in ExecutionId : executions'[e].state # "absent" =>
            /\ executions[e].state # "absent"
            /\ executions'[e].task = executions[e].task
            /\ executions'[e].attempt = executions[e].attempt
    BY DEF ExecutionsFramed, ActiveExecution
  <2> QED
    BY <1>3, <2>1 DEF ExecutionsOf
<1>4. ASSUME x.kind = "claim_review", IsLatest(x.task, x.execution)
      PROVE  IsLatest(x.task, x.execution)'
  BY <1>0, <1>4, LatestFramed
<1> QED
  BY <1>0, <1>1, <1>2, <1>3, <1>4 DEF Fresh

(* A call has just read what its transaction relies on.                        *)
LEMMA ReadsAreFresh ==
    ASSUME TypeOK, ReviewedWorkIsDone, NEW h \in Handler, HandlerStep(h)
    PROVE  Fresh(handler[h])'
<1>1. CASE handler'[h] = IdleCall
  BY <1>1 DEF Fresh, IdleCall
<1>2. ASSUME NEW w \in Worker, NEW t \in Task, ClaimTaskRead(h, w, t)
      PROVE  Fresh(handler[h])'
  <2>1. PICK a \in 1 .. MaxExecutions + 1 :
          /\ IsNextAttempt(t, a)
          /\ handler' = [handler EXCEPT ![h] = [kind |-> "claim_task", worker |-> w,
                                                task |-> t, attempt |-> a]]
    BY <1>2 DEF ClaimTaskRead, Started
  <2>2. handler'[h] = [kind |-> "claim_task", worker |-> w, task |-> t, attempt |-> a]
    BY <2>1 DEF TypeOK
  <2>3. UNCHANGED executions
    BY <1>2 DEF ClaimTaskRead
  <2> QED
    BY <2>1, <2>2, <2>3 DEF Fresh, IsNextAttempt, ExecutionsOf
<1>3. ASSUME NEW w \in Worker, NEW t \in Task, ClaimReviewRead(h, w, t)
      PROVE  Fresh(handler[h])'
  <2>1. PICK e \in ExecutionId :
          /\ IsCandidate(t, e)
          /\ handler' = [handler EXCEPT ![h] =
                IF FailuresExhausted(reviews, t, e)
                THEN [kind |-> "block_review", task |-> t]
                ELSE [kind |-> "claim_review", worker |-> w, task |-> t,
                      execution |-> e, cycle |-> task[t].cycle]]
    BY <1>3 DEF ClaimReviewRead, Started
  <2>2. /\ task[t].state = "review" /\ ~HasActiveReview(t)
        /\ UNCHANGED <<executions, reviews>>
    BY <1>3 DEF ClaimReviewRead
  <2>3. IsLatest(t, e)
    BY <2>1, <2>2, CandidateIsLatest
  <2>4. IsLatest(t, e)' /\ ~HasActiveReview(t)'
    BY <2>2, <2>3 DEF IsLatest, FirstByAttempt, ExecutionsOf, HasActiveReview, ReviewsOf,
                      ActiveReview
  <2>5. CASE FailuresExhausted(reviews, t, e)
    <3>1. handler'[h] = [kind |-> "block_review", task |-> t]
      BY <2>1, <2>5 DEF TypeOK
    <3>2. limits \in Limits /\ Cardinality(RuntimeFailures(reviews', t, e)) >= limits.failure
      BY <2>2, <2>5 DEF FailuresExhausted, TypeOK
    <3>3. UsedUp(t)'
      BY <2>4, <3>2 DEF UsedUp
    <3> QED
      BY <2>4, <3>1, <3>3 DEF Fresh
  <2>6. CASE ~FailuresExhausted(reviews, t, e)
    <3>1. handler'[h] = [kind |-> "claim_review", worker |-> w, task |-> t,
                         execution |-> e, cycle |-> task[t].cycle]
      BY <2>1, <2>6 DEF TypeOK
    <3> QED
      BY <2>4, <3>1 DEF Fresh
  <2> QED
    BY <2>5, <2>6
<1>4. ASSUME NEW w \in Worker, NEW request \in WorkerRequests, UpdateWorkerRead(h, w, request)
      PROVE  Fresh(handler[h])'
  BY <1>4 DEF UpdateWorkerRead, Started, TypeOK, Fresh
<1>5. ASSUME NEW t \in Task, RetryRead(h, t) PROVE Fresh(handler[h])'
  <2>1. handler'[h] = [kind |-> "retry", task |-> t, seen |-> task[t].state]
    BY <1>5 DEF RetryRead, Started, TypeOK
  <2>2. task[t].state = "review" => ~HasActiveReview(t)'
    BY <1>5 DEF RetryRead, HasActiveReview, ReviewsOf, ActiveReview
  <2> QED
    BY <2>1, <2>2 DEF Fresh
<1>6. ASSUME NEW t \in Task, DeleteRead(h, t) PROVE Fresh(handler[h])'
  BY <1>6 DEF DeleteRead, Started, TypeOK, Fresh
<1> QED
  BY <1>1, <1>2, <1>3, <1>4, <1>5, <1>6, CallStep

(* Calls that do not overlap commit on what they have read                     *)
LEMMA NextCallsAreFresh ==
    ASSUME \A g, h \in Handler : g = h,
           TypeOK, ReviewedWorkIsDone, CallsAreFresh, [Next]_vars
    PROVE  CallsAreFresh'
<1> SUFFICES ASSUME NEW h \in Handler PROVE Fresh(handler[h])'
  BY DEF CallsAreFresh
<1>1. CASE HandlerStep(h)
  BY <1>1, ReadsAreFresh
<1>2. CASE ~HandlerStep(h)
  <2>1. \A g \in Handler : ~HandlerStep(g)
    BY <1>2
  <2>2. UNCHANGED handler
    BY <2>1 DEF Next, vars, ExecutionStep, RenewExecution, CompleteExecution, FailExecution,
         ReleaseExecution, CloseExecution, ExecutionLeasePasses, ReapExecution,
         ReviewStep, RenewReview, FailReview, ApproveReview, RequestChanges, ReleaseReview,
         CloseReview, ReviewLeasePasses, ReapReview, SweepStep, SweepExecutions,
         SweepReviews, SweepEnds, SweepAborts, OperatorStep, RetireWorker, MergedTask,
         RereviewAfterUpstreamMove, UpdateHostSettings
  <2>3. ExecutionsFramed /\ ReviewsFramed
    BY <2>1, NextFrame DEF HandlerStep
  <2> QED
    BY <2>2, <2>3, ReadsStand DEF CallsAreFresh
<1> QED
  BY <1>1, <1>2

-----------------------------------------------------------------------------
(* Whoever works, works on what the task stands on *)

(* The active execution of an assigned task is its latest, so that whatever    *)
(* takes the task away ends that execution, and what ends it takes the task.   *)
LEMMA AssignedTogether ==
    ASSUME TypeOK, [Next]_vars, ExecutionsAreCurrent, AssignedTaskHasLease,
           NEW t \in Task, task[t].state = "assigned",
           NEW e \in ExecutionId, ActiveExecution(e), executions[e].task = t
    PROVE  task'[t].state = "assigned" <=> ActiveExecution(e)'
<1>t. task[t] \in TaskRow /\ DOMAIN task = Task /\ executions[e] \in ExecutionRow
  BY ActiveRows DEF TypeOK
<1>1. \A f \in ExecutionsOf(t) : IsLatest(t, f) \/ ActiveExecution(f) => f = e
  <2>1. IsLatest(t, e)
    BY DEF ExecutionsAreCurrent
  <2> QED
    BY <2>1, OneLatest DEF ExecutionsAreCurrent, ExecutionsOf
<1>2. CASE UNCHANGED <<task, executions>>
  BY <1>2 DEF ActiveExecution
<1>3. ASSUME NEW u, NEW s, task' = [task EXCEPT ![u].state = s], task[u].state # "assigned"
      PROVE  task'[t].state = "assigned"
  BY <1>3
<1>4. ASSUME NEW h \in Handler, HandlerStep(h)
      PROVE  task'[t].state = "assigned" <=> ActiveExecution(e)'
  <2>1. CASE PersistTaskClaim(h)
    <3>1. executions[e].state = "active"
      BY DEF ActiveExecution
    <3>2. ActiveExecution(e)'
      BY <2>1, <3>1 DEF PersistTaskClaim, FirstAbsent, NewExecution, TypeOK, ActiveExecution
    <3> QED
      BY <1>3, <2>1, <3>2 DEF PersistTaskClaim
  <2>2. CASE UpdateWorkerCommit(h)
    <3>1. \/ LoseLeases(handler[h].worker) \/ RevokeLeases(handler[h].worker)
          \/ UNCHANGED <<task, executions>>
      BY <2>2 DEF UpdateWorkerCommit
    <3>2. CASE LoseLeases(handler[h].worker)
      <4> DEFINE w == handler[h].worker
      <4>1. WorksOn(w, t) <=> executions[e].worker = w
        BY <1>1 DEF WorksOn, ExecutionsOf, ActiveExecution
      <4>2. ActiveExecution(e)' <=> executions[e].worker # w
        BY <3>2, ClosedExecution DEF LoseLeases, ActiveExecution
      <4>3. task'[t].state = "assigned" <=> ~WorksOn(w, t)
        BY <1>t, <3>2 DEF LoseLeases, TaskRow
      <4> QED
        BY <4>1, <4>2, <4>3
    <3>3. CASE RevokeLeases(handler[h].worker)
      BY <3>3, LeaseChangeKeepsExecution DEF RevokeLeases, ActiveExecution, Leases
    <3> QED
      BY <1>2, <3>1, <3>2, <3>3
  <2>3. CASE BlockExhaustedTask(h) \/ RequeueConflictingCandidate(h) \/ DeleteCommit(h)
    <3>1. UNCHANGED executions
      BY <2>3 DEF BlockExhaustedTask, RequeueConflictingCandidate, DeleteCommit
    <3>2. \E s : task' = [task EXCEPT ![handler[h].task].state = s]
      BY <2>3 DEF BlockExhaustedTask, RequeueConflictingCandidate, DeleteCommit
    <3>3. task[handler[h].task].state # "assigned"
      BY <2>3 DEF BlockExhaustedTask, RequeueConflictingCandidate, DeleteCommit, Undeletable
    <3> QED
      BY <1>3, <3>1, <3>2, <3>3 DEF ActiveExecution
  <2>4. CASE RetryCommit(h)
    <3>1. task[handler[h].task].state # "assigned"
      BY <2>4, CallTypes DEF RetryCommit, RetryCall, Retryable
    <3>2. task'[t] = task[t] /\ UNCHANGED executions
      BY <1>t, <2>4, <3>1 DEF RetryCommit
    <3> QED
      BY <3>2 DEF ActiveExecution
  <2> QED
    BY <1>2, <1>4, <2>1, <2>2, <2>3, <2>4 DEF HandlerStep, ClaimTaskRead, ClaimReviewRead,
       PersistReviewClaim, CallDropped, UpdateWorkerRead, RetryRead, DeleteRead
<1>5. ASSUME NEW f \in ExecutionId, ExecutionStep(f)
      PROVE  task'[t].state = "assigned" <=> ActiveExecution(e)'
  <2>0. executions[f].task = t /\ IsLatest(t, f) => f = e
    BY <1>1 DEF IsLatest, FirstByAttempt
  <2>1. CASE CompleteExecution(f) \/ FailExecution(f) \/ ReleaseExecution(f)
    <3>1. PICK s \in {"completed", "failed", "cancelled"}, ts \in {"review", "failed", "queued"} :
              CloseExecution(f, s, ts)
      BY <2>1 DEF CompleteExecution, FailExecution, ReleaseExecution
    <3>2. CASE f = e
      <4>1. executions'[e].state = s
        BY <3>1, <3>2, ClosedExecution DEF CloseExecution, TypeOK
      <4>2. task'[t].state = ts
        BY <1>t, <3>1, <3>2 DEF CloseExecution, TaskRow
      <4> QED
        BY <4>1, <4>2 DEF ActiveExecution
    <3>3. CASE f # e
      <4>1. executions[f].task # t
        BY <2>0, <3>1, <3>3 DEF CloseExecution
      <4> QED
        BY <1>t, <3>1, <3>3, <4>1 DEF CloseExecution, ActiveExecution, TypeOK
    <3> QED
      BY <3>2, <3>3
  <2>2. CASE ReapExecution(f)
    <3>1. CASE f = e
      <4>1. executions'[e].state = "lost"
        BY <2>2, <3>1, ClosedExecution DEF ReapExecution, TypeOK
      <4>2. IsLatest(t, e)
        BY DEF ExecutionsAreCurrent
      <4>3. task' = [task EXCEPT ![t].state = "queued"]
        BY <2>2, <3>1, <4>2 DEF ReapExecution
      <4>4. task'[t].state = "queued"
        BY <1>t, <4>3 DEF TaskRow
      <4> QED
        BY <4>1, <4>4 DEF ActiveExecution
    <3>2. CASE f # e
      <4>1. ActiveExecution(e)'
        BY <2>2, <3>2 DEF ReapExecution, ActiveExecution, TypeOK
      <4>2. task'[t] = task[t]
        BY <1>t, <2>0, <2>2, <3>2 DEF ReapExecution
      <4> QED
        BY <4>1, <4>2
    <3> QED
      BY <3>1, <3>2
  <2>3. CASE RenewExecution(f) \/ ExecutionLeasePasses(f)
    <3>1. \E l : executions' = [executions EXCEPT ![f].lease = l]
      BY <2>3 DEF RenewExecution, ExecutionLeasePasses
    <3>2. UNCHANGED task
      BY <2>3 DEF RenewExecution, ExecutionLeasePasses
    <3> QED
      BY <1>t, <3>1, <3>2 DEF TypeOK, ExecutionRow, ActiveExecution
  <2> QED
    BY <1>5, <2>1, <2>2, <2>3 DEF ExecutionStep
<1>6. ASSUME NEW r \in ReviewId, ReviewStep(r)
      PROVE  task'[t].state = "assigned" <=> ActiveExecution(e)'
  <2>1. UNCHANGED executions
    BY <1>6 DEF ReviewStep, RenewReview, FailReview, ApproveReview,
       RequestChanges, ReleaseReview, CloseReview, ReviewLeasePasses, ReapReview
  <2>2. UNCHANGED task
        \/ /\ task[reviews[r].task].state = "review"
           /\ \E s : task' = [task EXCEPT ![reviews[r].task].state = s]
    BY <1>6 DEF ReviewStep, RenewReview, FailReview, ApproveReview, RequestChanges,
       ReleaseReview, CloseReview, ReviewAccepted, ReviewLeasePasses, ReapReview
  <2> QED
    BY <1>3, <2>1, <2>2 DEF ActiveExecution
<1>7. ASSUME OperatorStep PROVE task'[t].state = "assigned" <=> ActiveExecution(e)'
  <2>1. UNCHANGED executions
    BY <1>7 DEF OperatorStep, RetireWorker, MergedTask, RereviewAfterUpstreamMove,
       UpdateHostSettings
  <2>2. UNCHANGED task
        \/ \E u \in Task : task[u].state = "merge_pending" /\ \E s : task' = [task EXCEPT ![u].state = s]
    BY <1>7 DEF OperatorStep, RetireWorker, MergedTask, RereviewAfterUpstreamMove,
       UpdateHostSettings
  <2> QED
    BY <1>3, <2>1, <2>2 DEF ActiveExecution
<1>8. CASE SweepStep \/ UNCHANGED vars
  BY <1>2, <1>8 DEF SweepStep, SweepExecutions, SweepReviews, SweepEnds, SweepAborts, vars
<1> QED
  BY <1>4, <1>5, <1>6, <1>7, <1>8 DEF Next

(* A claim gives the task a new latest execution: its attempt is still above   *)
(* all others.                                                                 *)
LEMMA ClaimedIsLatest ==
    ASSUME TypeOK, CallsAreFresh, NEW h \in Handler, PersistTaskClaim(h), NEW e \in ExecutionId,
           ActiveExecution(e)', ~ActiveExecution(e), NEW t \in Task, handler[h].task = t
    PROVE  /\ executions'[e].task = t
           /\ IsLatest(t, e)'
           /\ task'[t].state = "assigned"
<1>1. PICK new \in ExecutionId :
          /\ FirstAbsent(executions, ExecutionId, new)
          /\ executions' = [executions EXCEPT ![new] =
                NewExecution(t, handler[h].worker, handler[h].attempt)]
  BY DEF PersistTaskClaim
<1>2. e = new
  BY <1>1 DEF TypeOK, ActiveExecution
<1>3. executions'[e] = NewExecution(t, handler[h].worker, handler[h].attempt)
      /\ \A f \in ExecutionId : f # e => executions'[f] = executions[f]
  BY <1>1, <1>2 DEF TypeOK
<1>4. handler[h] \in ClaimTaskCall
  BY CallTypes DEF PersistTaskClaim
<1>5. \A f \in ExecutionsOf(t) : executions[f].attempt < handler[h].attempt
  BY DEF CallsAreFresh, Fresh, PersistTaskClaim
<1>6. executions'[e].task = t /\ executions'[e].attempt = handler[h].attempt
      /\ executions'[e].state = "active"
  BY <1>3 DEF NewExecution
<1>7. e \in Nat
  BY BoundsAssumption DEF ExecutionId
<1>8. IsLatest(t, e)'
  <2> SUFFICES ASSUME NEW f \in ExecutionsOf(t)', f # e
               PROVE  executions'[f].attempt < executions'[e].attempt
    BY <1>6, <1>7 DEF IsLatest, FirstByAttempt, ExecutionsOf
  <2>1. f \in ExecutionsOf(t) /\ executions'[f] = executions[f]
    BY <1>3 DEF ExecutionsOf
  <2> QED
    BY <1>5, <1>6, <2>1
<1>9. task'[t].state = "assigned"
  <2>1. task[t] \in TaskRow /\ DOMAIN task = Task
    BY <1>4 DEF TypeOK, ClaimTaskCall
  <2> QED
    BY <1>4, <2>1 DEF PersistTaskClaim, TaskRow, ClaimTaskCall
<1> QED
  BY <1>6, <1>8, <1>9

(* An open execution is its task's latest, and an assigned task has one        *)
LEMMA NextExecutionsAreCurrent ==
    ASSUME TypeOK, [Next]_vars, CallsAreFresh, ExecutionsAreCurrent, AssignedTaskHasLease
    PROVE  ExecutionsAreCurrent' /\ AssignedTaskHasLease'
<1>1. ASSUME NEW e \in ExecutionId, ActiveExecution(e)'
      PROVE  /\ task'[executions'[e].task].state = "assigned"
             /\ IsLatest(executions[e].task, e)'
  <2>1. CASE ActiveExecution(e)
    <3>0. PICK t \in Task : t = executions[e].task
      BY <2>1, ActiveRows DEF ExecutionRow
    <3>1. task[t].state = "assigned" /\ IsLatest(t, e)
      BY <2>1, <3>0 DEF ExecutionsAreCurrent
    <3>2. executions'[e].task = t
      BY <2>1, <3>0, NextHistory DEF ExecutionHistoryKept, ActiveExecution
    <3>3. task'[t].state = "assigned"
      BY <1>1, <2>1, <3>0, <3>1, AssignedTogether
    <3>4. \A h \in Handler : PersistTaskClaim(h) => handler[h].task # t
      BY <3>1 DEF PersistTaskClaim
    <3>5. IsLatest(t, e)'
      BY <3>1, <3>4, LatestUnlessClaimed
    <3> QED
      BY <3>2, <3>3, <3>5
  <2>2. CASE ~ActiveExecution(e)
    <3>1. PICK h \in Handler : PersistTaskClaim(h)
      BY <1>1, <2>2, NextFrame DEF ExecutionsFramed, ActiveExecution
    <3>2. PICK t \in Task : t = handler[h].task
      BY <3>1, CallTypes DEF PersistTaskClaim, ClaimTaskCall
    <3> QED
      BY <1>1, <2>2, <3>1, <3>2, ClaimedIsLatest
  <2> QED
    BY <2>1, <2>2
<1>2. ASSUME NEW t \in Task, task'[t].state = "assigned"
      PROVE  \E e \in ExecutionsOf(t)' : ActiveExecution(e)'
  <2>1. CASE task[t].state = "assigned"
    <3>1. PICK e \in ExecutionsOf(t) : ActiveExecution(e)
      BY <2>1 DEF AssignedTaskHasLease
    <3>2. e \in ExecutionId /\ executions[e].task = t
      BY DEF ExecutionsOf
    <3>3. ActiveExecution(e)'
      BY <1>2, <2>1, <3>1, <3>2, AssignedTogether
    <3>4. executions'[e].task = t
      BY <3>1, <3>2, NextHistory DEF ExecutionHistoryKept, ActiveExecution
    <3> QED
      BY <3>2, <3>3, <3>4 DEF ExecutionsOf, ActiveExecution
  <2>2. CASE task[t].state # "assigned"
    <3>1. PICK h \in Handler : PersistTaskClaim(h) /\ handler[h].task = t
      BY <1>2, <2>2, NextMoves DEF LaneMove, LaneStep
    <3>2. PICK new \in ExecutionId :
              executions' = [executions EXCEPT ![new] =
                    NewExecution(t, handler[h].worker, handler[h].attempt)]
      BY <3>1 DEF PersistTaskClaim
    <3> QED
      BY <3>2 DEF TypeOK, NewExecution, ExecutionsOf, ActiveExecution
  <2> QED
    BY <2>1, <2>2
<1> QED
  BY <1>1, <1>2 DEF ExecutionsAreCurrent, AssignedTaskHasLease

(* Nobody takes a task in review from the reviewer that keeps it, but by       *)
(* deleting it.                                                                *)
LEMMA ReviewerKeepsTask ==
    ASSUME TypeOK, [Next]_vars, OneReviewer, CallsAreFresh, NEW t \in Task,
           task[t].state = "review", NEW r \in ReviewId, reviews[r].task = t,
           ActiveReview(r), ActiveReview(r)'
    PROVE  task'[t].state \in {"review", "cancelled"}
<1>t. task[t] \in TaskRow /\ DOMAIN task = Task /\ reviews[r] \in ReviewRow
  BY ActiveRows DEF TypeOK
<1>h. HasActiveReview(t)
  BY DEF HasActiveReview, ReviewsOf, ActiveReview
<1>0. ASSUME NEW u, NEW s, task' = [task EXCEPT ![u].state = s], u # t \/ s = "cancelled"
      PROVE  task'[t].state \in {"review", "cancelled"}
  BY <1>t, <1>0 DEF TaskRow
<1>1. ASSUME NEW h \in Handler, HandlerStep(h) PROVE task'[t].state \in {"review", "cancelled"}
  <2>0. Fresh(handler[h])
    BY DEF CallsAreFresh
  <2>1. CASE PersistTaskClaim(h)
    BY <1>0, <2>1 DEF PersistTaskClaim
  <2>2. CASE BlockExhaustedTask(h) \/ RequeueConflictingCandidate(h)
    <3>1. handler[h].task # t
      BY <1>h, <2>0, <2>2 DEF BlockExhaustedTask, RequeueConflictingCandidate, Fresh
    <3> QED
      BY <1>0, <2>2, <3>1 DEF BlockExhaustedTask, RequeueConflictingCandidate
  <2>3. CASE UpdateWorkerCommit(h)
    <3>1. LoseLeases(handler[h].worker) \/ UNCHANGED task
      BY <2>3 DEF UpdateWorkerCommit, RevokeLeases
    <3>2. CASE LoseLeases(handler[h].worker)
      <4> DEFINE w == handler[h].worker
      <4>1. reviews[r].worker # w
        BY <3>2, ClosedReview DEF LoseLeases, ActiveReview
      <4>2. ~\E s \in ReviewsOf(t) : ActiveReview(s) /\ reviews[s].worker = w
        BY <4>1 DEF OneReviewer, ReviewsOf
      <4>3. task'[t] = task[t]
        BY <3>2, <4>2 DEF LoseLeases
      <4> QED
        BY <4>3
    <3> QED
      BY <3>1, <3>2
  <2>4. CASE RetryCommit(h)
    <3>1. handler[h].task # t
      BY <1>h, <2>0, <2>4 DEF RetryCommit, Fresh
    <3>2. task'[t] = task[t]
      BY <1>t, <2>4, <3>1 DEF RetryCommit
    <3> QED
      BY <3>2
  <2>5. CASE DeleteCommit(h)
    BY <1>0, <2>5 DEF DeleteCommit
  <2>6. CASE UNCHANGED task
    BY <2>6
  <2> QED
    BY <1>1, <2>1, <2>2, <2>3, <2>4, <2>5, <2>6 DEF HandlerStep, ClaimTaskRead, ClaimReviewRead,
       PersistReviewClaim, CallDropped, UpdateWorkerRead, RetryRead, DeleteRead
<1>2. ASSUME NEW e \in ExecutionId, ExecutionStep(e)
      PROVE  task'[t].state \in {"review", "cancelled"}
  <2>1. UNCHANGED task
        \/ /\ task[executions[e].task].state = "assigned"
           /\ \E s : task' = [task EXCEPT ![executions[e].task].state = s]
    BY <1>2 DEF ExecutionStep, RenewExecution, CompleteExecution, FailExecution,
       ReleaseExecution, CloseExecution, ExecutionLeasePasses, ReapExecution
  <2> QED
    BY <1>0, <2>1
<1>3. ASSUME NEW s \in ReviewId, ReviewStep(s)
      PROVE  task'[t].state \in {"review", "cancelled"}
  <2>1. CASE UNCHANGED task
    BY <2>1
  <2>2. CASE ~UNCHANGED task
    <3>1. /\ ActiveReview(s)
          /\ \E v \in {"approved", "retry", "failed", "lost"} :
                reviews' = [reviews EXCEPT ![s] = Closed(@, v)]
          /\ \E v : task' = [task EXCEPT ![reviews[s].task].state = v]
      BY <1>3, <2>2 DEF ReviewStep, RenewReview, FailReview, ApproveReview, RequestChanges,
         ReleaseReview, CloseReview, ReviewAccepted, Accepted, ReviewLeasePasses, ReapReview,
         ActiveReview
    <3>2. ~ActiveReview(s)'
      BY <3>1, ClosedReview DEF TypeOK, ActiveReview
    <3>3. reviews[s].task # t
      BY <3>1, <3>2 DEF OneReviewer
    <3> QED
      BY <1>0, <3>1, <3>3
  <2> QED
    BY <2>1, <2>2
<1>4. ASSUME OperatorStep PROVE task'[t].state \in {"review", "cancelled"}
  <2>1. UNCHANGED task
        \/ \E u \in Task : task[u].state = "merge_pending" /\ \E s : task' = [task EXCEPT ![u].state = s]
    BY <1>4 DEF OperatorStep, RetireWorker, MergedTask, RereviewAfterUpstreamMove,
       UpdateHostSettings
  <2> QED
    BY <1>0, <2>1
<1>5. CASE SweepStep \/ UNCHANGED vars
  BY <1>5 DEF SweepStep, SweepExecutions, SweepReviews, SweepEnds, SweepAborts, vars
<1> QED
  BY <1>1, <1>2, <1>3, <1>4, <1>5 DEF Next

(* An open review is of its task's latest execution                            *)
LEMMA NextReviewsAreCurrent ==
    ASSUME TypeOK, [Next]_vars, OneReviewer, CallsAreFresh, ReviewsAreCurrent
    PROVE  ReviewsAreCurrent'
<1> SUFFICES ASSUME NEW r \in ReviewId, ActiveReview(r)'
             PROVE  \/ task'[reviews'[r].task].state = "review"
                       /\ IsLatest(reviews[r].task, reviews[r].execution)'
                    \/ task'[reviews'[r].task].state = "cancelled"
  BY DEF ReviewsAreCurrent
<1>1. CASE ActiveReview(r)
  <2>1. PICK t \in Task, e \in ExecutionId : t = reviews[r].task /\ e = reviews[r].execution
    BY <1>1, ActiveRows DEF ReviewRow
  <2>2. reviews'[r].task = t /\ reviews'[r].execution = e
    BY <1>1, <2>1, NextHistory DEF ReviewHistoryKept, ActiveReview
  <2>3. CASE task[t].state = "cancelled"
    BY <2>2, <2>3, NextFinal DEF FinalStates
  <2>4. CASE task[t].state = "review" /\ IsLatest(t, e)
    <3>1. task'[t].state \in {"review", "cancelled"}
      BY <1>1, <2>1, <2>4, ReviewerKeepsTask
    <3>2. \A h \in Handler : PersistTaskClaim(h) => handler[h].task # t
      BY <2>4 DEF PersistTaskClaim
    <3>3. IsLatest(t, e)'
      BY <2>4, <3>2, LatestUnlessClaimed
    <3> QED
      BY <2>2, <3>1, <3>3
  <2> QED
    BY <1>1, <2>1, <2>3, <2>4 DEF ReviewsAreCurrent
<1>2. CASE ~ActiveReview(r)
  <2>1. PICK h \in Handler : PersistReviewClaim(h)
    BY <1>2, NextFrame DEF ReviewsFramed, ActiveReview
  <2>2. PICK new \in ReviewId : reviews' = [reviews EXCEPT ![new] = NewReview(handler[h])]
    BY <2>1 DEF PersistReviewClaim
  <2>3. reviews'[r] = NewReview(handler[h])
    BY <1>2, <2>2 DEF TypeOK, ActiveReview
  <2>4. PICK t \in Task, e \in ExecutionId : t = handler[h].task /\ e = handler[h].execution
    BY <2>1, CallTypes DEF PersistReviewClaim, ClaimReviewCall
  <2>5. IsLatest(t, e) /\ task[t].state = "review" /\ UNCHANGED <<task, executions>>
    BY <2>1, <2>4 DEF CallsAreFresh, Fresh, PersistReviewClaim
  <2>6. IsLatest(t, e)'
    BY <2>5 DEF IsLatest, FirstByAttempt, ExecutionsOf
  <2>7. reviews'[r].task = t /\ reviews'[r].execution = e
    BY <2>3, <2>4 DEF NewReview
  <2> QED
    BY <2>5, <2>6, <2>7
<1> QED
  BY <1>1, <1>2

-----------------------------------------------------------------------------
(* A blocked task has its cause *)

VerdictsUsedUp(t) == \E l \in Limits : Cardinality(RetryVerdicts(reviews, t)) >= l.retry

(* Every transaction that blocks a task counted before.                        *)
LEMMA BlockedForNow ==
    ASSUME TypeOK, [Next]_vars, CallsAreFresh, NEW t \in Task,
           task[t].state # "blocked", task'[t].state = "blocked"
    PROVE  UsedUp(t)' \/ VerdictsUsedUp(t)'
<1>t. task[t] \in TaskRow /\ DOMAIN task = Task /\ limits \in Limits
  BY DEF TypeOK
<1>r. task[t].state = "review"
  BY NextMoves DEF LaneMove, LaneStep
<1>0. ASSUME NEW u, NEW s, task' = [task EXCEPT ![u].state = s] PROVE u = t /\ s = "blocked"
  BY <1>t, <1>0 DEF TaskRow
<1>u. ASSUME NEW e, IsLatest(t, e), FailuresExhausted(reviews', t, e) PROVE UsedUp(t)'
  <2>1. e \in ExecutionId
    BY <1>u DEF IsLatest, FirstByAttempt, ExecutionsOf
  <2>2. \A h \in Handler : PersistTaskClaim(h) => handler[h].task # t
    BY <1>r DEF PersistTaskClaim
  <2>3. IsLatest(t, e)'
    BY <1>u, <2>1, <2>2, LatestUnlessClaimed
  <2> QED
    BY <1>t, <1>u, <2>1, <2>3 DEF FailuresExhausted, UsedUp
<1>1. ASSUME NEW h \in Handler, HandlerStep(h) PROVE UsedUp(t)'
  <2>1. CASE BlockExhaustedTask(h)
    <3>1. handler[h].task = t
      BY <1>0, <2>1 DEF BlockExhaustedTask
    <3>2. UsedUp(t) /\ UNCHANGED <<executions, reviews>>
      BY <2>1, <3>1 DEF CallsAreFresh, Fresh, BlockExhaustedTask
    <3> QED
      BY <3>2 DEF UsedUp, IsLatest, FirstByAttempt, ExecutionsOf
  <2>2. CASE UpdateWorkerCommit(h)
    <3>1. LoseLeases(handler[h].worker) \/ UNCHANGED task
      BY <2>2 DEF UpdateWorkerCommit, RevokeLeases
    <3>2. CASE LoseLeases(handler[h].worker)
      <4>1. \E r \in ReviewsOf(t) : /\ IsLatest(t, reviews[r].execution)
                                    /\ FailuresExhausted(reviews', t, reviews[r].execution)
        BY <1>r, <3>2 DEF LoseLeases
      <4> QED
        BY <1>u, <4>1
    <3> QED
      BY <3>1, <3>2
  <2>3. CASE RetryCommit(h)
    BY <1>t, <2>3 DEF RetryCommit, TaskRow
  <2>4. CASE PersistTaskClaim(h) \/ RequeueConflictingCandidate(h) \/ DeleteCommit(h)
    <3>1. \E s \in {"assigned", "queued", "cancelled"} :
              task' = [task EXCEPT ![handler[h].task].state = s]
      BY <2>4 DEF PersistTaskClaim, RequeueConflictingCandidate, DeleteCommit
    <3> QED
      BY <1>0, <3>1
  <2>5. CASE UNCHANGED task
    BY <2>5
  <2> QED
    BY <1>1, <2>1, <2>2, <2>3, <2>4, <2>5 DEF HandlerStep, ClaimTaskRead, ClaimReviewRead,
       PersistReviewClaim, CallDropped, UpdateWorkerRead, RetryRead, DeleteRead
<1>2. ASSUME NEW e \in ExecutionId, ExecutionStep(e) PROVE FALSE
  <2>1. UNCHANGED task
        \/ \E s \in {"review", "failed", "queued"} :
              task' = [task EXCEPT ![executions[e].task].state = s]
    BY <1>2 DEF ExecutionStep, RenewExecution, CompleteExecution, FailExecution,
       ReleaseExecution, CloseExecution, ExecutionLeasePasses, ReapExecution
  <2> QED
    BY <1>0, <2>1
<1>3. ASSUME NEW r \in ReviewId, ReviewStep(r) PROVE UsedUp(t)' \/ VerdictsUsedUp(t)'
  <2>1. CASE FailReview(r)
    <3>1. task' = [task EXCEPT ![reviews[r].task].state = "blocked"]
          /\ FailuresExhausted(reviews', reviews[r].task, reviews[r].execution)
          /\ IsLatest(reviews[r].task, reviews[r].execution)
      BY <2>1 DEF FailReview, CloseReview, ReviewAccepted
    <3>2. reviews[r].task = t
      BY <1>0, <3>1
    <3> QED
      BY <1>u, <3>1, <3>2
  <2>2. CASE ReapReview(r)
    <3>1. task' = [task EXCEPT ![reviews[r].task].state = "blocked"]
          /\ FailuresExhausted(reviews', reviews[r].task, reviews[r].execution)
          /\ IsLatest(reviews[r].task, reviews[r].execution)
      BY <2>2 DEF ReapReview
    <3>2. reviews[r].task = t
      BY <1>0, <3>1
    <3> QED
      BY <1>u, <3>1, <3>2
  <2>3. CASE RequestChanges(r)
    <3>1. task' = [task EXCEPT ![reviews[r].task].state =
                      IF RetriesExhausted(reviews', reviews[r].task) THEN "blocked" ELSE "queued"]
      BY <2>3 DEF RequestChanges
    <3>2. reviews[r].task = t /\ RetriesExhausted(reviews', t)
      BY <1>0, <3>1
    <3>3. task'[t].cycle = task[t].cycle
      BY <1>t, <3>1, <3>2 DEF TaskRow
    <3>4. RetryVerdicts(reviews, t)' = RetryVerdicts(reviews', t)
      BY <3>3 DEF RetryVerdicts
    <3> QED
      BY <1>t, <3>2, <3>4 DEF RetriesExhausted, VerdictsUsedUp
  <2>4. CASE ApproveReview(r)
    BY <1>0, <2>4 DEF ApproveReview
  <2> QED
    BY <1>3, <2>1, <2>2, <2>3, <2>4 DEF ReviewStep, RenewReview, ReleaseReview, ReviewLeasePasses
<1>4. ASSUME OperatorStep PROVE FALSE
  <2>1. UNCHANGED task
        \/ \E u \in Task : \E s \in {"done", "review"} : task' = [task EXCEPT ![u].state = s]
    BY <1>4 DEF OperatorStep, RetireWorker, MergedTask, RereviewAfterUpstreamMove,
                UpdateHostSettings
  <2> QED
    BY <1>0, <2>1
<1>5. CASE SweepStep \/ UNCHANGED vars
  BY <1>5 DEF SweepStep, SweepExecutions, SweepReviews, SweepEnds, SweepAborts, vars
<1> QED
  BY <1>1, <1>2, <1>3, <1>4, <1>5 DEF Next

(* A blocked task has used up a budget                                         *)
LEMMA NextBlockedForCause ==
    ASSUME TypeOK, [Next]_vars, CallsAreFresh, BlockedForCause
    PROVE  BlockedForCause'
<1> SUFFICES ASSUME NEW t \in Task, task'[t].state = "blocked"
             PROVE  UsedUp(t)' \/ VerdictsUsedUp(t)'
  BY DEF BlockedForCause, UsedUp, VerdictsUsedUp
<1>1. CASE task[t].state = "blocked"
  <2>1. UsedUp(t) \/ VerdictsUsedUp(t)
    BY <1>1 DEF BlockedForCause, UsedUp, VerdictsUsedUp
  <2>2. CASE UsedUp(t)
    <3>1. PICK e \in ExecutionId, l \in Limits :
            IsLatest(t, e) /\ Cardinality(RuntimeFailures(reviews, t, e)) >= l.failure
      BY <2>2 DEF UsedUp
    <3>2. \A h \in Handler : PersistTaskClaim(h) => handler[h].task # t
      BY <1>1 DEF PersistTaskClaim
    <3>3. IsLatest(t, e)'
      BY <3>1, <3>2, LatestUnlessClaimed
    <3>4. l.failure \in Nat
      BY LimitsAssumption
    <3>5. Cardinality(RuntimeFailures(reviews', t, e)) >= l.failure
      BY <3>1, <3>4, FailuresGrow
    <3> QED
      BY <3>3, <3>5 DEF UsedUp
  <2>3. CASE VerdictsUsedUp(t)
    <3>1. PICK l \in Limits : Cardinality(RetryVerdicts(reviews, t)) >= l.retry
      BY <2>3 DEF VerdictsUsedUp
    <3>2. task'[t].cycle = task[t].cycle
      BY OnlyRetryBeginsCycle DEF Retried
    <3>3. RetryVerdicts(reviews, t) \subseteq RetryVerdicts(reviews, t)'
      BY <3>2, NextHistory DEF RetryVerdicts, ReviewHistoryKept
    <3>4. /\ Cardinality(RetryVerdicts(reviews, t)) \in Nat
          /\ Cardinality(RetryVerdicts(reviews, t)') \in Nat
          /\ IsFiniteSet(RetryVerdicts(reviews, t)')
      BY RowsAreFinite DEF RetryVerdicts
    <3>5. Cardinality(RetryVerdicts(reviews, t)) <= Cardinality(RetryVerdicts(reviews, t)')
      BY <3>3, <3>4, AllKept
    <3>6. l.retry \in Nat
      BY LimitsAssumption
    <3>7. Cardinality(RetryVerdicts(reviews, t)') >= l.retry
      BY <3>1, <3>4, <3>5, <3>6
    <3> QED
      BY <3>7 DEF VerdictsUsedUp
  <2> QED
    BY <2>1, <2>2, <2>3
<1>2. CASE task[t].state # "blocked"
  BY <1>2, BlockedForNow
<1> QED
  BY <1>1, <1>2

-----------------------------------------------------------------------------
(* The serial host *)

(* No rows and no calls                                                        *)
LEMMA InitSerial == Init => SerialInvariant
<1> SUFFICES ASSUME Init PROVE SerialInvariant
  OBVIOUS
<1>1. OneReviewer
  BY InitBudgets DEF BudgetInvariant
<1>2. ReviewedWorkIsDone /\ TasksAreAccountedFor
  BY DEF Init, ReviewedWorkIsDone, TasksAreAccountedFor, AssignedTaskHasLease, BlockedForCause
<1>3. CallsAreFresh
  BY DEF Init, CallsAreFresh, Fresh, IdleCall
<1>4. AttemptsAreCurrent
  BY DEF Init, AttemptsAreCurrent, ExecutionsAreCurrent, ReviewsAreCurrent, ActiveExecution,
         ActiveReview, AbsentRow
<1> QED
  BY <1>1, <1>2, <1>3, <1>4 DEF SerialInvariant

(* The invariant of calls that do not overlap is inductive                     *)
LEMMA NextSerial ==
    ASSUME \A g, h \in Handler : g = h, TypeOK, SerialInvariant, [Next]_vars
    PROVE  SerialInvariant'
BY NextOneReviewer, NextReviewedWorkIsDone, NextCallsAreFresh, NextExecutionsAreCurrent,
   NextReviewsAreCurrent, NextBlockedForCause
   DEF SerialInvariant, AttemptsAreCurrent, TasksAreAccountedFor

(* While the host handles one call at a time - leases, finishes, the reaper and *)
(* pauses interleave with it as they like - whoever works, works on what the    *)
(* task now stands on.                                                          *)
THEOREM SerialAttemptsAreCurrent ==
    ASSUME \A g, h \in Handler : g = h
    PROVE  Spec => []AttemptsAreCurrent
<1>1. TypeOK /\ SerialInvariant /\ [Next]_vars => SerialInvariant'
  BY NextSerial
<1>2. SerialInvariant => AttemptsAreCurrent
  BY DEF SerialInvariant
<1> QED
  BY <1>1, <1>2, InitSerial, TypeCorrect, PTL DEF Spec

(* Under the same condition no task is stuck: an assigned one has a lease that *)
(* ends, and a blocked one has used up a budget of its own candidate or cycle. *)
THEOREM SerialTasksAreAccountedFor ==
    ASSUME \A g, h \in Handler : g = h
    PROVE  Spec => []TasksAreAccountedFor
<1>1. TypeOK /\ SerialInvariant /\ [Next]_vars => SerialInvariant'
  BY NextSerial
<1>2. SerialInvariant => TasksAreAccountedFor
  BY DEF SerialInvariant
<1> QED
  BY <1>1, <1>2, InitSerial, TypeCorrect, PTL DEF Spec

-----------------------------------------------------------------------------
(* Liveness: the reaper comes to every expired lease *)

(* A lease its holder let expire, or that was revoked                          *)
ExecutionForgone(e) == ActiveExecution(e) /\ executions[e].lease = "expired"
ReviewForgone(r) == ActiveReview(r) /\ reviews[r].lease = "expired"

(* Nobody renews it: it stays so until it is closed                            *)
LEMMA ForgoneStays ==
  ASSUME TypeOK, [Next]_vars
  PROVE  /\ \A e \in ExecutionId :
               ExecutionForgone(e) => ExecutionForgone(e)' \/ ~ActiveExecution(e)'
         /\ \A r \in ReviewId :
               ReviewForgone(r) => ReviewForgone(r)' \/ ~ActiveReview(r)'
<1> USE DEF ExecutionForgone, ReviewForgone, ActiveExecution, ActiveReview
<1>t. /\ \A e \in ExecutionId : ActiveExecution(e) => executions[e] \in ExecutionRow
      /\ \A r \in ReviewId : ActiveReview(r) => reviews[r] \in ReviewRow
      /\ DOMAIN executions = ExecutionId /\ DOMAIN reviews = ReviewId
  BY ActiveRows DEF TypeOK
<1>1. ASSUME NEW h \in Handler, HandlerStep(h)
      PROVE  /\ \A e \in ExecutionId :
                   ExecutionForgone(e) => ExecutionForgone(e)' \/ ~ActiveExecution(e)'
             /\ \A r \in ReviewId :
                   ReviewForgone(r) => ReviewForgone(r)' \/ ~ActiveReview(r)'
  <2>1. CASE PersistTaskClaim(h)
    BY <1>t, <2>1 DEF PersistTaskClaim, FirstAbsent
  <2>2. CASE PersistReviewClaim(h)
    BY <1>t, <2>2 DEF PersistReviewClaim, FirstAbsent
  <2>3. CASE UpdateWorkerCommit(h)
    <3>1. \/ LoseLeases(handler[h].worker)
          \/ RevokeLeases(handler[h].worker)
          \/ UNCHANGED <<executions, reviews>>
      BY <2>3 DEF UpdateWorkerCommit
    <3>2. CASE LoseLeases(handler[h].worker)
      <4>1. /\ \A e \in ExecutionId : ActiveExecution(e) => Closed(executions[e], "lost").state = "lost"
            /\ \A r \in ReviewId : ActiveReview(r) => Closed(reviews[r], "lost").state = "lost"
        BY ClosedExecution, ClosedReview
      <4> QED
        BY <4>1, <3>2 DEF LoseLeases
    <3>3. CASE RevokeLeases(handler[h].worker)
      <4>1. /\ \A e \in ExecutionId : ActiveExecution(e) =>
                  [executions[e] EXCEPT !.held = FALSE, !.lease = "expired"].lease = "expired"
            /\ \A r \in ReviewId : ActiveReview(r) =>
                  [reviews[r] EXCEPT !.held = FALSE, !.lease = "expired"].lease = "expired"
        BY <1>t DEF ExecutionRow, ReviewRow
      <4> QED
        BY <4>1, <3>3 DEF RevokeLeases
    <3> QED
      BY <3>1, <3>2, <3>3
  <2>4. CASE DeleteCommit(h)
    BY <1>t, <2>4 DEF DeleteCommit, ReviewRow
  <2>5. CASE UNCHANGED <<executions, reviews>>
    BY <2>5
  <2> QED
    BY <1>1, <2>1, <2>2, <2>3, <2>4, <2>5
       DEF HandlerStep, ClaimTaskRead, ClaimReviewRead, BlockExhaustedTask,
           RequeueConflictingCandidate, CallDropped, UpdateWorkerRead, RetryRead,
           RetryCommit, DeleteRead
<1>2. ASSUME NEW e \in ExecutionId, ExecutionStep(e)
      PROVE  /\ UNCHANGED reviews
             /\ executions[e].lease = "expired" =>
                   \/ UNCHANGED executions
                   \/ \E s \in {"completed", "failed", "lost", "cancelled"} :
                         executions' = [executions EXCEPT ![e] = Closed(@, s)]
  BY <1>2 DEF ExecutionStep, RenewExecution, CompleteExecution, FailExecution, ReleaseExecution,
     CloseExecution, ExecutionLeasePasses, ReapExecution, Accepted
<1>3. ASSUME NEW r \in ReviewId, ReviewStep(r)
      PROVE  /\ UNCHANGED executions
             /\ reviews[r].lease = "expired" =>
                   \/ UNCHANGED reviews
                   \/ \E s \in {"approved", "retry", "failed", "lost", "cancelled"} :
                         reviews' = [reviews EXCEPT ![r] = Closed(@, s)]
  BY <1>3 DEF ReviewStep, RenewReview, FailReview, ApproveReview, RequestChanges, ReleaseReview,
     CloseReview, ReviewLeasePasses, ReapReview, ReviewAccepted, Accepted
<1>4. CASE SweepStep \/ OperatorStep \/ UNCHANGED vars
  <2>1. UNCHANGED <<executions, reviews>>
    BY <1>4 DEF SweepStep, SweepExecutions, SweepReviews, SweepEnds, SweepAborts,
         OperatorStep, RetireWorker, MergedTask, RereviewAfterUpstreamMove,
         UpdateHostSettings, vars
  <2> QED
    BY <2>1
<1>5. ASSUME NEW e \in ExecutionId, ExecutionStep(e), NEW f \in ExecutionId, ExecutionForgone(f)
      PROVE  ExecutionForgone(f)' \/ ~ActiveExecution(f)'
  <2>1. CASE f = e
    <3>1. ASSUME NEW s \in {"completed", "failed", "lost", "cancelled"},
                 executions' = [executions EXCEPT ![e] = Closed(@, s)]
          PROVE  ~ActiveExecution(e)'
      BY <1>t, <1>5, <2>1, <3>1, ClosedExecution
    <3> QED
      BY <1>2, <1>5, <2>1, <3>1
  <2>2. CASE f # e
    <3>1. executions'[f] = executions[f]
      BY <1>t, <1>5, <2>2 DEF ExecutionStep, RenewExecution, CompleteExecution, FailExecution,
         ReleaseExecution, CloseExecution, ExecutionLeasePasses, ReapExecution
    <3> QED
      BY <1>5, <3>1
  <2> QED
    BY <2>1, <2>2
<1>6. ASSUME NEW r \in ReviewId, ReviewStep(r), NEW f \in ReviewId, ReviewForgone(f)
      PROVE  ReviewForgone(f)' \/ ~ActiveReview(f)'
  <2>1. CASE f = r
    <3>1. ASSUME NEW s \in {"approved", "retry", "failed", "lost", "cancelled"},
                 reviews' = [reviews EXCEPT ![r] = Closed(@, s)]
          PROVE  ~ActiveReview(r)'
      BY <1>t, <1>6, <2>1, <3>1, ClosedReview
    <3> QED
      BY <1>3, <1>6, <2>1, <3>1
  <2>2. CASE f # r
    <3>1. reviews'[f] = reviews[f]
      BY <1>t, <1>6, <2>2 DEF ReviewStep, RenewReview, FailReview, ApproveReview, RequestChanges,
         ReleaseReview, CloseReview, ReviewLeasePasses, ReapReview
    <3> QED
      BY <1>6, <3>1
  <2> QED
    BY <2>1, <2>2
<1> QED
  BY <1>1, <1>2, <1>3, <1>4, <1>5, <1>6 DEF Next

(* The reaper takes back every execution lease that its holder let expire,      *)
(* whatever calls are in flight and however often sweeps are cut short. For each *)
(* row, when sweeps begin again and again and not every one is cut short at this *)
(* row; that a listed row can be reaped is the hypothesis about ENABLED.        *)
THEOREM ExpiredExecutionReclaimed ==
  ASSUME NEW e \in ExecutionId
  PROVE  /\ Spec
         /\ []<><<SweepExecutions>>_vars
         /\ SF_vars(ReapExecution(e)) /\ []ReapEnabled(e)
         => (ExecutionForgone(e) ~> ~ActiveExecution(e))
<1> DEFINE Listed == sweep.phase = "executions" /\ e \in sweep.executions
<1>1. TypeOK /\ ExecutionForgone(e) /\ [Next]_vars => ExecutionForgone(e)' \/ ~ActiveExecution(e)'
  BY ForgoneStays
<1>2. TypeOK /\ ExecutionForgone(e) /\ <<SweepExecutions>>_vars => Listed'
  BY DEF SweepExecutions, ExpiredExecutions, ExecutionForgone, TypeOK
<1>3. TypeOK /\ <<ReapExecution(e)>>_vars => ~ActiveExecution(e)'
  BY ClosedExecution DEF ReapExecution, ActiveExecution, TypeOK
<1>4. ReapEnabled(e) => (Listed => ENABLED <<ReapExecution(e)>>_vars)
  BY DEF ReapEnabled
<1> HIDE DEF Listed
<1> QED
  BY <1>1, <1>2, <1>3, <1>4, TypeCorrect, PTL DEF Spec

(* The same of the lease of a review, when sweeps come to the reviews again and *)
(* again.                                                                      *)
THEOREM ExpiredReviewReclaimed ==
  ASSUME NEW r \in ReviewId
  PROVE  /\ Spec
         /\ []<><<SweepReviews>>_vars
         /\ SF_vars(ReapReview(r)) /\ []ReapReviewEnabled(r)
         => (ReviewForgone(r) ~> ~ActiveReview(r))
<1> DEFINE Listed == sweep.phase = "reviews" /\ r \in sweep.reviews
<1>1. TypeOK /\ ReviewForgone(r) /\ [Next]_vars => ReviewForgone(r)' \/ ~ActiveReview(r)'
  BY ForgoneStays
<1>2. TypeOK /\ ReviewForgone(r) /\ <<SweepReviews>>_vars => Listed'
  BY DEF SweepReviews, ExpiredReviews, ReviewForgone, TypeOK
<1>3. TypeOK /\ <<ReapReview(r)>>_vars => ~ActiveReview(r)'
  BY ClosedReview DEF ReapReview, ActiveReview, TypeOK
<1>4. ReapReviewEnabled(r) => (Listed => ENABLED <<ReapReview(r)>>_vars)
  BY DEF ReapReviewEnabled
<1> HIDE DEF Listed
<1> QED
  BY <1>1, <1>2, <1>3, <1>4, TypeCorrect, PTL DEF Spec
=============================================================================
