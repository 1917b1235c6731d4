---------------------------- MODULE WorkerDaemon ----------------------------
(* The worker process of lazyteam-worker: its main loop, the slots it spawns a *)
(* job into for every lease it claims, the renewals that keep a lease, the     *)
(* lock of each logical agent session, the backend sessions the agents open    *)
(* behind them, and the clean-up of merged tasks.                              *)
(*                                                                             *)
(* The main loop is one thread: `at` is the call it awaits, and it does        *)
(* nothing else until that call returns. A job is a task of its own. The host  *)
(* is what the worker sees of it: leases, the configuration the operator wants *)
(* and the clean-up rows. A lease is granted, renewed, reported and lost as    *)
(* WorkLifecycle has it in full.                                               *)
EXTENDS Naturals, FiniteSets

CONSTANTS
    Session,     \* the logical sessions: a task in a role
    Review,      \* the sessions of the review role
    MaxClaims,   \* bound: the leases the worker is ever granted
    MaxSlots,    \* the slots the host allows the worker
    MaxLost,     \* bound: messages lost and calls that fail on the way
    MaxCrashes,  \* bound: crashes of the worker process
    MaxOrders    \* bound: times the operator stops or resumes the worker

ASSUME SessionAssumption == Review \subseteq Session
ASSUME WorkerBounds ==
    /\ MaxClaims \in Nat /\ MaxSlots \in Nat \ {0}
    /\ MaxLost \in Nat /\ MaxCrashes \in Nat /\ MaxOrders \in Nat

Lease == 1 .. MaxClaims
None == 0

LeaseStates == {"free", "active", "lost", "ended"}
Places == {"start", "heartbeat", "cleanup", "retire", "release", "ack", "config",
           "decide", "claim", "acquire"}
JobStates == {"none", "queued", "running", "reporting", "over"}

VARIABLES
    lease,      \* lease[l]: what the host holds of lease l
    session,    \* session[l]: the logical session lease l was granted for
    merged,     \* sessions whose task is merged or deleted
    cleanup,    \* agent_session_cleanup: sessions the worker is to clean up
    paused,     \* the operator stopped the worker
    orders,     \* how often the operator did
    at,         \* where the main loop is
    seesPause,  \* runtime_config.paused, as last fetched
    claimed,    \* the lease the main loop is acquiring the session of
    items,      \* clean-up rows the main loop fetched and has not acknowledged
    cleaning,   \* the one of them it is at
    job,        \* job[l]: the job spawned for lease l
    renewing,   \* the jobs whose renewal task is alive
    lock,       \* lock[s]: the job that holds the lock of session s
    bound,      \* bound[s]: the backend session the record of s names
    open,       \* backend sessions that exist, named by the lease that opened them
    cut,        \* backend sessions whose run ended before it could be bound
    lost,       \* messages lost so far
    crashes     \* crashes so far

host == <<lease, session, merged, cleanup, paused, orders>>
main == <<at, seesPause, claimed, items, cleaning>>
slots == <<job, renewing, lock>>
store == <<bound, open, cut>>
faults == <<lost, crashes>>
vars == <<host, main, slots, store, faults>>

TypeOK ==
    /\ lease \in [Lease -> LeaseStates]
    /\ session \in [Lease -> Session \union {None}]
    /\ merged \subseteq Session /\ cleanup \subseteq merged
    /\ paused \in BOOLEAN /\ orders \in 0 .. MaxOrders
    /\ at \in Places /\ seesPause \in BOOLEAN
    /\ claimed \in Lease \union {None}
    /\ items \subseteq Session /\ cleaning \in Session \union {None}
    /\ job \in [Lease -> JobStates]
    /\ renewing \subseteq Lease
    /\ lock \in [Session -> Lease \union {None}]
    /\ bound \in [Session -> Lease \union {None}]
    /\ open \subseteq Lease /\ cut \subseteq Lease
    /\ lost \in 0 .. MaxLost /\ crashes \in 0 .. MaxCrashes

Init ==
    /\ lease = [l \in Lease |-> "free"]
    /\ session = [l \in Lease |-> None]
    /\ merged = {} /\ cleanup = {}
    /\ paused = FALSE /\ orders = 0
    /\ at = "start" /\ seesPause = FALSE
    /\ claimed = None /\ items = {} /\ cleaning = None
    /\ job = [l \in Lease |-> "none"] /\ renewing = {}
    /\ lock = [s \in Session |-> None]
    /\ bound = [s \in Session |-> None] /\ open = {} /\ cut = {}
    /\ lost = 0 /\ crashes = 0

-----------------------------------------------------------------------------
(* The host *)

ClaimableAnyway(s) == s \notin merged  \* mutant: a claim that overlooks the lease in force
Claimable(s) ==
    /\ s \notin merged
    /\ \A l \in Lease : session[l] = s => lease[l] # "active"

Unused(l) == lease[l] = "free" /\ \A k \in 1 .. l - 1 : lease[k] # "free"

Grant(l, s) ==
    /\ Unused(l) /\ Claimable(s)
    /\ lease' = [lease EXCEPT ![l] = "active"]
    /\ session' = [session EXCEPT ![l] = s]

LoseLease(l) == lease' = [lease EXCEPT ![l] = "lost"]

(* A lease that is not renewed runs out and the reaper takes it; one that is  *)
(* renewed runs out when the renewals are lost on the way                      *)
LeaseRunsOut(l) ==
    /\ lease[l] = "active" /\ l \notin renewing
    /\ LoseLease(l)
    /\ UNCHANGED <<session, merged, cleanup, paused, orders, main, slots, store, faults>>

RenewalsLost(l) ==
    /\ lease[l] = "active" /\ l \in renewing /\ lost < MaxLost
    /\ LoseLease(l)
    /\ lost' = lost + 1
    /\ UNCHANGED <<session, merged, cleanup, paused, orders, main, slots, store, crashes>>

(* The operator stops the worker, which loses its leases at once, or resumes it *)
OrderPause ==
    /\ orders < MaxOrders /\ orders' = orders + 1
    /\ paused' = ~paused
    /\ lease' = IF paused THEN lease
                ELSE [l \in Lease |-> IF lease[l] = "active" THEN "lost" ELSE lease[l]]
    /\ UNCHANGED <<session, merged, cleanup, main, slots, store, faults>>

(* The task is merged or deleted: every worker that held a lease on it is to  *)
(* clean up. The work may have been finished on another worker                 *)
MergeTask(s) ==
    /\ Claimable(s) /\ \E l \in Lease : session[l] = s
    /\ merged' = merged \union {s} /\ cleanup' = cleanup \union {s}
    /\ UNCHANGED <<lease, session, paused, orders, main, slots, store, faults>>

-----------------------------------------------------------------------------
(* The main loop *)

Jobs == {l \in Lease : job[l] # "none"}

GoesTo(place) == at' = place /\ UNCHANGED <<seesPause, claimed, items, cleaning>>

CallFails == lost < MaxLost /\ lost' = lost + 1 /\ UNCHANGED crashes

(* A new process heartbeats or enrols again, and fetches its configuration;    *)
(* when either fails it exits, to be started again                              *)
Start ==
    /\ at = "start"
    /\ at' = "heartbeat" /\ seesPause' = paused
    /\ UNCHANGED <<host, claimed, items, cleaning, slots, store, faults>>

StartFails ==
    /\ at = "start" /\ CallFails
    /\ UNCHANGED <<host, main, slots, store>>

(* The top of the loop: finished jobs are joined, then the heartbeat is sent;  *)
(* when it fails the loop begins again                                          *)
JoinFinished == job' = [l \in Lease |-> IF job[l] = "over" THEN "none" ELSE job[l]]

Heartbeat ==
    /\ at = "heartbeat" /\ JoinFinished /\ GoesTo("cleanup")
    /\ UNCHANGED <<host, renewing, lock, store, faults>>

HeartbeatFails ==
    /\ at = "heartbeat" /\ JoinFinished /\ CallFails
    /\ UNCHANGED <<host, main, renewing, lock, store>>

(* process_cleanup: fetch the rows; for each remove the workspaces and retire  *)
(* the backend session its record names, release the record, acknowledge       *)
PollCleanup ==
    /\ at = "cleanup"
    /\ items' = cleanup
    /\ at' = IF cleanup = {} THEN "config" ELSE "retire"
    /\ UNCHANGED <<host, seesPause, claimed, cleaning, slots, store, faults>>

SessionsFor(s) == {bound[s]}  \* what the records on disk name; read without the lock

RetireSession(s) ==
    /\ at = "retire" /\ s \in items
    /\ open' = open \ SessionsFor(s)
    /\ cleaning' = s /\ at' = "release"
    /\ UNCHANGED <<host, seesPause, claimed, items, slots, bound, cut, faults>>

ReleaseSession ==
    /\ at = "release" /\ lock[cleaning] = None
    /\ bound' = [bound EXCEPT ![cleaning] = None]
    /\ GoesTo("ack")
    /\ UNCHANGED <<host, slots, open, cut, faults>>

AckCleanup ==
    /\ at = "ack"
    /\ cleanup' = cleanup \ {cleaning}
    /\ items' = items \ {cleaning} /\ cleaning' = None
    /\ at' = IF items = {cleaning} THEN "config" ELSE "retire"
    /\ UNCHANGED <<lease, session, merged, paused, orders, seesPause, claimed,
                   slots, store, faults>>

(* A call or a removal that fails ends the clean-up until the next round; the *)
(* acknowledgement may have been taken although its answer is lost             *)
CleanupFails ==
    /\ at \in {"cleanup", "retire", "ack"} /\ CallFails
    /\ cleanup' \in IF at = "ack" THEN {cleanup, cleanup \ {cleaning}} ELSE {cleanup}
    /\ items' = {} /\ cleaning' = None /\ at' = "config"
    /\ UNCHANGED <<lease, session, merged, paused, orders, seesPause, claimed,
                   slots, store>>

FetchConfig ==
    /\ at = "config"
    /\ seesPause' = paused /\ at' = "decide"
    /\ UNCHANGED <<host, claimed, items, cleaning, slots, store, faults>>

FetchConfigFails ==
    /\ at = "config" /\ CallFails /\ GoesTo("decide")
    /\ UNCHANGED <<host, slots, store>>

(* Jobs are cancelled wherever they wait: renewals stop, the lock is dropped   *)
CutShort(gone) ==
    cut \union {l \in gone \cap open : job[l] = "running" /\ bound[session[l]] # l}

AbortJobs(gone) ==
    /\ job' = [l \in Lease |-> IF l \in gone THEN "over" ELSE job[l]]
    /\ renewing' = renewing \ gone
    /\ lock' = [s \in Session |-> IF lock[s] \in gone THEN None ELSE lock[s]]
    /\ cut' = CutShort(gone)

StopSlots ==
    /\ at = "decide" /\ seesPause
    /\ AbortJobs(Jobs)
    /\ GoesTo("heartbeat")
    /\ UNCHANGED <<host, bound, open, faults>>

(* The capabilities cannot be reconciled or the agent has no usable model: the *)
(* round ends without a claim                                                  *)
NotReady ==
    /\ at = "decide" /\ ~seesPause
    /\ GoesTo("heartbeat")
    /\ UNCHANGED <<host, slots, store, faults>>

Ready ==
    /\ at = "decide" /\ ~seesPause
    /\ GoesTo("claim")
    /\ UNCHANGED <<host, slots, store, faults>>

HasFreeSlot == Cardinality(Jobs) < MaxSlots

(* A claim that is granted; granted, but the answer is lost; or not granted    *)
ClaimGranted(l, s) ==
    /\ at = "claim" /\ HasFreeSlot /\ ~paused
    /\ Grant(l, s)
    /\ claimed' = l /\ at' = "acquire"
    /\ UNCHANGED <<merged, cleanup, paused, orders, seesPause, items, cleaning,
                   slots, store, faults>>

ClaimAnswerLost(l, s) ==
    /\ at = "claim" /\ HasFreeSlot /\ ~paused /\ CallFails
    /\ Grant(l, s)
    /\ GoesTo("heartbeat")
    /\ UNCHANGED <<merged, cleanup, paused, orders, slots, store>>

NoClaim ==
    /\ at = "claim"
    /\ GoesTo("heartbeat")
    /\ UNCHANGED <<host, slots, store, faults>>

(* The main loop itself waits for the lock of the session, writes its record   *)
(* and drops the lock; the job takes it again                                  *)
SpawnJob ==
    /\ at = "acquire" /\ lock[session[claimed]] = None
    /\ job' = [job EXCEPT ![claimed] = "queued"]
    /\ renewing' = renewing \union {claimed}
    /\ claimed' = None /\ at' = "claim"
    /\ UNCHANGED <<host, seesPause, items, cleaning, lock, store, faults>>

AcquireFails ==
    /\ at = "acquire" /\ lock[session[claimed]] = None /\ CallFails
    /\ claimed' = None /\ at' = "heartbeat"
    /\ UNCHANGED <<host, seesPause, items, cleaning, slots, store>>

-----------------------------------------------------------------------------
(* The jobs: execute_assignment and execute_review_assignment *)

(* Its id is opaque, and given by the backend when its first run is over       *)
NeverResumes(l) == l  \* mutant: the run does not pass the bound session to the agent
BackendOf(l) == IF bound[session[l]] = None THEN l ELSE bound[session[l]]

LockHeld(s) == lock  \* mutant: the guard outlives the job
LockDropped(s) == [lock EXCEPT ![s] = None]

FreeForAll(s) == TRUE  \* mutant: acquire_with without the guard
LockFree(s) == lock[s] = None

GoesOn(l, state) == job' = [job EXCEPT ![l] = state]

(* The workspace is fetched from the broker, which asks for the lease in force *)
CanFetch(l) == lease[l] = "active"

BeginRun(l) ==
    /\ job[l] = "queued" /\ LockFree(session[l]) /\ CanFetch(l)
    /\ GoesOn(l, "running")
    /\ lock' = [lock EXCEPT ![session[l]] = l]
    /\ open' = open \union {BackendOf(l)}
    /\ UNCHANGED <<host, main, renewing, bound, cut, faults>>

(* The run is over: the outcome is reported without renewing the lease. A      *)
(* review has dropped the lock by then, an implementation has not              *)
StillRenewing(l) == renewing  \* mutant: renew.abort() forgotten
RenewalStopped(l) == renewing \ {l}

Reports(l) ==
    /\ GoesOn(l, "reporting")
    /\ renewing' = RenewalStopped(l)
    /\ lock' = IF session[l] \in Review THEN LockDropped(session[l])
               ELSE [lock EXCEPT ![session[l]] = l]

(* The reviewer's slot cannot be started: that is reported before the session  *)
(* is waited for, and before any renewal                                       *)
SlotFails(l) ==
    /\ job[l] = "queued" /\ session[l] \in Review /\ CallFails
    /\ GoesOn(l, "reporting")
    /\ renewing' = renewing \ {l}
    /\ UNCHANGED <<host, main, lock, store>>

PrepareFails(l) ==
    /\ job[l] = "queued" /\ LockFree(session[l])
    /\ CanFetch(l) => lost < MaxLost
    /\ lost' = IF CanFetch(l) THEN lost + 1 ELSE lost
    /\ Reports(l)
    /\ UNCHANGED <<host, main, store, crashes>>

Bound(l) == [bound EXCEPT ![session[l]] = BackendOf(l)]

RunEnds(l) ==
    /\ job[l] = "running"
    /\ bound' = Bound(l)
    /\ Reports(l)
    /\ UNCHANGED <<host, main, open, cut, faults>>

(* A verdict ends a review while its agent still runs: the run is dropped, and *)
(* the session it opened is bound to nothing                                   *)
VerdictEndsRun(l) ==
    /\ job[l] = "running" /\ session[l] \in Review
    /\ cut' = CutShort({l})
    /\ Reports(l)
    /\ UNCHANGED <<host, main, bound, open, faults>>

(* A run that fails, or whose session cannot be recorded *)
RunFails(l) ==
    /\ job[l] = "running" /\ lost < MaxLost /\ lost' = lost + 1
    /\ cut' = CutShort({l})
    /\ Reports(l)
    /\ UNCHANGED <<host, main, bound, open, crashes>>

(* A renewal that is rejected cancels a review; of an implementation it is     *)
(* only logged                                                                 *)
RenewalRejected(l) ==
    /\ l \in renewing /\ lease[l] # "active"
    /\ session[l] \in Review /\ job[l] = "running"
    /\ cut' = CutShort({l})
    /\ Reports(l)
    /\ UNCHANGED <<host, main, bound, open, faults>>

ReportTaken(l) ==
    /\ job[l] = "reporting"
    /\ lease' = IF lease[l] = "active" THEN [lease EXCEPT ![l] = "ended"] ELSE lease
    /\ GoesOn(l, "over")
    /\ lock' = IF lock[session[l]] = l THEN LockDropped(session[l]) ELSE lock
    /\ UNCHANGED <<session, merged, cleanup, paused, orders, main, renewing, store, faults>>

(* The report is sent once. Lost, it leaves the lease to run out *)
ReportLost(l) ==
    /\ job[l] = "reporting" /\ CallFails
    /\ GoesOn(l, "over")
    /\ lock' = IF lock[session[l]] = l THEN LockDropped(session[l]) ELSE lock
    /\ UNCHANGED <<host, main, renewing, store>>

(* The process dies with its jobs; records and backend sessions are on disk    *)
Crash ==
    /\ crashes < MaxCrashes /\ crashes' = crashes + 1
    /\ at # "start" /\ at' = "start"
    /\ claimed' = None /\ items' = {} /\ cleaning' = None
    /\ job' = [l \in Lease |-> "none"] /\ renewing' = {}
    /\ lock' = [s \in Session |-> None]
    /\ cut' = CutShort(Jobs)
    /\ UNCHANGED <<host, seesPause, bound, open, lost>>

-----------------------------------------------------------------------------
HostStep ==
    \/ \E l \in Lease : LeaseRunsOut(l) \/ RenewalsLost(l)
    \/ OrderPause
    \/ \E s \in Session : MergeTask(s)

MainStep ==
    \/ Start \/ StartFails \/ Heartbeat \/ HeartbeatFails
    \/ PollCleanup \/ ReleaseSession \/ AckCleanup \/ CleanupFails
    \/ \E s \in Session : RetireSession(s)
    \/ FetchConfig \/ FetchConfigFails \/ StopSlots \/ NotReady \/ Ready
    \/ \E l \in Lease, s \in Session : ClaimGranted(l, s) \/ ClaimAnswerLost(l, s)
    \/ NoClaim \/ SpawnJob \/ AcquireFails

JobStep(l) ==
    \/ BeginRun(l) \/ SlotFails(l) \/ PrepareFails(l)
    \/ RunEnds(l) \/ VerdictEndsRun(l) \/ RunFails(l)
    \/ RenewalRejected(l) \/ ReportTaken(l) \/ ReportLost(l)

Next == HostStep \/ MainStep \/ (\E l \in Lease : JobStep(l)) \/ Crash

Spec == Init /\ [][Next]_vars

(* The reaper runs every few seconds; the main loop goes on when what it waits *)
(* for is there; a run ends (the agent runtimes cut an agent that hangs) and a *)
(* job reports. No operator order, merge, loss or crash is ever promised       *)
Fairness ==
    /\ WF_vars(MainStep)
    /\ \A l \in Lease :
        /\ WF_vars(LeaseRunsOut(l))
        /\ WF_vars(RunEnds(l))
        /\ WF_vars(ReportTaken(l))
        /\ SF_vars(BeginRun(l) \/ PrepareFails(l))

FairSpec == Spec /\ Fairness

(* What the weak fairness of a lease's end promises: nothing but its renewal   *)
(* keeps the reaper from it.                                                   *)
RunOutEnabled(l) ==
    lease[l] = "active" /\ l \notin renewing => ENABLED <<LeaseRunsOut(l)>>_vars

-----------------------------------------------------------------------------
(* Two jobs never run in one logical session at a time, whatever leases were   *)
(* lost and granted again while the first one ran on: the lock is held from    *)
(* the acquisition of the record to its binding (lock_session)                 *)
OneRunPerSession ==
    \A l \in Lease : job[l] = "running" => lock[session[l]] = l

(* No backend session of a task still open is orphaned by a second run: it is  *)
(* the one the record names, or of a run under way, or its run was cut short   *)
(* (acquire_with under the lock, bind_with)                                    *)
NoDuplicateSession ==
    \A l \in open :
        \/ session[l] \in merged
        \/ bound[session[l]] = l
        \/ l \in cut
        \/ job[l] = "running"

(* One run at a time and one backend session kept, per logical session         *)
SessionsAreSingle == OneRunPerSession /\ NoDuplicateSession

(* The main loop, which heartbeats and cleans up for all slots, waits for a    *)
(* session only behind a job that has lost its lease or reported it: never     *)
(* behind one at work under a lease in force                                   *)
WaitsOnlyForStaleJob ==
    at = "acquire" /\ lock[session[claimed]] # None
        => lease[lock[session[claimed]]] # "active"

(* The worker never falls silent for good, although the main loop waits for    *)
(* the locks its jobs hold                                                     *)
HeartbeatsGoOn == []<>(at = "heartbeat")

(* A lease whose job is gone -- the answer to the claim was lost, the session  *)
(* could not be acquired, the report was lost, the process died -- is not kept *)
(* alive by a renewal nobody stops                                             *)
AbandonedLeaseEnds ==
    \A l \in Lease :
        lease[l] = "active" /\ job[l] \in {"none", "over"} /\ claimed # l
            ~> lease[l] # "active"

(* What the comments of retire_backend_sessions and sessions_for promise of a  *)
(* clean-up: once it is acknowledged, every backend session that was bound to  *)
(* the task has been deleted                                                   *)
CleanupLeavesNothing ==
    \A l \in open :
        session[l] \in merged \ cleanup => l \in cut \/ job[l] = "running"
=============================================================================
