-------------------------- MODULE WorkerDaemonProofs --------------------------
(* The proofs that the jobs of a worker keep to one run and one backend session *)
(* per logical session, and that its main loop never waits behind a job at work *)
(* under a lease in force: for any number of leases, slots, sessions, faults,   *)
(* crashes and orders of the operator; and that an abandoned lease runs out.    *)
EXTENDS WorkerDaemon, TLAPS

(* A lease that was granted has a session, and only such a lease has a job.     *)
JobsAreGranted ==
    \A l \in Lease : /\ lease[l] # "free" => session[l] \in Session
                     /\ job[l] # "none" => lease[l] # "free"

(* Who holds the lock of a session runs in it or is about to report on it.      *)
LocksAreHeld ==
    \A s \in Session : lock[s] # None =>
        session[lock[s]] = s /\ job[lock[s]] \in {"running", "reporting"}

(* A lease whose agent has not started yet has opened no backend session.       *)
Fresh(l) == l \notin open /\ \A s \in Session : bound[s] # l
NewLeasesAreFresh == \A l \in Lease : lease[l] = "free" \/ job[l] = "queued" => Fresh(l)

(* While the main loop waits for the session of a lease it was granted, that    *)
(* lease has no job, and no other lease in force is for the same session: there *)
(* was none when it was granted, and the loop claims nothing meanwhile.         *)
ClaimedWaits ==
    at = "acquire" =>
        /\ claimed \in Lease /\ lease[claimed] # "free" /\ job[claimed] = "none"
        /\ Fresh(claimed)
        /\ \A k \in Lease \ {claimed} :
              session[k] = session[claimed] => lease[k] # "active"

(* A record names a backend session its own logical session opened; while the   *)
(* one who opened a backend session runs on, nobody binds another.              *)
BoundIsOwn == \A s \in Session : bound[s] # None => session[bound[s]] = s
OpenersUnbound ==
    \A l \in open : job[l] = "running" => bound[session[l]] \in {None, l}

CleansMerged == items \subseteq merged /\ (at \in {"release", "ack"} => cleaning \in merged)

Order == /\ JobsAreGranted /\ LocksAreHeld /\ OneRunPerSession
         /\ NewLeasesAreFresh /\ ClaimedWaits /\ BoundIsOwn /\ OpenersUnbound
         /\ CleansMerged /\ NoDuplicateSession
DaemonInv == TypeOK /\ Order

(* None is a name outside the leases                                           *)
LEMMA NoneIsNoLease == None \notin Lease
  BY DEF None, Lease

(* A worker that has not started                                               *)
LEMMA InitDaemon == Init => DaemonInv
<1> SUFFICES ASSUME Init PROVE DaemonInv
  OBVIOUS
<1>1. TypeOK
  <2>1. /\ lease \in [Lease -> LeaseStates] /\ session \in [Lease -> Session \union {None}]
        /\ job \in [Lease -> JobStates] /\ lock \in [Session -> Lease \union {None}]
        /\ bound \in [Session -> Lease \union {None}]
    BY DEF Init, LeaseStates, JobStates
  <2>2. orders \in 0 .. MaxOrders /\ lost \in 0 .. MaxLost /\ crashes \in 0 .. MaxCrashes
    BY WorkerBounds DEF Init
  <2> QED
    BY <2>1, <2>2 DEF Init, TypeOK, Places
<1>2. JobsAreGranted /\ LocksAreHeld /\ OneRunPerSession
  BY DEF Init, JobsAreGranted, LocksAreHeld, OneRunPerSession
<1>3. NewLeasesAreFresh /\ BoundIsOwn /\ OpenersUnbound /\ NoDuplicateSession
  BY NoneIsNoLease DEF Init, NewLeasesAreFresh, Fresh, BoundIsOwn, OpenersUnbound,
     NoDuplicateSession
<1>4. ClaimedWaits /\ CleansMerged
  BY DEF Init, ClaimedWaits, CleansMerged
<1> QED
  BY <1>1, <1>2, <1>3, <1>4 DEF DaemonInv, Order

-----------------------------------------------------------------------------
(* Types *)

(* Host steps keep the types                                                   *)
LEMMA HostTypes == TypeOK /\ HostStep => TypeOK'
<1> SUFFICES ASSUME TypeOK, HostStep PROVE TypeOK'
  OBVIOUS
<1> USE WorkerBounds DEF TypeOK, LeaseStates, main, slots, store, faults, LoseLease
<1>1. ASSUME NEW l \in Lease, LeaseRunsOut(l) PROVE TypeOK'
  BY <1>1 DEF LeaseRunsOut
<1>2. ASSUME NEW l \in Lease, RenewalsLost(l) PROVE TypeOK'
  BY <1>2 DEF RenewalsLost
<1>3. CASE OrderPause
  BY <1>3 DEF OrderPause
<1>4. ASSUME NEW s \in Session, MergeTask(s) PROVE TypeOK'
  BY <1>4 DEF MergeTask
<1> QED
  BY <1>1, <1>2, <1>3, <1>4 DEF HostStep

(* The main loop keeps the types                                               *)
LEMMA MainTypes == TypeOK /\ ClaimedWaits /\ MainStep => TypeOK'
<1> SUFFICES ASSUME TypeOK, ClaimedWaits, MainStep PROVE TypeOK'
  OBVIOUS
<1> USE WorkerBounds DEF TypeOK, Places, host, main, slots, store, faults, GoesTo, CallFails
<1>1. CASE Start \/ StartFails
  BY <1>1 DEF Start, StartFails
<1>2. CASE Heartbeat \/ HeartbeatFails
  BY <1>2 DEF Heartbeat, HeartbeatFails, JoinFinished, JobStates
<1>3. CASE PollCleanup
  BY <1>3 DEF PollCleanup
<1>4. ASSUME NEW s \in Session, RetireSession(s) PROVE TypeOK'
  BY <1>4 DEF RetireSession
<1>5. CASE ReleaseSession
  BY <1>5 DEF ReleaseSession
<1>6. CASE AckCleanup
  BY <1>6 DEF AckCleanup
<1>7. CASE CleanupFails
  BY <1>7 DEF CleanupFails
<1>8. CASE FetchConfig \/ FetchConfigFails \/ NotReady \/ Ready \/ NoClaim
  BY <1>8 DEF FetchConfig, FetchConfigFails, NotReady, Ready, NoClaim
<1>9. CASE StopSlots
  BY <1>9 DEF StopSlots, AbortJobs, CutShort, JobStates, Jobs
<1>10. ASSUME NEW l \in Lease, NEW s \in Session, ClaimGranted(l, s) PROVE TypeOK'
  BY <1>10 DEF ClaimGranted, Grant, LeaseStates
<1>11. ASSUME NEW l \in Lease, NEW s \in Session, ClaimAnswerLost(l, s) PROVE TypeOK'
  BY <1>11 DEF ClaimAnswerLost, Grant, LeaseStates
<1>12. CASE SpawnJob
  BY <1>12 DEF SpawnJob, JobStates, ClaimedWaits
<1>13. CASE AcquireFails
  BY <1>13 DEF AcquireFails
<1> QED
  BY <1>1, <1>2, <1>3, <1>4, <1>5, <1>6, <1>7, <1>8, <1>9, <1>10, <1>11, <1>12, <1>13
     DEF MainStep

(* Reports changes no type: what it writes are leases and sets of leases.       *)
LEMMA ReportTypes ==
  ASSUME TypeOK, NEW l \in Lease, Reports(l)
  PROVE  /\ job' \in [Lease -> JobStates] /\ renewing' \subseteq Lease
         /\ lock' \in [Session -> Lease \union {None}]
  BY DEF TypeOK, Reports, GoesOn, RenewalStopped, LockDropped, JobStates

(* Jobs that are cut are jobs                                                  *)
LEMMA CutTypes == ASSUME TypeOK, NEW gone \in SUBSET Lease PROVE CutShort(gone) \subseteq Lease
  BY DEF TypeOK, CutShort

(* A backend session is named by the lease that opened it                      *)
LEMMA BackendIsLease ==
  ASSUME TypeOK, JobsAreGranted, NEW l \in Lease, job[l] # "none"
  PROVE  session[l] \in Session /\ BackendOf(l) \in Lease
  BY DEF TypeOK, JobsAreGranted, BackendOf

(* The variables no job touches.                                                *)
Undisturbed ==
    UNCHANGED <<session, merged, cleanup, paused, orders, at, seesPause, claimed, items, cleaning>>

(* Jobs keep the types                                                         *)
LEMMA JobTypes == ASSUME TypeOK, JobsAreGranted, NEW l \in Lease, JobStep(l) PROVE TypeOK'
<1>1. /\ job' \in [Lease -> JobStates] /\ renewing' \subseteq Lease
      /\ lock' \in [Session -> Lease \union {None}]
  <2>1. CASE BeginRun(l) \/ SlotFails(l) \/ ReportTaken(l) \/ ReportLost(l)
    BY <2>1 DEF TypeOK, BeginRun, SlotFails, ReportTaken, ReportLost, GoesOn, LockDropped,
       JobStates
  <2>2. CASE Reports(l)
    BY <2>2, ReportTypes
  <2> QED
    BY <2>1, <2>2 DEF JobStep, PrepareFails, RunEnds, VerdictEndsRun, RunFails, RenewalRejected
<1>2. bound' \in [Session -> Lease \union {None}]
  <2>1. CASE RunEnds(l)
    <3>1. BackendOf(l) \in Lease
      BY <2>1, BackendIsLease DEF RunEnds
    <3> QED
      BY <2>1, <3>1 DEF RunEnds, Bound, TypeOK
  <2>2. CASE ~RunEnds(l)
    BY <2>2 DEF TypeOK, JobStep, BeginRun, SlotFails, PrepareFails, VerdictEndsRun, RunFails,
       RenewalRejected, ReportTaken, ReportLost, store
  <2> QED
    BY <2>1, <2>2
<1>3. open' \subseteq Lease
  <2>1. CASE BeginRun(l)
    <3>1. BackendOf(l) \in Lease
      BY <2>1, BackendIsLease DEF BeginRun
    <3> QED
      BY <2>1, <3>1 DEF BeginRun, TypeOK
  <2>2. CASE ~BeginRun(l)
    BY <2>2 DEF TypeOK, JobStep, SlotFails, PrepareFails, RunEnds, VerdictEndsRun, RunFails,
       RenewalRejected, ReportTaken, ReportLost, store
  <2> QED
    BY <2>1, <2>2
<1>4. cut' \subseteq Lease
  <2>1. CutShort({l}) \subseteq Lease
    BY CutTypes
  <2> QED
    BY <2>1 DEF TypeOK, JobStep, BeginRun, SlotFails, PrepareFails, RunEnds, VerdictEndsRun,
       RunFails, RenewalRejected, ReportTaken, ReportLost, store
<1>5. lease' \in [Lease -> LeaseStates] /\ Undisturbed
  BY DEF TypeOK, LeaseStates, JobStep, BeginRun, SlotFails, PrepareFails, RunEnds, host, main,
     VerdictEndsRun, RunFails, RenewalRejected, ReportTaken, ReportLost, Undisturbed
<1>6. lost' \in 0 .. MaxLost /\ crashes' = crashes
  BY WorkerBounds DEF TypeOK, JobStep, BeginRun, SlotFails, PrepareFails, RunEnds, CallFails,
     VerdictEndsRun, RunFails, RenewalRejected, ReportTaken, ReportLost, faults
<1> QED
  BY <1>1, <1>2, <1>3, <1>4, <1>5, <1>6 DEF TypeOK, Undisturbed

(* A crash keeps the types                                                     *)
LEMMA CrashTypes == TypeOK /\ Crash => TypeOK'
  BY WorkerBounds DEF TypeOK, Crash, host, CutShort, Jobs, Places, JobStates

-----------------------------------------------------------------------------
(* The host's own steps: leases in force are lost, tasks are merged             *)
LEMMA HostKeepsOrder == ASSUME DaemonInv, HostStep PROVE Order'
<1>1. /\ session' = session /\ merged \subseteq merged'
      /\ UNCHANGED <<main, slots, store>>
      /\ \A l \in Lease : lease'[l] = lease[l] \/ (lease[l] = "active" /\ lease'[l] = "lost")
  <2>1. ASSUME NEW l \in Lease, LeaseRunsOut(l) \/ RenewalsLost(l) PROVE <1>1!:
    BY <2>1 DEF LeaseRunsOut, RenewalsLost, LoseLease, DaemonInv, TypeOK
  <2>2. CASE OrderPause
    BY <2>2 DEF OrderPause, DaemonInv, TypeOK
  <2>3. ASSUME NEW s \in Session, MergeTask(s) PROVE <1>1!:
    BY <2>3 DEF MergeTask
  <2> QED
    BY <2>1, <2>2, <2>3 DEF HostStep
<1> USE <1>1 DEF DaemonInv, Order, main, slots, store
<1>2. JobsAreGranted'
  BY DEF JobsAreGranted
<1>3. LocksAreHeld' /\ OneRunPerSession'
  BY DEF LocksAreHeld, OneRunPerSession
<1>4. NewLeasesAreFresh' /\ BoundIsOwn' /\ OpenersUnbound'
  BY DEF NewLeasesAreFresh, Fresh, BoundIsOwn, OpenersUnbound
<1>5. ClaimedWaits'
  BY DEF ClaimedWaits, Fresh
<1>6. CleansMerged' /\ NoDuplicateSession'
  BY DEF CleansMerged, NoDuplicateSession
<1> QED
  BY <1>2, <1>3, <1>4, <1>5, <1>6

(* The main loop goes on, and nothing but its position changes.                 *)
LEMMA MovingKeepsOrder ==
  ASSUME DaemonInv, UNCHANGED <<lease, session, merged, slots, store>>,
         at' # "acquire", items' \subseteq merged, at' \in {"release", "ack"} => cleaning' \in merged
  PROVE  Order'
<1> USE DEF DaemonInv, Order, slots, store
<1>1. JobsAreGranted' /\ LocksAreHeld' /\ OneRunPerSession'
  BY DEF JobsAreGranted, LocksAreHeld, OneRunPerSession
<1>2. NewLeasesAreFresh' /\ BoundIsOwn' /\ OpenersUnbound' /\ NoDuplicateSession'
  BY DEF NewLeasesAreFresh, Fresh, BoundIsOwn, OpenersUnbound, NoDuplicateSession
<1>3. ClaimedWaits' /\ CleansMerged'
  BY DEF ClaimedWaits, CleansMerged
<1> QED
  BY <1>1, <1>2, <1>3

(* Moves of the loop that touch neither locks nor jobs                         *)
LEMMA MovesKeepOrder ==
  ASSUME DaemonInv,
         \/ Start \/ StartFails \/ PollCleanup \/ AckCleanup \/ CleanupFails
         \/ FetchConfig \/ FetchConfigFails \/ NotReady \/ Ready \/ NoClaim \/ AcquireFails
  PROVE  Order'
<1>1. UNCHANGED <<lease, session, merged, slots, store>> /\ at' # "acquire"
  BY DEF Start, StartFails, PollCleanup, AckCleanup, CleanupFails, FetchConfig, FetchConfigFails,
     NotReady, Ready, NoClaim, AcquireFails, GoesTo, CallFails, host, main, slots, store
<1>2. items' \subseteq merged
  BY DEF Start, StartFails, PollCleanup, AckCleanup, CleanupFails, FetchConfig, FetchConfigFails,
     NotReady, Ready, NoClaim, AcquireFails, GoesTo, main, DaemonInv, TypeOK, Order, CleansMerged
<1>3. at' \notin {"release", "ack"}
  BY DEF Start, StartFails, PollCleanup, AckCleanup, CleanupFails, FetchConfig, FetchConfigFails,
     NotReady, Ready, NoClaim, AcquireFails, GoesTo, main
<1> QED
  BY <1>1, <1>2, <1>3, MovingKeepsOrder

(* Finished jobs are joined: they held nothing any more.                        *)
LEMMA JoiningKeepsOrder == ASSUME DaemonInv, Heartbeat \/ HeartbeatFails PROVE Order'
<1>1. /\ UNCHANGED <<lease, session, merged, lock, store>> /\ at' # "acquire"
      /\ items' = items /\ cleaning' = cleaning /\ at' \notin {"release", "ack"}
      /\ \A l \in Lease : job'[l] = IF job[l] = "over" THEN "none" ELSE job[l]
  BY DEF Heartbeat, HeartbeatFails, GoesTo, JoinFinished, host, main, store
<1> USE <1>1 DEF DaemonInv, Order, store
<1>2. JobsAreGranted' /\ OneRunPerSession'
  BY DEF JobsAreGranted, OneRunPerSession
<1>3. LocksAreHeld'
  BY DEF LocksAreHeld, TypeOK
<1>4. NewLeasesAreFresh' /\ BoundIsOwn'
  BY DEF NewLeasesAreFresh, Fresh, BoundIsOwn
<1>5. OpenersUnbound' /\ NoDuplicateSession'
  BY DEF OpenersUnbound, NoDuplicateSession, TypeOK
<1>6. ClaimedWaits' /\ CleansMerged'
  BY DEF ClaimedWaits, CleansMerged
<1> QED
  BY <1>2, <1>3, <1>4, <1>5, <1>6

(* Clean-up: a backend session is deleted; a record of a merged task goes.      *)
LEMMA CleaningKeepsOrder ==
  ASSUME DaemonInv, (\E s \in Session : RetireSession(s)) \/ ReleaseSession
  PROVE  Order'
<1>1. /\ UNCHANGED <<lease, session, merged, items, claimed, slots, cut>> /\ at' # "acquire"
      /\ open' \subseteq open
  BY DEF RetireSession, ReleaseSession, GoesTo, host, slots
<1>2. cleaning' \in merged
  BY DEF RetireSession, ReleaseSession, GoesTo, DaemonInv, Order, CleansMerged
<1>3. \A s \in Session : bound'[s] = bound[s] \/ (bound'[s] = None /\ s \in merged)
  <2>1. CASE ReleaseSession
    BY <2>1 DEF ReleaseSession, DaemonInv, TypeOK, Order, CleansMerged
  <2>2. CASE ~ReleaseSession
    BY <2>2 DEF RetireSession
  <2> QED
    BY <2>1, <2>2
<1> USE <1>1, <1>2, <1>3, NoneIsNoLease DEF DaemonInv, Order, slots
<1>4. JobsAreGranted' /\ LocksAreHeld' /\ OneRunPerSession'
  BY DEF JobsAreGranted, LocksAreHeld, OneRunPerSession
<1>5. NewLeasesAreFresh' /\ BoundIsOwn'
  BY DEF NewLeasesAreFresh, Fresh, BoundIsOwn
<1>6. OpenersUnbound'
  BY DEF OpenersUnbound, JobsAreGranted, TypeOK
<1>7. NoDuplicateSession'
  <2> SUFFICES ASSUME NEW l \in open', session[l] \notin merged, l \notin cut,
                      job[l] # "running"
               PROVE  bound'[session[l]] = l
    BY DEF NoDuplicateSession
  <2>1. l \in Lease /\ session[l] \in Session
    BY DEF TypeOK, NewLeasesAreFresh, Fresh, JobsAreGranted
  <2>2. bound[session[l]] = l
    BY DEF NoDuplicateSession
  <2> QED
    BY <2>1, <2>2
<1>8. ClaimedWaits' /\ CleansMerged'
  BY DEF ClaimedWaits, CleansMerged
<1> QED
  BY <1>4, <1>5, <1>6, <1>7, <1>8

-----------------------------------------------------------------------------
(* Jobs are cut short, some by the operator, all by a crash: nothing runs any   *)
(* more, and what was opened and not bound is in cut.                           *)
LEMMA CuttingKeepsOrder == ASSUME DaemonInv, StopSlots \/ Crash PROVE Order'
<1>1. /\ UNCHANGED <<lease, session, merged, bound, open>>
      /\ at' \notin {"acquire", "release", "ack"} /\ items' \subseteq items
      /\ \A l \in Lease : job'[l] \in {"none", "over"} /\ (job'[l] # "none" => job[l] # "none")
      /\ cut' = CutShort(Jobs)
      /\ \A s \in Session : lock'[s] # None => lock[s] # None /\ lock[s] \notin Jobs
  BY DEF StopSlots, Crash, AbortJobs, Jobs, GoesTo, host, DaemonInv, TypeOK
<1>2. \A s \in Session : lock'[s] = None
  BY <1>1 DEF DaemonInv, Order, TypeOK, LocksAreHeld, Jobs
<1> USE <1>1, <1>2 DEF DaemonInv, Order
<1>3. JobsAreGranted' /\ LocksAreHeld' /\ OneRunPerSession'
  BY DEF JobsAreGranted, LocksAreHeld, OneRunPerSession
<1>4. NewLeasesAreFresh' /\ BoundIsOwn'
  BY DEF NewLeasesAreFresh, Fresh, BoundIsOwn
<1>5. OpenersUnbound' /\ CleansMerged' /\ ClaimedWaits'
  BY DEF OpenersUnbound, CleansMerged, ClaimedWaits, TypeOK
<1>6. NoDuplicateSession'
  <2> SUFFICES ASSUME NEW l \in open, session[l] \notin merged, bound[session[l]] # l
               PROVE  l \in CutShort(Jobs)
    BY DEF NoDuplicateSession
  <2>1. l \in cut \/ job[l] = "running"
    BY DEF NoDuplicateSession
  <2> QED
    BY <2>1 DEF CutShort, Jobs, TypeOK
<1> QED
  BY <1>3, <1>4, <1>5, <1>6

-----------------------------------------------------------------------------
(* Claims. The lease that is granted is a fresh one, and no other in force is   *)
(* for its session.                                                             *)
LEMMA GrantKeepsOrder ==
  ASSUME DaemonInv, NEW l \in Lease, NEW s \in Session,
         ClaimGranted(l, s) \/ ClaimAnswerLost(l, s)
  PROVE  Order'
<1>1. /\ Unused(l) /\ Claimable(s)
      /\ lease' = [lease EXCEPT ![l] = "active"] /\ session' = [session EXCEPT ![l] = s]
      /\ UNCHANGED <<merged, items, cleaning, slots, store>>
      /\ at' \notin {"release", "ack"} /\ (at' = "acquire" => claimed' = l)
  BY DEF ClaimGranted, ClaimAnswerLost, Grant, GoesTo
<1>2. /\ lease[l] = "free" /\ job[l] = "none" /\ Fresh(l)
      /\ lease'[l] = "active" /\ session'[l] = s
      /\ \A k \in Lease \ {l} : lease'[k] = lease[k] /\ session'[k] = session[k]
  BY <1>1 DEF Unused, DaemonInv, TypeOK, Order, JobsAreGranted, NewLeasesAreFresh
<1>3. \A k \in Lease : session[k] = s => lease[k] # "active"
  BY <1>1 DEF Claimable
<1> USE <1>2 DEF DaemonInv, Order
<1>4. JobsAreGranted'
  BY <1>1 DEF JobsAreGranted, slots
<1>5. LocksAreHeld'
  BY <1>1, NoneIsNoLease DEF LocksAreHeld, TypeOK, slots
<1>6. OneRunPerSession'
  BY <1>1 DEF OneRunPerSession, slots
<1>7. NewLeasesAreFresh'
  BY <1>1 DEF NewLeasesAreFresh, Fresh, slots, store
<1>8. BoundIsOwn'
  BY <1>1 DEF BoundIsOwn, Fresh, TypeOK, store
<1>9. OpenersUnbound' /\ NoDuplicateSession'
  <2>1. l \notin open /\ open' = open /\ open \subseteq Lease
    BY <1>1 DEF Fresh, TypeOK, store
  <2> QED
    BY <1>1, <2>1 DEF OpenersUnbound, NoDuplicateSession, slots, store
<1>10. ClaimedWaits'
  <2> SUFFICES ASSUME at' = "acquire"
               PROVE  /\ job'[l] = "none" /\ Fresh(l)'
                      /\ \A k \in Lease \ {l} : session'[k] = s => lease'[k] # "active"
    BY <1>1 DEF ClaimedWaits
  <2> QED
    BY <1>1, <1>3 DEF Fresh, slots, store
<1>11. CleansMerged'
  BY <1>1 DEF CleansMerged
<1> QED
  BY <1>4, <1>5, <1>6, <1>7, <1>8, <1>9, <1>10, <1>11

(* A job begins behind the lock of its session                                 *)
LEMMA SpawnKeepsOrder == ASSUME DaemonInv, SpawnJob PROVE Order'
<1> DEFINE l == claimed
<1>1. /\ l \in Lease /\ lease[l] # "free" /\ job[l] = "none" /\ Fresh(l)
      /\ job'[l] = "queued" /\ \A k \in Lease \ {l} : job'[k] = job[k]
      /\ UNCHANGED <<lease, session, merged, items, cleaning, lock, store>> /\ at' = "claim"
  BY DEF SpawnJob, DaemonInv, TypeOK, Order, ClaimedWaits, host
<1> USE <1>1 DEF DaemonInv, Order, store
<1>2. JobsAreGranted' /\ OneRunPerSession'
  BY DEF JobsAreGranted, OneRunPerSession
<1>3. LocksAreHeld'
  BY DEF LocksAreHeld, TypeOK
<1>4. NewLeasesAreFresh' /\ BoundIsOwn'
  BY DEF NewLeasesAreFresh, Fresh, BoundIsOwn
<1>5. OpenersUnbound' /\ NoDuplicateSession'
  BY DEF OpenersUnbound, NoDuplicateSession, TypeOK
<1>6. ClaimedWaits' /\ CleansMerged'
  BY DEF ClaimedWaits, CleansMerged
<1> QED
  BY <1>2, <1>3, <1>4, <1>5, <1>6

-----------------------------------------------------------------------------
(* The jobs. A run begins under the lock, and resumes what its record names.    *)
LEMMA BeginKeepsOrder == ASSUME DaemonInv, NEW l \in Lease, BeginRun(l) PROVE Order'
<1> DEFINE s == session[l]
           b == BackendOf(l)
<1>1. /\ job[l] = "queued" /\ lock[s] = None /\ s \in Session /\ lease[l] # "free"
      /\ job'[l] = "running" /\ \A k \in Lease \ {l} : job'[k] = job[k]
      /\ lock'[s] = l /\ \A t \in Session \ {s} : lock'[t] = lock[t]
      /\ open' = open \union {b}
      /\ UNCHANGED <<lease, session, merged, main, bound, cut>>
  BY DEF BeginRun, GoesOn, LockFree, DaemonInv, TypeOK, Order, JobsAreGranted, host
<1>2. /\ b \in Lease /\ session[b] = s /\ lease[b] # "free"
      /\ job[b] = "queued" => b = l
      /\ bound[s] \in {None, b} /\ (b # l => bound[s] = b)
  BY <1>1 DEF BackendOf, DaemonInv, TypeOK, Order, BoundIsOwn, NewLeasesAreFresh, Fresh
<1> USE <1>1, <1>2, NoneIsNoLease DEF DaemonInv, Order, main
<1>3. JobsAreGranted'
  BY DEF JobsAreGranted
<1>4. LocksAreHeld' /\ OneRunPerSession'
  <2>1. \A k \in Lease : job[k] = "running" => session[k] # s
    BY DEF OneRunPerSession
  <2>2. OneRunPerSession'
    BY <2>1 DEF OneRunPerSession, JobsAreGranted
  <2>3. LocksAreHeld'
    BY DEF LocksAreHeld, TypeOK
  <2> QED
    BY <2>2, <2>3
<1>5. NewLeasesAreFresh' /\ BoundIsOwn'
  BY DEF NewLeasesAreFresh, Fresh, BoundIsOwn
<1>6. l \notin open /\ open \subseteq Lease
  BY DEF NewLeasesAreFresh, Fresh, TypeOK
<1>7. OpenersUnbound'
  <2> SUFFICES ASSUME NEW k \in open', job'[k] = "running"
               PROVE  bound[session[k]] \in {None, k}
    BY DEF OpenersUnbound
  <2>1. CASE k = b
    BY <2>1
  <2>2. CASE k # b
    <3>1. k \in open /\ k \in Lease \ {l}
      BY <2>2, <1>6
    <3>2. job[k] = "running"
      BY <3>1
    <3> QED
      BY <3>1, <3>2 DEF OpenersUnbound
  <2> QED
    BY <2>1, <2>2
<1>8. NoDuplicateSession'
  <2> SUFFICES ASSUME NEW k \in open', session[k] \notin merged, k \notin cut,
                      job'[k] # "running"
               PROVE  bound[session[k]] = k
    BY DEF NoDuplicateSession
  <2>1. CASE k = b
    <3>1. b # l
      BY <2>1
    <3> QED
      BY <2>1, <3>1
  <2>2. CASE k # b
    <3>1. k \in open /\ k \in Lease \ {l}
      BY <2>2, <1>6
    <3>2. job[k] # "running"
      BY <3>1
    <3> QED
      BY <3>1, <3>2 DEF NoDuplicateSession
  <2> QED
    BY <2>1, <2>2
<1>9. ClaimedWaits' /\ CleansMerged'
  <2>1. ASSUME at = "acquire" PROVE claimed # l /\ claimed # b
    BY <2>1 DEF ClaimedWaits, Fresh
  <2> QED
    BY <2>1 DEF ClaimedWaits, CleansMerged, Fresh
<1> QED
  BY <1>3, <1>4, <1>5, <1>7, <1>8, <1>9

(* A job that stops before or after its run: it was queued or running, and it   *)
(* was the one to hold the lock, or nobody held it.                             *)
LEMMA StoppingKeepsOrder ==
  ASSUME DaemonInv, NEW l \in Lease,
         UNCHANGED <<lease, session, merged, main, open>>,
         job[l] # "none" /\ job'[l] = "reporting",
         \A k \in Lease \ {l} : job'[k] = job[k],
         \A s \in Session \ {session[l]} : lock'[s] = lock[s],
         lock'[session[l]] \in {lock[session[l]], None, l},
         lock'[session[l]] # lock[session[l]] => lock[session[l]] \in {None, l},
         \A s \in Session \ {session[l]} : bound'[s] = bound[s],
         bound'[session[l]] \in {bound[session[l]], BackendOf(l)},
         bound'[session[l]] # bound[session[l]] => job[l] = "running",
         cut \subseteq cut',
         l \in open /\ job[l] = "running" => bound'[session[l]] = l \/ l \in cut'
  PROVE  Order'
<1> DEFINE s == session[l]
<1>1. s \in Session /\ BackendOf(l) \in Lease /\ lease[l] # "free"
  BY BackendIsLease DEF DaemonInv, Order, JobsAreGranted
<1>2. /\ bound[s] # None => bound'[s] = bound[s]
      /\ bound'[s] # None => session[bound'[s]] = s
      /\ bound'[s] \in {bound[s], l}
  BY <1>1 DEF BackendOf, DaemonInv, Order, BoundIsOwn
<1> USE <1>1, NoneIsNoLease DEF DaemonInv, Order, main
<1>3. JobsAreGranted'
  BY DEF JobsAreGranted
<1>4. LocksAreHeld'
  BY DEF LocksAreHeld, TypeOK
<1>5. OneRunPerSession'
  BY DEF OneRunPerSession, JobsAreGranted
<1>6. NewLeasesAreFresh'
  BY <1>2 DEF NewLeasesAreFresh, Fresh
<1>7. BoundIsOwn'
  BY <1>2 DEF BoundIsOwn
<1>8. OpenersUnbound'
  <2> SUFFICES ASSUME NEW k \in open, job'[k] = "running"
               PROVE  bound'[session[k]] \in {None, k}
    BY DEF OpenersUnbound
  <2>1. k \in Lease \ {l} /\ job[k] = "running" /\ session[k] \in Session
    BY DEF TypeOK, JobsAreGranted
  <2>2. CASE session[k] # s
    BY <2>1, <2>2 DEF OpenersUnbound
  <2>3. CASE session[k] = s
    <3>1. job[l] # "running"
      BY <2>1, <2>3 DEF OneRunPerSession
    <3> QED
      BY <3>1, <2>1, <2>3 DEF OpenersUnbound
  <2> QED
    BY <2>2, <2>3
<1>9. NoDuplicateSession'
  <2> SUFFICES ASSUME NEW k \in open, session[k] \notin merged, k \notin cut', job'[k] # "running"
               PROVE  bound'[session[k]] = k
    BY DEF NoDuplicateSession
  <2>1. k \in Lease /\ session[k] \in Session
    BY DEF TypeOK, NewLeasesAreFresh, Fresh, JobsAreGranted
  <2>2. CASE k = l
    BY <2>1, <2>2, <1>2 DEF NoDuplicateSession
  <2>3. CASE k # l
    <3>1. bound[session[k]] = k
      BY <2>1, <2>3 DEF NoDuplicateSession
    <3> QED
      BY <3>1, <2>1, <1>2
  <2> QED
    BY <2>2, <2>3
<1>10. ClaimedWaits'
  BY <1>2 DEF ClaimedWaits, Fresh
<1>11. CleansMerged'
  BY DEF CleansMerged
<1> QED
  BY <1>3, <1>4, <1>5, <1>6, <1>7, <1>8, <1>9, <1>10, <1>11

(* The lock a step of Reports leaves: free, or still its own.                   *)
LEMMA ReportsLeavesLock ==
  ASSUME DaemonInv, NEW l \in Lease, job[l] # "none", Reports(l)
  PROVE  /\ job'[l] = "reporting" /\ \A k \in Lease \ {l} : job'[k] = job[k]
         /\ \A s \in Session \ {session[l]} : lock'[s] = lock[s]
         /\ lock'[session[l]] \in {None, l}
<1>1. session[l] \in Session
  BY DEF DaemonInv, TypeOK, Order, JobsAreGranted
<1> QED
  BY <1>1 DEF DaemonInv, TypeOK, Reports, GoesOn, LockDropped

(* A job that fails to get its slot                                            *)
LEMMA SlotFailureKeepsOrder == ASSUME DaemonInv, NEW l \in Lease, SlotFails(l) PROVE Order'
<1>1. /\ UNCHANGED <<lease, session, merged, main, open, lock, bound, cut>>
      /\ job[l] = "queued" /\ job'[l] = "reporting"
      /\ \A k \in Lease \ {l} : job'[k] = job[k]
  BY DEF SlotFails, GoesOn, host, store, DaemonInv, TypeOK
<1> QED
  BY <1>1, StoppingKeepsOrder

(* A job that is about to report                                               *)
LEMMA ReportingKeepsOrder ==
  ASSUME DaemonInv, NEW l \in Lease,
         \/ PrepareFails(l) \/ RunEnds(l) \/ VerdictEndsRun(l) \/ RunFails(l)
         \/ RenewalRejected(l)
  PROVE  Order'
<1>1. /\ Reports(l) /\ UNCHANGED <<lease, session, merged, main, open>>
      /\ job[l] \in {"queued", "running"}
  BY DEF PrepareFails, RunEnds, VerdictEndsRun, RunFails, RenewalRejected, host, store
<1>2. session[l] \in Session /\ BackendOf(l) \in Lease
  BY <1>1, BackendIsLease DEF DaemonInv, Order
<1>3. /\ job'[l] = "reporting" /\ \A k \in Lease \ {l} : job'[k] = job[k]
      /\ \A s \in Session \ {session[l]} : lock'[s] = lock[s]
      /\ lock'[session[l]] \in {None, l}
  BY <1>1, ReportsLeavesLock
<1>4. lock[session[l]] \in {None, l}
  <2>1. CASE job[l] = "running"
    BY <2>1 DEF DaemonInv, Order, OneRunPerSession
  <2>2. CASE job[l] = "queued"
    BY <2>2 DEF PrepareFails, RunEnds, VerdictEndsRun, RunFails, RenewalRejected, LockFree
  <2> QED
    BY <1>1, <2>1, <2>2
<1>5. CASE RunEnds(l)
  <2>1. /\ \A s \in Session \ {session[l]} : bound'[s] = bound[s]
        /\ bound'[session[l]] = BackendOf(l) /\ cut' = cut /\ job[l] = "running"
    BY <1>2, <1>5 DEF RunEnds, Bound, DaemonInv, TypeOK
  <2>2. l \in open => BackendOf(l) = l
    BY <2>1 DEF DaemonInv, Order, OpenersUnbound, BackendOf
  <2> QED
    BY <1>1, <1>3, <1>4, <2>1, <2>2, StoppingKeepsOrder
<1>6. CASE ~RunEnds(l)
  <2>1. bound' = bound /\ cut \subseteq cut'
    BY <1>6 DEF PrepareFails, VerdictEndsRun, RunFails, RenewalRejected, CutShort, store
  <2>2. l \in open /\ job[l] = "running" => bound[session[l]] = l \/ l \in cut'
    BY <1>6 DEF PrepareFails, VerdictEndsRun, RunFails, RenewalRejected, CutShort
  <2> QED
    BY <1>1, <1>3, <1>4, <2>1, <2>2, StoppingKeepsOrder
<1> QED
  BY <1>5, <1>6

(* The job is over: it lets go of its session, and of its lease.                *)
LEMMA EndingKeepsOrder ==
  ASSUME DaemonInv, NEW l \in Lease, ReportTaken(l) \/ ReportLost(l)
  PROVE  Order'
<1>1. session[l] \in Session /\ job[l] = "reporting" /\ lease[l] # "free"
  BY DEF ReportTaken, ReportLost, DaemonInv, TypeOK, Order, JobsAreGranted
<1>2. /\ UNCHANGED <<session, merged, main, store>>
      /\ job'[l] = "over" /\ \A k \in Lease \ {l} : job'[k] = job[k]
      /\ \A s \in Session : lock'[s] = IF lock[s] = l /\ s = session[l] THEN None ELSE lock[s]
      /\ \A k \in Lease : lease'[k] # lease[k] => lease[k] = "active" /\ lease'[k] = "ended"
  <2>1. \A s \in Session : lock'[s] = IF lock[s] = l /\ s = session[l] THEN None ELSE lock[s]
    BY <1>1 DEF ReportTaken, ReportLost, LockDropped, DaemonInv, TypeOK
  <2> QED
    BY <1>1, <2>1 DEF ReportTaken, ReportLost, GoesOn, host, DaemonInv, TypeOK
<1> USE <1>1, <1>2, NoneIsNoLease DEF DaemonInv, Order, main, store
<1>3. JobsAreGranted'
  BY DEF JobsAreGranted
<1>4. LocksAreHeld' /\ OneRunPerSession'
  BY DEF LocksAreHeld, OneRunPerSession, TypeOK, JobsAreGranted
<1>5. NewLeasesAreFresh' /\ BoundIsOwn'
  BY DEF NewLeasesAreFresh, Fresh, BoundIsOwn
<1>6. OpenersUnbound' /\ NoDuplicateSession'
  BY DEF OpenersUnbound, NoDuplicateSession, TypeOK
<1>7. ClaimedWaits' /\ CleansMerged'
  BY DEF ClaimedWaits, CleansMerged, Fresh
<1> QED
  BY <1>3, <1>4, <1>5, <1>6, <1>7

-----------------------------------------------------------------------------
(* Nothing happens                                                             *)
LEMMA DaemonStutter == DaemonInv /\ UNCHANGED vars => DaemonInv'
<1> SUFFICES ASSUME DaemonInv, UNCHANGED vars PROVE DaemonInv'
  OBVIOUS
<1> USE DEF vars, host, main, slots, store, faults
<1>1. TypeOK'
  BY DEF DaemonInv, TypeOK
<1>2. JobsAreGranted' /\ LocksAreHeld' /\ OneRunPerSession' /\ CleansMerged'
  BY DEF DaemonInv, Order, JobsAreGranted, LocksAreHeld, OneRunPerSession, CleansMerged
<1>3. NewLeasesAreFresh' /\ ClaimedWaits' /\ BoundIsOwn'
  BY DEF DaemonInv, Order, NewLeasesAreFresh, ClaimedWaits, Fresh, BoundIsOwn
<1>4. OpenersUnbound' /\ NoDuplicateSession'
  BY DEF DaemonInv, Order, OpenersUnbound, NoDuplicateSession
<1> QED
  BY <1>1, <1>2, <1>3, <1>4 DEF DaemonInv, Order

(* The invariant is inductive                                                  *)
LEMMA DaemonStep == DaemonInv /\ [Next]_vars => DaemonInv'
<1> SUFFICES ASSUME DaemonInv, [Next]_vars PROVE DaemonInv'
  OBVIOUS
<1>1. CASE HostStep
  BY <1>1, HostTypes, HostKeepsOrder DEF DaemonInv
<1>2. CASE MainStep
  <2>1. TypeOK'
    BY <1>2, MainTypes DEF DaemonInv, Order
  <2>2. Order'
    BY <1>2, MovesKeepOrder, JoiningKeepsOrder, CleaningKeepsOrder, CuttingKeepsOrder,
       GrantKeepsOrder, SpawnKeepsOrder DEF MainStep
  <2> QED
    BY <2>1, <2>2 DEF DaemonInv
<1>3. ASSUME NEW l \in Lease, JobStep(l) PROVE DaemonInv'
  <2>1. TypeOK'
    BY <1>3, JobTypes DEF DaemonInv, Order
  <2>2. Order'
    BY <1>3, BeginKeepsOrder, SlotFailureKeepsOrder, ReportingKeepsOrder, EndingKeepsOrder
       DEF JobStep
  <2> QED
    BY <2>1, <2>2 DEF DaemonInv
<1>4. CASE Crash
  BY <1>4, CrashTypes, CuttingKeepsOrder DEF DaemonInv
<1>5. CASE UNCHANGED vars
  BY <1>5, DaemonStutter
<1> QED
  BY <1>1, <1>2, <1>3, <1>4, <1>5 DEF Next

(* The daemon keeps its invariant, for any number of leases, slots and faults.  *)
THEOREM DaemonInvariant == Spec => []DaemonInv
  BY InitDaemon, DaemonStep, PTL DEF Spec

(* In every logical session one job runs at a time, and no backend session of   *)
(* an open task is orphaned by a second one (lock_session, acquire_with,        *)
(* bind_with): however often leases are lost and granted again meanwhile.       *)
THEOREM SessionsStaySingle == Spec => []SessionsAreSingle
<1>1. DaemonInv => SessionsAreSingle
  BY DEF DaemonInv, Order, SessionsAreSingle
<1> QED
  BY <1>1, DaemonInvariant, PTL

(* The main loop waits for a session only behind a job without a lease in       *)
(* force: the host grants one lease at a time on a task, and the job of a newer *)
(* one cannot be spawned while the loop waits.                                  *)
THEOREM LoopWaitsOnlyForStale == Spec => []WaitsOnlyForStaleJob
<1>1. DaemonInv => WaitsOnlyForStaleJob
  <2> SUFFICES ASSUME DaemonInv, at = "acquire", lock[session[claimed]] # None
               PROVE  lease[lock[session[claimed]]] # "active"
    BY DEF WaitsOnlyForStaleJob
  <2>1. /\ claimed \in Lease /\ job[claimed] = "none" /\ session[claimed] \in Session
        /\ \A k \in Lease \ {claimed} : session[k] = session[claimed] => lease[k] # "active"
    BY DEF DaemonInv, TypeOK, Order, ClaimedWaits, JobsAreGranted
  <2> DEFINE k == lock[session[claimed]]
  <2>2. k \in Lease /\ session[k] = session[claimed] /\ job[k] \in {"running", "reporting"}
    BY <2>1 DEF DaemonInv, TypeOK, Order, LocksAreHeld
  <2> QED
    BY <2>1, <2>2
<1> QED
  BY <1>1, DaemonInvariant, PTL

-----------------------------------------------------------------------------
(* Liveness: an abandoned lease ends *)

(* A renewal task is that of a job that waits for its run or runs.              *)
RenewalsHaveRuns == \A l \in renewing : job[l] \in {"queued", "running"}

(* No step keeps the renewal of a job that is over, or starts one without a job *)
LEMMA RenewalsKeepRuns ==
  ASSUME DaemonInv, RenewalsHaveRuns, [Next]_vars
  PROVE  RenewalsHaveRuns'
<1> USE DEF RenewalsHaveRuns
<1>t. job \in [Lease -> JobStates] /\ renewing \subseteq Lease
  BY DEF DaemonInv, TypeOK
<1>1. CASE HostStep
  BY <1>1 DEF HostStep, LeaseRunsOut, RenewalsLost, OrderPause, MergeTask, slots
<1>2. CASE MainStep
  <2>1. CASE Heartbeat \/ HeartbeatFails
    BY <1>t, <2>1 DEF Heartbeat, HeartbeatFails, JoinFinished
  <2>2. CASE StopSlots
    BY <1>t, <2>2 DEF StopSlots, AbortJobs, Jobs, JobStates
  <2>3. CASE SpawnJob
    <3>1. claimed \in Lease
      BY <2>3 DEF SpawnJob, DaemonInv, Order, ClaimedWaits
    <3> QED
      BY <1>t, <2>3, <3>1 DEF SpawnJob
  <2>4. CASE UNCHANGED slots
    BY <2>4 DEF slots
  <2> QED
    BY <1>2, <2>1, <2>2, <2>3, <2>4
       DEF MainStep, Start, StartFails, PollCleanup, ReleaseSession, AckCleanup, CleanupFails,
           RetireSession, FetchConfig, FetchConfigFails, NotReady, Ready, ClaimGranted,
           ClaimAnswerLost, NoClaim, AcquireFails, slots
<1>3. ASSUME NEW l \in Lease, JobStep(l) PROVE RenewalsHaveRuns'
  <2>1. \/ job' = [job EXCEPT ![l] = "running"] /\ UNCHANGED renewing
        \/ renewing' = renewing \ {l} /\ \E s \in JobStates : job' = [job EXCEPT ![l] = s]
        \/ job[l] = "reporting" /\ job' = [job EXCEPT ![l] = "over"] /\ UNCHANGED renewing
    BY <1>3 DEF JobStep, BeginRun, SlotFails, PrepareFails, RunEnds, VerdictEndsRun, RunFails,
       RenewalRejected, ReportTaken, ReportLost, Reports, GoesOn, RenewalStopped, JobStates
  <2> QED
    BY <1>t, <2>1
<1>4. CASE Crash
  BY <1>4 DEF Crash
<1>5. CASE UNCHANGED vars
  BY <1>5 DEF vars, slots
<1> QED
  BY <1>1, <1>2, <1>3, <1>4, <1>5 DEF Next

(* A lease in force whose job is gone, or never came                           *)
Abandoned(l) == lease[l] = "active" /\ job[l] \in {"none", "over"} /\ claimed # l

(* It stays abandoned as long as it is in force: jobs are spawned for newer     *)
(* leases only                                                                 *)
LEMMA AbandonedStays ==
  ASSUME DaemonInv, NEW l \in Lease, Abandoned(l), [Next]_vars
  PROVE  Abandoned(l)' \/ lease'[l] # "active"
<1> USE DEF Abandoned
<1>t. job \in [Lease -> JobStates] /\ lease \in [Lease -> LeaseStates] /\ renewing \subseteq Lease
  BY DEF DaemonInv, TypeOK
<1>1. CASE HostStep
  BY <1>t, <1>1 DEF HostStep, LeaseRunsOut, RenewalsLost, OrderPause, MergeTask, slots, main, LoseLease
<1>2. CASE MainStep
  <2>1. CASE Heartbeat \/ HeartbeatFails
    BY <1>t, <2>1 DEF Heartbeat, HeartbeatFails, JoinFinished, host, main, GoesTo
  <2>2. CASE StopSlots
    BY <1>t, <2>2 DEF StopSlots, AbortJobs, Jobs, host, GoesTo
  <2>3. CASE SpawnJob \/ AcquireFails
    <3>1. claimed \in Lease
      BY <2>3 DEF SpawnJob, AcquireFails, DaemonInv, Order, ClaimedWaits
    <3> QED
      BY <1>t, <2>3, <3>1, NoneIsNoLease DEF SpawnJob, AcquireFails, host, slots
  <2>4. ASSUME NEW k \in Lease, NEW s \in Session, ClaimGranted(k, s) \/ ClaimAnswerLost(k, s)
        PROVE  Abandoned(l)'
    BY <1>t, <2>4 DEF ClaimGranted, ClaimAnswerLost, Grant, Unused, slots, GoesTo
  <2>5. CASE UNCHANGED <<slots, lease, claimed>>
    BY <2>5 DEF slots
  <2> QED
    BY <1>2, <2>1, <2>2, <2>3, <2>4, <2>5
       DEF MainStep, Start, StartFails, PollCleanup, ReleaseSession, AckCleanup, CleanupFails,
           RetireSession, FetchConfig, FetchConfigFails, NotReady, Ready,
           NoClaim, AcquireFails, host, main, GoesTo
<1>3. ASSUME NEW k \in Lease, JobStep(k) PROVE Abandoned(l)' \/ lease'[l] # "active"
  <2>1. /\ UNCHANGED main
        /\ UNCHANGED lease \/ \E s \in LeaseStates : lease' = [lease EXCEPT ![k] = s]
        /\ job[k] \in {"queued", "running", "reporting"}
        /\ \E s \in JobStates : job' = [job EXCEPT ![k] = s]
    BY <1>3 DEF JobStep, BeginRun, SlotFails, PrepareFails, RunEnds, VerdictEndsRun, RunFails,
       RenewalRejected, ReportTaken, ReportLost, Reports, GoesOn, JobStates, LeaseStates, host
  <2> QED
    BY <1>t, <2>1 DEF main
<1>4. CASE Crash
  BY <1>t, <1>4, NoneIsNoLease DEF Crash, host
<1>5. CASE UNCHANGED vars
  BY <1>5 DEF vars, host, main, slots
<1> QED
  BY <1>1, <1>2, <1>3, <1>4, <1>5 DEF Next

(* A lease without a job runs out: no renewal outlives its job. For each lease,*)
(* under the weak fairness of its end; that this end can be taken as soon as    *)
(* nobody renews is what the prover cannot see of ENABLED, a hypothesis here.   *)
THEOREM AbandonedLeaseRunsOut ==
  ASSUME NEW l \in Lease
  PROVE  Spec /\ WF_vars(LeaseRunsOut(l)) /\ []RunOutEnabled(l)
             => (Abandoned(l) ~> lease[l] # "active")
<1> DEFINE InForce == lease[l] = "active"
           CanRunOut == ENABLED <<LeaseRunsOut(l)>>_vars
<1>1. Init => RenewalsHaveRuns
  BY DEF Init, RenewalsHaveRuns
<1>2. DaemonInv /\ RenewalsHaveRuns /\ [Next]_vars => RenewalsHaveRuns'
  BY RenewalsKeepRuns
<1>3. DaemonInv /\ Abandoned(l) /\ [Next]_vars => Abandoned(l)' \/ ~InForce'
  BY AbandonedStays
<1>4. DaemonInv /\ <<LeaseRunsOut(l)>>_vars => ~InForce'
  BY DEF LeaseRunsOut, LoseLease, DaemonInv, TypeOK
<1>5. RenewalsHaveRuns /\ Abandoned(l) /\ RunOutEnabled(l) => CanRunOut
  BY DEF RenewalsHaveRuns, Abandoned, RunOutEnabled
<1>6. Spec => []DaemonInv
  BY DaemonInvariant
<1>7. ~InForce <=> lease[l] # "active"
  BY DEF InForce
<1> HIDE DEF InForce
<1> QED
  BY <1>1, <1>2, <1>3, <1>4, <1>5, <1>6, <1>7, PTL DEF Spec
=============================================================================
