--------------------------- MODULE WorkerControl ---------------------------
(***************************************************************************)
(* What the host asks of a worker outside its jobs, and how the worker     *)
(* carries it out: managed tools (update_worker and report_capability_build*)
(* in api.rs, reconcile_managed_capabilities in the daemon), provider keys *)
(* and model refreshes (queues of the host, emptied by poll and            *)
(* acknowledgement).  update_worker and report_capability_build read the   *)
(* worker's row, compute, and write whole columns later, without a         *)
(* transaction around both.                                                *)
(***************************************************************************)
EXTENDS Integers, Sequences, FiniteSets, SequencesExt

CONSTANTS Tools,        \* managed capabilities
          MaxUpdates,   \* updates by the operator
          MaxKeys,      \* provider keys the operator enters
          MaxRefreshes, \* model refreshes the operator asks for
          MaxFaults     \* lost calls, failed builds, failed writes, restarts

ASSUME ControlAssumption == {MaxUpdates, MaxKeys, MaxRefreshes, MaxFaults} \subseteq Nat

VARIABLES
    row,       \* the worker's row: wanted and reported tools, state
    update,    \* an update_worker call between its read and its write
    report,    \* a capability report between its read and its write
    keys,      \* agent_auth_updates of the worker, oldest first
    entered,   \* keys entered so far; each has its number as id
    forgotten, \* of these, the ones entered before the host's last restart
    refreshes, \* model_refresh_requests of the worker
    asked,     \* refreshes asked for so far
    lateAck,   \* an acknowledgement of a key still on its way
    daemon,    \* the worker's main loop
    installed, \* tools of the root file system on the worker's disk
    key,       \* the key in Pi's auth store, 0 when there is none
    updates, faults

ctlVars == <<row, update, report, keys, entered, forgotten, refreshes, asked, lateAck,
             daemon, installed, key, updates, faults>>

NoUpdate == [step |-> "none"]
NoReport == [step |-> "none"]
Config == [managed |-> row.managed, installed |-> row.installed,
           paused |-> row.state = "draining",
           refresh |-> IF refreshes = <<>> THEN 0 ELSE refreshes[1]]

\* The daemon as it starts: what it fetches first is its configuration.
Started == [step |-> "config", startup |-> TRUE, tools |-> installed, key |-> 0,
            config |-> [managed |-> {}, installed |-> {}, paused |-> FALSE, refresh |-> 0]]

CtlInit ==
    /\ row = [managed |-> {}, installed |-> {}, state |-> "ready"]
    /\ update = NoUpdate /\ report = NoReport
    /\ keys = <<>> /\ entered = 0 /\ forgotten = 0
    /\ refreshes = <<>> /\ asked = 0 /\ lateAck = 0
    /\ installed = {} /\ key = 0
    /\ daemon = [Started EXCEPT !.tools = {}]
    /\ updates = 0 /\ faults = 0

CtlTypeOK ==
    /\ row \in [managed : SUBSET Tools, installed : SUBSET Tools,
                state : {"ready", "pending", "draining", "degraded"}]
    /\ keys \in Seq(1..MaxKeys) /\ refreshes \in Seq(1..MaxRefreshes)
    /\ entered \in 0..MaxKeys /\ forgotten \in 0..entered /\ asked \in 0..MaxRefreshes
    /\ lateAck \in 0..MaxKeys /\ key \in 0..MaxKeys
    /\ installed \subseteq Tools /\ daemon.tools \subseteq installed
    /\ daemon.step \in {"config", "refresh", "reconcile", "build", "activate", "ready",
                        "error", "done", "recover", "auth", "store", "ack"}
    /\ updates \in 0..MaxUpdates /\ faults \in 0..MaxFaults

Fault == faults < MaxFaults /\ faults' = faults + 1
NoFault == faults' = faults

-----------------------------------------------------------------------------
(* The host: operator's updates. *)

\* update_worker reads the row ...
UpdateReads(managed, paused) ==
    /\ update = NoUpdate /\ updates < MaxUpdates
    /\ update' = [step |-> "read", row |-> row, managed |-> managed, paused |-> paused]
    /\ updates' = updates + 1
    /\ UNCHANGED <<row, report, keys, entered, forgotten, refreshes, asked, lateAck,
                   daemon, installed, key, faults>>

\* ... and writes what it computed from what it read.
StateAfterUpdate(u) ==
    IF u.paused THEN "draining"
    ELSE IF ~(u.managed \subseteq u.row.installed) THEN "pending"
    ELSE "ready"

UpdateWrites ==
    /\ update # NoUpdate
    /\ row' = [row EXCEPT !.managed = update.managed, !.state = StateAfterUpdate(update)]
    /\ update' = NoUpdate
    /\ UNCHANGED <<report, keys, entered, forgotten, refreshes, asked, lateAck,
                   daemon, installed, key, updates, faults>>

(* Keys and refreshes: queues, one entry handed over at a time. *)

EnterKey ==
    /\ entered < MaxKeys
    /\ entered' = entered + 1
    /\ keys' = Append(keys, entered + 1)
    /\ UNCHANGED <<row, update, report, forgotten, refreshes, asked, lateAck,
                   daemon, installed, key, updates, faults>>

AskRefresh ==
    /\ asked < MaxRefreshes
    /\ asked' = asked + 1
    /\ refreshes' = Append(refreshes, asked + 1)
    /\ UNCHANGED <<row, update, report, keys, entered, forgotten, lateAck,
                   daemon, installed, key, updates, faults>>

\* ack_worker_agent_auth, ack_worker_model_refresh: an acknowledgement removes
\* the front entry if it names it; one for an entry behind it is refused, one
\* for an entry that is gone does nothing.
Acknowledged(queue, id) ==
    IF queue # <<>> /\ queue[1] = id THEN Tail(queue) ELSE queue
RefreshAcknowledged(id) == Acknowledged(refreshes, id)

\* worker_agent_auth hands over the front entry and keeps it.
NextQueued(queue) == IF queue = <<>> THEN 0 ELSE queue[1]

-----------------------------------------------------------------------------
(* report_capability_build. *)

\* A failure is written at once; any other report reads the row first.
SendReport(tools) == report' = [step |-> "sent", tools |-> tools, row |-> row]

ReportReads ==
    /\ report # NoReport /\ report.step = "sent"
    /\ report' = [report EXCEPT !.step = "read", !.row = row]
    /\ UNCHANGED <<row, update, keys, entered, forgotten, refreshes, asked, lateAck,
                   daemon, installed, key, updates, faults>>

StateAfterReport(r) ==
    IF r.row.state = "draining" THEN "draining"
    ELSE IF r.row.managed \subseteq r.tools THEN "ready" ELSE "pending"

Refused(r) == ~(r.row.installed \subseteq r.tools)

\* What the daemon does with the answer: a refused or lost "ready" report is an
\* error of its reconciliation, every other report is best effort.
AfterReport(ok) ==
    CASE daemon.step = "ready" /\ ok ->
             [daemon EXCEPT !.step = "done", !.config.installed = daemon.tools]
      [] daemon.step = "ready" /\ ~ok -> [daemon EXCEPT !.step = "error"]
      [] daemon.step = "recover"      -> [daemon EXCEPT !.step = "refresh"]
      [] OTHER                        -> daemon

ReportWrites(answered) ==
    /\ report # NoReport /\ report.step = "read"
    /\ IF answered THEN NoFault ELSE Fault
    /\ row' = IF Refused(report) THEN row
              ELSE [row EXCEPT !.installed = report.tools, !.state = StateAfterReport(report)]
    /\ report' = NoReport
    /\ daemon' = AfterReport(answered /\ ~Refused(report))
    /\ UNCHANGED <<update, keys, entered, forgotten, refreshes, asked, lateAck,
                   installed, key, updates>>

ReportLost ==
    /\ report # NoReport /\ report.step = "sent"
    /\ Fault
    /\ report' = NoReport
    /\ daemon' = AfterReport(FALSE)
    /\ UNCHANGED <<row, update, keys, entered, forgotten, refreshes, asked, lateAck,
                   installed, key, updates>>

\* A restart of the host forgets both queues and the calls it was serving.
RestartHost ==
    /\ Fault
    /\ keys' = <<>> /\ refreshes' = <<>>
    /\ forgotten' = entered
    /\ update' = NoUpdate /\ report' = NoReport
    /\ daemon' = IF report = NoReport THEN daemon ELSE AfterReport(FALSE)
    /\ UNCHANGED <<row, entered, asked, lateAck, installed, key, updates>>

-----------------------------------------------------------------------------
(* The daemon's main loop. *)

Idle == report = NoReport

FetchConfig ==
    /\ Idle /\ daemon.step = "config"
    /\ daemon' = [daemon EXCEPT !.config = Config,
                                !.step = IF daemon.startup THEN "reconcile" ELSE "refresh"]
    /\ UNCHANGED <<row, update, report, keys, entered, forgotten, refreshes, asked, lateAck,
                   installed, key, updates, faults>>

\* A failed fetch keeps the configuration; the first one ends the process.
ConfigLost ==
    /\ Idle /\ daemon.step = "config"
    /\ Fault
    /\ daemon' = IF daemon.startup THEN Started
                 ELSE [daemon EXCEPT !.step = "refresh", !.config.refresh = 0]
    /\ UNCHANGED <<row, update, report, keys, entered, forgotten, refreshes, asked, lateAck,
                   installed, key, updates>>

\* A refresh is acknowledged whether or not the catalog could be fetched.  At
\* startup it follows the reconciliation, in the loop it precedes it.
Refresh(lost) ==
    /\ Idle /\ daemon.step = "refresh"
    /\ lost => daemon.config.refresh # 0
    /\ IF lost THEN Fault ELSE NoFault
    /\ refreshes' = IF lost THEN refreshes ELSE RefreshAcknowledged(daemon.config.refresh)
    /\ daemon' = [daemon EXCEPT !.step = IF daemon.startup THEN "auth" ELSE "reconcile",
                                !.startup = FALSE, !.config.refresh = 0]
    /\ UNCHANGED <<row, update, report, keys, entered, forgotten, asked, lateAck,
                   installed, key, updates>>

\* reconcile_managed_capabilities.
OnlyWhatIsReported == daemon.tools \cup daemon.config.installed
Target == daemon.tools \cup daemon.config.installed \cup daemon.config.managed
NeedsReport ==
    \/ daemon.config.installed # daemon.tools
    \/ ~(daemon.config.managed \subseteq daemon.tools)

Skip(step) == daemon' = [daemon EXCEPT !.step = step] /\ UNCHANGED report

Reconcile ==
    /\ Idle /\ daemon.step = "reconcile"
    /\ IF daemon.config.paused /\ ~daemon.startup THEN Skip("auth")
       ELSE IF Target # daemon.tools THEN Skip("build")
       ELSE IF NeedsReport
       THEN daemon' = [daemon EXCEPT !.step = "ready"] /\ SendReport(daemon.tools)
       ELSE Skip("done")
    /\ UNCHANGED <<row, update, keys, entered, forgotten, refreshes, asked, lateAck,
                   installed, key, updates, faults>>

\* After a reconciliation the daemon serves; a new daemon first reports that its
\* tools are ready, whatever the host last heard of them.
Done ==
    /\ Idle /\ daemon.step = "done"
    /\ IF daemon.startup
       THEN daemon' = [daemon EXCEPT !.step = "recover"] /\ SendReport(daemon.tools)
       ELSE Skip("auth")
    /\ UNCHANGED <<row, update, keys, entered, forgotten, refreshes, asked, lateAck,
                   installed, key, updates, faults>>

\* While it builds it reports its progress, with the tools it had before.
BuildTick ==
    /\ Idle /\ daemon.step = "build"
    /\ SendReport(daemon.tools)
    /\ UNCHANGED <<row, update, keys, entered, forgotten, refreshes, asked, lateAck,
                   daemon, installed, key, updates, faults>>

\* The built root file system becomes the current one; "activating" is reported.
BuildEnds ==
    /\ Idle /\ daemon.step = "build"
    /\ installed' = Target
    /\ daemon' = [daemon EXCEPT !.step = "activate"]
    /\ SendReport(daemon.tools)
    /\ UNCHANGED <<row, update, keys, entered, forgotten, refreshes, asked, lateAck,
                   key, updates, faults>>

\* The build, the sandbox on the new root or its toolchain probe fails.
BuildFails ==
    /\ Idle /\ daemon.step \in {"build", "activate"}
    /\ Fault
    /\ daemon' = [daemon EXCEPT !.step = "error"]
    /\ UNCHANGED <<row, update, report, keys, entered, forgotten, refreshes, asked, lateAck,
                   installed, key, updates>>

Activate ==
    /\ Idle /\ daemon.step = "activate"
    /\ daemon' = [daemon EXCEPT !.step = "ready", !.tools = Target]
    /\ SendReport(Target)
    /\ UNCHANGED <<row, update, keys, entered, forgotten, refreshes, asked, lateAck,
                   installed, key, updates, faults>>

\* A failed reconciliation is reported, best effort, and tried again.
ReportError(lost) ==
    /\ Idle /\ daemon.step = "error"
    /\ IF lost THEN Fault ELSE NoFault
    /\ row' = IF lost THEN row ELSE [row EXCEPT !.state = "degraded"]
    /\ daemon' = [daemon EXCEPT !.step = IF daemon.startup THEN "refresh" ELSE "auth"]
    /\ UNCHANGED <<update, report, keys, entered, forgotten, refreshes, asked, lateAck,
                   installed, key, updates>>

\* The next turn of the loop begins with the provider keys.
PollKey ==
    /\ Idle /\ daemon.step = "auth"
    /\ daemon' = IF NextQueued(keys) = 0 THEN [daemon EXCEPT !.step = "config"]
                 ELSE [daemon EXCEPT !.step = "store", !.key = NextQueued(keys)]
    /\ UNCHANGED <<row, update, report, keys, entered, forgotten, refreshes, asked, lateAck,
                   installed, key, updates, faults>>

StoreKey ==
    /\ daemon.step = "store"
    /\ key' = daemon.key
    /\ daemon' = [daemon EXCEPT !.step = "ack"]
    /\ UNCHANGED <<row, update, report, keys, entered, forgotten, refreshes, asked, lateAck,
                   installed, updates, faults>>

\* A key that cannot be stored, or whose poll failed, is asked for again.
StoreFails ==
    /\ daemon.step = "store"
    /\ Fault
    /\ daemon' = [daemon EXCEPT !.step = "config"]
    /\ UNCHANGED <<row, update, report, keys, entered, forgotten, refreshes, asked, lateAck,
                   installed, key, updates>>

AckKey ==
    /\ daemon.step = "ack"
    /\ keys' = Acknowledged(keys, daemon.key)
    /\ daemon' = [daemon EXCEPT !.step = "config"]
    /\ UNCHANGED <<row, update, report, entered, forgotten, refreshes, asked, lateAck,
                   installed, key, updates, faults>>

\* The call times out; the host may still carry it out, much later.
AckDelayed ==
    /\ daemon.step = "ack" /\ lateAck = 0
    /\ Fault
    /\ lateAck' = daemon.key
    /\ daemon' = [daemon EXCEPT !.step = "config"]
    /\ UNCHANGED <<row, update, report, keys, entered, forgotten, refreshes, asked,
                   installed, key, updates>>

LateAckArrives ==
    /\ lateAck # 0
    /\ keys' = Acknowledged(keys, lateAck)
    /\ lateAck' = 0
    /\ UNCHANGED <<row, update, report, entered, forgotten, refreshes, asked,
                   daemon, installed, key, updates, faults>>

\* A new daemon finds on disk what was built, activated or not.
RestartDaemon ==
    /\ Idle
    /\ Fault
    /\ daemon' = Started
    /\ UNCHANGED <<row, update, report, keys, entered, forgotten, refreshes, asked, lateAck,
                   installed, key, updates>>

CtlNext ==
    \/ \E managed \in SUBSET Tools, paused \in BOOLEAN : UpdateReads(managed, paused)
    \/ UpdateWrites
    \/ EnterKey \/ AskRefresh \/ RestartHost
    \/ ReportReads \/ ReportLost
    \/ \E answered \in BOOLEAN : ReportWrites(answered)
    \/ FetchConfig \/ ConfigLost
    \/ \E lost \in BOOLEAN : Refresh(lost)
    \/ Reconcile \/ Done \/ BuildTick \/ BuildEnds \/ BuildFails \/ Activate
    \/ \E lost \in BOOLEAN : ReportError(lost)
    \/ PollKey \/ StoreKey \/ StoreFails \/ AckKey \/ AckDelayed \/ LateAckArrives
    \/ RestartDaemon

CtlSpec == CtlInit /\ [][CtlNext]_ctlVars

\* The two programs go on: a call is served, a turn of the loop ends, and a
\* build that has ended is noticed between two of its progress reports.
DaemonStep ==
    \/ FetchConfig \/ Refresh(FALSE) \/ Reconcile \/ Done \/ Activate
    \/ ReportError(FALSE) \/ PollKey \/ StoreKey \/ AckKey

CtlFairness ==
    /\ WF_ctlVars(UpdateWrites)
    /\ WF_ctlVars(ReportReads \/ ReportWrites(TRUE) \/ DaemonStep)
    /\ SF_ctlVars(BuildEnds)

CtlFairSpec == CtlSpec /\ CtlFairness

-----------------------------------------------------------------------------
(* Properties. *)

\* Once the key queue is empty, Pi's store holds the newest key the operator
\* entered since the host last started: a lost, repeated or late
\* acknowledgement never removes a key the worker has not stored.
NewestKeyStored == keys = <<>> /\ entered > forgotten => key = entered

\* Tools the operator wants are installed and reported in the end, through
\* failed builds, lost reports and restarts, unless the worker stays stopped.
WantedToolsGetInstalled ==
    []<>(row.managed \subseteq row.installed) \/ <>[](row.state = "draining")

\* The daemon's own account of a failed reconciliation (main.rs:432): the
\* "worker remains pending and will retry", so it comes back by itself.
WorkerComesBack == []<>(row.state \in {"ready", "draining"})
=============================================================================
