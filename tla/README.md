# LazyTeam: a verification of its host and its workers

LazyTeam hands programming tasks to worker machines, has other workers review
what they did, and pushes what was approved to the project's upstream branch.
This directory holds TLA+ models of the parts of it that are hard to test: what
happens while claims, leases, verdicts, retries, pauses and pushes overlap on
the host, and while a worker loses calls, crashes, is reconfigured, or runs an
agent that hangs. Paths below are relative to the repository (`src/` is its
root); `api.rs`, `review.rs`, `mcp.rs`, `git_broker.rs`,
`interactive_sandbox.rs`, `insights.rs`, `security.rs`, `git_credentials.rs` are
in `crates/lazyteam-server/src`; `main.rs`, `session.rs`, `review_mcp.rs`,
`runtime.rs` in `crates/lazyteam-worker/src`; `lib.rs` is that of
`crates/lazyteam-sandbox/src`.

| module | part of the system | run | proofs |
|---|---|---|---|
| `TaskContract` | abstract: the lanes of a task, and the gate | `lifecycle_concurrent` | refined by `WorkLifecycle` and `MergeGate` |
| `WorkLifecycle` | the tables of the host, the calls that change them, the reaper | `lifecycle_*` | `WorkLifecycleProofs`, `WorkAttemptProofs` |
| `MergeGate` | integration snapshots, reviews of them, publication upstream | `host` | `MergeGateProofs` |
| `Insights` | the report, read query by query while its rows change | `host` | `HostProofs` |
| `Projects` | projects, their credentials, probes, restarts | `host` | `HostProofs` |
| `Scheduling` | which worker gets which task; the board's reasons | `dispatch` | `HostProofs` |
| `InteractiveSandbox` | one MCP sandbox: overlapping calls, heartbeat, teardown | `workspaces` | `WorkspaceProofs` |
| `TaskWorkspace` | the Git workspace a worker keeps for a task | `workspaces`, `workspace_base` | `WorkspaceProofs` |
| `WorkerDaemon` | the worker's loop, jobs, renewals, session locks, clean-up | `worker` | `WorkerDaemonProofs` |
| `PiWatchdog` | what cuts a Pi run that hangs | `agent_runs` | `AgentRunProofs` |
| `OpenCodeBudget` | the budget of an OpenCode run | `agent_runs` | `AgentRunProofs` |
| `ReviewSlot` | the verdict slot of one review | `agent_runs` | `AgentRunProofs` |
| `OAuthLogin` | a provider sign-in between operator, host and worker | `control` | `SmallMachineProofs` |
| `WorkerControl` | managed tools, provider keys, model refreshes | `control` | `SmallMachineProofs` |
| `Enrollment` | join codes, registration, recovery, retirement | `small_machines` | `SmallMachineProofs` |
| `TaskRepos` | the repository of each execution and its seeding | `small_machines` | `SmallMachineProofs` |
| `SessionRecords` | the record files of an agent session | `small_machines` | `SmallMachineProofs` |
| `AgentCatalog` | which model a worker may work with | `small_machines` | `AgentRunProofs` |
| `SandboxUids` | the uid an agent runs under | `small_machines` | `SmallMachineProofs` |
| `CommandLabels` | the label of a shell command | `small_machines` | `AgentRunProofs` |

`MC...` modules and `*.cfg` files are the instances TLC checks. `PROJECT.json`
lists components, runs, mutants, the map from each definition to the source
lines it stands for, findings, hazards and theorems.

## 1. Inventory

**The host's database** (`api.rs`, `review.rs`; `WorkLifecycle`). State: `tasks`
(state, `review_cycle`), `executions` and `reviews` (one row per lease: holder,
state, `lease_until`, hash of the capability; a review also pins an execution),
`workers` (role, state, `running_slots`, `retired_at`), `host_settings`.
Operations: claim, renew, finish, release of either kind of lease, retry,
deletion, merge bookkeeping, pause, role, retirement, settings. Hard: SQLite
admits one writer at a time, but most calls read first and write later; a claim
spends seconds in Git between the two. Correct: a task reaches its merge only on
an approval of its latest work by somebody else; an assigned task is held by a
lease whose end gives it back; budgets bound failures and retries; closed rows
never change; slots are not lost.

**The lease reaper** (`reap_once`; `WorkLifecycle`). A loop every 15 s, one
deferred transaction per row it read; the rows may be renewed or closed before it
comes to them, and an error ends the whole sweep. Correct: every abandoned lease
is taken back and nothing else is touched.

**Scheduling** (`api.rs`; `Scheduling`). Sticky workers and preferred reviewers
with a window, dependencies, tags, scopes, the order of the claim queries, and a
second implementation of all that for the board's waiting reasons. Correct: the
two agree, and no task waits for ever that the query of an eligible worker
reads. (The queries read 100 rows before they test what they read; a task
behind them may wait for ever, section 7.)

**The Git broker** (`git_broker.rs`, `tasks_merge` of `mcp.rs`; `MergeGate`,
`TaskRepos`). Per project a mirror of upstream, per execution a bare repository
whose branch holds the candidate. Operations: prepare and seed the repository of
an execution, serve Git to workers, integrate a candidate, publish. Hard: chains
of reads of Git and rows; upstream, branch and task may change between any two
links, and a push that runs long lands after its lease. Correct: only what a
reviewer approved lands upstream; an attempt starts from what was handed in.

**Interactive sandboxes** (`interactive_sandbox.rs`; `InteractiveSandbox`). An
in-memory map of attachments and a directory per sandbox. Hard: nothing excludes
two calls on one sandbox, and any of them, or its heartbeat, may take it away
under the others. Correct: a lease gets one answer, what is handed in is
published, a sandbox whose lease is over is torn down with its shells.

**The worker daemon** (`main.rs`; `WorkerDaemon`, `TaskWorkspace`). One main
loop that heartbeats, cleans up, fetches its configuration, claims and spawns;
jobs that run side by side with a renewal task each; a Git workspace per task
that survives attempts. Hard: the finish report is sent once, any call may be
lost, the process may die at any step, a job may outlive its lease, the loop
waits for locks its jobs hold. Correct: the worker never falls silent, an
abandoned lease ends, nothing an agent made is lost.

**Agent sessions** (`session.rs`; `WorkerDaemon`, `SessionRecords`). A record
file per task, role and backend, adopted from two older layouts, behind a lock.
Correct: one run and one backend session per logical session; a clean-up that
was acknowledged has left nothing.

**Agent runtimes** (`runtime.rs`; `PiWatchdog`, `OpenCodeBudget`,
`CommandLabels`, `AgentCatalog`) and the **reviewer's slot** (`review_mcp.rs`;
`ReviewSlot`). Hard: parallel tool calls reported by lines that may lack ids,
probes that are answered late, budgets from which the time of tools that ran
side by side is taken off, submissions that race each other and a cancellation,
a notification between a look and a sleep. Correct: a hung run ends, a live one
is not cut for a ghost, exactly one verdict is taken.

**Hand-offs** (`api.rs`, `main.rs`; `OAuthLogin`, `WorkerControl`,
`AgentCatalog`, `Enrollment`). Requests kept in the host's memory or rows, polled
by the worker and acknowledged; capability reports that write columns read
earlier; join codes. Hard: lost, late and repeated calls, restarts of either
side. Correct: the newest request is what is carried out, sign-ins do not mix,
one that is taken up ends, wanted tools are installed in the end, a retired
worker stays out.

**Projects and credentials** (`api.rs`, `git_credentials.rs`; `Projects`),
**Insights** (`insights.rs`; `Insights`), **uids of sandboxes** (`lib.rs`;
`SandboxUids`). A row that is read, computed on and written whole; a report of a
dozen queries outside a transaction; a directory of mappings scanned by whoever
comes. Only a daemon told that it may trust its container
(`LAZYTEAM_TRUSTED_CONTAINER_DAEMON`, which the worker image sets when it is
started as root) hands out uids; any other runs all agents under its own.

How they interact: daemons and interactive sandboxes call the host's lease
functions (HTTP, or in process for MCP); a claim asks the broker for a repository
or an integration inside the call; `tasks_merge` reads rows, asks the broker to
publish and then writes the task; everything the host wants of a worker is
polled. Shared state is the database, the mirror and the task repositories on
the host, and the files of a worker's state directory on the worker.

The hazards, each at its line with the properties that watch it, are in
`PROJECT.json`; two have none, with the reason.

## 2. How the modules fit together

The modules share an interface, not variables: a lease. `WorkLifecycle` has it in
full; `InteractiveSandbox`, `WorkerDaemon`, `TaskWorkspace` and `TaskRepos` see
of it what the code they model sees (in force or not), and let it be lost
whenever the host may end it. `Scheduling` takes a claim as one step and leaves
its interleavings to `WorkLifecycle`; `MergeGate` leaves budgets and slots to it.
`SessionRecords` takes from `WorkerDaemon` that calls on one session do not
overlap; `TaskWorkspace` takes from it that attempts do not; the models of a
single run (`PiWatchdog`, `OpenCodeBudget`, `ReviewSlot`) justify the daemon's
assumption that a run ends.

Machines that share no state are checked side by side in one run: a variable
`part` of the MC module chooses which of them a behaviour is about, the others
rest in their initial state, so the state space is the sum and not the product
of theirs.

What a later extension could add: the OAuth server's authorization codes and
refresh tokens as a machine; the task board and history bundle.

## 3. The host

### `WorkLifecycle`, `TaskContract`

One action is one SQLite transaction. A call that reads before the transaction it
decides in occupies a slot `handler[h]`: a `...Read` action records what it saw, a
later action commits on it, `CallDropped` ends it without its transaction (an
error, a failed guard, a disconnect, a crash of the host).

| state | code |
|---|---|
| `task[t].state`, `.cycle` | `tasks.state`, `tasks.review_cycle` |
| `executions[e]`, `reviews[r]` | rows; `held`: the capability hash is not NULL; `lease`: `lease_until` against the clock |
| `worker[w]` | role, `paused` (draining), `retired_at`, `running_slots` |
| `handler[h]`, `sweep` | locals of a call between its reads and its transaction; locals of `reap_once` |
| `limits` | `host_settings` |

A lease is `fresh`, `late` or `expired`: `late` when it has passed but a call that
sampled `now` before may still be waiting for the write lock and will be
accepted, while the reaper may take it already.

Abstracted: `assigned`/`running` and `idle`/`busy` are one state each, as every
guard treats them alike; workers that are `pending` or `degraded` and everything
that only decides who may claim are in `WorkerControl`, `AgentCatalog` and
`Scheduling`; the several reads of a call are one step; settings read just before
a transaction are read in it; whether an integration conflicts is a free choice.

`TaskContract` has only `lane[t]` and `approved[t]`: moves between lanes, `approved`
becomes true in `Approve` alone, may become false in `Claim` alone, and `Merge`
requires it. The mapping is `lane <- task[t].state`, `approved <-
CandidateApproved(t)`: another worker approved the execution that is now latest,
and it is completed. `MergeGate` implements the same contract (`GateKeepsContract`,
with the same mapping): what the two modules see of a task agrees in what the contract
says, whether its overlapping calls are those of the tables or those of Git.

### `MergeGate`

A request through the broker is `request[m]`: how far it has come and what it has
read. It may end after any step, and two requests, implementers, reviewers, the
main agent and people who push to upstream interleave with its steps: the fetch
and merge of `prepare_integration_snapshot`, the pins of a review claim, the
chain of `tasks_merge` and `publish_reviewed_task` up to the push, the three ways
its outcome is recorded.

A commit is the set of changes it contains; upstream is pushed to without
`--force`, so it only grows. `Touches` says which foreign change alters the diff of
which candidate, `Clashes` which do not merge. Left out: approvals recorded
without pins and their legacy publication (`git_broker.rs:612`, `666`, `748`), which
this code's own reviews never take; merges an operator reports; a rewind of
upstream by others, and a change that undoes another, which would bring back a diff
an older approval covers.

`RejectionStands` is about the only approval of a task whose branch is where it was
handed in. Of a candidate approved more than once the same does not hold
(`RejectionIsFinal`, section 7): two requests that found upstream moved each send the
task back to review, the second after the candidate has been approved again, since
`rereview_after_upstream_move` (`review.rs:240`) does not ask which approval it was
compared with; the reviewer then rejects, and a third request, which read the second
approval, publishes.

### `TaskRepos`

`claim_task_for_worker` computes the attempt and the candidate, builds and seeds the
repository of the execution it is about to create, and only then persists the
claim. A commit is the set of the task's changes it contains. Claims, late pushes,
completions, other attempts and clean-ups interleave with the look-up, the check
of the branch and the fetch. A failed claim leaves its repository behind, as in
the code.

### `Scheduling`

A claim is one step; its queries (order, limit, the checks row by row) and
`waiting_info` are each translated on their own, since their agreement is the
property. `reads` is the `LIMIT` of both claim queries (100), `Rows` what they
read with it. `Passes` are the checks a claim makes of a row it has read: the board
knows nothing of the `LIMIT`, so it is these it agrees with (`DiagnosticsAgree`), and
whether some claim decides on the task (`WouldTake`) also depends on the rows ahead
of it. Time is the affinity window of each task and the heartbeat of each
worker. `Stops`, `ReviewFails` and the operator's changes are bounded (`MaxFaults`,
`MaxChanges`; a resume is not counted, there is one pause for each).

### `Insights`, `Projects`

`Insights` reads its figures in thirteen steps in the order of the code, while
rows appear, close and are judged, days pass and workers are reconfigured. An
execution keeps the backend of its claim (`UsedBy`); the properties hold for a
report of all time, and the branches for older schemas are left out, as
migrations run at every start. `Projects` has the update with its read and its
write apart, the probe with its clone in between, creation of tasks, deletion,
the master key's file over crashes, and requests that time out where they wait.

### `InteractiveSandbox`

`pick`, `lease`, `attached`/`cancelled`/`teardown`, `heartbeat`, the two directories
(`tree`), the commits and the review ref (`history`, `published`, `result`), the
calls with the await each has reached, and the shells. A finish is look-up and
renewal, clearing, copying, committing, reading HEAD, pushing, closing the lease,
detaching; every step but the last may fail. The server is taken to run in its
container, whose end ends its shells. A tool call runs to its end even when its
client has gone away.

## 4. The worker

### `WorkerDaemon`

The main loop is one thread: `at` is the call it awaits. Jobs are tasks of their
own. The host is reduced to leases, merges, the operator's stop and the clean-up
rows. `lock[s]` is the session's lock, `bound[s]` the backend session its record
names, `open` those that exist, named by the lease that opened them. A crash kills
the jobs and keeps the records. The main loop itself waits for a session's lock
before it spawns a job - which is why `WaitsOnlyForStaleJob` and `HeartbeatsGoOn`
are worth stating. Ids of backend sessions are opaque, as OpenCode's; Pi's are
chosen by the caller, and are known to the record earlier. A failure of
`acquire_with` inside a job ends it without a report, which is a lost report.

### `TaskWorkspace`

One task's directory through any number of attempts: clone, fetch of the base and
of the seeded candidate, branch, restore of the candidate's tree with its backup,
merge of the base, the agent's copy, the copy back, commit, push. Any step may be
the last of its attempt. A tree is told by the upstream version its files have and
the agent's work in them.

### `PiWatchdog`, `OpenCodeBudget`, `ReviewSlot`

Timers are counters of ticks that stop at the limits they are compared with; Pi and
OpenCode are external and may write or withhold any line at any time.
`PiWatchdog` has the table of tool calls in flight with its capacity and eviction,
routing of events without ids by name, probes with their grace and their misses,
phases, the stall limits, the reviewer's nudge and the final request.

In `OpenCodeBudget` any number of tool calls (`Lane`) run side by side, and next to the
model; OpenCode reports a call when it is over. Every call id is credited once with the
call's whole time, the sum capped with the wall time. What that promises is modest: no
run is cut for the time of completed calls, and a call credits its own past at most. It
does not bound the model's work over the whole run. Two calls side by side are each
credited up to the wall time and so forgive what the model took before them; a model
that keeps doing so works for longer than budget and stall window together, and
`BudgetIsTheAgents` therefore counts the model's time (`model`) from when calls last ran
side by side. In
`ReviewSlot` every load, store and locked section of `SlotState` is a step.

### `SessionRecords`, `SandboxUids`, `CommandLabels`, `AgentCatalog`

`SessionRecords`: the places of a record, adoption of what earlier versions wrote
in two writes, release with its first error remembered, an error or crash between
any two writes. `SandboxUids`: a daemon that trusts its container, with the lock file,
the scan, the publication, the change of owner and torn mappings, and one that does
not - the native worker of `README.md:81`, a container forced to a user
(`deploy/docker-entrypoint.sh:64`), the server's interactive sandboxes - whose agents all get
its own uid (`BeginAsDaemon`); either may follow the other after a power failure. A uid
is a number of a small pool. `CommandLabels`: one
rule per action, commands grown from atoms that stand for the source's tables and
wrapped up to `MaxLayers` times; it is the one module where the data is the
subject. The table of value flags is whole, and so some wrappers are misread:
`ReadLayer` has those whose arguments the tables read as the wrapper does, `MisreadLayer`
`sudo -n`, `env -i` and `timeout 5m`, and `misread` says that a command has one of these.
The source's six rounds of peeling are scaled to three. `AgentCatalog`: the
operator's selection, the daemon's probes at start, each minute, at a switch and
at a refresh, its reports, and the check before a claim.

### `OAuthLogin`, `WorkerControl`, `Enrollment`

Each has both sides and the calls between them, which may be lost before or after
the host carried them out. `OAuthLogin`: sign-ins that replace one another, the
helper process with its pipes, pasted values, three attempts of a report, restarts.
A claim turns a queued sign-in to "running" before its answer arrives (`api.rs:1433`):
if that is lost, or the reset of a daemon that starts again is, the host shows a sign-in
under way that no job works on. `TakenUpLoginsEnd` says nothing of those; that they need
not end is `LoginsEnd`, section 7.
`WorkerControl`: `update_worker` and `report_capability_build` with read and write
apart, builds with progress reports and failures, the key queue with a late
acknowledgement. `Enrollment`: the start-up files of a worker, torn ones included, a
registration in flight and one whose sender is gone, expiry of a code, a lost
database, retirement.

## 5. The runs

| run | bounds | shows |
|---|---|---|
| `lifecycle_serial` | 1 task, workers a and b with 1 slot, 1 handler, 2 executions, 2 reviews, 1 manual retry, pause and resume | with calls that do not overlap - but the clock, renewals, the reaper and the operator between any of their steps - tasks, leases and candidates agree, blocked tasks have used up a budget, slots do not leak |
| `lifecycle_reaper` | 1 handler, 2 executions, 1 review, a change of role, two settings of the limits; fair | reviewers get finished work of others; every lease given up is taken back and its task returns |
| `lifecycle_concurrent` | 2 handlers (symmetric), 2 executions, 2 reviews, 1 manual retry | with overlapping calls the gate, the budgets and the history hold, and `TaskContract` is implemented |
| `host` | `MergeGate`: 2 candidates, 1 foreign change, 2 requests (symmetric); `Insights`: 1 task, 2 backends, one attempt, review and gate event, 2 changes during a report; `Projects`: 2 updates, 2 revisions, 2 starts | only approved diffs land, a rejection stands, done tasks are upstream; the report adds up and history is durable; stored credentials are whole |
| `dispatch` | 3 workers (two implementers, one fit for one task only; a reviewer), 2 tasks, a `LIMIT` of 2 with 2 failed attempts and one of 1 with 1, 1 change of the fleet; fair | the board's reasons are those of the claims' checks, no task starves that the query of an eligible worker reads |
| `workspaces` | 3 upstream versions, 3 agent results; 2 calls on a sandbox; fair | no agent's work is lost and a retry starts from the candidate; hand-ins hold, sandboxes are torn down with their shells |
| `worker` | 2 sessions (an implementation, a review), 2 leases, 2 slots, 1 loss, 1 crash, 1 stop; fair | sessions stay single, the loop waits only for stale jobs, heartbeats go on, abandoned leases end |
| `agent_runs` | 3 Pi tool calls (one timed, one without id), table of 2, limits of 2 and 3 ticks; 4 submissions (2 invalid), budget of 2; OpenCode: 2 calls side by side, budget 2, stall 3, tool limit 3, 8 ticks; fair | the watchdog is exact, one verdict is taken, budgets are the agent's, hung runs end |
| `control` | 2 sign-ins, 2 pastes, 2 prompts, 2 losses, 1 crash; 1 tool, 1 update, 2 keys, 1 refresh, 2 faults; fair | what is handed over arrives as meant, queued sign-ins are taken up and those a job works on end, tools get installed |
| `small_machines` | `Enrollment`: 3 mishaps; `TaskRepos`: 2 claims, 3 executions, 2 changes; `SessionRecords`: 3 ids; `AgentCatalog`: 1 model, 2 updates, 1 shift, 1 trouble; `SandboxUids`: 3 runs, 3 workspaces, 3 uids, of which the daemon has one, 1 power failure; `CommandLabels`: 3 rounds, 3 layers out of 12 kinds; fair | fresh codes help, retired workers stay out, attempts continue, session files hold, selections take effect, identities are separate under a daemon that trusts its container, wrappers that are read are transparent |
| `lifecycle_tied_attempts` | 2 handlers, fair; *expects a violation* | two overlapping claims read the same `MAX(attempt)`; the second lease inserted is never "latest": when it expires its task stays assigned for good (`api.rs:1881`, `2831`) |
| `workspace_base` | 2 upstream versions; *expects a violation* | a first attempt that ended between clone and branch leaves the default branch checked out; the next moves it under the files and its agent starts from the old base (`main.rs:2224`) |

**Why the bounds are enough.** Two executions and two reviews are what a stale
call, lease or approval needs: one row it is about and one that has replaced it.
Limits of one and two make both the first and a later failure the one that
exhausts. Two handlers, requests, updates or claims are needed for calls to
overlap; the code takes no lock across calls, so a third adds no new kind of
conflict. Two leases suffice for one to run on after it was lost while the next
is granted on its session. Two calls on a sandbox, and two submissions that
validate, are what it takes to interfere, and the proofs cover any number. Two tool
calls are what it takes to overlap, and eight ticks leave room for calls, model and both
limits after one another. With two tasks a `LIMIT` of 1 cuts and one of 2 does not; they
have their own bounds on faults, to keep the instance small. In
`host` one candidate's diff changes over the foreign change and the other's does
not, and one clashes, so every branch of `DecideMerge` is taken. Between them the
runs fire every action and every disjunct; `CHECK_DEADLOCK FALSE` is set where
tables, ids or faults are bounded, so that an instance may stop when they are used
up, and absent in `worker`, whose loop must never stop.

Each property of a passing run has a mutant in `PROJECT.json`: a plausible bug in
one definition under which TLC finds that property violated in that run.

**Fairness**, and why the code justifies it.

- `lifecycle_reaper`, `lifecycle_tied_attempts`: the reaper's loop ticks for as long
  as the host runs: weak fairness of `SweepExecutions` and `SweepEnds`. A sweep may
  be cut short by another writer again and again, so its other steps come and go:
  strong fairness of `SweepReviews` and of the reaping of each row - a row may miss
  many ticks, not all. Nothing is assumed of workers, operators or the clock.
- `dispatch`: each daemon polls (weak fairness of its claim) and each affinity
  window passes. Nobody has to finish a task.
- `workspaces` (sandbox): Tokio runs a spawned task that can go on: each step of the
  heartbeat, a watcher, `detach_local` and the registration of a shell is weakly
  fair; the heartbeat's renewal fails when it finds the lease over.
- `worker`: the loop's next call returns or fails; the reaper ends a lease nobody
  renews; a run ends and its job reports (the runtimes cut an agent that hangs,
  `agent_runs`). `BeginRun \/ PrepareFails` is strongly fair: Tokio's mutex queues
  its waiters, so a job that waits for a lock that keeps coming free gets it. No
  operator order, merge, loss or crash is promised.
- `agent_runs`: time passes and the timer of the loop fires; a submission that was
  received is answered and the waiting job is scheduled. Pi owes nothing, the
  agent need not call, nor its run end.
- `control`: calls are answered, polls time out after 600 s, a build ends - strongly
  fair, since its end is noticed between two progress reports. Nothing of the
  operator.
- `small_machines`: for `Enrollment`, the operator starts a stopped daemon with a
  fresh code again and again, and not every start is slower than the code's ten
  minutes; for `AgentCatalog`, the loop goes on and the minute between probes
  passes.

## 6. The proofs

Checked by TLAPS for every value of the constants, from the assumptions the modules
state on them (slots and limits are positive, roles are roles, candidates and
foreign changes are disjoint, ...), which TLC evaluates on its instances. Each
inductive invariant below was checked by TLC before it was proved. All invariants
and action properties of the runs are proved, and some of the liveness; "Only
model-checked" below says what is not and why.

`WorkLifecycleProofs`. `TypeCorrect`: `TypeOK` is inductive. `HistoryKept` follows from
a frame: every step but a claim leaves a row as it is, or closes or re-dates an
active one, and a claim writes an absent row. `ReviewsArePinned` strengthens the
statement to the claims in flight: a row of a completed execution never changes, so
what a claim read stays true however long it waits. `GateIsSound`:
`MergeRequiresApproval` is inductive together with the two: only `ApproveReview` opens
the gate, it is accepted only for the latest execution, the pins say that this is
completed and another worker's, and a task at the gate is not queued, so no claim
replaces the latest. `FinalTasks`: every transaction that moves a task checks its
state. `LifecycleKeepsContract`, the refinement of `TaskContract`: the lane of every
step (`NextMoves`), when `CandidateApproved` changes (`ApprovalStands`,
`OnlyApprovalApproves`), and the guard of `Merge` (`NextGate`).

`WorkAttemptProofs`. `SlotsAccountedFor`: a slot counted of a worker has a lease behind
it; the proof is a count of rows, in which every transaction that ends a lease takes
its slot, and a claim adds both. (The converse fails: `SlotsMatchLeases`, section 7.)
`BudgetsHold`: whoever closes a review counts the verdicts with its own and
blocks the task at the limit, which suffices because at most one reviewer holds a task
(`OneReviewer`) and none at the gate (`NoReviewerAtGate`), from where it may come back to
review (`FailureBudget`); a manual retry begins a cycle that no row, and no claim in flight,
carries yet (`CyclesAreRecorded`). With any number of calls in flight both hold. `SerialAttemptsAreCurrent` and
`SerialTasksAreAccountedFor` have the hypothesis that there is one handler, since with
two they fail (`lifecycle_tied_attempts`): what a call read is then still so when its
transaction begins (`CallsAreFresh`), the attempt it computed is new, the failures it
counted are there, nobody reviews the task it read as free.

`MergeGateProofs`. The inductive invariant is what a request knows: a review pins a
clean snapshot merged from the candidate *or from the branch's later head*; from its
merge on a request's snapshot is of the candidate or the head, to publish it must
agree with the approved pins, and *after `VerifyAgain` both are of the candidate*.
The second check of the branch is what the argument turns on: the head does not move
back, so once it is seen to be the candidate, the snapshot was of the candidate. From
this follow `OnlyApprovedDiffsLand`, `DoneStaysPublished`, `GateTypeCorrect`, whatever
`Touches` and `Clashes` are. `RejectionsStand` needs the past of upstream: every
snapshot a review or a request pinned is contained in what is upstream now
(`PastSnapshots`), a re-review has a reason (`RereviewsHaveReason`), and so whenever the
candidate of an only approval is in question again or rejected, upstream has grown
beyond the approval in a way that changed the diff, and, as it only grows, for good
(`RevokedIsOutdated`): no request that read the approval gets past its last
comparison. An earlier form of the statement spoke of any approval; its proof stopped at
`Rereview`, which TLC then showed to be the finding `RejectionIsFinal`.
`GateImplementsContract` is the refinement of `TaskContract`: an approved row stays one
and stays of the latest execution but for a claim (`VerdictKept`), and a task at the gate
has an approved candidate (`ApprovedAtGate`): only an approval takes it there, and the
claim that ends one finds its task queued. `host` does not have this property among its own,
to keep it short; TLC finds it true of that instance when it is added.

`HostProofs`. `BoardTellsTheTruth`: `Reason` and `Passes` are each unfolded to their
checks; it is a fact of every state. `CredentialsHold`: not only the stored row is
whole, its credential being the one its revision names and sealed with the key of the
file, but also every row an update in flight may still write, however old the row it
was made of (`RowsAreWhole`); revisions are only added, and a key that is in the file
stays, so what was whole stays so. `HistoryStaysDurable`: a task has one attempt or
review under way and its state says so, nothing ends before it began, and a completion is
the last outcome of its task, so no step takes a counted row out of its day. From what
`HistoryGrows` says a step may do follows `ReportsAlwaysAddUp`: every figure is bounded by
the rows there were when it was read, those rows are among the rows a later query
counts, and so the later figure bounds the earlier.

`WorkspaceProofs`. `HandInIsPublished` becomes inductive with what a finish carries: the
commit it read is a candidate, and from its push on it is not beyond what is published,
since HEAD and the review ref only move forward (`FinishCarriesCandidate`); and nobody
calls a sandbox that is not attached. `OneAnswerPerLease` rests on the guard of the
closing transaction; `HandInsAlwaysHold` states both as the run checks them.
`WorkSurvivesAttempts`: an agent's work comes into the tree only with the task branch
checked out (`BranchFirst`), a commit's history has what its tree holds, before the reset
everything made is behind a backup branch (`BackedUp`), and from the restored tree to the
run the attempt has the candidate's work and history (`CarriesCandidate`).

`WorkerDaemonProofs`. `SessionsStaySingle` and `LoopWaitsOnlyForStale` from one
inductive invariant. A lock is held by a job of its own session that runs or is about
to report (`LocksAreHeld`); a job that runs holds it (`OneRunPerSession`); a lease
whose agent has not started has opened nothing (`NewLeasesAreFresh`), so a new
backend session never takes the name of an old one; a record names a session its own
logical session opened (`BoundIsOwn`), and while the opener runs on nobody binds
another (`OpenersUnbound`), so its own binding is never refused. For the second, the
lease being acquired has no job, and no other lease in force is for its session
(`ClaimedWaits`): the host grants a lease only when there is none, and the loop claims
nothing while it waits. Who holds the lock it waits for is thus another lease, of that
session, and not in force.

`AgentRunProofs`. `ReviewHasOneVerdict`: the mutex is held exactly by the call that
stores (`MutexHeld`), which found no verdict after it got it (`StoresFirst`); a call
counts as taken only from its store on, and the job reports what is stored.
`OpenCodeBudgetIsTheAgents`: the credit is at least the number of ticks in which a
completed call ran (`CreditCovers`): calls side by side are credited more than the ticks
they share, and the cap is the whole run. So when wall time less credit has reached the
budget, as many ticks had no such call. Since calls last ran side by side, the model's
own ticks, the credit and the only call under way share the time there is
(`ModelIsCharged`), so these ticks are charged. And a run that goes on has overrun by no
more than the silence since the last line (`OverrunIsSilence`).
`PiWatchdogIsExact`: the interval and one grace for each probe missed account for the
silence (`ProbeClock`), and the table holds nothing that does not run (`NoGhosts`). It
has the hypothesis `OwnNames`: a tool call without an id has a tool name no other call
has. The code routes such a call's events by name (`runtime.rs`), and two calls it
cannot tell apart can leave a ghost; the run's calls, one of which has no id, satisfy it.
`LabelsAreTransparent`: the text is the outermost of as many commands as there are layers,
each wrapped around the one below it (`Levels`), and the peeling is at one of them (`m` in
`LabelsInv`); `m + round <= layers` says that no round is wasted, so that within `Rounds`
rounds the plain command is reached. Of a command with a misread wrapper the invariant
says nothing (`MisreadLabels`), and no step takes the mark off. The machine's own steps
carry the induction - one layer is written, or peeled, at a time - and so none over the
length of a command is needed, except that splitting a command with no separator leaves it
as it is (`SplitIsWhole`), which follows from the positions `Dropping` keeps. Assignments
are the exception: they are peeled together, and `f[i]` names the layer below them.
`ClaimsUseOwnCatalog`: a daemon that has settled (`Settled`) has asked the backend of its
configuration last; between its first configuration and the probe after it, it has not.

`SmallMachineProofs`. `IdentitiesStaySeparate`: who looks at the mappings or publishes
holds the lock, and is alone (`Alone`); so what it is about to publish is still free
(`UnpublishedIsFree`), mappings differ, and a process runs under its workspace's
mapping - torn mappings included, which block their workspace for good. A daemon that
does not trust its container looks at no mapping, and its processes have its uid.
`RetiredWorkersStayOut`: a registration checked before the retirement may store a hash
after it, but a row stays retired, a heartbeat is taken of a row that is there only, and
a daemon that awaits a registration's answer is not at its heartbeat
(`AsksWhileJoining`). `SessionFilesAlwaysHold`: what a run is owed is the record it would
find (`DueIsFound`), which the two writes of an adoption keep because the copy comes
first (`CopyFirst`); how far a clean-up has come without an error is how much is gone
(`CleanedSoFar`). `HandOversStayExact`: a pasted value is on its way to its own sign-in at
every place it may be (`PastesAreNamed`), who reports a completion has its credential
stored, a job that is over has no helper; the queue holds the last keys entered in their
order, and what the worker has in hand is its front or the one just taken, a late
acknowledgement included (`InHand`, `LateIsStored`). `AttemptsAlwaysContinue`: two claims
never fill the same repository (`ClaimsApart`), and while one looks for its seed every
whole candidate it is owed is still to be tried (`ClaimsSeek`). What a late push adds to a
branch is in no candidate (`LatePushesAstray`), so once fetched from a branch it reached
the seed is spoiled and the verification refuses it: the claim fails, it does not start
from the wrong commit.

**Liveness.** What must end is proved where it takes a bounded number of steps. The prover
takes `ENABLED` in a fairness condition as an unknown state predicate, so what an action
waits for is a hypothesis of the theorem, `[](guard => ENABLED <<A>>_v)`, written as an
operator of the component (`RunOutEnabled`, `ReapEnabled`, `ReapReviewEnabled`,
`WatchEnabled`, `KillEnabled`, `DetachEnabled`, `WaiterEnabled`, `HolderEnabled`). All of
them hold in the instances of the runs: TLC finds no violation when they are added as
invariants to `worker`, `lifecycle_serial`, `lifecycle_reaper`, `workspaces` and
`agent_runs`. Fairness quantified over leases, rows or calls cannot be instantiated either,
so each theorem is about one arbitrary element and the fairness it needs.

- `AbandonedLeaseRunsOut` (`WorkerDaemon`): a renewal has a run behind it
  (`RenewalsHaveRuns`), so a lease whose job is gone is renewed by nobody, for good, and
  ends.
- `ExpiredExecutionReclaimed`, `ExpiredReviewReclaimed` (`WorkLifecycle`): a lease that its
  holder let expire is in every later sweep's list until it is closed (`ForgoneStays`), by
  the reaper or by another call. The hypotheses are that sweeps begin (or come to the
  reviews) again and again, which the run's fairness of the loop provides, and strong
  fairness of reaping this row.
- `EveryShellEnds`, `EverySandboxDetaches` (`InteractiveSandbox`): a shell goes from
  spawned to watched to over, and a watcher that starts after the cancellation sees it;
  once the lease is over the heartbeat stops, the sandbox leaves the map for good, and the
  shells registered by then are killed. `SandboxFacts` has what the stages rest on.
- `EndedRunIsOver` (`ReviewSlot`): after the agent's run the waiting job looks, sleeps, is
  woken and looks again; a wake-up always leaves a verdict or a failure to be seen
  (`TellersLeaveSomething`), so it sleeps at most once more, whatever notifications it
  missed. `WF(StoresOrCloses)` follows from fairness of each call, as the mutex has one
  holder at a time.

**Only model-checked.** The liveness whose argument is a count that goes down or a loop
with many turns, which needs an induction over a measure, or which puts together several
fair actions that come and go: `AbandonedTaskReturns`, `HeartbeatsGoOn`,
`NoReadTaskStarves`, `TakenUpLoginsEnd`, `ToolsGetInstalled`, `FreshCodeHelps`,
`SelectionTakesEffect` and the two hang cuts of `RunsEnd`; of `SandboxTornDown` the removal
of the files. That the hypotheses about `ENABLED` hold for all values, and that the fairness
of the specifications gives that of the theorems. The properties of section 7 that fail.

## 7. Where the code and its documents disagree

Two runs show such a disagreement; the others are stated as properties of the modules
and found violated by adding a configuration that checks them.

| property | what TLC finds |
|---|---|
| `WorkLifecycle!SlotsMatchLeases` | `reap_once` takes a slot off the worker of every execution it read, also of one finished since (`api.rs:2835`; the branch for reviews checks the row count; migration `0023`, line 21) |
| `WorkLifecycle!RetrySparesReviewer`, 2 handlers | a manual retry that saw no reviewer commits after a review claim (`review.rs:165`, `255`) |
| `MergeGate!PublishedTaskStaysAtTheGate` | between the push and `merged_task` the task can leave the gate: its candidate is upstream, and it is queued again (`mcp.rs:938`, `ARCHITECTURE.md:279`) |
| `MergeGate!RejectionIsFinal`, 2 requests, 3 reviews | a second request's late re-review sends back what was approved again meanwhile; a reviewer rejects it, and a third request publishes on that approval (`review.rs:240`; `git_broker.rs:600`, "the exact integration context approved by the latest completed reviewer") |
| `MergeGate!ReclaimKeepsTarget` | of two overlapping review claims the second commits a newer snapshot after the first was lost (`api.rs:1969`; the comment at 1965) |
| `InteractiveSandbox!HandedInWorkIsWhole`, 3 calls | of two overlapping `work_finish` calls one commits and reports the checkout the other has just emptied (`README.md:39`) |
| `WorkerDaemon!CleanupLeavesNothing` | a clean-up retires what the record names without the lock; a job that ends meanwhile binds a session that stays (`main.rs:1696`, `session.rs:240`) |
| `ReviewSlot!AcceptedVerdictStopsRun` | a notification between the waiter's look and its sleep is lost: the agent is told that its run will stop, and it goes on until it ends by itself |
| `Scheduling!NoOrphans` | dependencies are checked outside the transaction: a task waits for a deleted one for ever (`api.rs:917`) |
| `Projects!TaskHistorySurvives` | a task created between the check and the deletion of its project goes with it (`api.rs:821`) |
| `TaskRepos!AttemptsForgetNothing` | a claim slow enough for another attempt to come and go starts from the base ("refusing to start from base") |
| `WorkerControl!WorkerComesBack` | the report "ready" is applied, its answer lost: the daemon's error report leaves the worker degraded with nothing left to do (`main.rs:434`) |
| `Enrollment!JoinedForGood` | a registration's lost answer leaves the daemon with a credential the host no longer knows (`README.md:79`) |
| `Scheduling!NothingStarves` | the claim queries read 100 rows and test dependencies, tags and reservations afterwards: rows the worker cannot take fill the window for ever, also such as wait for the task behind them, since tasks with no sticky worker rank ahead of those with another's (`api.rs:1855`, `1926`) |
| `Scheduling!AwaitingIsDecided` | for the same reason the board may say that a task awaits a worker's claim which no claim comes to (`api.rs:2548` knows no `LIMIT`) |
| `OAuthLogin!LoginsEnd` | a claim's answer is lost after the host wrote "running" (`api.rs:1433`): no job works on the sign-in, and only a restart, of the operator's or of the daemon (`main.rs:397`), ends it |
| `OpenCodeBudget!ToolsUnderWayAreFree` | calls under way are charged at the next line, of another call or of the model: a run whose time is that of tools is cut as over budget (`runtime.rs:2359`; the comment at 2332, "Do not let the agent active-time budget kill an in-flight tool while waiting for the next JSON event", is true of the wait only) |
| `SandboxUids!NobodyIsTheDaemon` | a daemon not told to trust its container runs every agent under its own uid (`lib.rs:577`; `README.md:81`, `deploy/docker-entrypoint.sh:64`) |
| `CommandLabels!AnyWrapperIsTransparent` | one table of value flags for all wrappers: `-n` of `sudo` and `-i` of `env` swallow the program, and `timeout 5m` is not skipped: the label is `generic-shell` (`runtime.rs:338`, `441`; the comment at 487 promises the underlying program behind such prefixes) |
| `AgentCatalog!AlwaysOwnCatalog` | an OpenCode worker whose first reconciliation failed claims by Pi's catalog for up to a minute (`main.rs:345`) |

`AttemptsAreCurrent` and `TasksAreAccountedFor` fail with two handlers by the same
tied attempts and late requeues; that is why they are checked and proved for calls
that do not overlap. Things met on the way that no property states: one candidate whose
repository cannot be prepared ends every later claim (`api.rs:1986`; `NoReadTaskStarves`
excludes it); a stale write of `update_worker` can leave a worker pending, and a late
report overwrite `draining` (`api.rs:1674`, `1198`); any edit of a worker, a pause
included, is refused while its selected model is not in its catalog
(`api.rs:1165`); a torn uid mapping blocks its workspace for good; a transient read error
of a session record reads as absent and loses its binding; an evicted
tool call can hide a hung one; an empty `credential.key` left by a crash makes every
later start fail (`git_credentials.rs:43`).

## 8. Not modelled, and why

- The OAuth server for MCP clients (an external crate), CIMD documents, redirect and
  host policy, web sessions, the rate limiter: parsing, cryptography and HTTP around
  single-row state. Encryption of stored secrets is an opaque pairing of key and secret.
- Landlock, namespaces, seccomp and the launcher: set-up of the operating system, with
  no state machine of their own.
- Prompts, usage figures, child-process arguments, output limits, file contents.
- The task board, the history bundle and reviewers' patch views: read-only queries.
- Editing of task texts, tags, names and contributor identities: writes of one field.
- Host start-up, scripts, deployment, the browser console: wiring; restarts appear in
  the modules of the state they lose.
- Of hand-offs, the loss (not the misdelivery) of a pasted value.
- The legacy worker token, `--server`, key by environment variable, and publication of
  approvals without pins.

## 9. Running it

    tlc -workers 2 -config worker.cfg MCWorkerDaemon.tla
    tlc -workers 2 -config host.cfg MCHost.tla
    tlapm WorkerDaemonProofs.tla

The passing runs take one to four minutes each (at most 1.3 million states), the
violations seconds, the eight proof modules less than half an hour together.
