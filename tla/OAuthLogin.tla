----------------------------- MODULE OAuthLogin -----------------------------
(***************************************************************************)
(* The hand-off of a provider sign-in between the operator, the host and   *)
(* the worker (api.rs: start_worker_oauth_login and the worker's claim,    *)
(* event, input and acknowledgement calls; main.rs: execute_oauth_login    *)
(* and drive_oauth_wire_loop).  The host keeps one sign-in per worker, in  *)
(* memory; the worker runs at most one Pi helper process and speaks to it  *)
(* over two pipes; a pasted redirect URL goes from the operator through    *)
(* the host to the helper.  Every call of the worker may be lost, before   *)
(* or after the host has carried it out.                                   *)
(***************************************************************************)
EXTENDS Integers, Sequences, FiniteSets, SequencesExt

CONSTANTS MaxLogins,   \* sign-ins the operator starts
          MaxPastes,   \* values the operator pastes
          MaxPrompts,  \* prompts one helper opens
          MaxLosses,   \* calls of the worker the network loses
          MaxCrashes   \* times the worker or the host is restarted

ASSUME OAuthAssumption ==
    {MaxLogins, MaxPastes, MaxPrompts, MaxLosses, MaxCrashes} \subseteq Nat

VARIABLES
    host,     \* the worker's entry of oauth_login_states
    logins,   \* sign-ins started so far; each id is used once
    pastes,   \* for each value pasted so far, the sign-in it was given to
    job,      \* the worker's OAuth job
    helper,   \* the Pi helper process
    stdin,    \* lines in the helper's stdin pipe
    stored,   \* sign-ins whose credential Pi has stored
    losses, crashes

oauthVars == <<host, logins, pastes, job, helper, stdin, stored, losses, crashes>>

Id == 1..MaxLogins
Paste == 1..MaxPastes
Terminal == {"complete", "failed"}
Active == {"running", "waiting_user", "awaiting_authorization", "awaiting_callback"}

NoLogin == [id |-> 0, status |-> "none", pending |-> 0]
NoJob == [id |-> 0, step |-> "idle", kind |-> "none", tries |-> 0, then |-> "idle",
          poll |-> "none", input |-> 0, open |-> FALSE,
          completed |-> FALSE, failedReported |-> FALSE]
NoHelper == [state |-> "none", prompts |-> 0, ok |-> FALSE]

\* retry_oauth_terminal_report gives a terminal event three attempts, any
\* other event is sent once.
OneAttempt(kind) == 1
Attempts(kind) == IF kind \in Terminal THEN 3 ELSE 1

OAuthTypeOK ==
    /\ host \in [id : 0..MaxLogins, pending : 0..MaxPastes,
                 status : {"none", "queued"} \cup Active \cup Terminal]
    /\ logins \in 0..MaxLogins
    /\ pastes \in Seq(Id) /\ Len(pastes) <= MaxPastes
    /\ job \in [id : 0..MaxLogins, tries : 0..3, input : 0..MaxPastes,
                step : {"idle", "read", "report", "feed", "ack", "wait", "end"},
                then : {"idle", "read", "prompt", "shut", "wait", "end"},
                kind : {"none", "info", "awaiting_input", "device_code", "auth_url"}
                       \cup Terminal,
                poll : {"none", "polling", "answered", "over"},
                open : BOOLEAN, completed : BOOLEAN, failedReported : BOOLEAN]
    /\ helper \in [state : {"none", "busy", "prompt", "stored", "failing", "exited"},
                   prompts : 0..MaxPrompts, ok : BOOLEAN]
    /\ stdin \in Seq(Paste) /\ Len(stdin) <= MaxPrompts
    /\ stored \subseteq Id
    /\ losses \in 0..MaxLosses /\ crashes \in 0..MaxCrashes

OAuthInit ==
    /\ host = NoLogin /\ logins = 0 /\ pastes = <<>>
    /\ job = NoJob /\ helper = NoHelper /\ stdin = <<>> /\ stored = {}
    /\ losses = 0 /\ crashes = 0

-----------------------------------------------------------------------------
(* The operator. *)

\* start_worker_oauth_login: refused while a sign-in is under way, unless the
\* operator asks for a restart, which replaces it.
StartLogin(restart) ==
    /\ logins < MaxLogins
    /\ host.status \in {"none"} \cup Terminal \/ restart
    /\ logins' = logins + 1
    /\ host' = [id |-> logins + 1, status |-> "queued", pending |-> 0]
    /\ UNCHANGED <<pastes, job, helper, stdin, stored, losses, crashes>>

\* submit_worker_oauth_login_input: the path names the worker only, so a value
\* goes to whichever sign-in is current.
SubmitInput ==
    /\ Len(pastes) < MaxPastes
    /\ host.status \in Active
    /\ host.pending = 0
    /\ pastes' = Append(pastes, host.id)
    /\ host' = [host EXCEPT !.pending = Len(pastes) + 1, !.status = "awaiting_callback"]
    /\ UNCHANGED <<logins, job, helper, stdin, stored, losses, crashes>>

-----------------------------------------------------------------------------
(* Starting and claiming. *)

\* A new daemon first asks the host to fail what its predecessor had claimed
\* (reset_worker_stale_oauth_login); the call is best effort.  The helper lost
\* its pipes with the daemon; if Pi no longer needs them it may finish.
CrashWorker(resetLost, finishes) ==
    /\ crashes < MaxCrashes
    /\ crashes' = crashes + 1
    /\ resetLost => losses < MaxLosses
    /\ losses' = IF resetLost THEN losses + 1 ELSE losses
    /\ finishes => helper.state = "busy"
    /\ stored' = IF finishes THEN stored \cup {job.id} ELSE stored
    /\ host' = IF ~resetLost /\ host.status \in Active
               THEN [host EXCEPT !.status = "failed", !.pending = 0] ELSE host
    /\ job' = NoJob /\ helper' = NoHelper /\ stdin' = <<>>
    /\ UNCHANGED <<logins, pastes>>

\* The sign-ins are host memory only.
ForgetLogins ==
    /\ crashes < MaxCrashes
    /\ crashes' = crashes + 1
    /\ host.status # "none"
    /\ host' = NoLogin
    /\ UNCHANGED <<logins, pastes, job, helper, stdin, stored, losses>>

\* The helper's script: it prefers a browser login, relays Pi's prompts and
\* events as lines, and ends with "complete" or "failed".
HelperStarts == [NoHelper EXCEPT !.state = "busy"]

\* claim_worker_oauth_login and the spawn of execute_oauth_login.
Claim ==
    /\ job = NoJob
    /\ host.status = "queued"
    /\ host' = [host EXCEPT !.status = "running"]
    /\ job' = [NoJob EXCEPT !.id = host.id, !.step = "read", !.open = TRUE]
    /\ helper' = HelperStarts
    /\ UNCHANGED <<logins, pastes, stdin, stored, losses, crashes>>

\* The answer to the claim is lost: the host has marked the sign-in running,
\* and no worker knows its id.
ClaimLost ==
    /\ job = NoJob
    /\ host.status = "queued"
    /\ losses < MaxLosses
    /\ losses' = losses + 1
    /\ host' = [host EXCEPT !.status = "running"]
    /\ UNCHANGED <<logins, pastes, job, helper, stdin, stored, crashes>>

-----------------------------------------------------------------------------
(* Reports: report_worker_oauth_login_event at the host, the retry loop at  *)
(* the worker.                                                              *)

StatusAfter(kind, status) ==
    CASE kind = "device_code"    -> "waiting_user"
      [] kind = "auth_url"       -> "awaiting_authorization"
      [] kind = "awaiting_input" -> "awaiting_callback"
      [] kind \in Terminal       -> kind
      [] OTHER                   -> status

\* The host refuses the call when the sign-in was replaced or is unknown.
AnySignIn(h, id) == h.id # 0
Current(h, id) == h.id = id

Reported(h, id, kind) ==
    IF ~Current(h, id) THEN h
    ELSE [h EXCEPT !.status = StatusAfter(kind, @),
                   !.pending = IF kind \in Terminal THEN 0 ELSE @]

ToReport(kind, then) ==
    [job EXCEPT !.step = "report", !.kind = kind, !.tries = 0, !.then = then]

\* A poll that ended with nothing closes the helper's stdin, so that Pi's
\* prompt is rejected and the helper ends by itself.
LeavesStdinOpen(j) == [j EXCEPT !.failedReported = TRUE]
ShutStdin(j) == [j EXCEPT !.failedReported = TRUE, !.open = FALSE]

StartPoll(j) == [j EXCEPT !.step = "read", !.poll = "polling"]

\* What the worker does once a report is through or given up: "prompt" starts
\* a poll, "shut" closes the helper's stdin.
AfterEvent ==
    CASE job.then = "prompt" -> StartPoll(job)
      [] job.then = "shut"   -> ShutStdin([job EXCEPT !.step = "read"])
      [] job.then = "idle"   -> NoJob
      [] OTHER               -> [job EXCEPT !.step = job.then]

AfterFailedAttempt ==
    IF job.tries + 1 < Attempts(job.kind)
    THEN [job EXCEPT !.tries = @ + 1] ELSE AfterEvent

SendEvent ==
    /\ job.step = "report"
    /\ host' = Reported(host, job.id, job.kind)
    /\ job' = IF host.id = job.id THEN AfterEvent ELSE AfterFailedAttempt
    /\ UNCHANGED <<logins, pastes, helper, stdin, stored, losses, crashes>>

EventLost(applied) ==
    /\ job.step = "report"
    /\ losses < MaxLosses
    /\ losses' = losses + 1
    /\ host' = IF applied THEN Reported(host, job.id, job.kind) ELSE host
    /\ job' = AfterFailedAttempt
    /\ UNCHANGED <<logins, pastes, helper, stdin, stored, crashes>>

-----------------------------------------------------------------------------
(* The Pi helper: what the worker's script lets Pi do. *)

Reading == job.step = "read"

\* A "selected" or "event" line.
HelperTells(kind) ==
    /\ Reading /\ helper.state = "busy"
    /\ job' = ToReport(kind, "read")
    /\ UNCHANGED <<host, logins, pastes, helper, stdin, stored, losses, crashes>>

\* A "prompt" line: the poll of an earlier prompt is aborted, the host is told
\* and a new poll is started.
HelperPrompts ==
    /\ Reading /\ helper.state = "busy" /\ helper.prompts < MaxPrompts
    /\ helper' = [helper EXCEPT !.state = "prompt", !.prompts = @ + 1]
    /\ job' = [ToReport("awaiting_input", "prompt") EXCEPT !.poll = "none", !.input = 0]
    /\ UNCHANGED <<host, logins, pastes, stdin, stored, losses, crashes>>

\* readPastedLine: a line resolves the prompt, a closed stdin rejects it, and
\* Pi aborts it when its local callback wins.
PromptTakesLine ==
    /\ helper.state = "prompt"
    /\ stdin # <<>>
    /\ stdin' = Tail(stdin)
    /\ helper' = [helper EXCEPT !.state = "busy"]
    /\ UNCHANGED <<host, logins, pastes, job, stored, losses, crashes>>

PromptClosed ==
    /\ helper.state = "prompt"
    /\ stdin = <<>> /\ ~job.open
    /\ helper' = [helper EXCEPT !.state = "failing"]
    /\ UNCHANGED <<host, logins, pastes, job, stdin, stored, losses, crashes>>

PromptAborted ==
    /\ helper.state = "prompt"
    /\ helper' = [helper EXCEPT !.state = "busy"]
    /\ UNCHANGED <<host, logins, pastes, job, stdin, stored, losses, crashes>>

\* rt.login returns, its credential stored, or throws.
HelperStores ==
    /\ helper.state = "busy"
    /\ helper' = [helper EXCEPT !.state = "stored"]
    /\ stored' = stored \cup {job.id}
    /\ UNCHANGED <<host, logins, pastes, job, stdin, losses, crashes>>

HelperFails ==
    /\ helper.state = "busy"
    /\ helper' = [helper EXCEPT !.state = "failing"]
    /\ UNCHANGED <<host, logins, pastes, job, stdin, stored, losses, crashes>>

\* The terminal lines end the driver's loop: it aborts the poll and drops the
\* helper's stdin.
HelperCompletes ==
    /\ Reading /\ helper.state = "stored"
    /\ helper' = [helper EXCEPT !.state = "exited", !.ok = TRUE]
    /\ job' = [ToReport("complete", "wait") EXCEPT
                 !.completed = TRUE, !.poll = "none", !.input = 0, !.open = FALSE]
    /\ UNCHANGED <<host, logins, pastes, stdin, stored, losses, crashes>>

HelperReportsFailure ==
    /\ Reading /\ helper.state = "failing"
    /\ helper' = [helper EXCEPT !.state = "exited"]
    /\ job' = [ToReport("failed", "wait") EXCEPT
                 !.failedReported = TRUE, !.poll = "none", !.input = 0, !.open = FALSE]
    /\ UNCHANGED <<host, logins, pastes, stdin, stored, losses, crashes>>

\* The helper dies: the driver reads the end of its output; one that has said
\* it completed may still end with a failing status.
HelperDies ==
    /\ helper.state \in {"busy", "prompt", "stored", "failing"}
    /\ Reading
    /\ helper' = [helper EXCEPT !.state = "exited"]
    /\ job' = [job EXCEPT !.step = "wait", !.poll = "none", !.input = 0, !.open = FALSE]
    /\ UNCHANGED <<host, logins, pastes, stdin, stored, losses, crashes>>

ExitsBadly ==
    /\ job.step = "wait" /\ job.completed /\ helper.ok
    /\ helper' = [helper EXCEPT !.ok = FALSE]
    /\ UNCHANGED <<host, logins, pastes, job, stdin, stored, losses, crashes>>

-----------------------------------------------------------------------------
(* The paste relay. *)

\* worker_oauth_login_input: the value waits until it is acknowledged.
Deliverable(h, id) == Current(h, id) /\ h.pending # 0

\* poll_oauth_callback_input, one request: a replaced or unknown sign-in ends
\* the poll with nothing, a pending value ends it with that value.
PollAnswered ==
    /\ job.poll = "polling"
    /\ \/ /\ ~Current(host, job.id)
          /\ job' = [job EXCEPT !.poll = "over"]
       \/ /\ Deliverable(host, job.id)
          /\ job' = [job EXCEPT !.poll = "answered", !.input = host.pending]
    /\ UNCHANGED <<host, logins, pastes, helper, stdin, stored, losses, crashes>>

\* Its 600 seconds are over.
PollTimesOut ==
    /\ job.poll = "polling"
    /\ job' = [job EXCEPT !.poll = "over"]
    /\ UNCHANGED <<host, logins, pastes, helper, stdin, stored, losses, crashes>>

\* The loop takes the poll's result: a value is written to the helper, whose
\* stdin may already be closed, and then acknowledged; no value is reported as
\* a failure, and the helper's stdin is closed.
Feed ==
    /\ Reading /\ job.poll = "answered"
    /\ stdin' = IF job.open THEN Append(stdin, job.input) ELSE stdin
    /\ job' = IF job.open THEN [job EXCEPT !.poll = "none", !.step = "ack"]
              ELSE [job EXCEPT !.poll = "none", !.input = 0]
    /\ UNCHANGED <<host, logins, pastes, helper, stored, losses, crashes>>

NoInput ==
    /\ Reading /\ job.poll = "over"
    /\ job' = [ToReport("failed", "shut") EXCEPT !.poll = "none"]
    /\ UNCHANGED <<host, logins, pastes, helper, stdin, stored, losses, crashes>>

\* ack_worker_oauth_login_input: only the value that was delivered is removed.
InputTaken(h) ==
    IF h.id = job.id /\ h.pending = job.input THEN [h EXCEPT !.pending = 0] ELSE h

\* A lost acknowledgement leaves it pending: the next prompt gets it again.
Ack(lost) ==
    /\ job.step = "ack"
    /\ lost => losses < MaxLosses
    /\ losses' = IF lost THEN losses + 1 ELSE losses
    /\ host' = IF lost THEN host ELSE InputTaken(host)
    /\ job' = [job EXCEPT !.step = "read", !.input = 0]
    /\ UNCHANGED <<logins, pastes, helper, stdin, stored, crashes>>

-----------------------------------------------------------------------------
(* The end of a job. *)

\* child.wait: a failing status is reported, once more, unless a failure was.
Reap ==
    /\ job.step = "wait"
    /\ job' = IF ~helper.ok /\ ~job.failedReported
              THEN ToReport("failed", "end") ELSE [job EXCEPT !.step = "end"]
    /\ helper' = NoHelper /\ stdin' = <<>>
    /\ UNCHANGED <<host, logins, pastes, stored, losses, crashes>>

\* The wrapper of a job that returned an error reports the failure too.
WrapperReports == ToReport("failed", "idle")

\* execute_oauth_login fails if the helper never said it completed; after a
\* completion the refresh of the models cannot fail it any more.
EndJob ==
    /\ job.step = "end"
    /\ job' = IF job.completed THEN NoJob ELSE WrapperReports
    /\ UNCHANGED <<host, logins, pastes, helper, stdin, stored, losses, crashes>>

OAuthNext ==
    \/ \E restart \in BOOLEAN : StartLogin(restart)
    \/ SubmitInput
    \/ \E lost, finishes \in BOOLEAN : CrashWorker(lost, finishes)
    \/ ForgetLogins
    \/ Claim \/ ClaimLost
    \/ SendEvent
    \/ \E applied \in BOOLEAN : EventLost(applied)
    \/ \E kind \in {"info", "device_code", "auth_url"} : HelperTells(kind)
    \/ HelperPrompts \/ PromptTakesLine \/ PromptClosed \/ PromptAborted
    \/ HelperStores \/ HelperFails \/ HelperCompletes \/ HelperReportsFailure
    \/ HelperDies \/ ExitsBadly
    \/ PollAnswered \/ PollTimesOut \/ Feed \/ NoInput
    \/ \E lost \in BOOLEAN : Ack(lost)
    \/ Reap \/ EndJob

OAuthSpec == OAuthInit /\ [][OAuthNext]_oauthVars

\* The calls of the worker answer in the end, the 600 seconds of a poll pass,
\* and Pi's login call returns.  Nothing is assumed of the operator.
OAuthFairness ==
    /\ WF_oauthVars(Claim \/ SendEvent \/ Ack(FALSE) \/ Reap \/ EndJob)
    /\ WF_oauthVars(PollTimesOut \/ Feed \/ NoInput)
    /\ WF_oauthVars(PromptTakesLine \/ PromptClosed \/ HelperStores \/ HelperFails)
    /\ WF_oauthVars(HelperCompletes \/ HelperReportsFailure)

OAuthFairSpec == OAuthSpec /\ OAuthFairness

-----------------------------------------------------------------------------
(* Properties. *)

\* Sign-ins that replace one another do not mix.  A sign-in the host shows as
\* complete is one whose credential Pi has stored on the worker: a late report
\* of a replaced helper never completes its successor.  And a pasted redirect
\* URL reaches only the helper of the sign-in that was current when the
\* operator pasted it.  (The request id checks of the event and input calls.)
SignInsDoNotMix ==
    /\ host.status = "complete" => host.id \in stored
    /\ \A n \in Paste : n \in ToSet(stdin) => pastes[n] = job.id
    /\ job.input # 0 => pastes[job.input] = job.id

\* A job that ends leaves its sign-in settled at the host, unless it was
\* replaced or forgotten, or three calls were lost.
EndedLoginIsSettled ==
    [][job # NoJob /\ job' = NoJob /\ crashes' = crashes /\ losses < 3
         => host.id # job.id \/ host'.status \in Terminal]_oauthVars

\* A job ends, also one whose helper waits for a value nobody will paste.
JobsEnd == \A i \in Id : job.id = i ~> job.id # i

\* So a sign-in that is queued is claimed, or replaced.
Queued(i) == host.id = i /\ host.status = "queued"
QueuedIsClaimed == \A i \in Id : Queued(i) ~> ~Queued(i)

\* What is queued is taken up, and what a job works on ends for the operator
\* who watches it. Of a sign-in that no job works on it says nothing.
TakenUpLoginsEnd == EndedLoginIsSettled /\ JobsEnd /\ QueuedIsClaimed

\* Every sign-in the host shows as under way ends, which is false: after a lost
\* answer to the claim, or a restart whose reset is lost, the host shows it as
\* running, no job works on it, and only the operator's restart or that of the
\* daemon ends it.
UnderWay(i) == host.id = i /\ host.status \in {"queued"} \cup Active
LoginsEnd == \A i \in Id : UnderWay(i) ~> ~UnderWay(i)
=============================================================================
