------------------------------ MODULE Insights -------------------------------
(* The Insights page (insights.rs): figures about tasks, executions, reviews    *)
(* and gate outcomes, each read by a SELECT of its own, outside any transaction *)
(* and while the work goes on. The history they are drawn from is that of       *)
(* WorkLifecycle, reduced to what the page reads. Migrations run at every       *)
(* start, so the branches for older schemas are left out.                       *)
(* Bounds: MaxAttempts executions, MaxVerdicts reviews, MaxEvents gate outcomes, *)
(* LastDay, MaxNews changes while one report is read; LIMIT 50 of the reasons   *)
(* and LIMIT 100 of the tasks are beyond them.                                  *)
EXTENDS Naturals, Sequences, FiniteSets

CONSTANTS
    Subject,  \* the tasks
    Backend,  \* agent, provider and model of the workers, in the order they are set
    Window,   \* days a windowed report looks back
    MaxAttempts, MaxVerdicts, MaxEvents, LastDay, MaxNews

ASSUME InsightsAssumption ==
    /\ Backend \subseteq Nat /\ Window \in Nat /\ LastDay \in Nat
    /\ MaxAttempts \in Nat /\ MaxVerdicts \in Nat /\ MaxEvents \in Nat /\ MaxNews \in Nat

VARIABLES
    today,
    uses,      \* the backend the workers are configured with now
    subject,   \* subject[t]: state, day of creation, review cycle
    attempts,  \* rows of executions, in the order of their claims
    verdicts,  \* rows of reviews; a completed one has its verdict for a state
    outcomes,  \* rows of main_gate_events
    report     \* the request being answered: the next query, the figures so far

historyVars == <<today, uses, subject, attempts, verdicts, outcomes>>
insightVars == <<historyVars, report>>

First(set) == {i \in set : \A j \in set : i <= j}
Last(set) == {i \in set : \A j \in set : j <= i}

Completion == {"merged", "upstream_moved"}
SentBack == {"sent_back", "merge_conflict"}
NoFigures ==
    [at |-> 0, news |-> 0, cutoff |-> 0, cycle |-> [t \in Subject |-> 0], done |-> 0, completed |-> 0,
     begun |-> [t \in Subject |-> 0], finished |-> 0, waited |-> {},
     latest |-> [t \in Subject |-> 0], reviews |-> 0, retries |-> 0, current |-> 0,
     gate |-> 0, returned |-> 0, reasons |-> 0, rounds |-> 0, lifetime |-> 0,
     cycleRetries |-> 0, ended |-> {}, created |-> 0, listed |-> {}]

InsightsInit ==
    /\ today = 0 /\ uses \in First(Backend)
    /\ subject = [t \in Subject |-> [state |-> "none", made |-> 0, cycle |-> 0]]
    /\ attempts = <<>> /\ verdicts = <<>> /\ outcomes = <<>>
    /\ report = NoFigures

-----------------------------------------------------------------------------
(* What the figures count *)

Where(rows, Test(_)) == {i \in 1 .. Len(rows) : Test(rows[i])}
Number(rows, Test(_)) == Cardinality(Where(rows, Test))

(* COALESCE(started_at, created_at) *)
Begun(e) == IF e.renewed THEN e.started ELSE e.made

NowUsed(row) == uses  \* mutant: the backend the worker is configured with now
UsedBy(row) == row.backend

(* impl_by_worker, _model and _provider; reviewer_by_worker *)
Work(cut, b, s) ==
    Number(attempts, LAMBDA e : Begun(e) >= cut /\ UsedBy(e) = b /\ e.state = s)
Judged(cut, b, s) ==
    Number(verdicts, LAMBDA r : r.made >= cut /\ UsedBy(r) = b /\ r.state = s)

Completions(cut) == Number(outcomes, LAMBDA g : g.made >= cut /\ g.kind \in Completion)

Created(cut) == {t \in Subject : subject[t].state # "none" /\ subject[t].made >= cut}

Of(rows, t) == Where(rows, LAMBDA r : r.task = t)

RetriesSince(cut) == Where(verdicts, LAMBDA r : r.made >= cut /\ r.state = "retry")
InCycle(retries) == {i \in retries : verdicts[i].cycle = report.cycle[verdicts[i].task]}

-----------------------------------------------------------------------------
(* The queries, in their order *)

GateFirst(query) ==  \* mutant: the gate's kinds are counted before the completions
    CASE query = 2 -> 8 [] query = 8 -> 2 [] OTHER -> query
Position(query) == query

Reads(query) == report.at = Position(query) /\ UNCHANGED historyVars
With(changed) == report' = [changed EXCEPT !.at = @ + 1]

WindowStart == IF today > Window THEN today - Window ELSE 0

(* The window is fixed and the cycles are read before all else *)
Ask(cut) ==
    /\ report.at = 0 /\ report' = [NoFigures EXCEPT !.at = 1, !.cutoff = cut,
                                     !.cycle = [t \in Subject |-> subject[t].cycle]]
    /\ UNCHANGED historyVars

ReadCreated ==
    /\ Reads(1)
    /\ With([report EXCEPT !.created = Cardinality(Created(report.cutoff))])

ReadCompletions ==
    /\ Reads(2)
    /\ With([report EXCEPT !.done = Completions(report.cutoff)])

ReadStarted ==
    LET since == Where(attempts, LAMBDA e : Begun(e) >= report.cutoff)
    IN  /\ Reads(3)
        /\ With([report EXCEPT
                   !.begun = [t \in Subject |-> Cardinality(since \cap Of(attempts, t))],
                   !.completed = Cardinality({i \in since : attempts[i].state = "completed"})])

ReadFinished ==
    /\ Reads(4)
    /\ With([report EXCEPT !.finished =
         Number(attempts, LAMBDA e : e.state = "completed" /\ e.finished >= report.cutoff)])

(* The tasks whose first claim is in the window *)
ReadWaits ==
    /\ Reads(5)
    /\ With([report EXCEPT !.waited =
         {t \in Subject : \E i \in First(Of(attempts, t)) : attempts[i].made >= report.cutoff}])

ReadLatest ==
    /\ Reads(6)
    /\ With([report EXCEPT !.latest = [t \in Subject |-> Cardinality(Of(attempts, t))]])

ReadReviews ==
    LET retries == RetriesSince(report.cutoff)
    IN  /\ Reads(7)
        /\ With([report EXCEPT
                   !.reviews = Number(verdicts, LAMBDA r : r.made >= report.cutoff),
                   !.retries = Cardinality(retries), !.current = Cardinality(InCycle(retries))])

ReadGate ==
    /\ Reads(8)
    /\ With([report EXCEPT
         !.gate = Completions(report.cutoff),
         !.returned = Number(outcomes, LAMBDA g : g.made >= report.cutoff /\ g.kind \in SentBack)])

(* Those of the reviews are made of the rows read before *)
ReadReasons ==
    /\ Reads(9)
    /\ With([report EXCEPT !.reasons =
         Number(outcomes, LAMBDA g : g.made >= report.cutoff /\ g.kind \in SentBack)])

(* Of all time, whatever the window *)
ReadRounds ==
    /\ Reads(10)
    /\ With([report EXCEPT
         !.rounds = Len(verdicts), !.lifetime = Cardinality(RetriesSince(0)),
         !.cycleRetries = Cardinality(InCycle(RetriesSince(0)))])

(* The tasks whose last gate outcome is a completion *)
ReadOutcomes ==
    /\ Reads(11)
    /\ With([report EXCEPT !.ended =
         {t \in Subject : \E i \in Last(Of(outcomes, t)) : outcomes[i].kind \in Completion}])

ReadDetail ==
    /\ Reads(12)
    /\ With([report EXCEPT !.listed = Created(report.cutoff)])

Answer == report.at = 13 /\ report' = NoFigures /\ UNCHANGED historyVars

-----------------------------------------------------------------------------
(* The work *)

Meanwhile ==
    IF report.at = 0 THEN UNCHANGED report
    ELSE report.news < MaxNews /\ report' = [report EXCEPT !.news = @ + 1]

State(t, s) == subject[t].state = s
Set(t, s) == subject' = [subject EXCEPT ![t].state = s]
Update(rows, i, s) == [rows EXCEPT ![i].state = s]

DayPasses ==
    /\ today < LastDay /\ today' = today + 1
    /\ Meanwhile /\ UNCHANGED <<uses, subject, attempts, verdicts, outcomes>>

(* The operator gives the workers another agent, provider or model *)
Reconfigure(b) ==
    /\ uses < b /\ uses' = b
    /\ Meanwhile /\ UNCHANGED <<today, subject, attempts, verdicts, outcomes>>

CreateSubject(t) ==
    /\ State(t, "none")
    /\ subject' = [subject EXCEPT ![t] = [@ EXCEPT !.state = "queued", !.made = today]]
    /\ Meanwhile /\ UNCHANGED <<today, uses, attempts, verdicts, outcomes>>

ClaimSubject(t) ==
    /\ State(t, "queued") /\ Len(attempts) < MaxAttempts /\ Set(t, "assigned")
    /\ attempts' = Append(attempts, [task |-> t, backend |-> uses, state |-> "assigned",
                             made |-> today, renewed |-> FALSE, started |-> 0, finished |-> 0])
    /\ Meanwhile /\ UNCHANGED <<today, uses, verdicts, outcomes>>

RenewAttempt(i) ==
    /\ attempts[i].state = "assigned" /\ Set(attempts[i].task, "running")
    /\ attempts' = [attempts EXCEPT ![i] =
                      [@ EXCEPT !.state = "running", !.renewed = TRUE, !.started = today]]
    /\ Meanwhile /\ UNCHANGED <<today, uses, verdicts, outcomes>>

EndAttempt(i, s) ==
    /\ attempts[i].state \in {"assigned", "running"}
    /\ attempts' = [attempts EXCEPT ![i] = [@ EXCEPT !.state = s, !.finished = today]]
    /\ Set(attempts[i].task, CASE s = "completed" -> "review" [] s = "failed" -> "failed"
                               [] OTHER -> "queued")
    /\ Meanwhile /\ UNCHANGED <<today, uses, verdicts, outcomes>>

StartReview(t) ==
    /\ State(t, "review") /\ Len(verdicts) < MaxVerdicts
    /\ \A i \in Of(verdicts, t) : verdicts[i].state # "assigned"
    /\ verdicts' = Append(verdicts, [task |-> t, backend |-> uses, state |-> "assigned",
                                     made |-> today, cycle |-> subject[t].cycle])
    /\ Meanwhile /\ UNCHANGED <<today, uses, subject, attempts, outcomes>>

EndReview(i, s) ==
    /\ verdicts[i].state = "assigned" /\ verdicts' = Update(verdicts, i, s)
    /\ Set(verdicts[i].task, CASE s = "approve" -> "merge_pending" [] s = "retry" -> "queued"
                               [] OTHER -> "review")
    /\ Meanwhile /\ UNCHANGED <<today, uses, attempts, outcomes>>

(* merged_task, or a retry of a task that was approved *)
GateEvent(t, kind) ==
    /\ State(t, "merge_pending") /\ Len(outcomes) < MaxEvents
    /\ subject' = IF kind \in Completion THEN [subject EXCEPT ![t].state = "done"]
                  ELSE [subject EXCEPT ![t].state = "queued", ![t].cycle = @ + 1]
    /\ outcomes' = Append(outcomes, [task |-> t, kind |-> kind, made |-> today])
    /\ Meanwhile /\ UNCHANGED <<today, uses, attempts, verdicts>>

NotReviewed(t) == \A i \in Of(verdicts, t) : verdicts[i].state # "assigned"

RetrySubject(t) ==
    /\ subject[t].state \in {"review", "failed"} /\ NotReviewed(t) /\ subject[t].cycle = 0
    /\ subject' = [subject EXCEPT ![t].state = "queued", ![t].cycle = @ + 1]
    /\ Meanwhile /\ UNCHANGED <<today, uses, attempts, verdicts, outcomes>>

CancelSubject(t) ==
    /\ subject[t].state \in {"queued", "failed"} /\ Set(t, "cancelled")
    /\ Meanwhile /\ UNCHANGED <<today, uses, attempts, verdicts, outcomes>>

-----------------------------------------------------------------------------
InsightsNext ==
    \/ \E cut \in {0, WindowStart} : Ask(cut)
    \/ ReadCreated \/ ReadCompletions \/ ReadStarted \/ ReadFinished \/ ReadWaits
    \/ ReadLatest \/ ReadReviews \/ ReadGate \/ ReadReasons \/ ReadRounds
    \/ ReadOutcomes \/ ReadDetail \/ Answer
    \/ DayPasses
    \/ \E b \in Backend : Reconfigure(b)
    \/ \E t \in Subject :
          \/ CreateSubject(t) \/ ClaimSubject(t) \/ StartReview(t)
          \/ RetrySubject(t) \/ CancelSubject(t)
          \/ \E kind \in Completion \cup SentBack : GateEvent(t, kind)
    \/ \E i \in 1 .. Len(attempts) :
          \/ RenewAttempt(i)
          \/ \E s \in {"completed", "failed", "lost"} : EndAttempt(i, s)
    \/ \E i \in 1 .. Len(verdicts) :
          \E s \in {"approve", "retry", "failed", "lost"} : EndReview(i, s)

InsightsSpec == InsightsInit /\ [][InsightsNext]_insightVars

-----------------------------------------------------------------------------
(* The page is read while work goes on, yet no figure contradicts one it was    *)
(* read after: what was counted as done is among the gate's outcomes, what was  *)
(* completed has a duration, and in a report of all time every task with an     *)
(* attempt waited and has that many attempts, every review is a round, every    *)
(* retry a lifetime retry, every completion the last outcome of a listed task   *)
(* (the order of the queries of insights)                                       *)
ReportAddsUp ==
    report.at = 13 =>
        /\ report.done <= report.gate /\ report.completed <= report.finished
        /\ report.returned <= report.reasons
        /\ report.current <= report.retries /\ report.current <= report.cycleRetries
        /\ report.cutoff = 0 =>
             /\ {t \in Subject : report.begun[t] > 0} \subseteq report.waited
             /\ \A t \in Subject : report.begun[t] <= report.latest[t]
             /\ report.reviews <= report.rounds /\ report.retries <= report.lifetime
             /\ report.done <= Cardinality(report.ended \cap report.listed)
             /\ report.created <= Cardinality(report.listed)

(* What a report of all time has counted it counts for ever, and for the same   *)
(* backend: no retry and no new configuration of the workers rewrites the past  *)
(* ("never from this mutable table", insights of insights.rs)              *)
HistoryIsDurable ==
    [][\/ UNCHANGED historyVars
       \/ /\ Completions(0)' >= Completions(0)
          /\ \A b \in Backend :
                /\ \A s \in {"completed", "failed", "lost"} : Work(0, b, s)' >= Work(0, b, s)
                /\ \A s \in {"approve", "retry", "failed", "lost"} :
                     Judged(0, b, s)' >= Judged(0, b, s)]_insightVars
=============================================================================
