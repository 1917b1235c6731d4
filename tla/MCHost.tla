-------------------------------- MODULE MCHost -------------------------------
(* The gate, the Insights page and the projects of the host share no state as   *)
(* they are modelled: one run checks them side by side. `part` says which of    *)
(* them a behaviour is about; the others rest in their initial states.          *)
(* Of the gate: two candidates of one task and a foreign change x. Over x, c1   *)
(* merges into another diff and c2 into the same; over c1, c2 does not merge.   *)
EXTENDS MergeGate, Insights, Projects, TLC

CONSTANTS c1, c2, x

MCTouches == {<<c1, x>>}
MCClashes == {<<c2, c1>>}

(* No property depends on which request or which update is which. As no        *)
(* behaviour has both, the two pairs are exchanged together.                   *)
SlotsAlike ==
    {f \in Permutations(Request \cup Updater) :
        /\ \A m \in Request : f[m] \in Request
        /\ (\A v \in DOMAIN f : f[v] = v) \/ (\A v \in DOMAIN f : f[v] # v)}

VARIABLE part
MCVars == <<part, vars, insightVars, projectVars>>

MCInit ==
    /\ part \in {"gate", "insights", "projects"}
    /\ Init /\ InsightsInit /\ ProjectsInit

OnlyGate == UNCHANGED <<part, insightVars, projectVars>>
OnlyInsights == UNCHANGED <<part, vars, projectVars>>
OnlyProjects == UNCHANGED <<part, vars, insightVars>>

GateNext ==
    \/ \E m \in Request, t \in Task : part = "gate" /\ BeginReview(m, t) /\ OnlyGate
    \/ \E m \in Request, t \in Task : part = "gate" /\ BeginMerge(m, t) /\ OnlyGate
    \/ \E m \in Request : part = "gate" /\ FetchUpstream(m) /\ OnlyGate
    \/ \E m \in Request : part = "gate" /\ Integrate(m) /\ OnlyGate
    \/ \E m \in Request : part = "gate" /\ ClaimReview(m) /\ OnlyGate
    \/ \E m \in Request : part = "gate" /\ RequeueConflict(m) /\ OnlyGate
    \/ \E m \in Request : part = "gate" /\ DecideMerge(m) /\ OnlyGate
    \/ \E m \in Request : part = "gate" /\ VerifyAgain(m) /\ OnlyGate
    \/ \E m \in Request : part = "gate" /\ Push(m) /\ OnlyGate
    \/ \E m \in Request : part = "gate" /\ RecordMerged(m) /\ OnlyGate
    \/ \E m \in Request : part = "gate" /\ Rereview(m) /\ OnlyGate
    \/ \E m \in Request : part = "gate" /\ RetryConflict(m) /\ OnlyGate
    \/ \E m \in Request : part = "gate" /\ RequestEnds(m) /\ OnlyGate
    \/ \E e \in ExecutionId : part = "gate" /\ CompleteExecution(e) /\ OnlyGate
    \/ \E e \in ExecutionId : part = "gate" /\ LoseExecution(e) /\ OnlyGate
    \/ \E e \in ExecutionId, c \in Candidate : part = "gate" /\ LatePush(e, c) /\ OnlyGate
    \/ \E r \in ReviewId : part = "gate" /\ ApproveReview(r) /\ OnlyGate
    \/ \E r \in ReviewId : part = "gate" /\ RequestChanges(r) /\ OnlyGate
    \/ \E r \in ReviewId : part = "gate" /\ LoseReview(r) /\ OnlyGate
    \/ \E r \in ReviewId : part = "gate" /\ ReleaseReview(r) /\ OnlyGate
    \/ \E t \in Task, c \in Candidate : part = "gate" /\ ClaimTask(t, c) /\ OnlyGate
    \/ \E t \in Task : part = "gate" /\ RetryTask(t) /\ OnlyGate
    \/ \E t \in Task : part = "gate" /\ DeleteTask(t) /\ OnlyGate
    \/ \E y \in Foreign : part = "gate" /\ ForeignPush(y) /\ OnlyGate

ReportNext ==
    \/ \E cut \in {0, WindowStart} : part = "insights" /\ Ask(cut) /\ OnlyInsights
    \/ part = "insights" /\ ReadCreated /\ OnlyInsights
    \/ part = "insights" /\ ReadCompletions /\ OnlyInsights
    \/ part = "insights" /\ ReadStarted /\ OnlyInsights
    \/ part = "insights" /\ ReadFinished /\ OnlyInsights
    \/ part = "insights" /\ ReadWaits /\ OnlyInsights
    \/ part = "insights" /\ ReadLatest /\ OnlyInsights
    \/ part = "insights" /\ ReadReviews /\ OnlyInsights
    \/ part = "insights" /\ ReadGate /\ OnlyInsights
    \/ part = "insights" /\ ReadReasons /\ OnlyInsights
    \/ part = "insights" /\ ReadRounds /\ OnlyInsights
    \/ part = "insights" /\ ReadOutcomes /\ OnlyInsights
    \/ part = "insights" /\ ReadDetail /\ OnlyInsights
    \/ part = "insights" /\ Answer /\ OnlyInsights

HistoryNext ==
    \/ part = "insights" /\ DayPasses /\ OnlyInsights
    \/ \E b \in Backend : part = "insights" /\ Reconfigure(b) /\ OnlyInsights
    \/ \E t \in Subject : part = "insights" /\ CreateSubject(t) /\ OnlyInsights
    \/ \E t \in Subject : part = "insights" /\ ClaimSubject(t) /\ OnlyInsights
    \/ \E t \in Subject : part = "insights" /\ StartReview(t) /\ OnlyInsights
    \/ \E t \in Subject : part = "insights" /\ RetrySubject(t) /\ OnlyInsights
    \/ \E t \in Subject : part = "insights" /\ CancelSubject(t) /\ OnlyInsights
    \/ \E t \in Subject, kind \in Completion \cup SentBack : part = "insights" /\ GateEvent(t, kind) /\ OnlyInsights
    \/ \E i \in 1 .. Len(attempts) : part = "insights" /\ RenewAttempt(i) /\ OnlyInsights
    \/ \E i \in 1 .. Len(attempts), s \in {"completed", "failed", "lost"} :
          part = "insights" /\ EndAttempt(i, s) /\ OnlyInsights
    \/ \E i \in 1 .. Len(verdicts), s \in {"approve", "retry", "failed", "lost"} :
          part = "insights" /\ EndReview(i, s) /\ OnlyInsights

OperatorNext ==
    \/ \E in \in Given : part = "projects" /\ CreateProject(in) /\ OnlyProjects
    \/ \E u \in Updater, in \in Given, enabled \in BOOLEAN :
          part = "projects" /\ UpdateReads(u, in, enabled) /\ OnlyProjects
    \/ \E u \in Updater : part = "projects" /\ UpdateWrites(u) /\ OnlyProjects
    \/ part = "projects" /\ DeleteChecks /\ OnlyProjects
    \/ part = "projects" /\ DeleteProject /\ OnlyProjects
    \/ part = "projects" /\ CreateChecks /\ OnlyProjects
    \/ \E j \in Job : part = "projects" /\ CreateJob(j) /\ OnlyProjects
    \/ \E j \in Job : part = "projects" /\ ClaimJob(j) /\ OnlyProjects
    \/ part = "projects" /\ ProbeReads /\ OnlyProjects
    \/ part = "projects" /\ ProbeAnswers /\ OnlyProjects
    \/ part = "projects" /\ ProbeSeen /\ OnlyProjects
    \/ \E works \in BOOLEAN : part = "projects" /\ ProbeCommand(works) /\ OnlyProjects
    \/ part = "projects" /\ RequestTimesOut /\ OnlyProjects
    \/ part = "projects" /\ HostStops /\ OnlyProjects
    \/ \E torn \in BOOLEAN : part = "projects" /\ HostStarts(torn) /\ OnlyProjects

MCNext == GateNext \/ ReportNext \/ HistoryNext \/ OperatorNext

MCSpec == MCInit /\ [][MCNext]_MCVars
==============================================================================
