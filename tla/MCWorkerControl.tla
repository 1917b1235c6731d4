--------------------------- MODULE MCWorkerControl --------------------------
(* The sign-in hand-off and the other hand-offs to a worker share no state: one *)
(* run checks them side by side. `part` says which of them a behaviour is       *)
(* about; the other rests in its initial state.                                 *)
EXTENDS OAuthLogin, WorkerControl

VARIABLE part

MCInit ==
    /\ part \in {"oauth", "control"}
    /\ OAuthInit /\ CtlInit

OAuthMoves == part = "oauth" /\ UNCHANGED <<part, ctlVars>>
CtlMoves == part = "control" /\ UNCHANGED <<part, oauthVars>>

MCNext ==
    \/ \E restart \in BOOLEAN : OAuthMoves /\ StartLogin(restart)
    \/ OAuthMoves /\ SubmitInput
    \/ \E lost, finishes \in BOOLEAN : OAuthMoves /\ CrashWorker(lost, finishes)
    \/ OAuthMoves /\ ForgetLogins
    \/ OAuthMoves /\ Claim
    \/ OAuthMoves /\ ClaimLost
    \/ OAuthMoves /\ SendEvent
    \/ \E applied \in BOOLEAN : OAuthMoves /\ EventLost(applied)
    \/ \E kind \in {"info", "device_code", "auth_url"} : OAuthMoves /\ HelperTells(kind)
    \/ OAuthMoves /\ HelperPrompts
    \/ OAuthMoves /\ PromptTakesLine
    \/ OAuthMoves /\ PromptClosed
    \/ OAuthMoves /\ PromptAborted
    \/ OAuthMoves /\ HelperStores
    \/ OAuthMoves /\ HelperFails
    \/ OAuthMoves /\ HelperCompletes
    \/ OAuthMoves /\ HelperReportsFailure
    \/ OAuthMoves /\ HelperDies
    \/ OAuthMoves /\ ExitsBadly
    \/ OAuthMoves /\ PollAnswered
    \/ OAuthMoves /\ PollTimesOut
    \/ OAuthMoves /\ Feed
    \/ OAuthMoves /\ NoInput
    \/ \E lost \in BOOLEAN : OAuthMoves /\ Ack(lost)
    \/ OAuthMoves /\ Reap
    \/ OAuthMoves /\ EndJob
    \/ \E managed \in SUBSET Tools, paused \in BOOLEAN : CtlMoves /\ UpdateReads(managed, paused)
    \/ CtlMoves /\ UpdateWrites
    \/ CtlMoves /\ EnterKey
    \/ CtlMoves /\ AskRefresh
    \/ CtlMoves /\ RestartHost
    \/ CtlMoves /\ ReportReads
    \/ CtlMoves /\ ReportLost
    \/ \E answered \in BOOLEAN : CtlMoves /\ ReportWrites(answered)
    \/ CtlMoves /\ FetchConfig
    \/ CtlMoves /\ ConfigLost
    \/ \E lost \in BOOLEAN : CtlMoves /\ Refresh(lost)
    \/ CtlMoves /\ Reconcile
    \/ CtlMoves /\ Done
    \/ CtlMoves /\ BuildTick
    \/ CtlMoves /\ BuildEnds
    \/ CtlMoves /\ BuildFails
    \/ CtlMoves /\ Activate
    \/ \E lost \in BOOLEAN : CtlMoves /\ ReportError(lost)
    \/ CtlMoves /\ PollKey
    \/ CtlMoves /\ StoreKey
    \/ CtlMoves /\ StoreFails
    \/ CtlMoves /\ AckKey
    \/ CtlMoves /\ AckDelayed
    \/ CtlMoves /\ LateAckArrives
    \/ CtlMoves /\ RestartDaemon

MCVars == <<part, oauthVars, ctlVars>>

(* The fairness of the two modules, each in its own behaviours: a sign-in that  *)
(* rests has no step, the daemon always has one.                                *)
MCSpec ==
    /\ MCInit /\ [][MCNext]_MCVars
    /\ OAuthFairness
    /\ WF_MCVars(CtlMoves /\ UpdateWrites)
    /\ WF_MCVars(CtlMoves /\ (ReportReads \/ ReportWrites(TRUE) \/ DaemonStep))
    /\ SF_MCVars(CtlMoves /\ BuildEnds)

(* What is handed over by poll and acknowledgement arrives as it was meant: a   *)
(* pasted value and an outcome at their own sign-in, the newest key at its      *)
(* provider (OAuthLogin, WorkerControl)                                         *)
HandOversAreExact == SignInsDoNotMix /\ NewestKeyStored

(* Wanted tools get installed (WorkerControl: reconcile_managed_capabilities)   *)
ToolsGetInstalled == part = "control" => WantedToolsGetInstalled

(* The daemon's "remains pending and will retry" (WorkerControl, main.rs:434)   *)
RetryingWorkerComesBack == part = "control" => WorkerComesBack
=============================================================================
