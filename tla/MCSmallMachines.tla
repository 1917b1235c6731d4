-------------------------- MODULE MCSmallMachines ---------------------------
(* Six machines too small for a run of their own: the enrolment of a worker,   *)
(* the repositories of a task's executions, the files of an agent session, the *)
(* model a worker may use, the uids of sandboxes and the labels of commands.   *)
(* They share no state. `part` says which of them a behaviour is about; the    *)
(* others rest in their initial states.                                        *)
EXTENDS Enrollment, TaskRepos, SessionRecords, AgentCatalog, SandboxUids, CommandLabels

VARIABLE part
MCVars == <<part, enrollVars, repoVars, recordVars, catalogVars, uidVars, labelVars>>

MCInit ==
    /\ part \in {"enrollment", "repos", "records", "catalog", "uids", "labels"}
    /\ EnrollmentInit /\ ReposInit /\ RecordsInit /\ CatalogInit /\ UidsInit /\ LabelsInit
    /\ part # "labels" => plain = Words(<<"pytest", "-x">>)
    /\ part # "uids" => trusted
    /\ part # "records" => \A p \in Place : file[p] = NoRecord
    /\ part # "catalog" => \A a \in AgentType : offers[a] = {}

EnrollmentMoves == part = "enrollment" /\ UNCHANGED <<part, repoVars, recordVars, catalogVars, uidVars, labelVars>>
ReposMove == part = "repos" /\ UNCHANGED <<part, enrollVars, recordVars, catalogVars, uidVars, labelVars>>
RecordsMove == part = "records" /\ UNCHANGED <<part, enrollVars, repoVars, catalogVars, uidVars, labelVars>>
CatalogMoves == part = "catalog" /\ UNCHANGED <<part, enrollVars, repoVars, recordVars, uidVars, labelVars>>
UidsMove == part = "uids" /\ UNCHANGED <<part, enrollVars, repoVars, recordVars, catalogVars, labelVars>>
LabelsMove == part = "labels" /\ UNCHANGED <<part, enrollVars, repoVars, recordVars, catalogVars, uidVars>>

MCNext ==
    \/ \E with \in {"none", "fresh"} : EnrollmentMoves /\ StartDaemon(with)
    \/ EnrollmentMoves /\ CodeExpires
    \/ EnrollmentMoves /\ StartEnds
    \/ EnrollmentMoves /\ OpenFiles
    \/ EnrollmentMoves /\ HeartbeatTaken
    \/ EnrollmentMoves /\ HeartbeatRefused
    \/ EnrollmentMoves /\ SendRegistration
    \/ EnrollmentMoves /\ RegistrationRefused
    \/ EnrollmentMoves /\ CheckRegistration
    \/ EnrollmentMoves /\ CheckStray
    \/ EnrollmentMoves /\ StoreRegistration
    \/ EnrollmentMoves /\ StoreStray
    \/ EnrollmentMoves /\ AnswerLost
    \/ EnrollmentMoves /\ PersistCredential
    \/ EnrollmentMoves /\ PersistServer
    \/ EnrollmentMoves /\ CrashDaemon
    \/ EnrollmentMoves /\ Restart
    \/ EnrollmentMoves /\ RetireWorker
    \/ EnrollmentMoves /\ ForgetWorker
    \/ \E m \in Claimant, e \in Execution : ReposMove /\ BeginClaim(m, e)
    \/ \E m \in Claimant : ReposMove /\ MakeRepo(m)
    \/ \E m \in Claimant : ReposMove /\ LookUp(m)
    \/ \E m \in Claimant : ReposMove /\ Verify(m)
    \/ \E m \in Claimant : ReposMove /\ Fetch(m)
    \/ \E m \in Claimant : ReposMove /\ Persist(m)
    \/ \E m \in Claimant : ReposMove /\ ClaimFails(m)
    \/ \E e \in Execution, k \in Change : ReposMove /\ BeginPush(e, k)
    \/ \E p \in pushes : ReposMove /\ LandPush(p)
    \/ \E e \in Execution, based \in BOOLEAN : ReposMove /\ Complete(e, based)
    \/ ReposMove /\ Retry
    \/ \E e \in Execution : ReposMove /\ Lose(e)
    \/ \E e \in Execution : ReposMove /\ Release(e)
    \/ \E b \in Backend : RecordsMove /\ Acquire(b)
    \/ \E b \in Backend : RecordsMove /\ Bind(b)
    \/ RecordsMove /\ WriteRecord
    \/ RecordsMove /\ Unlink
    \/ RecordsMove /\ BeginRelease
    \/ \E kept \in SUBSET Dir : RecordsMove /\ RemoveDirs(kept)
    \/ \E kept \in SUBSET Scoped : RecordsMove /\ RemoveRecords(kept)
    \/ \E fails \in BOOLEAN : RecordsMove /\ RemoveLegacy(fails)
    \/ RecordsMove /\ EndRelease
    \/ RecordsMove /\ Stop
    \/ \E a \in AgentType, models \in Catalog : CatalogMoves /\ OffersShift(a, models)
    \/ \E a \in AgentType, m \in Model \cup {NoModel}, clear \in BOOLEAN :
          CatalogMoves /\ UpdateReads(a, m, clear)
    \/ CatalogMoves /\ UpdateWrites
    \/ CatalogMoves /\ OrderRefresh
    \/ CatalogMoves /\ StartUp
    \/ CatalogMoves /\ FirstConfig
    \/ CatalogMoves /\ FirstReconcile
    \/ CatalogMoves /\ FirstReconcileFails
    \/ CatalogMoves /\ DaemonRestarts
    \/ CatalogMoves /\ Report
    \/ CatalogMoves /\ Reprobe
    \/ CatalogMoves /\ NotYetDue
    \/ CatalogMoves /\ FetchConfig
    \/ CatalogMoves /\ ConfigLost
    \/ CatalogMoves /\ Refresh
    \/ CatalogMoves /\ NoRefresh
    \/ CatalogMoves /\ Gate
    \/ CatalogMoves /\ ReconcileFails
    \/ CatalogMoves /\ Claims
    \/ \E r \in Run, w \in Workspace : UidsMove /\ BeginRun(r, w)
    \/ \E r \in Run, w \in Workspace : UidsMove /\ BeginAsDaemon(r, w)
    \/ \E r \in Run : UidsMove /\ TakeLock(r)
    \/ \E r \in Run : UidsMove /\ Mapped(r)
    \/ \E r \in Run : UidsMove /\ Scan(r)
    \/ \E r \in Run : UidsMove /\ Publish(r)
    \/ \E r \in Run : UidsMove /\ AllocationFails(r)
    \/ \E r \in Run : UidsMove /\ Enter(r)
    \/ \E r \in Run : UidsMove /\ RunExits(r)
    \/ \E lost \in SUBSET Workspace : UidsMove /\ PowerFails(lost)
    \/ \E layer \in ReadLayer \cup MisreadLayer : LabelsMove /\ Wrap(layer)
    \/ LabelsMove /\ Classify
    \/ LabelsMove /\ PeelShell
    \/ LabelsMove /\ PeelScript
    \/ LabelsMove /\ PeelPrefix
    \/ LabelsMove /\ PeelTimeout
    \/ LabelsMove /\ PeelAssignments
    \/ LabelsMove /\ Name

(* The fairness of Enrollment and AgentCatalog, in their own behaviours *)
MCSpec ==
    /\ MCInit /\ [][MCNext]_MCVars
    /\ SF_MCVars(EnrollmentMoves /\ StartDaemon("fresh"))
    /\ SF_MCVars(EnrollmentMoves /\ Unexpired(OpenFiles))
    /\ SF_MCVars(EnrollmentMoves /\ Unexpired(HeartbeatRefused /\ ~Known))
    /\ SF_MCVars(EnrollmentMoves /\ Unexpired(SendRegistration))
    /\ SF_MCVars(EnrollmentMoves /\ CheckRegistration)
    /\ WF_MCVars(EnrollmentMoves /\ StartStep)
    /\ WF_MCVars(EnrollmentMoves /\ (CheckStray \/ StoreStray))
    /\ WF_MCVars(CatalogMoves /\ DaemonStep)
    /\ SF_MCVars(CatalogMoves /\ Reprobe)

(* A fresh join code brings a worker back (async_main of the worker's main.rs) *)
FreshCodeHelps == part = "enrollment" => FreshCodeRecovers

(* A worker claims by the catalog of the backend it runs, and a selection that  *)
(* is offered comes to be used (AgentCatalog: async_main, update_worker,        *)
(* can_claim_work)                                                              *)
ModelSelectionHolds ==
    part = "catalog" => []ClaimsWithOwnCatalog /\ SelectionTakesEffect
=============================================================================
