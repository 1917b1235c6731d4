------------------------- MODULE SmallMachineProofs -------------------------
(* Proofs about the small machines between operator, host and worker: that a   *)
(* retired worker stays out, for any number of crashes, lost answers and lost  *)
(* databases; that agents never share an identity across workspaces, for any   *)
(* number of runs, workspaces and uids; that the files of an agent's session   *)
(* hold together for any number of bindings; that pastes, outcomes and keys    *)
(* are handed over exactly, for any number of sign-ins, keys and faults; and   *)
(* that an attempt continues what was handed in, for any number of claims,     *)
(* executions and pushes.                                                      *)
EXTENDS Enrollment, SandboxUids, SessionRecords, TaskRepos, MCWorkerControl,
        SequenceTheorems, TLAPS

-----------------------------------------------------------------------------
(* Enrolment *)

(* Why it holds: a heartbeat is taken of a row that is there only, and a daemon *)
(* that waits for an answer to its registration is not at its heartbeat, so an  *)
(* answer cannot carry it past one.                                             *)
AsksWhileJoining == request # "none" => startup \in {"register", "rejoin"}

(* The types are inductive                                                     *)
LEMMA EnrollmentTypes ==
  EnrollmentTypeOK /\ [EnrollmentNext]_enrollVars => EnrollmentTypeOK'
<1> SUFFICES ASSUME EnrollmentTypeOK, [EnrollmentNext]_enrollVars PROVE EnrollmentTypeOK'
  OBVIOUS
<1> USE EnrollmentAssumption DEF EnrollmentTypeOK, hostSide, files, Holders, Places
<1>1. ASSUME NEW with \in {"none", "fresh"}, StartDaemon(with) PROVE EnrollmentTypeOK'
  BY <1>1 DEF StartDaemon
<1>2. CASE CodeExpires \/ OpenFiles \/ HeartbeatTaken
  BY <1>2 DEF CodeExpires, OpenFiles, HeartbeatTaken
<1>3. CASE StartEnds
  BY <1>3 DEF StartEnds, Ends
<1>4. CASE HeartbeatRefused
  BY <1>4 DEF HeartbeatRefused, Ends, Mishap
<1>5. CASE SendRegistration \/ RegistrationRefused \/ CheckRegistration \/ CheckStray
  BY <1>5 DEF SendRegistration, RegistrationRefused, CheckRegistration, CheckStray
<1>6. CASE StoreRegistration \/ StoreStray
  BY <1>6 DEF StoreRegistration, StoreStray, Upsert
<1>7. CASE AnswerLost
  BY <1>7 DEF AnswerLost, Mishap
<1>8. CASE PersistCredential \/ PersistServer
  BY <1>8 DEF PersistCredential, PersistServer
<1>9. CASE CrashDaemon
  BY <1>9 DEF CrashDaemon, Ends, Mishap
<1>10. CASE Restart
  BY <1>10 DEF Restart, Ends
<1>11. CASE RetireWorker \/ ForgetWorker
  BY <1>11 DEF RetireWorker, ForgetWorker, Mishap
<1>12. CASE UNCHANGED enrollVars
  BY <1>12 DEF enrollVars
<1> QED
  BY <1>1, <1>2, <1>3, <1>4, <1>5, <1>6, <1>7, <1>8, <1>9, <1>10, <1>11, <1>12 DEF EnrollmentNext

(* A daemon that waits for a registration's answer stays at its start          *)
LEMMA JoiningStep ==
  AsksWhileJoining /\ [EnrollmentNext]_enrollVars => AsksWhileJoining'
<1> SUFFICES ASSUME AsksWhileJoining, [EnrollmentNext]_enrollVars PROVE AsksWhileJoining'
  OBVIOUS
<1> USE DEF AsksWhileJoining
<1>1. ASSUME NEW with \in {"none", "fresh"}, StartDaemon(with) PROVE AsksWhileJoining'
  BY <1>1 DEF StartDaemon
<1>2. CASE CodeExpires \/ OpenFiles \/ HeartbeatTaken
  BY <1>2 DEF CodeExpires, OpenFiles, HeartbeatTaken
<1>3. CASE StartEnds \/ HeartbeatRefused \/ CrashDaemon \/ Restart
  BY <1>3 DEF StartEnds, HeartbeatRefused, CrashDaemon, Restart, Ends
<1>4. CASE SendRegistration \/ RegistrationRefused \/ CheckRegistration \/ CheckStray
  BY <1>4 DEF SendRegistration, RegistrationRefused, CheckRegistration, CheckStray
<1>5. CASE StoreRegistration \/ StoreStray \/ AnswerLost
  BY <1>5 DEF StoreRegistration, StoreStray, AnswerLost
<1>6. CASE PersistCredential \/ PersistServer
  BY <1>6 DEF PersistCredential, PersistServer
<1>7. CASE RetireWorker \/ ForgetWorker
  BY <1>7 DEF RetireWorker, ForgetWorker
<1>8. CASE UNCHANGED enrollVars
  BY <1>8 DEF enrollVars
<1> QED
  BY <1>1, <1>2, <1>3, <1>4, <1>5, <1>6, <1>7, <1>8 DEF EnrollmentNext

(* What the host does to a retired row: nothing.                               *)
RetirementHolds ==
    workerRow = "retired" =>
        workerRow' = "retired" /\ ~(startup = "beat" /\ startup' = "server")

(* No step takes a retired worker in                                           *)
LEMMA RetirementStep ==
  ASSUME AsksWhileJoining, EnrollmentNext PROVE RetirementHolds
<1> SUFFICES ASSUME workerRow = "retired"
             PROVE  workerRow' = "retired" /\ ~(startup = "beat" /\ startup' = "server")
  BY DEF RetirementHolds
<1>1. ASSUME NEW with \in {"none", "fresh"}, StartDaemon(with) PROVE RetirementHolds
  BY <1>1 DEF StartDaemon, hostSide, RetirementHolds
<1>2. CASE CodeExpires \/ OpenFiles
  BY <1>2 DEF CodeExpires, OpenFiles, hostSide
<1>3. CASE HeartbeatTaken
  BY <1>3 DEF HeartbeatTaken, Known
<1>4. CASE HeartbeatRefused
  BY <1>4 DEF HeartbeatRefused, Ends, hostSide
<1>5. CASE StartEnds \/ CrashDaemon \/ Restart
  BY <1>5 DEF StartEnds, CrashDaemon, Restart, Ends, hostSide
<1>6. CASE SendRegistration \/ RegistrationRefused \/ CheckRegistration \/ CheckStray
  BY <1>6 DEF SendRegistration, RegistrationRefused, CheckRegistration, CheckStray, hostSide
<1>7. CASE StoreRegistration \/ StoreStray
  BY <1>7 DEF StoreRegistration, StoreStray, Upsert
<1>8. CASE AnswerLost
  BY <1>8 DEF AnswerLost
<1>9. CASE PersistCredential
  BY <1>9 DEF PersistCredential, AsksWhileJoining
<1>10. CASE PersistServer
  BY <1>10 DEF PersistServer, hostSide
<1>11. CASE RetireWorker \/ ForgetWorker
  BY <1>11 DEF RetireWorker, ForgetWorker
<1> QED
  BY <1>1, <1>2, <1>3, <1>4, <1>5, <1>6, <1>7, <1>8, <1>9, <1>10, <1>11
     DEF EnrollmentNext, RetirementHolds

(* Rows, join codes, requests in flight and the daemon's files have their      *)
(* types (register_worker of api.rs, main.rs).                                 *)
THEOREM EnrollmentTypeCorrect == EnrollmentSpec => []EnrollmentTypeOK
<1>1. EnrollmentInit => EnrollmentTypeOK
  BY EnrollmentAssumption DEF EnrollmentInit, EnrollmentTypeOK, Holders, Places
<1> QED
  BY <1>1, EnrollmentTypes, PTL DEF EnrollmentSpec

(* A registration that was checked before a retirement may still store a       *)
(* credential after it: the row stays retired, and no heartbeat is taken       *)
(* (register_worker, delete_worker, require_worker).                           *)
THEOREM RetiredWorkersStayOut == EnrollmentSpec => RetiredStaysOut
<1>1. EnrollmentInit => AsksWhileJoining
  BY DEF EnrollmentInit, AsksWhileJoining
<1>2. AsksWhileJoining /\ [EnrollmentNext]_enrollVars =>
        [workerRow = "retired" => /\ workerRow' = "retired"
                                  /\ ~(startup = "beat" /\ startup' = "server")]_enrollVars
  BY RetirementStep DEF RetirementHolds
<1> QED
  BY <1>1, <1>2, JoiningStep, PTL DEF EnrollmentSpec, RetiredStaysOut

-----------------------------------------------------------------------------
(* The uids of sandboxes *)

(* Why it holds: the runs between their look at the mappings and their own     *)
(* mapping's publication hold the lock, so there is one of them at most.       *)
Alone ==
    /\ \A r \in Run : runs[r].at \in {"look", "publish"} => r \in holder
    /\ \A r, s \in holder : r = s

(* Mappings name different uids, none of them reserved.                        *)
MappingsDiffer ==
    /\ \A w \in Workspace : mapping[w] \notin Reserved
    /\ \A w, v \in Workspace : mapping[w] \in Uid /\ mapping[w] = mapping[v] => w = v

(* What a run is about to publish is still free, and its workspace unmapped.   *)
UnpublishedIsFree ==
    \A r \in Run : runs[r].at = "publish" =>
        /\ runs[r].uid \in Uid \ Reserved
        /\ mapping[runs[r].workspace] = NoUid
        /\ \A w \in Workspace : mapping[w] # runs[r].uid

(* Who owns its workspace goes by the uid of its mapping.                      *)
OwnersAreMapped ==
    trusted => \A r \in Run : runs[r].at \in {"own", "running"} =>
        runs[r].uid \in Uid /\ mapping[runs[r].workspace] = runs[r].uid

(* Only a daemon that trusts its container looks at the mappings; the runs of  *)
(* any other have its own uid.                                                 *)
OthersAreTheDaemon ==
    ~trusted => \A r \in Run :
        /\ runs[r].at \notin {"lock", "look", "publish"}
        /\ runs[r].at \in {"own", "running"} => runs[r].uid = DaemonUid

Housed == \A r \in Run : runs[r].at # "idle" => runs[r].workspace \in Workspace

UidsInv ==
    /\ UidsTypeOK /\ Housed /\ Alone /\ MappingsDiffer /\ UnpublishedIsFree
    /\ OwnersAreMapped /\ OthersAreTheDaemon

-----------------------------------------------------------------------------
(* No mapping and no run                                                       *)
LEMMA InitUids == UidsInit => UidsInv
  BY UidsAssumption DEF UidsInit, UidsInv, UidsTypeOK, Housed, Alone, MappingsDiffer,
     UnpublishedIsFree, OwnersAreMapped, OthersAreTheDaemon, IdleRun, Uid, NoUid, TornMapping

(* A run that only moves on: nothing it does shows in the mappings.            *)
LEMMA BeginStep ==
  ASSUME UidsInv, NEW r \in Run, NEW w \in Workspace, BeginRun(r, w) \/ BeginAsDaemon(r, w)
  PROVE  UidsInv'
<1>1. PICK at \in {"lock", "own"}, uid \in {NoUid, DaemonUid} :
        /\ runs' = [runs EXCEPT ![r] = [at |-> at, workspace |-> w, uid |-> uid]]
        /\ IF trusted THEN at = "lock" ELSE at = "own" /\ uid = DaemonUid
  BY DEF BeginRun, BeginAsDaemon, Begins
<1>0. /\ mapping' = mapping /\ holder' = holder /\ failures' = failures /\ trusted' = trusted
      /\ runs[r].at = "idle"
  BY DEF BeginRun, BeginAsDaemon, Begins
<1>2. UidsTypeOK'
  BY <1>0, <1>1 DEF UidsInv, UidsTypeOK
<1>3. \A s \in Run : s # r => runs'[s] = runs[s]
  BY <1>1 DEF UidsInv, UidsTypeOK
<1>4. runs'[r].at = at /\ runs'[r].workspace = w /\ runs'[r].uid = uid
  BY <1>1 DEF UidsInv, UidsTypeOK
<1>5. Housed' /\ Alone' /\ MappingsDiffer' /\ UnpublishedIsFree' /\ OwnersAreMapped'
      /\ OthersAreTheDaemon'
  BY <1>0, <1>1, <1>3, <1>4 DEF UidsInv, Housed, Alone, MappingsDiffer, UnpublishedIsFree,
     OwnersAreMapped, OthersAreTheDaemon
<1> QED
  BY <1>2, <1>5 DEF UidsInv

(* The lock of the mapping directory is free when it is taken                  *)
LEMMA LockStep == ASSUME UidsInv, NEW r \in Run, TakeLock(r) PROVE UidsInv'
  BY UidsAssumption DEF TakeLock, LockFree, RunGoes, UidsInv, UidsTypeOK, Housed, Alone,
     MappingsDiffer, UnpublishedIsFree, OwnersAreMapped, OthersAreTheDaemon, Uid, NoUid, TornMapping

(* A run that finds its workspace's mapping uses it                            *)
LEMMA MappedStep == ASSUME UidsInv, NEW r \in Run, Mapped(r) PROVE UidsInv'
<1> DEFINE u == mapping[runs[r].workspace]
<1>1. /\ runs' = [runs EXCEPT ![r].at = "own", ![r].uid = u]
      /\ mapping' = mapping /\ holder' = holder \ {r} /\ failures' = failures /\ trusted' = trusted
      /\ runs[r].at = "look" /\ u \in Uid
  BY DEF Mapped
<1>2. UidsTypeOK'
  <2>1. runs' \in [Run -> [at : {"idle", "lock", "look", "publish", "own", "running"},
                          workspace : Workspace \union {Nowhere}, uid : Uid \union {NoUid, DaemonUid}]]
    BY <1>1 DEF UidsInv, UidsTypeOK
  <2> QED
    BY <2>1, <1>1 DEF UidsInv, UidsTypeOK
<1>3. \A s \in Run : s # r => runs'[s] = runs[s]
  BY <1>1 DEF UidsInv, UidsTypeOK
<1>4. runs'[r].at = "own" /\ runs'[r].uid = u /\ runs'[r].workspace = runs[r].workspace
  BY <1>1 DEF UidsInv, UidsTypeOK
<1>5. Housed' /\ MappingsDiffer'
  BY <1>1, <1>3, <1>4 DEF UidsInv, Housed, MappingsDiffer
<1>7. UnpublishedIsFree'
  BY <1>1, <1>3, <1>4 DEF UidsInv, UnpublishedIsFree
<1>8. OwnersAreMapped' /\ OthersAreTheDaemon'
  BY <1>1, <1>3, <1>4 DEF UidsInv, OwnersAreMapped, OthersAreTheDaemon
<1>6. Alone'
  BY <1>1, <1>3, <1>4 DEF UidsInv, Alone
<1> QED
  BY <1>2, <1>5, <1>6, <1>7, <1>8 DEF UidsInv

(* The uid that is picked is in no mapping and not reserved.                   *)
LEMMA ScanStep == ASSUME UidsInv, NEW r \in Run, Scan(r) PROVE UidsInv'
<1>1. PICK u \in Uid : FirstUnused(u) /\ runs' = [runs EXCEPT ![r].at = "publish", ![r].uid = u]
  BY DEF Scan
<1>2. u \in Uid \ Reserved /\ \A w \in Workspace : mapping[w] # u
  BY <1>1 DEF FirstUnused, Used
<1>3. /\ runs[r].at = "look" /\ mapping[runs[r].workspace] = NoUid
      /\ mapping' = mapping /\ holder' = holder /\ failures' = failures /\ trusted' = trusted
  BY DEF Scan
<1>4. UidsTypeOK'
  <2>1. runs' \in [Run -> [at : {"idle", "lock", "look", "publish", "own", "running"},
                          workspace : Workspace \union {Nowhere}, uid : Uid \union {NoUid, DaemonUid}]]
    BY <1>1 DEF UidsInv, UidsTypeOK
  <2> QED
    BY <2>1, <1>3 DEF UidsInv, UidsTypeOK
<1>5. \A s \in Run : s # r => runs'[s] = runs[s]
  BY <1>1 DEF UidsInv, UidsTypeOK
<1>6. runs'[r].at = "publish" /\ runs'[r].uid = u /\ runs'[r].workspace = runs[r].workspace
  BY <1>1 DEF UidsInv, UidsTypeOK
<1>7. Housed' /\ Alone' /\ MappingsDiffer' /\ OwnersAreMapped' /\ OthersAreTheDaemon'
  BY <1>3, <1>5, <1>6 DEF UidsInv, Housed, Alone, MappingsDiffer, OwnersAreMapped,
     OthersAreTheDaemon
<1>8. UnpublishedIsFree'
  BY <1>2, <1>3, <1>5, <1>6 DEF UidsInv, UnpublishedIsFree
<1> QED
  BY <1>4, <1>7, <1>8 DEF UidsInv

(* Nobody else is about to publish, and nobody owns an unmapped workspace.     *)
LEMMA PublishStep == ASSUME UidsInv, NEW r \in Run, Publish(r) PROVE UidsInv'
<1> DEFINE w == runs[r].workspace
           u == runs[r].uid
<1>1. /\ w \in Workspace /\ u \in Uid \ Reserved /\ mapping[w] = NoUid
      /\ \A v \in Workspace : mapping[v] # u
  BY DEF Publish, UidsInv, Housed, UnpublishedIsFree
<1>2. /\ mapping' = [mapping EXCEPT ![w] = u] /\ holder' = holder \ {r}
      /\ runs' = [runs EXCEPT ![r].at = "own"] /\ failures' = failures /\ trusted' = trusted
  BY DEF Publish, RunGoes
<1>3. UidsTypeOK'
  <2>1. runs' \in [Run -> [at : {"idle", "lock", "look", "publish", "own", "running"},
                          workspace : Workspace \union {Nowhere}, uid : Uid \union {NoUid, DaemonUid}]]
    BY <1>2 DEF UidsInv, UidsTypeOK
  <2>2. mapping' \in [Workspace -> Uid \union {NoUid, TornMapping}]
    BY <1>1, <1>2 DEF UidsInv, UidsTypeOK
  <2> QED
    BY <2>1, <2>2, <1>2 DEF UidsInv, UidsTypeOK
<1>others. /\ \A s \in Run : s # r => runs'[s] = runs[s]
      /\ runs'[r].at = "own" /\ runs'[r].workspace = w /\ runs'[r].uid = u
  BY <1>2 DEF UidsInv, UidsTypeOK
<1>4. Housed'
  BY <1>1, <1>others DEF UidsInv, Housed
<1>5. Alone'
  BY <1>2, <1>others DEF UidsInv, Alone
<1>6. MappingsDiffer'
  BY <1>1, <1>2 DEF UidsInv, UidsTypeOK, MappingsDiffer
<1>7. UnpublishedIsFree'
  <2>1. \A s \in Run : runs'[s].at # "publish"
    BY <1>others DEF UidsInv, Alone, Publish
  <2> QED
    BY <2>1 DEF UnpublishedIsFree
<1>trust. trusted /\ trusted'
  BY <1>2 DEF Publish, UidsInv, OthersAreTheDaemon
<1>9. OthersAreTheDaemon'
  BY <1>trust DEF OthersAreTheDaemon
<1>8. OwnersAreMapped'
  <2> SUFFICES ASSUME NEW s \in Run, runs'[s].at \in {"own", "running"}
               PROVE  runs'[s].uid \in Uid /\ mapping'[runs'[s].workspace] = runs'[s].uid
    BY DEF OwnersAreMapped
  <2>1. CASE s = r
    BY <2>1, <1>1, <1>2 DEF UidsInv, UidsTypeOK
  <2>2. CASE s # r
    <3>1. /\ runs'[s] = runs[s] /\ runs[s].workspace \in Workspace
          /\ runs[s].uid \in Uid /\ mapping[runs[s].workspace] = runs[s].uid
      BY <2>2, <1>2, <1>trust DEF UidsInv, UidsTypeOK, Housed, OwnersAreMapped
    <3>2. runs[s].workspace # w
      BY <3>1, <1>1, UidsAssumption DEF Uid, NoUid
    <3> QED
      BY <3>1, <3>2, <1>2 DEF UidsInv, UidsTypeOK
  <2> QED
    BY <2>1, <2>2
<1> QED
  BY <1>3, <1>4, <1>5, <1>6, <1>7, <1>8, <1>9 DEF UidsInv

(* An allocation that fails publishes nothing                                  *)
LEMMA FailStep == ASSUME UidsInv, NEW r \in Run, AllocationFails(r) PROVE UidsInv'
  BY UidsAssumption DEF AllocationFails, IdleRun, UidsInv, UidsTypeOK, Housed, Alone,
     MappingsDiffer, UnpublishedIsFree, OwnersAreMapped, OthersAreTheDaemon, Uid, NoUid, TornMapping

(* A process enters under the mapping of its workspace                         *)
LEMMA EnterStep == ASSUME UidsInv, NEW r \in Run, Enter(r) PROVE UidsInv'
  BY DEF Enter, RunGoes, UidsInv, UidsTypeOK, Housed, Alone,
     MappingsDiffer, UnpublishedIsFree, OwnersAreMapped, OthersAreTheDaemon

(* A process ends                                                              *)
LEMMA ExitStep == ASSUME UidsInv, NEW r \in Run, RunExits(r) PROVE UidsInv'
  BY UidsAssumption DEF RunExits, IdleRun, UidsInv, UidsTypeOK, Housed, Alone,
     MappingsDiffer, UnpublishedIsFree, OwnersAreMapped, OthersAreTheDaemon, Uid, NoUid, TornMapping

(* A torn mapping names no uid of the pool, so it can be no one's twin.        *)
LEMMA PowerStep == ASSUME UidsInv, NEW lost \in SUBSET Workspace, PowerFails(lost) PROVE UidsInv'
<1>1. TornMapping \notin Uid /\ TornMapping \notin Reserved
  BY UidsAssumption DEF Uid, TornMapping
<1>2. \A w \in Workspace : mapping'[w] \in {mapping[w], TornMapping}
  BY DEF PowerFails
<1>3. \A r \in Run : runs'[r] = IdleRun
  BY DEF PowerFails
<1>4. UidsTypeOK'
  BY <1>1, UidsAssumption DEF PowerFails, UidsInv, UidsTypeOK, IdleRun, NoUid
<1>5. MappingsDiffer'
  BY <1>1, <1>2 DEF UidsInv, MappingsDiffer
<1>6. Housed' /\ Alone' /\ UnpublishedIsFree' /\ OwnersAreMapped' /\ OthersAreTheDaemon'
  BY <1>3 DEF PowerFails, IdleRun, Housed, Alone, UnpublishedIsFree, OwnersAreMapped, OthersAreTheDaemon
<1> QED
  BY <1>4, <1>5, <1>6 DEF UidsInv

(* The invariant is inductive                                                  *)
LEMMA UidsStep == UidsInv /\ [UidsNext]_uidVars => UidsInv'
<1> SUFFICES ASSUME UidsInv, [UidsNext]_uidVars PROVE UidsInv'
  OBVIOUS
<1>1. ASSUME NEW r \in Run, NEW w \in Workspace, BeginRun(r, w) \/ BeginAsDaemon(r, w)
      PROVE  UidsInv'
  BY <1>1, BeginStep
<1>2. ASSUME NEW r \in Run, \/ TakeLock(r) \/ Mapped(r) \/ Scan(r) \/ Publish(r)
                            \/ AllocationFails(r) \/ Enter(r) \/ RunExits(r)
      PROVE  UidsInv'
  BY <1>2, LockStep, MappedStep, ScanStep, PublishStep, FailStep, EnterStep, ExitStep
<1>3. ASSUME NEW lost \in SUBSET Workspace, PowerFails(lost) PROVE UidsInv'
  BY <1>3, PowerStep
<1>4. CASE UNCHANGED uidVars
  BY <1>4 DEF uidVars, UidsInv, UidsTypeOK, Housed, Alone, MappingsDiffer,
     UnpublishedIsFree, OwnersAreMapped, OthersAreTheDaemon
<1> QED
  BY <1>1, <1>2, <1>3, <1>4 DEF UidsNext

(* Who holds the lock, what the mappings say and what runs agree               *)
(* (allocate_uid of lib.rs).                                                   *)
THEOREM UidsInvariant == UidsSpec => []UidsInv
  BY InitUids, UidsStep, PTL DEF UidsSpec

(* Whatever runs side by side and whatever a power failure tears, the processes *)
(* of a daemon that trusts its container share a uid exactly when they share   *)
(* their workspace, and none runs under a reserved uid or the daemon's; those  *)
(* of any other daemon all have its uid (AgentSandbox::command,                *)
(* sandbox_uid_for_workspace).                                                 *)
THEOREM IdentitiesStaySeparate == UidsSpec => []IdentitiesAreSeparate
<1>1. UidsInv => IdentitiesAreSeparate
  <2> SUFFICES ASSUME UidsInv, NEW r \in Run, NEW s \in Run,
                      runs[r].at = "running", runs[s].at = "running"
               PROVE  IF trusted
                      THEN /\ runs[r].uid \in Uid \ (Reserved \union {DaemonUid})
                           /\ (runs[r].workspace = runs[s].workspace) <=> (runs[r].uid = runs[s].uid)
                      ELSE runs[r].uid = DaemonUid
    BY DEF IdentitiesAreSeparate
  <2>1. CASE trusted
    <3>1. /\ runs[r].workspace \in Workspace /\ runs[s].workspace \in Workspace
          /\ runs[r].uid \in Uid /\ mapping[runs[r].workspace] = runs[r].uid
          /\ mapping[runs[s].workspace] = runs[s].uid
      BY <2>1 DEF UidsInv, Housed, OwnersAreMapped
    <3>2. runs[r].uid \notin Reserved /\ runs[r].uid # DaemonUid
      BY <3>1, UidsAssumption DEF UidsInv, MappingsDiffer, Uid
    <3> QED
      BY <2>1, <3>1, <3>2 DEF UidsInv, MappingsDiffer
  <2>2. CASE ~trusted
    BY <2>2 DEF UidsInv, OthersAreTheDaemon
  <2> QED
    BY <2>1, <2>2
<1> QED
  BY <1>1, UidsInvariant, PTL

-----------------------------------------------------------------------------
(* The files of a logical session *)

(* Where the record of a backend is found: under its own name first, then      *)
(* where earlier versions wrote it.                                            *)
FoundAt(f, b) ==
    IF f[b].backend = b THEN b
    ELSE IF b = "opencode" /\ f["sanitized"].backend = b THEN "sanitized"
    ELSE IF f["legacy"].backend = b THEN "legacy" ELSE "nowhere"

RecordAt(f, b) == IF FoundAt(f, b) = "nowhere" THEN NoRecord ELSE f[FoundAt(f, b)]

(* The look-up along the places, as a function of the files                    *)
LEMMA WhereFound ==
  \A b \in Backend : /\ Found(b) = {} <=> FoundAt(file, b) = "nowhere"
                     /\ Found(b) # {} => Source(b) = FoundAt(file, b)
                     /\ Record(b) = RecordAt(file, b)
<1> SUFFICES ASSUME NEW b \in Backend
             PROVE  /\ Found(b) = {} <=> FoundAt(file, b) = "nowhere"
                    /\ Found(b) # {} => Source(b) = FoundAt(file, b)
                    /\ Record(b) = RecordAt(file, b)
  OBVIOUS
<1> DEFINE first == CHOOSE i \in Found(b) : \A j \in Found(b) : i <= j
<1>1. CASE b = "pi"
  <2>1. /\ Len(Candidates(b)) = 2 /\ Candidates(b)[1] = "pi" /\ Candidates(b)[2] = "legacy"
    BY <1>1 DEF Candidates
  <2>2. \A i : i \in Found(b) <=> \/ i = 1 /\ file["pi"].backend = b
                                  \/ i = 2 /\ file["legacy"].backend = b
    BY <2>1 DEF Found
  <2>3. /\ 1 \in Found(b) => first = 1
        /\ 1 \notin Found(b) /\ 2 \in Found(b) => first = 2
    BY <2>2
  <2> QED
    BY <1>1, <2>1, <2>2, <2>3 DEF Source, Record, RecordAt, FoundAt
<1>2. CASE b = "opencode"
  <2>1. /\ Len(Candidates(b)) = 3 /\ Candidates(b)[1] = "opencode"
        /\ Candidates(b)[2] = "sanitized" /\ Candidates(b)[3] = "legacy"
    BY <1>2 DEF Candidates
  <2>2. \A i : i \in Found(b) <=> \/ i = 1 /\ file["opencode"].backend = b
                                  \/ i = 2 /\ file["sanitized"].backend = b
                                  \/ i = 3 /\ file["legacy"].backend = b
    BY <2>1 DEF Found
  <2>3. /\ 1 \in Found(b) => first = 1
        /\ 1 \notin Found(b) /\ 2 \in Found(b) => first = 2
        /\ 1 \notin Found(b) /\ 2 \notin Found(b) /\ 3 \in Found(b) => first = 3
    BY <2>2
  <2> QED
    BY <1>2, <2>1, <2>2, <2>3 DEF Source, Record, RecordAt, FoundAt
<1> QED
  BY <1>1, <1>2 DEF Backend

(* Under its own name a backend has its own records only, and no release but   *)
(* Pi's first ones wrote records of Pi in a place of another name.             *)
FilesInPlace ==
    /\ \A b \in Backend : file[b].backend \in {b, "none"}
    /\ file["sanitized"].backend # "pi"

Calls ==
    [kind : {"none", "acquire", "bind", "release"}, backend : Backend \cup {"none"},
     step : {"none", "write", "unlink", "dirs", "records", "legacy", "end"},
     source : Place \cup {"none"}, failed : BOOLEAN]

CallOfItsSort ==
    /\ call \in Calls
    /\ call.step \in {"write", "unlink"} => call.backend \in Backend
    /\ call.step = "write" => call.kind \in {"acquire", "bind"}
    /\ call.step \in {"dirs", "records", "legacy", "end"} => merged

(* What a run is owed is the record it would find, and its data is there; once *)
(* a clean-up has begun no run is owed anything.                               *)
DueIsFound ==
    IF merged THEN \A b \in Backend : due[b] = NoRecord
    ELSE \A b \in Backend : /\ RecordAt(file, b) = due[b]
                            /\ due[b] # NoRecord => due[b].dir \in dirs

(* The file an adopted record came from goes when its copy has been written.   *)
CopyFirst ==
    call.step = "unlink" =>
        /\ call.source \in {"sanitized", "legacy"}
        /\ file[call.source].backend = call.backend
        /\ file[call.backend].backend = call.backend

(* How far a clean-up that has not failed has come.                            *)
CleanedSoFar ==
    ~call.failed =>
        /\ call.step \in {"records", "legacy", "end"} => dirs = {}
        /\ call.step \in {"legacy", "end"} => \A p \in Scoped : file[p] = NoRecord
        /\ call.step = "end" => file["legacy"] = NoRecord

SessionsInvariant ==
    RecordsTypeOK /\ FilesInPlace /\ CallOfItsSort /\ DueIsFound /\ CopyFirst /\ CleanedSoFar

(* No record files                                                             *)
LEMMA InitSessions == RecordsInit => SessionsInvariant
<1> SUFFICES ASSUME RecordsInit PROVE SessionsInvariant
  OBVIOUS
<1> USE RecordsAssumption
<1>1. PICK old, oldest \in {NoRecord} \cup [backend : Backend, id : {Unbound, 1}, dir : {"task"}] :
          /\ old.backend # "pi"
          /\ file = [p \in Place |-> CASE p = "legacy" -> oldest
                                       [] p = "sanitized" -> old
                                       [] OTHER -> NoRecord]
  BY DEF RecordsInit
<1>2. /\ file["legacy"] = oldest /\ file["sanitized"] = old
      /\ file["pi"] = NoRecord /\ file["opencode"] = NoRecord
  BY <1>1 DEF Place, Scoped
<1>3. old \in Session \cup {NoRecord} /\ oldest \in Session \cup {NoRecord}
  BY DEF Session, Unbound, PiId, Dir
<1>4. file \in [Place -> Session \cup {NoRecord}]
  BY <1>1, <1>3
<1>5. due = [b \in Backend |-> RecordAt(file, b)]
  BY WhereFound DEF RecordsInit
<1>6. \A b \in Backend : RecordAt(file, b) \in {old, oldest, NoRecord}
  BY <1>2 DEF RecordAt, FoundAt, Backend
<1>7. /\ dirs = {file[p].dir : p \in Place} \ {"none"} /\ call = NoCall /\ binds = 1
      /\ merged = FALSE
  BY DEF RecordsInit
<1>8. dirs \subseteq Dir
  BY <1>4, <1>7 DEF Session, NoRecord
<1>9. RecordsTypeOK
  <2>1. due \in [Backend -> Session \cup {NoRecord}]
    BY <1>3, <1>5, <1>6
  <2>2. call.step = "none" /\ merged \in BOOLEAN
    BY <1>7 DEF NoCall
  <2>3. binds \in 0 .. MaxBinds
    BY <1>7
  <2> QED
    BY <1>4, <1>8, <2>1, <2>2, <2>3 DEF RecordsTypeOK
<1>10. FilesInPlace
  BY <1>1, <1>2 DEF FilesInPlace, Backend, NoRecord
<1>11. DueIsFound
  <2> SUFFICES ASSUME NEW b \in Backend, RecordAt(file, b) # NoRecord
               PROVE  RecordAt(file, b).dir \in dirs
    BY <1>5, <1>7 DEF DueIsFound
  <2>1. PICK p \in Place : RecordAt(file, b) = file[p]
    BY DEF RecordAt, FoundAt, Place, Scoped, Backend
  <2>2. file[p].dir # "none"
    BY <1>4, <2>1 DEF Session, Dir
  <2> QED
    BY <1>7, <2>1, <2>2
<1> QED
  BY <1>7, <1>9, <1>10, <1>11
  DEF SessionsInvariant, CallOfItsSort, Calls, CopyFirst, CleanedSoFar, NoCall

(* What a call writes is a record of its backend; for a backend that is owed a *)
(* record it is what the run is owed from then on.                             *)
LEMMA UpdatedRecord ==
  ASSUME SessionsInvariant, call.step = "write"
  PROVE  LET b == call.backend
         IN  /\ Updated(b) \in Session /\ Updated(b).backend = b
             /\ ~merged => /\ Owed(b, Updated(b)) = Updated(b)
                           /\ due[b] # NoRecord => Updated(b).dir = due[b].dir
             /\ file[b].backend = b => Updated(b).dir = file[b].dir
<1> USE RecordsAssumption
<1> DEFINE b == call.backend
<1>1. b \in Backend /\ call.kind \in {"acquire", "bind"}
  BY DEF SessionsInvariant, CallOfItsSort
<1>2. /\ RecordAt(file, b) \in Session \cup {NoRecord}
      /\ RecordAt(file, b) # NoRecord => RecordAt(file, b).backend = b
  BY <1>1 DEF SessionsInvariant, RecordsTypeOK, RecordAt, FoundAt, Place, Scoped, Backend
<1>3. Record(b) = RecordAt(file, b)
  BY <1>1, WhereFound
<1>4. NewRecord(b) \in Session /\ NewRecord(b).backend = b
  BY <1>1 DEF NewRecord, Session, LegacyId, PiId, Unbound, Dir, Backend
<1>5. binds \in 0 .. PiId /\ LegacyId(b) \in 0 .. PiId
  BY DEF SessionsInvariant, RecordsTypeOK, LegacyId, PiId, Unbound
<1> HIDE DEF b
<1> DEFINE known == IF Record(b) = NoRecord THEN NewRecord(b) ELSE Record(b)
<1>6. known \in Session /\ known.backend = b
  BY <1>2, <1>3, <1>4
<1>7. Updated(b) = IF call.kind = "bind" THEN [known EXCEPT !.id = binds]
                   ELSE IF known.id = Unbound THEN [known EXCEPT !.id = LegacyId(b)] ELSE known
  BY DEF Updated
<1>8. ~merged => due[b] = RecordAt(file, b)
  BY <1>1 DEF SessionsInvariant, DueIsFound
<1>9. ~merged /\ due[b] # NoRecord => known = due[b]
  BY <1>3, <1>8
<1>10. file[b].backend = b => known = file[b]
  <2> SUFFICES ASSUME file[b].backend = b PROVE known = file[b]
    OBVIOUS
  <2>1. Record(b) = file[b]
    BY <1>1, <1>3 DEF RecordAt, FoundAt, Backend
  <2>2. file[b] # NoRecord
    BY <1>1 DEF NoRecord, Backend
  <2> QED
    BY <2>1, <2>2
<1> HIDE DEF known
<1>11. Updated(b) \in Session /\ Updated(b).backend = b /\ Updated(b).dir = known.dir
  BY <1>5, <1>6, <1>7 DEF Session
<1>12. ~merged => Owed(b, Updated(b)) = Updated(b)
  <2>1. CASE due[b] = NoRecord
    BY <2>1 DEF Owed
  <2>2. CASE due[b] # NoRecord /\ call.kind = "bind"
    BY <1>7, <1>9, <2>2 DEF Owed
  <2>3. CASE due[b] # NoRecord /\ call.kind # "bind"
    BY <1>6, <1>7, <1>9, <2>3 DEF Owed, Session
  <2> QED
    BY <2>1, <2>2, <2>3
<1> QED
  BY <1>9, <1>10, <1>11, <1>12 DEF b

(* A record is written in its own place                                        *)
LEMMA WriteKeeps == ASSUME SessionsInvariant, WriteRecord PROVE SessionsInvariant'
<1>1. PICK b \in Backend : b = call.backend
  BY DEF SessionsInvariant, CallOfItsSort, WriteRecord
<1>2. PICK new : new = Updated(b)
  OBVIOUS
<1> DEFINE adopted == Found(b) # {} /\ Source(b) # b
<1>3. /\ call.step = "write"
      /\ file' = [file EXCEPT ![b] = new]
      /\ dirs' = IF file[b].backend = b THEN dirs ELSE dirs \cup {new.dir}
      /\ due' = IF merged THEN due ELSE [due EXCEPT ![b] = Owed(b, new)]
      /\ call' = IF adopted THEN [call EXCEPT !.step = "unlink", !.source = Source(b)] ELSE NoCall
      /\ UNCHANGED <<binds, merged>>
  BY <1>1, <1>2 DEF WriteRecord
<1>4. /\ new \in Session /\ new.backend = b
      /\ ~merged => Owed(b, new) = new /\ (due[b] # NoRecord => new.dir = due[b].dir)
      /\ file[b].backend = b => new.dir = file[b].dir
  BY <1>1, <1>2, <1>3, UpdatedRecord
<1> HIDE DEF adopted
<1>5. RecordsTypeOK'
  <2>1. new \in Session /\ b \in Place /\ new.dir \in Dir
    BY <1>4 DEF Session, Place, Scoped, Backend
  <2>2. file' \in [Place -> Session \cup {NoRecord}] /\ dirs' \subseteq Dir
    BY <1>3, <2>1 DEF SessionsInvariant, RecordsTypeOK
  <2>3. due' \in [Backend -> Session \cup {NoRecord}]
    BY <1>3, <1>4 DEF SessionsInvariant, RecordsTypeOK
  <2>4. call'.step \in {"none", "unlink"}
    BY <1>3 DEF SessionsInvariant, CallOfItsSort, Calls, NoCall
  <2> QED
    BY <1>3, <2>2, <2>3, <2>4 DEF SessionsInvariant, RecordsTypeOK
<1>6. /\ file'[b] = new
      /\ \A p \in Place : p # b => file'[p] = file[p]
  BY <1>3 DEF SessionsInvariant, RecordsTypeOK, Place, Scoped, Backend
<1>7. FilesInPlace'
  BY <1>4, <1>6 DEF SessionsInvariant, FilesInPlace, Place, Scoped, Backend
<1>8. adopted => /\ Source(b) \in {"sanitized", "legacy"}
                 /\ file[Source(b)].backend = b
  BY WhereFound DEF adopted, FoundAt, Backend
<1>9. CallOfItsSort' /\ CleanedSoFar'
  BY <1>3, <1>8 DEF SessionsInvariant, CallOfItsSort, CleanedSoFar, Calls, NoCall, Place, Scoped,
     Backend
<1>10. CopyFirst'
  <2>1. CASE adopted
    <3>1. call'.step = "unlink" /\ call'.source = Source(b) /\ call'.backend = b
      BY <1>1, <1>3, <2>1 DEF SessionsInvariant, CallOfItsSort, Calls
    <3>2. file'[Source(b)] = file[Source(b)] /\ file'[b].backend = b
      BY <1>4, <1>6, <1>8, <2>1 DEF Place, Scoped, Backend
    <3> QED
      BY <1>8, <2>1, <3>1, <3>2 DEF CopyFirst
  <2>2. CASE ~adopted
    BY <1>3, <2>2 DEF CopyFirst, NoCall
  <2> QED
    BY <2>1, <2>2
<1>11. DueIsFound'
  <2>1. CASE merged
    BY <1>3, <2>1 DEF SessionsInvariant, DueIsFound
  <2>2. CASE ~merged
    <3>1. due' = [due EXCEPT ![b] = new]
      BY <1>3, <1>4, <2>2
    <3>2. RecordAt(file', b) = new
      BY <1>4, <1>6 DEF RecordAt, FoundAt, Backend
    <3>3. \A c \in Backend \ {b} : RecordAt(file', c) = RecordAt(file, c)
      BY <1>6 DEF RecordAt, FoundAt, Backend, Place, Scoped
    <3>4. new.dir \in dirs'
      <4>1. CASE file[b].backend = b
        <5>1. RecordAt(file, b) = file[b]
          BY <4>1 DEF RecordAt, FoundAt, Backend
        <5>2. due[b] = file[b] /\ file[b] # NoRecord
          BY <2>2, <4>1, <5>1 DEF SessionsInvariant, DueIsFound, NoRecord, Backend
        <5> QED
          BY <1>3, <1>4, <2>2, <4>1, <5>2 DEF SessionsInvariant, DueIsFound
      <4>2. CASE file[b].backend # b
        BY <1>3, <4>2
      <4> QED
        BY <4>1, <4>2
    <3>5. \A c \in Backend \ {b} : due[c] # NoRecord => due[c].dir \in dirs'
      BY <1>3, <2>2 DEF SessionsInvariant, DueIsFound
    <3>6. due \in [Backend -> Session \cup {NoRecord}]
      BY DEF SessionsInvariant, RecordsTypeOK
    <3>7. \A c \in Backend : /\ RecordAt(file', c) = due'[c]
                             /\ due'[c] # NoRecord => due'[c].dir \in dirs'
      BY <2>2, <3>1, <3>2, <3>3, <3>4, <3>5, <3>6 DEF SessionsInvariant, DueIsFound
    <3> QED
      BY <1>3, <2>2, <3>7 DEF DueIsFound
  <2> QED
    BY <2>1, <2>2
<1> QED
  BY <1>5, <1>7, <1>9, <1>10, <1>11 DEF SessionsInvariant

(* A clean-up unlinks one record after the other                               *)
LEMMA UnlinkKeeps == ASSUME SessionsInvariant, Unlink PROVE SessionsInvariant'
<1>1. PICK b \in Backend, s \in {"sanitized", "legacy"} :
         /\ b = call.backend /\ s = call.source
         /\ file[s].backend = b /\ file[b].backend = b
  BY DEF SessionsInvariant, CallOfItsSort, CopyFirst, Unlink
<1>2. /\ file' = [file EXCEPT ![s] = NoRecord] /\ call' = NoCall
      /\ UNCHANGED <<dirs, binds, due, merged>>
  BY <1>1 DEF Unlink
<1>3. RecordsTypeOK'
  BY <1>2 DEF SessionsInvariant, RecordsTypeOK, NoCall
<1>4. file'[s] = NoRecord /\ \A p \in Place \ {s} : file'[p] = file[p]
  BY <1>2 DEF SessionsInvariant, RecordsTypeOK, Place, Scoped
<1>5. FilesInPlace'
  BY <1>4 DEF SessionsInvariant, FilesInPlace, Place, Scoped, Backend, NoRecord
<1>6. \A c \in Backend : RecordAt(file', c) = RecordAt(file, c)
  BY <1>1, <1>4 DEF RecordAt, FoundAt, Backend, Place, Scoped, NoRecord
<1>7. DueIsFound'
  BY <1>2, <1>6 DEF SessionsInvariant, DueIsFound
<1> QED
  BY <1>2, <1>3, <1>5, <1>7
  DEF SessionsInvariant, CallOfItsSort, Calls, CopyFirst, CleanedSoFar, NoCall

(* A clean-up only removes, and only once nothing is owed.                     *)
LEMMA ReleaseKeeps ==
  ASSUME SessionsInvariant,
         \/ \E kept \in SUBSET Dir : RemoveDirs(kept)
         \/ \E kept \in SUBSET Scoped : RemoveRecords(kept)
         \/ \E fails \in BOOLEAN : RemoveLegacy(fails)
  PROVE  SessionsInvariant'
<1>1. UNCHANGED <<binds, due, merged>> /\ merged
  BY DEF RemoveDirs, RemoveRecords, RemoveLegacy, SessionsInvariant, CallOfItsSort
<1>2. /\ file' \in [Place -> Session \cup {NoRecord}] /\ dirs' \subseteq Dir
      /\ \A p \in Place : file'[p] \in {file[p], NoRecord}
  <2>1. CASE \E kept \in SUBSET Dir : RemoveDirs(kept)
    BY <2>1 DEF RemoveDirs, DataDirs, SessionsInvariant, RecordsTypeOK
  <2>2. CASE \E kept \in SUBSET Scoped : RemoveRecords(kept)
    BY <2>2 DEF RemoveRecords, SessionsInvariant, RecordsTypeOK
  <2>3. CASE \E fails \in BOOLEAN : RemoveLegacy(fails)
    BY <2>3 DEF RemoveLegacy, SessionsInvariant, RecordsTypeOK, Place, Scoped
  <2> QED
    BY <2>1, <2>2, <2>3
<1>3. /\ call' \in Calls
      /\ call'.step \in {"records", "legacy", "end"}
      /\ ~call'.failed =>
           /\ dirs' = {}
           /\ call'.step \in {"legacy", "end"} => \A p \in Scoped : file'[p] = NoRecord
           /\ call'.step = "end" => file'["legacy"] = NoRecord
  <2> USE DEF SessionsInvariant, CallOfItsSort, Calls, CleanedSoFar, GoOn
  <2>1. CASE \E kept \in SUBSET Dir : RemoveDirs(kept)
    BY <2>1 DEF RemoveDirs, DataDirs
  <2>2. CASE \E kept \in SUBSET Scoped : RemoveRecords(kept)
    BY ZenonT(30), <2>2 DEF RemoveRecords, Place, Scoped
  <2>3. CASE \E fails \in BOOLEAN : RemoveLegacy(fails)
    BY ZenonT(30), <2>3 DEF RemoveLegacy, RecordsTypeOK, Place, Scoped
  <2> QED
    BY <2>1, <2>2, <2>3
<1>4. RecordsTypeOK'
  BY <1>1, <1>2, <1>3 DEF SessionsInvariant, RecordsTypeOK
<1>5. FilesInPlace'
  BY <1>2 DEF SessionsInvariant, FilesInPlace, Place, Scoped, Backend, NoRecord
<1> QED
  BY <1>1, <1>3, <1>4, <1>5
  DEF SessionsInvariant, CallOfItsSort, DueIsFound, CopyFirst, CleanedSoFar

(* The invariant is inductive                                                  *)
LEMMA NextSessions ==
  ASSUME SessionsInvariant, [RecordsNext]_recordVars PROVE SessionsInvariant'
<1> USE DEF SessionsInvariant
<1>1. ASSUME NEW b \in Backend, Acquire(b) \/ Bind(b) PROVE SessionsInvariant'
  <2>1. /\ call' \in Calls /\ call'.step = "write" /\ call'.kind \in {"acquire", "bind"}
        /\ call'.backend = b /\ ~call'.failed
    BY <1>1 DEF Acquire, Bind, NoCall, Calls
  <2>2. UNCHANGED <<file, dirs, due, merged>> /\ binds' \in 0 .. MaxBinds
    BY <1>1, RecordsAssumption DEF Acquire, Bind, RecordsTypeOK
  <2> QED
    BY <2>1, <2>2 DEF RecordsTypeOK, FilesInPlace, CallOfItsSort, DueIsFound, CopyFirst, CleanedSoFar
<1>2. CASE BeginRelease
  BY <1>2 DEF BeginRelease, RecordsTypeOK, FilesInPlace, CallOfItsSort, DueIsFound, CopyFirst,
     CleanedSoFar, NoCall, Calls
<1>3. CASE EndRelease \/ Stop
  <2>1. call' = NoCall /\ UNCHANGED <<file, dirs, binds, due, merged>>
    BY <1>3 DEF EndRelease, Stop
  <2>2. call'.step = "none" /\ call' \in Calls
    BY <2>1 DEF NoCall, Calls
  <2> QED
    BY <2>1, <2>2 DEF RecordsTypeOK, FilesInPlace, CallOfItsSort, DueIsFound, CopyFirst,
       CleanedSoFar
<1>4. CASE UNCHANGED recordVars
  BY <1>4 DEF recordVars, RecordsTypeOK, FilesInPlace, CallOfItsSort, DueIsFound, CopyFirst,
     CleanedSoFar
<1> QED
  BY <1>1, <1>2, <1>3, <1>4, WriteKeeps, UnlinkKeeps, ReleaseKeeps DEF RecordsNext

(* A run finds the session that was last bound for its backend, with its data, *)
(* whichever version wrote it and wherever a call stopped; and a clean-up that  *)
(* reports success has left nothing (acquire_with, bind_with, release_with).    *)
THEOREM SessionFilesAlwaysHold == RecordsSpec => []SessionFilesHold
<1>1. SessionsInvariant => SessionFilesHold
  <2> SUFFICES ASSUME SessionsInvariant PROVE SessionFilesHold
    OBVIOUS
  <2>1. BindingsAreFound
    BY WhereFound DEF SessionsInvariant, DueIsFound, BindingsAreFound
  <2>2. CleanupIsWhole
    BY DEF SessionsInvariant, CleanedSoFar, CleanupIsWhole, Place
  <2> QED
    BY <2>1, <2>2 DEF SessionFilesHold
<1> QED
  BY <1>1, InitSessions, NextSessions, PTL DEF RecordsSpec

-----------------------------------------------------------------------------
(* The hand-offs between operator, host and worker                             *)

JobFields == {"id", "step", "kind", "tries", "then", "poll", "input", "open", "completed",
              "failedReported"}
SignInTypes ==
    /\ DOMAIN host = {"id", "status", "pending"} /\ DOMAIN job = JobFields
    /\ DOMAIN helper = {"state", "prompts", "ok"}
    /\ logins \in Nat /\ host.id \in Nat
    /\ pastes \in Seq(Nat) /\ stdin \in Seq(Nat)
    /\ host.pending \in 0 .. Len(pastes) /\ job.input \in 0 .. Len(pastes)
    /\ \A i \in 1 .. Len(stdin) : stdin[i] \in 0 .. Len(pastes)
    /\ job.then \in {"idle", "read", "prompt", "shut", "wait", "end"}

(* A pasted value is on its way to the sign-in it was pasted for.              *)
PastesAreNamed ==
    /\ host.pending # 0 => pastes[host.pending] = host.id
    /\ job.input # 0 => pastes[job.input] = job.id
    /\ \A i \in 1 .. Len(stdin) : stdin[i] # 0 => pastes[stdin[i]] = job.id

(* Who reports a completion has its credential stored.                         *)
CompletedIsStored ==
    /\ helper.state = "stored" \/ job.kind = "complete" => job.id \in stored
    /\ host.status = "complete" => host.id \in stored

(* A job that is over, or on its way there, has no helper any more.            *)
Over == \/ job.step \in {"idle", "end"}
        \/ job.step = "report" /\ job.then \in {"idle", "end"}
OverIsQuiet == Over => helper = NoHelper /\ stdin = <<>>

SignInInvariant == SignInTypes /\ PastesAreNamed /\ CompletedIsStored /\ OverIsQuiet

(* No sign-in                                                                  *)
LEMMA InitSignIn == OAuthInit => SignInInvariant
  BY DEF OAuthInit, SignInInvariant, SignInTypes, PastesAreNamed, CompletedIsStored, OverIsQuiet,
     Over, NoLogin, NoJob, NoHelper, JobFields

(* A restart replaces the sign-in by one of a new id                           *)
LEMMA OperatorKeepsSignIns ==
  ASSUME SignInInvariant, ForgetLogins \/ \E restart \in BOOLEAN : StartLogin(restart)
  PROVE  SignInInvariant'
<1>1. /\ DOMAIN host' = {"id", "status", "pending"} /\ host'.id \in Nat /\ host'.pending = 0
      /\ host'.status \in {"none", "queued"} /\ logins' \in Nat
      /\ UNCHANGED <<pastes, job, helper, stdin, stored>>
  BY DEF StartLogin, ForgetLogins, NoLogin, SignInInvariant, SignInTypes
<1> QED
  BY <1>1
  DEF SignInInvariant, SignInTypes, PastesAreNamed, CompletedIsStored, OverIsQuiet, Over

(* A paste is stored with the sign-in that asked for it                        *)
LEMMA SubmitKeepsSignIns ==
  ASSUME SignInInvariant, SubmitInput
  PROVE  SignInInvariant'
<1>1. PICK n \in Nat : n = Len(pastes)
  BY DEF SignInInvariant, SignInTypes
<1>2. /\ pastes' \in Seq(Nat) /\ Len(pastes') = n + 1 /\ pastes'[n + 1] = host.id
      /\ \A i \in 1 .. n : pastes'[i] = pastes[i]
  BY <1>1, AppendProperties DEF SubmitInput, SignInInvariant, SignInTypes
<1>3. /\ DOMAIN host' = {"id", "status", "pending"} /\ host'.id = host.id
      /\ host'.pending = n + 1 /\ host'.status = "awaiting_callback"
      /\ UNCHANGED <<logins, job, helper, stdin, stored>>
  BY <1>1 DEF SubmitInput, SignInInvariant, SignInTypes
<1> QED
  BY SMTT(30), <1>1, <1>2, <1>3
  DEF SignInInvariant, SignInTypes, PastesAreNamed, CompletedIsStored, OverIsQuiet, Over

(* The worker takes a sign-in up, or dies with the one it has                  *)
LEMMA ClaimKeepsSignIns ==
  ASSUME SignInInvariant, ClaimLost \/ Claim
         \/ \E lost, finishes \in BOOLEAN : CrashWorker(lost, finishes)
  PROVE  SignInInvariant'
<1>1. CASE ClaimLost
  BY <1>1 DEF ClaimLost, SignInInvariant, SignInTypes, PastesAreNamed, CompletedIsStored,
     OverIsQuiet, Over
<1>2. CASE Claim
  BY <1>2 DEF Claim, HelperStarts, NoJob, NoHelper, JobFields, SignInInvariant, SignInTypes,
     PastesAreNamed, CompletedIsStored, OverIsQuiet, Over
<1>3. CASE \E lost, finishes \in BOOLEAN : CrashWorker(lost, finishes)
  <2>1. /\ job' = NoJob /\ helper' = NoHelper /\ stdin' = <<>> /\ stored \subseteq stored'
        /\ UNCHANGED <<logins, pastes>>
        /\ \/ host' = host
           \/ host' = [host EXCEPT !.status = "failed", !.pending = 0]
    BY <1>3 DEF CrashWorker
  <2>2. /\ DOMAIN host' = {"id", "status", "pending"} /\ host'.id = host.id
        /\ host'.pending \in {0, host.pending} /\ host'.status \in {"failed", host.status}
    BY <2>1 DEF SignInInvariant, SignInTypes
  <2>3. Len(stdin') = 0 /\ stdin' \in Seq(Nat)
    BY <2>1
  <2> QED
    BY <2>1, <2>2, <2>3 DEF NoJob, NoHelper, JobFields, SignInInvariant, SignInTypes, PastesAreNamed,
       CompletedIsStored, OverIsQuiet, Over
<1> QED
  BY <1>1, <1>2, <1>3
(* A report is applied to the sign-in it is of, or dropped                     *)
LEMMA ReportsKeepSignIns ==
  ASSUME SignInInvariant, SendEvent \/ \E applied \in BOOLEAN : EventLost(applied)
  PROVE  SignInInvariant'
<1>1. job.step = "report" /\ UNCHANGED <<logins, pastes, helper, stdin, stored>>
  BY DEF SendEvent, EventLost
<1>2. /\ DOMAIN host' = {"id", "status", "pending"} /\ host'.id = host.id
      /\ host'.pending \in {0, host.pending}
      /\ \/ host'.status # "complete" \/ host'.status = host.status
         \/ job.kind = "complete" /\ host.id = job.id
  <2>1. host' = host \/ host' = Reported(host, job.id, job.kind)
    BY DEF SendEvent, EventLost
  <2> QED
    BY <2>1 DEF Reported, Current, StatusAfter, Terminal, SignInInvariant, SignInTypes
<1>3. \/ job' = NoJob /\ job.then = "idle"
      \/ /\ DOMAIN job' = JobFields /\ job'.id = job.id /\ job'.kind = job.kind
         /\ job'.input = job.input /\ job'.then = job.then
         /\ job'.step \in {"idle", "end"} => job.then = "end"
  <2>1. job' \in {AfterEvent, AfterFailedAttempt}
    BY DEF SendEvent, EventLost
  <2>2. job' = AfterEvent \/ job' = [job EXCEPT !.tries = @ + 1]
    BY <2>1 DEF AfterFailedAttempt
  <2>3. CASE job' = [job EXCEPT !.tries = @ + 1]
    BY <1>1, <2>3 DEF SignInInvariant, SignInTypes, JobFields
  <2>4. CASE job' = AfterEvent
    BY <2>4 DEF AfterEvent, StartPoll, ShutStdin, SignInInvariant, SignInTypes, JobFields
  <2> QED
    BY <2>2, <2>3, <2>4
<1> QED
  BY SMTT(30), <1>1, <1>2, <1>3 DEF NoJob, NoHelper, JobFields, SignInInvariant, SignInTypes,
     PastesAreNamed, CompletedIsStored, OverIsQuiet, Over

(* What the helper does: it and the job stay with their sign-in.               *)
LEMMA HelperKeepsSignIns ==
  ASSUME SignInInvariant,
         \/ \E kind \in {"info", "device_code", "auth_url"} : HelperTells(kind)
         \/ HelperPrompts \/ PromptClosed \/ PromptAborted
         \/ HelperStores \/ HelperFails \/ HelperCompletes \/ HelperReportsFailure
         \/ HelperDies \/ ExitsBadly
  PROVE  SignInInvariant'
<1>1. /\ UNCHANGED <<host, logins, pastes, stdin>> /\ stored \subseteq stored'
      /\ helper'.state = "stored" => helper.state = "stored" \/ job.id \in stored'
      /\ DOMAIN helper' = {"state", "prompts", "ok"}
  BY DEF HelperTells, HelperPrompts, PromptClosed, PromptAborted, HelperStores, HelperFails,
     HelperCompletes, HelperReportsFailure, HelperDies, ExitsBadly, SignInInvariant, SignInTypes
<1>2. /\ DOMAIN job' = JobFields /\ job'.id = job.id /\ job'.input \in {0, job.input}
      /\ job'.kind = "complete" => job.kind = "complete" \/ helper.state = "stored"
      /\ job'.then \in {"read", "prompt", "wait", job.then}
  BY ZenonT(30)
  DEF HelperTells, HelperPrompts, PromptClosed, PromptAborted, HelperStores, HelperFails,
     HelperCompletes, HelperReportsFailure, HelperDies, ExitsBadly, ToReport, JobFields,
     SignInInvariant, SignInTypes
<1>3. ~Over
  <2>1. helper.state \in {"busy", "prompt", "stored", "failing"} \/ job.step = "wait"
    BY DEF HelperTells, HelperPrompts, PromptClosed, PromptAborted, HelperStores, HelperFails,
       HelperCompletes, HelperReportsFailure, HelperDies, ExitsBadly
  <2> QED
    BY <2>1 DEF NoHelper, Over, OverIsQuiet, SignInInvariant
<1>4. \/ job' = job
      \/ job'.step = "report" /\ job'.then \in {"read", "prompt", "wait"}
      \/ job'.step = "wait"
  BY DEF HelperTells, HelperPrompts, PromptClosed, PromptAborted, HelperStores, HelperFails,
     HelperCompletes, HelperReportsFailure, HelperDies, ExitsBadly, ToReport, JobFields,
     SignInInvariant, SignInTypes
<1>5. ~Over'
  BY <1>3, <1>4 DEF Over
<1> QED
  BY <1>1, <1>2, <1>5
  DEF SignInInvariant, SignInTypes, PastesAreNamed, CompletedIsStored, OverIsQuiet

(* The relay of what is pasted.                                                *)
LEMMA RelayKeepsSignIns ==
  ASSUME SignInInvariant,
         \/ PromptTakesLine \/ PollAnswered \/ PollTimesOut \/ Feed \/ NoInput
         \/ \E lost \in BOOLEAN : Ack(lost)
  PROVE  SignInInvariant'
<1>1. CASE PromptTakesLine
  <2>1. /\ stdin # <<>> /\ stdin' = Tail(stdin) /\ helper' = [helper EXCEPT !.state = "busy"]
        /\ helper.state = "prompt" /\ UNCHANGED <<host, logins, pastes, job, stored>>
    BY <1>1 DEF PromptTakesLine
  <2>2. /\ stdin' \in Seq(Nat) /\ Len(stdin') = Len(stdin) - 1 /\ Len(stdin) \in Nat
        /\ \A i \in 1 .. Len(stdin) - 1 : stdin'[i] = stdin[i + 1]
    BY <2>1, HeadTailProperties DEF SignInInvariant, SignInTypes
  <2>3. ~Over
    BY <2>1 DEF SignInInvariant, OverIsQuiet
  <2>4. \A i \in 1 .. Len(stdin') : i + 1 \in 1 .. Len(stdin)
    BY <2>2
  <2>5. DOMAIN helper' = {"state", "prompts", "ok"} /\ helper'.state = "busy"
    BY <2>1 DEF SignInInvariant, SignInTypes
  <2>6. /\ \A i \in 1 .. Len(stdin') : stdin'[i] = stdin[i + 1]
    BY <2>2
  <2>7. ASSUME NEW i \in 1 .. Len(stdin')
        PROVE  /\ stdin'[i] \in 0 .. Len(pastes)
               /\ stdin'[i] # 0 => pastes[stdin'[i]] = job.id
    <3>1. PICK k \in 1 .. Len(stdin) : k = i + 1
      BY <2>4
    <3>2. stdin'[i] = stdin[k]
      BY <2>6, <3>1
    <3> QED
      BY <3>1, <3>2 DEF SignInInvariant, SignInTypes, PastesAreNamed
  <2> QED
    BY <2>1, <2>2, <2>3, <2>5, <2>7
    DEF SignInInvariant, SignInTypes, PastesAreNamed, CompletedIsStored, OverIsQuiet, Over
<1>2. CASE PollAnswered
  <2>1. /\ DOMAIN job' = JobFields /\ job'.id = job.id /\ job'.kind = job.kind
        /\ job'.then = job.then /\ job'.step = job.step
        /\ job'.input = job.input \/ (job'.input = host.pending /\ host.id = job.id)
        /\ UNCHANGED <<host, logins, pastes, helper, stdin, stored>>
    BY <1>2 DEF PollAnswered, Deliverable, Current, JobFields, SignInInvariant, SignInTypes
  <2> QED
    BY <2>1
    DEF SignInInvariant, SignInTypes, PastesAreNamed, CompletedIsStored, OverIsQuiet, Over
<1>3. CASE PollTimesOut
  <2>1. /\ DOMAIN job' = JobFields /\ job'.id = job.id /\ job'.kind = job.kind
        /\ job'.then = job.then /\ job'.step = job.step /\ job'.input = job.input
        /\ UNCHANGED <<host, logins, pastes, helper, stdin, stored>>
    BY <1>3 DEF PollTimesOut, JobFields, SignInInvariant, SignInTypes
  <2> QED
    BY <2>1
    DEF SignInInvariant, SignInTypes, PastesAreNamed, CompletedIsStored, OverIsQuiet, Over
<1>4. CASE Feed
  <2>1. /\ DOMAIN job' = JobFields /\ job'.id = job.id /\ job'.kind = job.kind
        /\ job'.then = job.then /\ job'.step \in {"read", "ack"} /\ job'.input \in {0, job.input}
        /\ UNCHANGED <<host, logins, pastes, helper, stored>>
    BY <1>4 DEF Feed, Reading, JobFields, SignInInvariant, SignInTypes
  <2>2. stdin' = stdin \/ stdin' = Append(stdin, job.input)
    BY <1>4 DEF Feed
  <2>3. CASE stdin' = stdin
    BY <2>1, <2>3
    DEF SignInInvariant, SignInTypes, PastesAreNamed, CompletedIsStored, OverIsQuiet, Over
  <2>4. CASE stdin' = Append(stdin, job.input)
    <3>1. PICK n \in Nat : n = Len(stdin)
      BY DEF SignInInvariant, SignInTypes
    <3>2. /\ stdin' \in Seq(Nat) /\ Len(stdin') = n + 1 /\ stdin'[n + 1] = job.input
          /\ \A i \in 1 .. n : stdin'[i] = stdin[i]
      BY <2>4, <3>1, AppendProperties DEF SignInInvariant, SignInTypes
    <3>3. /\ \A i \in 1 .. n + 1 : stdin'[i] \in 0 .. Len(pastes)
          /\ \A i \in 1 .. n + 1 : stdin'[i] # 0 => pastes[stdin'[i]] = job.id
      BY <2>4, <3>1, <3>2 DEF SignInInvariant, SignInTypes, PastesAreNamed
    <3> QED
      BY SMTT(30), <2>1, <3>2, <3>3
      DEF SignInInvariant, SignInTypes, PastesAreNamed, CompletedIsStored, OverIsQuiet, Over
  <2> QED
    BY <2>2, <2>3, <2>4
<1>5. CASE NoInput
  <2>1. /\ DOMAIN job' = JobFields /\ job'.id = job.id /\ job'.kind = "failed"
        /\ job'.then = "shut" /\ job'.step = "report" /\ job'.input = job.input
        /\ UNCHANGED <<host, logins, pastes, helper, stdin, stored>>
    BY <1>5 DEF NoInput, ToReport, JobFields, SignInInvariant, SignInTypes
  <2> QED
    BY <2>1
    DEF SignInInvariant, SignInTypes, PastesAreNamed, CompletedIsStored, OverIsQuiet, Over
<1>6. CASE \E lost \in BOOLEAN : Ack(lost)
  <2>1. /\ DOMAIN job' = JobFields /\ job'.id = job.id /\ job'.kind = job.kind
        /\ job'.then = job.then /\ job'.step = "read" /\ job'.input = 0
        /\ UNCHANGED <<logins, pastes, helper, stdin, stored>>
    BY <1>6 DEF Ack, JobFields, SignInInvariant, SignInTypes
  <2>2. /\ DOMAIN host' = {"id", "status", "pending"} /\ host'.id = host.id
        /\ host'.pending \in {0, host.pending} /\ host'.status = host.status
    BY <1>6 DEF Ack, InputTaken, SignInInvariant, SignInTypes
  <2> QED
    BY <2>1, <2>2
    DEF SignInInvariant, SignInTypes, PastesAreNamed, CompletedIsStored, OverIsQuiet, Over
<1> QED
  BY <1>1, <1>2, <1>3, <1>4, <1>5, <1>6

(* The job of a sign-in ends                                                   *)
LEMMA EndKeepsSignIns ==
  ASSUME SignInInvariant, Reap \/ EndJob
  PROVE  SignInInvariant'
<1>1. CASE Reap
  <2>1. /\ DOMAIN job' = JobFields /\ job'.id = job.id /\ job'.kind \in {"failed", job.kind}
        /\ job'.then \in {"end", job.then} /\ job'.input = job.input
        /\ helper' = NoHelper /\ stdin' = <<>> /\ UNCHANGED <<host, logins, pastes, stored>>
    BY <1>1 DEF Reap, ToReport, JobFields, SignInInvariant, SignInTypes
  <2>2. Len(stdin') = 0 /\ stdin' \in Seq(Nat)
    BY <2>1
  <2> QED
    BY <2>1, <2>2 DEF NoHelper, SignInInvariant, SignInTypes, PastesAreNamed, CompletedIsStored,
       OverIsQuiet, Over
<1>2. CASE EndJob
  <2>1. /\ helper = NoHelper /\ stdin = <<>>
        /\ UNCHANGED <<host, logins, pastes, helper, stdin, stored>>
    BY <1>2 DEF EndJob, SignInInvariant, OverIsQuiet, Over
  <2>2. Len(stdin) = 0
    BY <2>1
  <2>3. \/ job' = NoJob
        \/ /\ DOMAIN job' = JobFields /\ job'.id = job.id /\ job'.kind = "failed"
           /\ job'.then = "idle" /\ job'.input = job.input
    BY <1>2 DEF EndJob, WrapperReports, ToReport, JobFields, SignInInvariant, SignInTypes
  <2> QED
    BY <2>1, <2>2, <2>3 DEF NoJob, JobFields, NoHelper, SignInInvariant, SignInTypes,
       PastesAreNamed, CompletedIsStored, OverIsQuiet, Over
<1> QED
  BY <1>1, <1>2
(* The invariant is inductive                                                  *)
LEMMA SignInKept ==
  SignInInvariant /\ [OAuthNext]_oauthVars => SignInInvariant'
<1> SUFFICES ASSUME SignInInvariant, [OAuthNext]_oauthVars PROVE SignInInvariant'
  OBVIOUS
<1>1. CASE OAuthNext
  BY <1>1, OperatorKeepsSignIns, SubmitKeepsSignIns, ClaimKeepsSignIns, ReportsKeepSignIns,
     HelperKeepsSignIns, RelayKeepsSignIns, EndKeepsSignIns
  DEF OAuthNext
<1>2. CASE UNCHANGED oauthVars
  BY <1>2 DEF oauthVars, SignInInvariant, SignInTypes, PastesAreNamed, CompletedIsStored,
     OverIsQuiet, Over
<1> QED
  BY <1>1, <1>2

(* which gives the half of the property about sign-ins                         *)
LEMMA SignInsApart == SignInInvariant => SignInsDoNotMix
<1> SUFFICES ASSUME SignInInvariant PROVE SignInsDoNotMix
  OBVIOUS
<1>1. ASSUME NEW n \in Paste, n \in ToSet(stdin) PROVE pastes[n] = job.id
  <2>1. PICK i \in 1 .. Len(stdin) : stdin[i] = n
    BY <1>1 DEF ToSet, SignInInvariant, SignInTypes
  <2>2. n # 0
    BY OAuthAssumption DEF Paste
  <2> QED
    BY <2>1, <2>2 DEF SignInInvariant, PastesAreNamed
<1> QED
  BY <1>1 DEF SignInsDoNotMix, SignInInvariant, PastesAreNamed, CompletedIsStored

-----------------------------------------------------------------------------
(* Provider keys: the queue, Pi's store and the acknowledgements               *)

Gone == entered - Len(keys)

DaemonFields == {"step", "startup", "tools", "key", "config"}
KeyTypes ==
    /\ DOMAIN daemon = DaemonFields
    /\ keys \in Seq(Nat) /\ entered \in Nat /\ forgotten \in Nat /\ key \in Nat
    /\ lateAck \in Nat /\ daemon.key \in Nat
    /\ forgotten <= Gone /\ key <= entered /\ lateAck <= entered

(* The queue holds the last keys entered, in their order.                      *)
KeysInOrder == \A i \in 1 .. Len(keys) : keys[i] = Gone + i

(* What was taken from the queue since the host started is stored, or the key  *)
(* after it is already.                                                        *)
TakenIsStored == Gone > forgotten => Gone <= key /\ key <= Gone + 1

(* The key the daemon works on is the front of the queue or the one just taken. *)
InHand ==
    daemon.step \in {"store", "ack"} =>
        /\ daemon.key <= Gone + 1 /\ daemon.key <= entered
        /\ Gone > forgotten => Gone <= daemon.key
        /\ daemon.step = "ack" => key = daemon.key
        /\ lateAck > Gone => daemon.key = lateAck

(* An acknowledgement that is still to take a key is of the one that is stored. *)
LateIsStored == lateAck > Gone => lateAck = Gone + 1 /\ key = lateAck

KeyInvariant == KeyTypes /\ KeysInOrder /\ TakenIsStored /\ InHand /\ LateIsStored

(* No keys                                                                     *)
LEMMA InitKeys == CtlInit => KeyInvariant
<1> SUFFICES ASSUME CtlInit PROVE KeyInvariant
  OBVIOUS
<1>1. /\ keys = <<>> /\ entered = 0 /\ forgotten = 0 /\ lateAck = 0 /\ key = 0
      /\ DOMAIN daemon = DaemonFields /\ daemon.step = "config" /\ daemon.key = 0
  BY DEF CtlInit, Started, DaemonFields
<1>2. Len(keys) = 0 /\ keys \in Seq(Nat)
  BY <1>1
<1> QED
  BY <1>1, <1>2
  DEF KeyInvariant, KeyTypes, KeysInOrder, TakenIsStored, InHand, LateIsStored, Gone
(* Steps that are not about keys                                               *)
LEMMA KeysLeftAlone ==
  ASSUME KeyInvariant, UNCHANGED <<keys, entered, forgotten, lateAck, key>>,
         DOMAIN daemon' = DaemonFields, daemon'.key \in {0, daemon.key},
         \/ daemon'.step \notin {"store", "ack"}
         \/ daemon'.step = daemon.step /\ daemon'.key = daemon.key
  PROVE  KeyInvariant'
<1>1. Gone' = Gone
  BY DEF Gone
<1>2. KeyTypes' /\ KeysInOrder' /\ TakenIsStored' /\ LateIsStored'
  BY <1>1 DEF KeyInvariant, KeyTypes, KeysInOrder, TakenIsStored, LateIsStored
<1>3. InHand'
  BY <1>1 DEF KeyInvariant, InHand
<1> QED
  BY <1>2, <1>3 DEF KeyInvariant

(* Where the loop goes on after a report                                       *)
LEMMA AfterReports ==
  ASSUME KeyInvariant, NEW ok \in BOOLEAN, daemon' = AfterReport(ok)
  PROVE  /\ DOMAIN daemon' = DaemonFields /\ daemon'.key = daemon.key
         /\ daemon'.step = daemon.step \/ daemon'.step \in {"done", "error", "refresh"}
<1>1. DOMAIN daemon = DaemonFields
  BY DEF KeyInvariant, KeyTypes
<1> QED
  BY <1>1 DEF AfterReport, DaemonFields

(* The host's calls about its row and the reports of the daemon.               *)
LEMMA ReportsKeepKeys ==
  ASSUME KeyInvariant,
         \/ \E managed \in SUBSET Tools, paused \in BOOLEAN : UpdateReads(managed, paused)
         \/ UpdateWrites \/ AskRefresh \/ ReportReads \/ ReportLost
         \/ \E answered \in BOOLEAN : ReportWrites(answered)
  PROVE  KeyInvariant'
<1>1. UNCHANGED <<keys, entered, forgotten, lateAck, key>>
  BY DEF UpdateReads, UpdateWrites, AskRefresh, ReportReads, ReportLost, ReportWrites
<1>2. daemon' = daemon \/ \E ok \in BOOLEAN : daemon' = AfterReport(ok)
  BY DEF UpdateReads, UpdateWrites, AskRefresh, ReportReads, ReportLost, ReportWrites, Refused
<1>3. CASE daemon' = daemon
  <2>1. DOMAIN daemon = DaemonFields
    BY DEF KeyInvariant, KeyTypes
  <2> QED
    BY <1>1, <1>3, <2>1, KeysLeftAlone
<1>4. CASE \E ok \in BOOLEAN : daemon' = AfterReport(ok)
  BY <1>1, <1>4, AfterReports, KeysLeftAlone
<1> QED
  BY <1>2, <1>3, <1>4

(* The steps of the daemon that are not about keys.                            *)
LEMMA LoopKeepsKeys ==
  ASSUME KeyInvariant,
         \/ FetchConfig \/ ConfigLost \/ \E lost \in BOOLEAN : Refresh(lost)
         \/ Reconcile \/ Done \/ BuildTick \/ BuildEnds \/ BuildFails \/ Activate
         \/ \E lost \in BOOLEAN : ReportError(lost)
         \/ StoreFails \/ RestartDaemon
  PROVE  KeyInvariant'
<1>1. UNCHANGED <<keys, entered, forgotten, lateAck, key>>
  BY DEF FetchConfig, ConfigLost, Refresh, Reconcile, Done, BuildTick, BuildEnds, BuildFails,
     Activate, ReportError, StoreFails, RestartDaemon
<1>2. DOMAIN daemon = DaemonFields
  BY DEF KeyInvariant, KeyTypes
<1>3. /\ DOMAIN daemon' = DaemonFields /\ daemon'.key \in {0, daemon.key}
      /\ daemon'.step \notin {"store", "ack"} \/ daemon' = daemon
  <2>1. CASE FetchConfig
    <3>1. PICK c : c = Config
      OBVIOUS
    <3>2. \/ daemon' = [daemon EXCEPT !.config = c, !.step = "reconcile"]
          \/ daemon' = [daemon EXCEPT !.config = c, !.step = "refresh"]
      BY <2>1, <3>1 DEF FetchConfig
    <3> QED
      BY <1>2, <3>2 DEF DaemonFields
  <2>5. CASE ConfigLost
    <3>1. \/ daemon' = Started
          \/ daemon' = [daemon EXCEPT !.step = "refresh", !.config.refresh = 0]
      BY <2>5 DEF ConfigLost
    <3>2. DOMAIN Started = DaemonFields /\ Started.step = "config" /\ Started.key = 0
      BY DEF Started, DaemonFields
    <3>3. CASE daemon' = [daemon EXCEPT !.step = "refresh", !.config.refresh = 0]
      BY <1>2, <3>3 DEF DaemonFields
    <3> QED
      BY <3>1, <3>2, <3>3
  <2>6. CASE \E lost \in BOOLEAN : Refresh(lost)
    <3>1. PICK step \in {"auth", "reconcile"} :
             daemon' = [daemon EXCEPT !.step = step, !.startup = FALSE, !.config.refresh = 0]
      BY <2>6 DEF Refresh
    <3> QED
      BY <1>2, <3>1 DEF DaemonFields
  <2>2. CASE Reconcile \/ Done
    BY <1>2, <2>2 DEF Reconcile, Done, Skip, DaemonFields
  <2>3. CASE BuildTick \/ BuildEnds \/ BuildFails \/ Activate
    BY <1>2, <2>3 DEF BuildTick, BuildEnds, BuildFails, Activate, DaemonFields
  <2>4. CASE (\E lost \in BOOLEAN : ReportError(lost)) \/ StoreFails \/ RestartDaemon
    BY <1>2, <2>4 DEF ReportError, StoreFails, RestartDaemon, Started, DaemonFields
  <2> QED
    BY <2>1, <2>2, <2>3, <2>4, <2>5, <2>6
<1> QED
  BY <1>1, <1>3, KeysLeftAlone

(* A key that is entered is the newest                                         *)
LEMMA EnterKeepsKeys ==
  ASSUME KeyInvariant, EnterKey
  PROVE  KeyInvariant'
<1>1. PICK n \in Nat : n = Len(keys)
  BY DEF KeyInvariant, KeyTypes
<1>2. /\ keys' \in Seq(Nat) /\ Len(keys') = n + 1 /\ keys'[n + 1] = entered + 1
      /\ \A i \in 1 .. n : keys'[i] = keys[i]
  BY <1>1, AppendProperties DEF EnterKey, KeyInvariant, KeyTypes
<1>3. entered' = entered + 1 /\ UNCHANGED <<forgotten, lateAck, daemon, key>>
  BY DEF EnterKey
<1>4. Gone' = Gone /\ Gone = entered - n /\ entered \in Nat
  BY <1>1, <1>2, <1>3 DEF Gone, KeyInvariant, KeyTypes
<1>5. KeyTypes'
  BY <1>2, <1>3, <1>4 DEF KeyInvariant, KeyTypes
<1>6. KeysInOrder'
  <2>1. \A i \in 1 .. n : keys'[i] = Gone + i
    BY <1>1, <1>2 DEF KeyInvariant, KeysInOrder
  <2>2. keys'[n + 1] = Gone + (n + 1)
    BY <1>2, <1>4
  <2>3. \A i \in 1 .. n + 1 : i \in 1 .. n \/ i = n + 1
    OBVIOUS
  <2> QED
    BY <1>2, <1>4, <2>1, <2>2, <2>3 DEF KeysInOrder
<1>7. TakenIsStored' /\ LateIsStored'
  BY <1>3, <1>4 DEF KeyInvariant, TakenIsStored, LateIsStored
<1>8. InHand'
  BY <1>3, <1>4 DEF KeyInvariant, KeyTypes, InHand
<1> QED
  BY <1>5, <1>6, <1>7, <1>8 DEF KeyInvariant

(* A restart of the host empties the queue: nothing was taken since.           *)
LEMMA HostRestartKeepsKeys ==
  ASSUME KeyInvariant, RestartHost
  PROVE  KeyInvariant'
<1>1. /\ keys' = <<>> /\ forgotten' = entered /\ UNCHANGED <<entered, lateAck, key>>
  BY DEF RestartHost
<1>2. /\ DOMAIN daemon' = DaemonFields /\ daemon'.key = daemon.key
      /\ daemon'.step = daemon.step \/ daemon'.step \in {"done", "error", "refresh"}
  <2>1. daemon' = daemon \/ daemon' = AfterReport(FALSE)
    BY DEF RestartHost
  <2>2. DOMAIN daemon = DaemonFields
    BY DEF KeyInvariant, KeyTypes
  <2> QED
    BY <2>1, <2>2, AfterReports
<1>3. Len(keys') = 0 /\ keys' \in Seq(Nat)
  BY <1>1
<1>4. Gone' = entered /\ entered \in Nat
  BY <1>1, <1>3 DEF Gone, KeyInvariant, KeyTypes
<1>5. KeyTypes'
  BY <1>1, <1>2, <1>3, <1>4 DEF KeyInvariant, KeyTypes
<1>6. KeysInOrder' /\ TakenIsStored' /\ LateIsStored'
  BY <1>1, <1>3, <1>4 DEF KeyInvariant, KeyTypes, KeysInOrder, TakenIsStored, LateIsStored
<1>7. InHand'
  BY <1>1, <1>2, <1>4 DEF KeyInvariant, KeyTypes, InHand
<1> QED
  BY <1>5, <1>6, <1>7 DEF KeyInvariant

(* An acknowledgement takes the front key if it is of that one.                *)
LEMMA KeyTaken ==
  ASSUME KeyInvariant, NEW id \in Nat, id \in 0 .. Gone \cup {Gone + 1},
         keys' = Acknowledged(keys, id), UNCHANGED <<entered, forgotten, key>>
  PROVE  /\ keys' \in Seq(Nat) /\ KeysInOrder' /\ Gone' \in Nat /\ Gone \in Nat
         /\ \/ Gone' = Gone
            \/ Gone' = Gone + 1 /\ id = Gone + 1
         /\ id = Gone + 1 => Gone' = Gone + 1 \/ entered = Gone
<1>1. PICK n \in Nat : n = Len(keys)
  BY DEF KeyInvariant, KeyTypes
<1>2. /\ Gone = entered - n /\ entered \in Nat /\ keys \in Seq(Nat) /\ Gone \in Nat
      /\ \A i \in 1 .. n : keys[i] = Gone + i
  BY <1>1 DEF Gone, KeyInvariant, KeyTypes, KeysInOrder
<1>3. CASE keys # <<>> /\ keys[1] = id
  <2>1. n # 0
    BY <1>1, <1>2, <1>3, EmptySeq
  <2>2. id = Gone + 1
    BY <1>2, <1>3, <2>1
  <2>3. /\ keys' \in Seq(Nat) /\ Len(keys') = n - 1
        /\ \A i \in 1 .. n - 1 : keys'[i] = keys[i + 1]
    BY <1>1, <1>2, <1>3, HeadTailProperties DEF Acknowledged
  <2>4. Gone' = Gone + 1
    <3>1. Gone' = entered - (n - 1)
      BY <2>3 DEF Gone
    <3> QED
      BY <1>2, <3>1
  <2>5. \A i \in 1 .. n - 1 : keys'[i] = Gone' + i
    BY <1>2, <2>1, <2>3, <2>4
  <2>6. KeysInOrder'
    BY <2>3, <2>5 DEF KeysInOrder
  <2> QED
    BY <1>2, <2>2, <2>3, <2>4, <2>6
<1>4. CASE ~(keys # <<>> /\ keys[1] = id)
  <2>1. keys' = keys /\ Gone' = Gone
    BY <1>4 DEF Acknowledged, Gone
  <2>2. id = Gone + 1 => n = 0
    BY <1>1, <1>2, <1>4, EmptySeq
  <2>3. KeysInOrder'
    BY <2>1 DEF KeyInvariant, KeysInOrder
  <2> QED
    BY <1>2, <2>1, <2>2, <2>3
<1> QED
  BY <1>3, <1>4

(* A key on its way to the worker and its acknowledgement back                 *)
LEMMA KeyStepsKeepKeys ==
  ASSUME KeyInvariant, PollKey \/ StoreKey \/ AckKey \/ AckDelayed \/ LateAckArrives
  PROVE  KeyInvariant'
<1>1. /\ DOMAIN daemon = DaemonFields /\ entered \in Nat /\ Gone \in Nat /\ Gone <= entered
      /\ key \in Nat /\ lateAck \in Nat /\ daemon.key \in Nat /\ forgotten \in Nat
  BY DEF KeyInvariant, KeyTypes, Gone
<1>2. CASE PollKey
  <2>1. UNCHANGED <<keys, entered, forgotten, lateAck, key>> /\ Gone' = Gone
    BY <1>2 DEF PollKey, Gone
  <2>2. CASE NextQueued(keys) = 0
    <3>1. DOMAIN daemon' = DaemonFields /\ daemon'.key = daemon.key /\ daemon'.step = "config"
      BY <1>1, <1>2, <2>2 DEF PollKey, DaemonFields
    <3> QED
      BY <2>1, <3>1, KeysLeftAlone
  <2>3. CASE NextQueued(keys) # 0
    <3>1. PICK n \in Nat : n = Len(keys)
      BY DEF KeyInvariant, KeyTypes
    <3>2. n # 0
      BY <2>3, <3>1, EmptySeq DEF NextQueued, KeyInvariant, KeyTypes
    <3>3. NextQueued(keys) = Gone + 1 /\ Gone + 1 <= entered
      BY <1>1, <2>3, <3>1, <3>2 DEF NextQueued, Gone, KeyInvariant, KeysInOrder
    <3>4. DOMAIN daemon' = DaemonFields /\ daemon'.key = Gone + 1 /\ daemon'.step = "store"
      BY <1>1, <1>2, <2>3, <3>3 DEF PollKey, DaemonFields
    <3>5. KeyTypes' /\ KeysInOrder' /\ TakenIsStored' /\ LateIsStored'
      BY <1>1, <2>1, <3>4
      DEF KeyInvariant, KeyTypes, KeysInOrder, TakenIsStored, LateIsStored
    <3>6. InHand'
      BY <1>1, <2>1, <3>3, <3>4 DEF KeyInvariant, LateIsStored, InHand
    <3> QED
      BY <3>5, <3>6 DEF KeyInvariant
  <2> QED
    BY <2>2, <2>3
<1>3. CASE StoreKey
  <2>1. /\ daemon.step = "store" /\ key' = daemon.key
        /\ UNCHANGED <<keys, entered, forgotten, lateAck>> /\ Gone' = Gone
        /\ DOMAIN daemon' = DaemonFields /\ daemon'.key = daemon.key /\ daemon'.step = "ack"
    BY <1>1, <1>3 DEF StoreKey, DaemonFields, Gone
  <2>2. InHand
    BY DEF KeyInvariant
  <2>3. KeyTypes' /\ KeysInOrder'
    BY <1>1, <2>1, <2>2 DEF KeyInvariant, KeyTypes, KeysInOrder, InHand
  <2>4. TakenIsStored' /\ LateIsStored' /\ InHand'
    BY <1>1, <2>1, <2>2 DEF KeyInvariant, TakenIsStored, LateIsStored, InHand
  <2> QED
    BY <2>3, <2>4 DEF KeyInvariant
<1>4. CASE AckKey
  <2>1. /\ daemon.step = "ack" /\ keys' = Acknowledged(keys, daemon.key)
        /\ UNCHANGED <<entered, forgotten, lateAck, key>>
        /\ DOMAIN daemon' = DaemonFields /\ daemon'.key = daemon.key /\ daemon'.step = "config"
    BY <1>1, <1>4 DEF AckKey, DaemonFields
  <2>2. /\ key = daemon.key /\ daemon.key <= Gone + 1 /\ daemon.key <= entered
        /\ Gone > forgotten => Gone <= daemon.key
    BY <2>1 DEF KeyInvariant, InHand
  <2>3. /\ keys' \in Seq(Nat) /\ KeysInOrder' /\ Gone' \in Nat
        /\ \/ Gone' = Gone
           \/ Gone' = Gone + 1 /\ daemon.key = Gone + 1
    BY <1>1, <2>1, <2>2, KeyTaken
  <2>4. KeyTypes'
    BY <1>1, <2>1, <2>3 DEF KeyInvariant, KeyTypes
  <2>5. TakenIsStored'
    BY <1>1, <2>1, <2>2, <2>3 DEF KeyInvariant, TakenIsStored
  <2>6. LateIsStored'
    <3>1. lateAck > Gone => lateAck = Gone + 1 /\ key = lateAck
      BY DEF KeyInvariant, LateIsStored
    <3>2. CASE Gone' = Gone
      BY <2>1, <3>1, <3>2 DEF LateIsStored
    <3>3. CASE Gone' = Gone + 1
      BY <1>1, <2>1, <3>1, <3>3 DEF LateIsStored
    <3> QED
      BY <2>3, <3>2, <3>3
  <2>7. InHand'
    BY <2>1 DEF InHand
  <2> QED
    BY <2>3, <2>4, <2>5, <2>6, <2>7 DEF KeyInvariant
<1>5. CASE AckDelayed
  <2>1. /\ daemon.step = "ack" /\ lateAck' = daemon.key
        /\ UNCHANGED <<keys, entered, forgotten, key>> /\ Gone' = Gone
        /\ DOMAIN daemon' = DaemonFields /\ daemon'.key = daemon.key /\ daemon'.step = "config"
    BY <1>1, <1>5 DEF AckDelayed, DaemonFields, Gone
  <2>2. key = daemon.key /\ daemon.key <= Gone + 1 /\ daemon.key <= entered
    BY <2>1 DEF KeyInvariant, InHand
  <2>3. KeyTypes' /\ KeysInOrder'
    BY <1>1, <2>1, <2>2 DEF KeyInvariant, KeyTypes, KeysInOrder
  <2>4. TakenIsStored' /\ LateIsStored' /\ InHand'
    BY <1>1, <2>1, <2>2 DEF KeyInvariant, TakenIsStored, LateIsStored, InHand
  <2> QED
    BY <2>3, <2>4 DEF KeyInvariant
<1>6. CASE LateAckArrives
  <2>1. /\ lateAck # 0 /\ keys' = Acknowledged(keys, lateAck) /\ lateAck' = 0
        /\ UNCHANGED <<entered, forgotten, key, daemon>>
    BY <1>6 DEF LateAckArrives
  <2>2. lateAck <= Gone \/ (lateAck = Gone + 1 /\ key = lateAck)
    BY <1>1 DEF KeyInvariant, LateIsStored
  <2>3. /\ keys' \in Seq(Nat) /\ KeysInOrder' /\ Gone' \in Nat
        /\ \/ Gone' = Gone
           \/ Gone' = Gone + 1 /\ lateAck = Gone + 1
    BY <1>1, <2>1, <2>2, KeyTaken
  <2>4. KeyTypes'
    BY <1>1, <2>1, <2>3 DEF KeyInvariant, KeyTypes
  <2>5. TakenIsStored'
    <3>1. Gone > forgotten => Gone <= key /\ key <= Gone + 1
      BY DEF KeyInvariant, TakenIsStored
    <3>2. CASE Gone' = Gone
      BY <2>1, <3>1, <3>2 DEF TakenIsStored
    <3>3. CASE Gone' = Gone + 1 /\ lateAck = Gone + 1
      BY <1>1, <2>1, <2>2, <3>3 DEF TakenIsStored
    <3> QED
      BY <2>3, <3>2, <3>3
  <2>7. LateIsStored'
    BY <1>1, <2>1, <2>3 DEF LateIsStored
  <2>6. InHand'
    BY <1>1, <2>1, <2>2, <2>3 DEF KeyInvariant, InHand
  <2> QED
    BY <2>3, <2>4, <2>5, <2>6, <2>7 DEF KeyInvariant
<1> QED
  BY <1>2, <1>3, <1>4, <1>5, <1>6

(* The invariant is inductive                                                  *)
LEMMA KeysKept == KeyInvariant /\ [CtlNext]_ctlVars => KeyInvariant'
<1> SUFFICES ASSUME KeyInvariant, [CtlNext]_ctlVars PROVE KeyInvariant'
  OBVIOUS
<1>1. CASE CtlNext
  BY <1>1, ReportsKeepKeys, LoopKeepsKeys, EnterKeepsKeys, HostRestartKeepsKeys, KeyStepsKeepKeys
  DEF CtlNext
<1>2. CASE UNCHANGED ctlVars
  <2>1. DOMAIN daemon = DaemonFields
    BY DEF KeyInvariant, KeyTypes
  <2> QED
    BY <1>2, <2>1, KeysLeftAlone DEF ctlVars
<1> QED
  BY <1>1, <1>2

(* which gives the half of the property about keys                             *)
LEMMA NewestStored == KeyInvariant => NewestKeyStored
<1> SUFFICES ASSUME KeyInvariant, keys = <<>>, entered > forgotten PROVE key = entered
  BY DEF NewestKeyStored
<1>1. Gone = entered /\ key <= entered /\ key \in Nat /\ entered \in Nat
  BY DEF Gone, KeyInvariant, KeyTypes
<1> QED
  BY <1>1 DEF KeyInvariant, TakenIsStored

(* What the operator hands over by poll and acknowledgement arrives as it was  *)
(* meant, for any number of sign-ins, pastes, keys and lost calls: a pasted    *)
(* value and an outcome at their own sign-in, the newest key at its provider.  *)
THEOREM HandOversStayExact == OAuthSpec /\ CtlSpec => []HandOversAreExact
<1>1. SignInInvariant /\ KeyInvariant => HandOversAreExact
  BY SignInsApart, NewestStored DEF HandOversAreExact
<1> QED
  BY <1>1, InitSignIn, SignInKept, InitKeys, KeysKept, PTL DEF OAuthSpec, CtlSpec

-----------------------------------------------------------------------------
(* The seed of an attempt *)

AnyRow == [state : {"absent", "active", "completed", "lost"},
           attempt : Nat, commit : Commit, based : BOOLEAN]
AnyClaim == [at : {"idle", "repository", "lookup", "verify", "fetch", "persist"},
             execution : Nat, attempt : Nat, todo : SUBSET Execution,
             broken : BOOLEAN, owed : SUBSET Execution]

(* ReposTypeOK without the bound on attempts                                   *)
ReposTypes ==
    /\ queued \in BOOLEAN
    /\ rows \in [Execution -> AnyRow]
    /\ repos \in [Execution -> Repo]
    /\ claims \in [Claimant -> AnyClaim]
    /\ pushes \subseteq Execution \X Commit

Under(m) == claims[m].at # "idle"
Branch(m) == repos[claims[m].execution].head

(* Numbers of attempts have a greatest one                                     *)
TopAttempt ==
    LET used == {0} \union {rows[e].attempt : e \in Execution}
    IN \E a \in used : \A b \in used : b <= a

(* Only completed rows name a commit, which their branch still contains        *)
RowsHaveRepos ==
    \A e \in Execution :
        /\ rows[e].state = "absent" => rows[e].attempt = 0
        /\ IF rows[e].state = "completed"
           THEN rows[e].commit \subseteq repos[e].head /\ rows[e].commit # {}
           ELSE rows[e].commit = {}

(* Two claims never fill the same repository, nor one of a row that is there   *)
ClaimsApart ==
    \A m \in Claimant : Under(m) =>
        /\ claims[m].execution \in Execution
        /\ rows[claims[m].execution].state = "absent"
        /\ \A n \in Claimant :
              Under(n) /\ claims[n].execution = claims[m].execution => n = m

PushesToRows == \A p \in pushes : rows[p[1]].state # "absent"

(* k is in no candidate, and of the rows' branches and the pushes at most f's  *)
(* have it: it came, or will come, too late for the result of f                *)
Astray(k, f) ==
    /\ \A g \in Execution : k \notin rows[g].commit
    /\ \A g \in Execution : rows[g].state # "absent" /\ k \in repos[g].head => g = f
    /\ \A p \in pushes : k \in p[2] => p[1] = f

(* What branches of handed-in work hold beyond the candidate, and what pushes  *)
(* under way add to theirs                                                     *)
LatePushesAstray ==
    /\ \A f \in Completed : \A k \in repos[f].head \ rows[f].commit : Astray(k, f)
    /\ \A p \in pushes : rows[p[1]].state \in {"active", "completed"} =>
          \A k \in p[2] \ repos[p[1]].head : Astray(k, p[1])

(* What a late push left has got onto the branch: no seed will be verified     *)
Spoiled(m) ==
    \E f \in Completed : \E k \in Branch(m) \ rows[f].commit :
        Astray(k, f) /\ k \in repos[f].head

(* The claim has met no late push and every whole candidate is still to be     *)
(* tried, or it cannot succeed any more                                        *)
Searching(m) ==
    \/ Branch(m) = {} /\ \A g \in claims[m].owed : Intact(g) => g \in claims[m].todo
    \/ Spoiled(m)

(* What AttemptsContinue says of a claim about to be persisted                 *)
SeedHolds(m) ==
    IF Branch(m) = {} THEN claims[m].owed = {}
    ELSE \E f \in Completed :
            /\ rows[f].commit = Branch(m)
            /\ \A g \in claims[m].owed : Intact(g) => rows[f].attempt >= rows[g].attempt

Seeks(m) ==
    /\ claims[m].owed \subseteq Completed
    /\ claims[m].todo \subseteq Completed
    /\ claims[m].at = "lookup" => Branch(m) = {}
    /\ claims[m].at \in {"verify", "fetch"} => Searching(m)
    /\ claims[m].at = "persist" => SeedHolds(m)
ClaimsSeek == \A m \in Claimant : Under(m) => Seeks(m)

SeedInv ==
    /\ ReposTypes /\ TopAttempt /\ RowsHaveRepos /\ ClaimsApart /\ PushesToRows
    /\ LatePushesAstray /\ ClaimsSeek

(* ORDER BY attempt has a first row, and the next number is a number           *)
LEMMA NextAttemptIsNew ==
  ASSUME ReposTypes, TopAttempt
  PROVE  NextAttempt \in Nat /\ \A e \in Execution : rows[e].attempt <= NextAttempt
<1> DEFINE used == {0} \union {rows[e].attempt : e \in Execution}
           top == CHOOSE a \in used : \A b \in used : b <= a
<1>1. used \subseteq Nat
  BY DEF ReposTypes, AnyRow
<1>2. top \in used /\ \A b \in used : b <= top
  BY DEF TopAttempt
<1>3. NextAttempt = 1 + top
  BY DEF NextAttempt
<1> HIDE DEF top
<1>4. \A e \in Execution : rows[e].attempt \in used
  OBVIOUS
<1>5. ASSUME NEW e \in Execution PROVE rows[e].attempt <= NextAttempt
  <2>1. rows[e].attempt \in Nat /\ top \in Nat /\ rows[e].attempt <= top
    BY <1>1, <1>2, <1>4
  <2>2. QED
    BY <2>1, <1>3
<1>6. QED
  BY <1>1, <1>2, <1>3, <1>5

(* The types are inductive                                                     *)
LEMMA StepTypes ==
  ASSUME ReposTypes, TopAttempt, [ReposNext]_repoVars
  PROVE  ReposTypes'
<1> USE DEF ReposTypes, Repo, Commit, Completed
<1>1. ASSUME NEW m \in Claimant, NEW e \in Execution, BeginClaim(m, e) PROVE ReposTypes'
  <2>1. NextAttempt \in Nat
    BY NextAttemptIsNew
  <2>2. e \in Nat
    BY ReposAssumption DEF Execution
  <2>3. QED
    BY <1>1, <2>1, <2>2 DEF BeginClaim, IdleClaim, AnyClaim
<1>2. ASSUME NEW m \in Claimant, MakeRepo(m) PROVE ReposTypes'
  BY ZenonT(30), <1>2 DEF MakeRepo, ClaimGoes, AnyClaim
<1>3. ASSUME NEW m \in Claimant, LookUp(m) PROVE ReposTypes'
  <2>1. PICK at \in {"persist", "verify"}, todo \in SUBSET Execution :
          claims' = [claims EXCEPT ![m].todo = todo, ![m].at = at]
    BY <1>3 DEF LookUp
  <2>2. claims'[m] = [claims[m] EXCEPT !.todo = todo, !.at = at]
    BY <2>1
  <2>3. claims'[m] \in AnyClaim
    BY <2>2 DEF AnyClaim
  <2>4. claims' \in [Claimant -> AnyClaim]
    BY <2>1, <2>3
  <2>5. QED
    BY <1>3, <2>4 DEF LookUp
<1>4. ASSUME NEW m \in Claimant, Verify(m) PROVE ReposTypes'
  <2>1. PICK f \in Execution :
          \/ claims' = ClaimGoes(m, "fetch")
          \/ claims' = [claims EXCEPT ![m].todo = @ \ {f}, ![m].broken = TRUE]
    BY <1>4 DEF Verify
  <2>2. CASE claims' = ClaimGoes(m, "fetch")
    BY SMTT(30), <1>4, <2>2 DEF Verify, AnyClaim, ClaimGoes
  <2>3. CASE claims' = [claims EXCEPT ![m].todo = @ \ {f}, ![m].broken = TRUE]
    <3>1. claims'[m] = [claims[m] EXCEPT !.todo = @ \ {f}, !.broken = TRUE]
      BY <2>3
    <3>2. claims'[m] \in AnyClaim
      BY <3>1 DEF AnyClaim
    <3>3. claims' \in [Claimant -> AnyClaim]
      BY <2>3, <3>2
    <3>4. QED
      BY <1>4, <3>3 DEF Verify
  <2>4. QED
    BY <2>1, <2>2, <2>3
<1>5. ASSUME NEW m \in Claimant, Fetch(m) PROVE ReposTypes'
  <2>1. PICK f \in Execution, head \in Commit :
          /\ \/ repos' = [repos EXCEPT ![claims[m].execution].head = head]
             \/ repos' = repos
          /\ \/ claims' = ClaimGoes(m, "persist")
             \/ claims' = [claims EXCEPT ![m].todo = @ \ {f}, ![m].broken = TRUE,
                                         ![m].at = "verify"]
    BY <1>5 DEF Fetch
  <2>2. repos' \in [Execution -> Repo]
    BY <2>1
  <2>3. CASE claims' = ClaimGoes(m, "persist")
    <3>1. claims' \in [Claimant -> AnyClaim]
      BY ZenonT(30), <2>3 DEF AnyClaim, ClaimGoes
    <3>2. QED
      BY <1>5, <2>2, <3>1 DEF Fetch
  <2>4. CASE claims' = [claims EXCEPT ![m].todo = @ \ {f}, ![m].broken = TRUE,
                                      ![m].at = "verify"]
    <3>1. claims'[m] = [claims[m] EXCEPT !.todo = @ \ {f}, !.broken = TRUE, !.at = "verify"]
      BY <2>4
    <3>2. claims'[m] \in AnyClaim
      <4>1. claims[m] \in AnyClaim /\ claims[m].todo \ {f} \in SUBSET Execution
        BY DEF AnyClaim
      <4>2. QED
        BY <3>1, <4>1 DEF AnyClaim
    <3>3. claims' \in [Claimant -> AnyClaim]
      BY <2>4, <3>2
    <3>4. QED
      BY <1>5, <2>2, <3>3 DEF Fetch
  <2>5. QED
    BY <2>1, <2>3, <2>4
<1>6. ASSUME NEW m \in Claimant, Persist(m) PROVE ReposTypes'
  <2>1. IdleClaim.attempt = 0 /\ claims' = [claims EXCEPT ![m] = IdleClaim] /\ claims[m].attempt \in Nat
    BY <1>6 DEF Persist, IdleClaim, AnyClaim
  <2>2. claims' \in [Claimant -> AnyClaim]
    BY <2>1 DEF AnyClaim, IdleClaim
  <2>3. [AbsentRow EXCEPT !.state = "active", !.attempt = claims[m].attempt] \in AnyRow
    BY <2>1 DEF AnyRow, AbsentRow
  <2>4. rows' \in [Execution -> AnyRow] /\ queued' \in BOOLEAN
    BY <1>6, <2>3 DEF Persist
  <2>5. repos' \in [Execution -> Repo] /\ pushes' \subseteq Execution \X Commit
    <3>1. \/ repos' = repos
          \/ repos' = [repos EXCEPT ![claims[m].execution] = [exists |-> FALSE, head |-> {}]]
      BY <1>6 DEF Persist
    <3>2. repos' \in [Execution -> Repo]
      <4>1. [exists |-> FALSE, head |-> {}] \in Repo
        OBVIOUS
      <4>2. QED
        BY <3>1, <4>1
    <3>3. QED
      BY <1>6, <3>2 DEF Persist
  <2>6. QED
    BY <2>2, <2>4, <2>5
<1>7. ASSUME NEW m \in Claimant, ClaimFails(m) PROVE ReposTypes'
  BY <1>7 DEF ClaimFails, AnyClaim, IdleClaim
<1>8. ASSUME NEW e \in Execution, NEW k \in Change, BeginPush(e, k) PROVE ReposTypes'
  BY <1>8 DEF BeginPush
<1>9. ASSUME NEW p \in pushes, LandPush(p) PROVE ReposTypes'
  <2>1. p \in Execution \X (SUBSET Change)
    OBVIOUS
  <2>2. QED
    BY <1>9, <2>1 DEF LandPush
<1>10. ASSUME NEW e \in Execution, NEW b \in BOOLEAN, Complete(e, b) PROVE ReposTypes'
  <2>1. repos[e].head \in SUBSET Change
    OBVIOUS
  <2>2. rows'[e] = [rows[e] EXCEPT !.state = "completed", !.commit = repos[e].head,
                                   !.based = b]
    BY <1>10 DEF Complete
  <2>3. rows'[e] \in AnyRow
    BY <2>1, <2>2 DEF AnyRow
  <2>4. rows' \in [Execution -> AnyRow]
    BY <1>10, <2>3 DEF Complete
  <2>5. QED
    BY <1>10, <2>4 DEF Complete
<1>11. CASE Retry
  BY <1>11 DEF Retry
<1>12. ASSUME NEW e \in Execution, Lose(e) PROVE ReposTypes'
  BY <1>12 DEF Lose, AnyRow
<1>13. ASSUME NEW e \in Execution, Release(e) PROVE ReposTypes'
  <2>1. rows' \in [Execution -> AnyRow]
    BY <1>13 DEF Release, AnyRow
  <2>2. QED
    BY <1>13, <2>1 DEF Release
<1>14. CASE UNCHANGED repoVars
  BY <1>14 DEF repoVars
<1>15. QED
  BY <1>1, <1>2, <1>3, <1>4, <1>5, <1>6, <1>7, <1>8, <1>9, <1>10, <1>11, <1>12, <1>13, <1>14
     DEF ReposNext

(* Candidates stay within their branches                                       *)
LEMMA StepRowsHaveRepos ==
  ASSUME ReposTypes, RowsHaveRepos, ClaimsApart, [ReposNext]_repoVars
  PROVE  RowsHaveRepos'
<1> USE DEF ReposTypes, Repo, AnyRow, RowsHaveRepos, ClaimsApart, Under
<1>1. CASE UNCHANGED <<rows, repos>>
  BY <1>1
<1>2. ASSUME NEW m \in Claimant, MakeRepo(m) PROVE RowsHaveRepos'
  BY <1>2 DEF MakeRepo
<1>3. ASSUME NEW m \in Claimant, Fetch(m) PROVE RowsHaveRepos'
  <2>1. PICK head : \/ repos' = [repos EXCEPT ![claims[m].execution].head = head]
                    \/ repos' = repos
    BY <1>3 DEF Fetch
  <2>2. \A e \in Execution : rows[e].state = "completed" => repos'[e] = repos[e]
    BY <1>3, <2>1 DEF Fetch
  <2>3. QED
    BY <1>3, <2>2 DEF Fetch
<1>4. ASSUME NEW m \in Claimant, Persist(m) PROVE RowsHaveRepos'
  <2>1. rows[claims[m].execution].state = "absent" /\ claims[m].execution \in Execution
    BY <1>4 DEF Persist
  <2>2. CASE queued
    <3>1. rows' = [rows EXCEPT ![claims[m].execution] =
                     [AbsentRow EXCEPT !.state = "active", !.attempt = claims[m].attempt]]
          /\ repos' = repos
      BY <1>4, <2>2 DEF Persist
    <3>2. /\ rows'[claims[m].execution].state = "active"
          /\ rows'[claims[m].execution].commit = {}
          /\ \A f \in Execution : f # claims[m].execution => rows'[f] = rows[f]
      BY <2>1, <3>1 DEF AbsentRow
    <3>3. QED
      BY <3>1, <3>2
  <2>3. CASE ~queued
    BY <1>4, <2>1, <2>3 DEF Persist
  <2>4. QED
    BY <2>2, <2>3
<1>5. ASSUME NEW p \in pushes, LandPush(p) PROVE RowsHaveRepos'
  <2>1. p[1] \in Execution
    OBVIOUS
  <2>2. \A e \in Execution : repos[e].head \subseteq repos'[e].head
    BY <1>5, <2>1 DEF LandPush
  <2>3. QED
    BY <1>5, <2>2 DEF LandPush
<1>6. ASSUME NEW e \in Execution, NEW b \in BOOLEAN, Complete(e, b) PROVE RowsHaveRepos'
  <2>1. rows'[e] = [rows[e] EXCEPT !.state = "completed", !.commit = repos[e].head,
                                   !.based = b]
    BY <1>6 DEF Complete
  <2>2. QED
    BY <1>6, <2>1 DEF Complete
<1>7. ASSUME NEW e \in Execution, Lose(e) PROVE RowsHaveRepos'
  BY <1>7 DEF Lose
<1>8. ASSUME NEW e \in Execution, Release(e) PROVE RowsHaveRepos'
  BY <1>8 DEF Release
<1>9. QED
  BY <1>1, <1>2, <1>3, <1>4, <1>5, <1>6, <1>7, <1>8
     DEF ReposNext, repoVars, BeginClaim, LookUp, Verify, ClaimFails, BeginPush, Retry

(* A claim's row has the greatest number, or one below it                      *)
LEMMA StepTopAttempt ==
  ASSUME ReposTypes, TopAttempt, RowsHaveRepos, ClaimsApart, [ReposNext]_repoVars
  PROVE  TopAttempt'
<1> USE DEF ReposTypes, AnyRow
<1> DEFINE Numbers == {0} \union {rows[e].attempt : e \in Execution}
<1>1. CASE \A e \in Execution : rows'[e].attempt = rows[e].attempt
  <2>1. Numbers' = Numbers
    BY <1>1
  <2>2. QED
    BY <2>1 DEF TopAttempt
<1>2. ASSUME NEW m \in Claimant, Persist(m), queued PROVE TopAttempt'
  <2> DEFINE e == claims[m].execution
             a == claims[m].attempt
  <2>1. e \in Execution /\ rows[e].attempt = 0 /\ a \in Nat
    BY <1>2 DEF Persist, ClaimsApart, RowsHaveRepos, Under, AnyClaim
  <2>2. rows' = [rows EXCEPT ![e] = [AbsentRow EXCEPT !.state = "active", !.attempt = a]]
    BY <1>2 DEF Persist
  <2>3. rows'[e].attempt = a /\ \A f \in Execution : f # e => rows'[f].attempt = rows[f].attempt
    BY <2>1, <2>2 DEF AbsentRow
  <2> HIDE DEF e, a
  <2>4. Numbers' = Numbers \union {a}
    BY <2>1, <2>3
  <2>5. PICK top \in Numbers : \A b \in Numbers : b <= top
    BY DEF TopAttempt
  <2>6. Numbers \subseteq Nat
    OBVIOUS
  <2>7. CASE a <= top
    BY <2>4, <2>5, <2>7 DEF TopAttempt
  <2>8. CASE top <= a
    <3>1. \A b \in Numbers : b \in Nat /\ top \in Nat /\ b <= top
      BY <2>5, <2>6
    <3>2. \A b \in Numbers : b <= a
      BY <2>1, <2>8, <3>1
    <3>3. \A b \in Numbers' : b <= a
      BY SMTT(30), <2>1, <2>4, <3>2
    <3>4. QED
      BY <2>4, <3>3 DEF TopAttempt
  <2>9. QED
    BY <2>1, <2>5, <2>6, <2>7, <2>8
<1>3. ASSUME NEW e \in Execution, NEW b \in BOOLEAN, Complete(e, b)
      PROVE  \A f \in Execution : rows'[f].attempt = rows[f].attempt
  BY <1>3 DEF Complete
<1>4. ASSUME NEW e \in Execution, Lose(e) \/ Release(e)
      PROVE  \A f \in Execution : rows'[f].attempt = rows[f].attempt
  BY <1>4 DEF Lose, Release
<1>5. QED
  BY <1>1, <1>2, <1>3, <1>4
     DEF ReposNext, repoVars, BeginClaim, MakeRepo, LookUp, Verify, Fetch, Persist, ClaimFails,
         BeginPush, LandPush, Retry

(* The execution of a claim is fresh, and becomes a row only by that claim     *)
LEMMA StepClaimsApart ==
  ASSUME ReposTypes, ClaimsApart, [ReposNext]_repoVars
  PROVE  ClaimsApart'
<1> USE DEF ReposTypes, AnyRow, AnyClaim, ClaimsApart, Under
<1>1. ASSUME UNCHANGED rows,
             \A n \in Claimant : /\ claims'[n].at # "idle" => claims[n].at # "idle"
                                 /\ \/ claims'[n].execution = claims[n].execution
                                    \/ claims'[n].at = "idle"
      PROVE  ClaimsApart'
  BY <1>1
<1>2. ASSUME NEW m \in Claimant, NEW e \in Execution, BeginClaim(m, e) PROVE ClaimsApart'
  <2>1. e \notin Taken
    BY <1>2 DEF BeginClaim, Fresh
  <2>2. rows[e].state = "absent" /\ \A n \in Claimant : Under(n) => claims[n].execution # e
    BY <2>1 DEF Taken
  <2>3. /\ claims'[m].execution = e
        /\ \A n \in Claimant : n # m => claims'[n] = claims[n]
        /\ ~Under(m) /\ UNCHANGED rows
    BY <1>2 DEF BeginClaim, IdleClaim
  <2>4. QED
    BY <2>2, <2>3
<1>3. ASSUME NEW m \in Claimant, MakeRepo(m) PROVE ClaimsApart'
  BY <1>1, <1>3 DEF MakeRepo, ClaimGoes
<1>4. ASSUME NEW m \in Claimant, LookUp(m) PROVE ClaimsApart'
  <2>1. \A n \in Claimant : claims'[n].execution = claims[n].execution
                            /\ (claims'[n].at # "idle" => claims[n].at # "idle")
    BY <1>4 DEF LookUp
  <2>2. QED
    BY <1>1, <1>4, <2>1 DEF LookUp
<1>5. ASSUME NEW m \in Claimant, Verify(m) PROVE ClaimsApart'
  <2>1. \A n \in Claimant : claims'[n].execution = claims[n].execution
                            /\ (claims'[n].at # "idle" => claims[n].at # "idle")
    BY <1>5 DEF Verify, ClaimGoes
  <2>2. QED
    BY <1>1, <1>5, <2>1 DEF Verify
<1>6. ASSUME NEW m \in Claimant, Fetch(m) PROVE ClaimsApart'
  <2>1. \A n \in Claimant : claims'[n].execution = claims[n].execution
                            /\ (claims'[n].at # "idle" => claims[n].at # "idle")
    BY <1>6 DEF Fetch, ClaimGoes
  <2>2. QED
    BY <1>1, <1>6, <2>1 DEF Fetch
<1>7. ASSUME NEW m \in Claimant, Persist(m) PROVE ClaimsApart'
  <2>1. /\ claims'[m].at = "idle"
        /\ \A n \in Claimant : n # m => claims'[n] = claims[n]
        /\ \A f \in Execution : f # claims[m].execution => rows'[f] = rows[f]
        /\ Under(m)
    BY <1>7 DEF Persist, IdleClaim
  <2>2. QED
    BY <2>1
<1>8. ASSUME NEW m \in Claimant, ClaimFails(m) PROVE ClaimsApart'
  BY <1>1, <1>8 DEF ClaimFails, IdleClaim
<1>9. ASSUME UNCHANGED claims,
             \A f \in Execution : rows[f].state = "absent" => rows'[f].state = "absent"
      PROVE  ClaimsApart'
  BY <1>9
<1>10. ASSUME NEW e \in Execution, NEW b \in BOOLEAN, Complete(e, b) PROVE ClaimsApart'
  BY <1>9, <1>10 DEF Complete
<1>11. ASSUME NEW e \in Execution, Lose(e) \/ Release(e) PROVE ClaimsApart'
  BY SMTT(30), <1>9, <1>11 DEF Lose, Release
<1>12. CASE UNCHANGED <<claims, rows>>
  BY <1>12
<1> HIDE DEF ReposTypes, AnyRow, AnyClaim, ClaimsApart, Under
<1>13. QED
  BY <1>2, <1>3, <1>4, <1>5, <1>6, <1>7, <1>8, <1>10, <1>11, <1>12
     DEF ReposNext, repoVars, BeginPush, LandPush, Retry

(* A row that is there stays there                                             *)
LEMMA RowsStay ==
  ASSUME ReposTypes, ClaimsApart, [ReposNext]_repoVars,
         NEW f \in Execution, rows[f].state # "absent"
  PROVE  rows'[f].state # "absent"
<1> USE DEF ReposTypes, AnyRow
<1>1. ASSUME NEW m \in Claimant, Persist(m) PROVE rows'[f] = rows[f]
  BY <1>1 DEF Persist, ClaimsApart, Under
<1>2. ASSUME NEW e \in Execution, NEW b \in BOOLEAN, Complete(e, b) PROVE rows'[f].state # "absent"
  BY <1>2 DEF Complete
<1>3. ASSUME NEW e \in Execution, Lose(e) \/ Release(e) PROVE rows'[f].state # "absent"
  BY <1>3 DEF Lose, Release
<1>4. QED
  BY <1>1, <1>2, <1>3
     DEF ReposNext, repoVars, BeginClaim, MakeRepo, LookUp, Verify, Fetch, ClaimFails,
         BeginPush, LandPush, Retry

(* Pushes are let in for rows only, and rows stay                              *)
LEMMA StepPushesToRows ==
  ASSUME ReposTypes, ClaimsApart, PushesToRows, [ReposNext]_repoVars
  PROVE  PushesToRows'
<1>1. ASSUME NEW p \in pushes PROVE rows'[p[1]].state # "absent"
  <2>1. p[1] \in Execution /\ rows[p[1]].state # "absent"
    BY DEF ReposTypes, PushesToRows
  <2>2. QED
    BY <2>1, RowsStay
<1>2. ASSUME NEW e \in Execution, NEW k \in Change, BeginPush(e, k) PROVE PushesToRows'
  BY <1>1, <1>2 DEF BeginPush, PushesToRows
<1>3. CASE pushes' \subseteq pushes
  BY <1>1, <1>3 DEF PushesToRows
<1>4. QED
  BY <1>2, <1>3
     DEF ReposNext, repoVars, BeginClaim, MakeRepo, LookUp, Verify, Fetch, Persist, ClaimFails,
         LandPush, Complete, Retry, Lose, Release

(* What was handed in stays, and its branch only grows                         *)
LEMMA CompletedStays ==
  ASSUME ReposTypes, ClaimsApart, [ReposNext]_repoVars,
         NEW f \in Execution, rows[f].state = "completed"
  PROVE  /\ rows'[f] = rows[f]
         /\ repos[f].head \subseteq repos'[f].head
         /\ repos'[f].exists = repos[f].exists
<1> DEFINE Same == rows'[f] = rows[f] /\ repos'[f] = repos[f]
<1> USE DEF ReposTypes, AnyRow, Repo
<1>1. ASSUME NEW m \in Claimant, Persist(m) \/ MakeRepo(m) \/ Fetch(m) PROVE Same
  <2>1. claims[m].execution # f
    BY <1>1 DEF ClaimsApart, Under, Persist, MakeRepo, Fetch
  <2>2. CASE Persist(m)
    BY <2>1, <2>2 DEF Persist
  <2>3. CASE MakeRepo(m)
    BY <2>1, <2>3 DEF MakeRepo
  <2>4. CASE Fetch(m)
    BY <2>1, <2>4 DEF Fetch
  <2>5. QED
    BY <1>1, <2>2, <2>3, <2>4
<1>2. ASSUME NEW e \in Execution, NEW b \in BOOLEAN, Complete(e, b) PROVE Same
  BY <1>2 DEF Complete
<1>3. ASSUME NEW e \in Execution, Lose(e) \/ Release(e) PROVE Same
  BY <1>3 DEF Lose, Release
<1>4. ASSUME NEW p \in pushes, LandPush(p)
      PROVE  /\ rows'[f] = rows[f] /\ repos[f].head \subseteq repos'[f].head
             /\ repos'[f].exists = repos[f].exists
  <2>1. p[1] \in Execution
    OBVIOUS
  <2>2. QED
    BY <1>4, <2>1 DEF LandPush
<1>5. QED
  BY <1>1, <1>2, <1>3, <1>4
     DEF ReposNext, repoVars, BeginClaim, LookUp, Verify, ClaimFails, BeginPush, Retry

(* A candidate that is spoiled stays so                                        *)
LEMMA IntactWasIntact ==
  ASSUME ReposTypes, RowsHaveRepos, ClaimsApart, [ReposNext]_repoVars,
         NEW g \in Completed, Intact(g)'
  PROVE  Intact(g)
<1>1. g \in Execution /\ rows[g].state = "completed"
  BY DEF Completed
<1>2. /\ rows'[g] = rows[g]
      /\ repos[g].head \subseteq repos'[g].head
      /\ repos'[g].exists = repos[g].exists
  BY <1>1, CompletedStays
<1>3. rows[g].commit \subseteq repos[g].head
  BY <1>1 DEF RowsHaveRepos
<1>4. QED
  BY <1>1, <1>2, <1>3 DEF Intact

(* What a step does to the branch of a row that is there                       *)
LEMMA BranchOfRow ==
  ASSUME ReposTypes, ClaimsApart, [ReposNext]_repoVars,
         NEW f \in Execution, rows[f].state # "absent"
  PROVE  /\ \A k \in repos'[f].head \ repos[f].head : \E p \in pushes : p[1] = f /\ k \in p[2]
         /\ rows'[f].state \in {"active", "completed"} =>
               rows[f].state \in {"active", "completed"} /\ repos[f].head \subseteq repos'[f].head
<1> USE DEF ReposTypes, AnyRow, Repo
<1>1. ASSUME NEW m \in Claimant, Persist(m) \/ MakeRepo(m) \/ Fetch(m)
      PROVE  rows'[f] = rows[f] /\ repos'[f] = repos[f]
  <2>1. claims[m].execution # f
    BY <1>1 DEF ClaimsApart, Under, Persist, MakeRepo, Fetch
  <2>2. CASE Persist(m)
    BY <2>1, <2>2 DEF Persist
  <2>3. CASE MakeRepo(m)
    BY <2>1, <2>3 DEF MakeRepo
  <2>4. CASE Fetch(m)
    BY <2>1, <2>4 DEF Fetch
  <2>5. QED
    BY <1>1, <2>2, <2>3, <2>4
<1>2. ASSUME NEW e \in Execution, NEW b \in BOOLEAN, Complete(e, b)
      PROVE  /\ repos'[f] = repos[f]
             /\ rows'[f].state \in {"active", "completed"} =>
                   rows[f].state \in {"active", "completed"}
  BY <1>2 DEF Complete
<1>3. ASSUME NEW e \in Execution, Lose(e)
      PROVE  /\ repos'[f] = repos[f]
             /\ rows'[f].state \in {"active", "completed"} =>
                   rows[f].state \in {"active", "completed"}
  BY <1>3 DEF Lose
<1>4. ASSUME NEW e \in Execution, Release(e)
      PROVE  \/ rows'[f] = rows[f] /\ repos'[f] = repos[f]
             \/ rows'[f].state = "lost" /\ repos'[f].head = {}
  BY <1>4 DEF Release
<1>5. ASSUME NEW p \in pushes, LandPush(p)
      PROVE  /\ rows' = rows
             /\ \/ repos'[f] = repos[f]
                \/ p[1] = f /\ repos'[f].head = p[2] /\ repos[f].head \subseteq p[2]
  <2>1. p[1] \in Execution
    OBVIOUS
  <2>2. QED
    BY <1>5, <2>1 DEF LandPush
<1>6. QED
  <2>1. CASE rows'[f] = rows[f] /\ repos'[f] = repos[f]
    BY <2>1
  <2> HIDE DEF ReposTypes, AnyRow, Repo
  <2>2. QED
    BY <1>1, <1>2, <1>3, <1>4, <1>5, <2>1
       DEF ReposNext, repoVars, BeginClaim, LookUp, Verify, ClaimFails, BeginPush, Retry

(* The branch a claim fills is its own                                         *)
LEMMA BranchStays ==
  ASSUME ReposTypes, ClaimsApart, PushesToRows, [ReposNext]_repoVars,
         NEW n \in Claimant, Under(n), claims'[n] = claims[n]
  PROVE  Branch(n)' = Branch(n)
<1> DEFINE e == claims[n].execution
<1>1. e \in Execution /\ rows[e].state = "absent"
  BY DEF ClaimsApart
<1>2. ASSUME NEW m \in Claimant, Persist(m) \/ MakeRepo(m) \/ Fetch(m) PROVE repos'[e] = repos[e]
  <2>1. m # n
    <3>1. CASE Persist(m)
      BY <3>1 DEF Persist, IdleClaim, ReposTypes, Under
    <3>2. CASE MakeRepo(m)
      BY <3>2 DEF MakeRepo, ClaimGoes, ReposTypes, AnyClaim
    <3>3. CASE Fetch(m)
      <4>1. claims'[m].at \in {"persist", "verify"} /\ claims[m].at = "fetch"
        BY <3>3 DEF Fetch, ClaimGoes, ReposTypes, AnyClaim
      <4>2. QED
        BY <4>1
    <3>4. QED
      BY <1>2, <3>1, <3>2, <3>3
  <2>2. claims[m].execution # e
    BY <1>2, <2>1 DEF ClaimsApart, Under, Persist, MakeRepo, Fetch
  <2>3. CASE Persist(m)
    <3>1. \/ repos' = repos
          \/ repos' = [repos EXCEPT ![claims[m].execution] = [exists |-> FALSE, head |-> {}]]
      BY <2>3 DEF Persist
    <3>2. QED
      BY <1>1, <2>2, <3>1 DEF ReposTypes
  <2>4. CASE MakeRepo(m)
    BY <2>2, <2>4 DEF MakeRepo, ReposTypes
  <2>5. CASE Fetch(m)
    BY <2>2, <2>5 DEF Fetch, ReposTypes
  <2>6. QED
    BY <1>2, <2>3, <2>4, <2>5
<1>3. ASSUME NEW f \in Execution, Release(f) PROVE repos'[e] = repos[e]
  BY <1>1, <1>3 DEF Release, ReposTypes
<1>4. ASSUME NEW p \in pushes, LandPush(p) PROVE repos'[e] = repos[e]
  <2>1. p[1] # e
    BY <1>1 DEF PushesToRows
  <2>2. QED
    BY <1>4, <2>1 DEF LandPush, ReposTypes
<1>5. repos'[e] = repos[e]
  BY <1>2, <1>3, <1>4
     DEF ReposNext, repoVars, BeginClaim, LookUp, Verify, ClaimFails, BeginPush, Complete, Lose,
         Retry
<1>6. QED
  BY <1>5 DEF Branch

(* What went astray stays astray                                               *)
Carried(k, f) ==
    \/ rows[f].state = "completed" /\ k \in repos[f].head
    \/ k \notin repos[f].head /\ \E p \in pushes : k \in p[2]

(* The only row that could take such a change into a candidate is f itself,    *)
(* and f is completed                                                          *)
LEMMA AstrayStays ==
  ASSUME ReposTypes, ClaimsApart, RowsHaveRepos, ClaimsSeek, [ReposNext]_repoVars,
         NEW k, NEW f \in Execution, Astray(k, f), Carried(k, f)
  PROVE  Astray(k, f)'
<1> USE DEF ReposTypes, AnyRow, Repo, Astray
<1>1. CASE UNCHANGED <<rows, repos, pushes>>
  BY <1>1
<1>2. ASSUME NEW m \in Claimant, MakeRepo(m) PROVE Astray(k, f)'
  <2>1. \A g \in Execution : rows[g].state # "absent" => repos'[g] = repos[g]
    BY <1>2 DEF MakeRepo, ClaimsApart, Under
  <2>2. QED
    BY <1>2, <2>1 DEF MakeRepo
<1>3. ASSUME NEW m \in Claimant, Fetch(m) PROVE Astray(k, f)'
  <2>1. \A g \in Execution : rows[g].state # "absent" => repos'[g] = repos[g]
    BY <1>3 DEF Fetch, ClaimsApart, Under
  <2>2. QED
    BY <1>3, <2>1 DEF Fetch
<1>4. ASSUME NEW m \in Claimant, Persist(m) PROVE Astray(k, f)'
  <2> DEFINE e == claims[m].execution
  <2>1. e \in Execution /\ rows[e].state = "absent" /\ pushes' = pushes
    BY <1>4 DEF Persist, ClaimsApart, Under
  <2>2. k \notin Branch(m)
    BY <1>4 DEF Persist, ClaimsSeek, Seeks, Under, SeedHolds, Completed
  <2>3. CASE queued
    <3>1. repos' = repos /\ rows'[e].commit = {}
          /\ \A g \in Execution : g # e => rows'[g] = rows[g]
      <4>1. rows' = [rows EXCEPT ![e] =
                       [AbsentRow EXCEPT !.state = "active", !.attempt = claims[m].attempt]]
            /\ repos' = repos
        BY <1>4, <2>3 DEF Persist
      <4>2. QED
        BY <2>1, <4>1 DEF AbsentRow
    <3>2. QED
      BY <2>1, <2>2, <3>1 DEF Branch
  <2>4. CASE ~queued
    <3>1. rows' = rows /\ \A g \in Execution : g # e => repos'[g] = repos[g]
      BY <1>4, <2>1, <2>4 DEF Persist
    <3>2. QED
      BY <2>1, <3>1
  <2>5. QED
    BY <2>3, <2>4
<1>5. ASSUME NEW e \in Execution, NEW j \in Change, BeginPush(e, j) PROVE Astray(k, f)'
  <2>1. j # k
    BY <1>5 DEF BeginPush, Fresher, Carried
  <2>2. k \in repos[e].head => e = f
    BY <1>5 DEF BeginPush
  <2>3. QED
    BY <1>5, <2>1, <2>2 DEF BeginPush
<1>6. ASSUME NEW p \in pushes, LandPush(p) PROVE Astray(k, f)'
  <2>1. p[1] \in Execution
    OBVIOUS
  <2>2. CASE repos' = repos
    BY <1>6, <2>2 DEF LandPush
  <2>3. CASE repos' = [repos EXCEPT ![p[1]].head = p[2]]
    <3>1. /\ repos'[p[1]].head = p[2]
          /\ \A g \in Execution : g # p[1] => repos'[g] = repos[g]
      BY <2>1, <2>3
    <3>2. QED
      BY <1>6, <2>1, <3>1 DEF LandPush
  <2>4. QED
    BY <1>6, <2>2, <2>3 DEF LandPush
<1>7. ASSUME NEW e \in Execution, NEW b \in BOOLEAN, Complete(e, b) PROVE Astray(k, f)'
  <2>1. k \notin repos[e].head
    BY <1>7 DEF Complete, Carried
  <2>2. /\ rows'[e].commit = repos[e].head
        /\ \A g \in Execution : g # e => rows'[g] = rows[g]
        /\ rows[e].state = "active"
    BY <1>7 DEF Complete
  <2>3. QED
    BY <1>7, <2>1, <2>2 DEF Complete
<1>8. ASSUME NEW e \in Execution, Lose(e) PROVE Astray(k, f)'
  <2>1. \A g \in Execution : rows'[g].commit = rows[g].commit
                             /\ (rows'[g].state # "absent" => rows[g].state # "absent")
    BY <1>8 DEF Lose
  <2>2. QED
    BY <1>8, <2>1 DEF Lose
<1>9. ASSUME NEW e \in Execution, Release(e) PROVE Astray(k, f)'
  <2>1. \A g \in Execution : /\ rows'[g].commit = rows[g].commit
                             /\ rows'[g].state # "absent" => rows[g].state # "absent"
                             /\ k \in repos'[g].head => k \in repos[g].head
    BY <1>9 DEF Release
  <2>2. QED
    BY <1>9, <2>1 DEF Release
<1> HIDE DEF ReposTypes, AnyRow, Repo, Astray
<1>10. QED
  BY <1>1, <1>2, <1>3, <1>4, <1>5, <1>6, <1>7, <1>8, <1>9
     DEF ReposNext, repoVars, BeginClaim, LookUp, Verify, ClaimFails, Retry

(* Late pushes bring nothing that any candidate has                            *)
LEMMA StepLatePushesAstray ==
  ASSUME ReposTypes, RowsHaveRepos, ClaimsApart, PushesToRows, LatePushesAstray, ClaimsSeek,
         [ReposNext]_repoVars
  PROVE  LatePushesAstray'
<1>1. ASSUME NEW f \in Execution, rows'[f].state = "completed",
             NEW k \in repos'[f].head \ rows'[f].commit
      PROVE  Astray(k, f)'
  <2>1. CASE rows[f].state = "completed"
    <3>1. rows'[f] = rows[f]
      BY <2>1, CompletedStays
    <3>2. CASE k \in repos[f].head
      BY <1>1, <2>1, <3>1, <3>2, AstrayStays DEF LatePushesAstray, Completed, Carried
    <3>3. CASE k \notin repos[f].head
      <4>1. PICK p \in pushes : p[1] = f /\ k \in p[2]
        BY <1>1, <2>1, <3>3, BranchOfRow
      <4>2. Astray(k, f)
        BY <2>1, <3>3, <4>1 DEF LatePushesAstray
      <4>3. QED
        BY <3>3, <4>1, <4>2, AstrayStays DEF Carried
    <3>4. QED
      BY <3>2, <3>3
  <2>2. CASE rows[f].state # "completed"
    <3>1. rows'[f].commit = repos'[f].head
      <4>1. ASSUME NEW m \in Claimant, Persist(m) PROVE FALSE
        <5>1. rows' = rows \/ \A g \in Execution : rows'[g] = rows[g] \/ rows'[g].state = "active"
          BY <4>1 DEF Persist, AbsentRow, ReposTypes
        <5>2. QED
          BY <1>1, <2>2, <5>1
      <4>2. ASSUME NEW e \in Execution, NEW b \in BOOLEAN, Complete(e, b)
            PROVE  rows'[f].commit = repos'[f].head
        BY <1>1, <2>2, <4>2 DEF Complete, ReposTypes, AnyRow
      <4>3. ASSUME NEW e \in Execution, Lose(e) \/ Release(e) PROVE FALSE
        BY <1>1, <2>2, <4>3 DEF Lose, Release, ReposTypes, AnyRow
      <4>4. QED
        BY <1>1, <2>2, <4>1, <4>2, <4>3
           DEF ReposNext, repoVars, BeginClaim, MakeRepo, LookUp, Verify, Fetch, ClaimFails,
               BeginPush, LandPush, Retry
    <3>2. QED
      BY <1>1, <3>1
  <2>3. QED
    BY <2>1, <2>2
<1>2. ASSUME NEW p \in pushes, rows'[p[1]].state \in {"active", "completed"},
             NEW k \in p[2] \ repos'[p[1]].head
      PROVE  Astray(k, p[1])'
  <2>1. p[1] \in Execution /\ rows[p[1]].state # "absent"
    BY DEF ReposTypes, PushesToRows
  <2>2. rows[p[1]].state \in {"active", "completed"} /\ k \notin repos[p[1]].head
    BY <1>2, <2>1, BranchOfRow
  <2>3. Astray(k, p[1])
    BY <2>2 DEF LatePushesAstray
  <2>4. QED
    BY <2>1, <2>2, <2>3, AstrayStays DEF Carried
<1>3. ASSUME NEW e \in Execution, NEW j \in Change, BeginPush(e, j),
             NEW k \in (repos[e].head \union {j}) \ repos'[e].head
      PROVE  Astray(k, e)'
  <2>1. k = j /\ Fresher(j) /\ UNCHANGED <<rows, repos>>
        /\ pushes' = pushes \union {<<e, repos[e].head \union {j}>>}
    BY <1>3 DEF BeginPush
  <2>2. QED
    BY <2>1 DEF Fresher, Astray
<1>4. \A p \in pushes' :
         \/ p \in pushes
         \/ \E e \in Execution, j \in Change :
               BeginPush(e, j) /\ p = <<e, repos[e].head \union {j}>>
  <2>1. ASSUME NEW e \in Execution, NEW j \in Change, BeginPush(e, j)
        PROVE  \A p \in pushes' : p \in pushes \/ p = <<e, repos[e].head \union {j}>>
    BY <2>1 DEF BeginPush
  <2>2. (\E e \in Execution, j \in Change : BeginPush(e, j)) \/ pushes' \subseteq pushes
    BY DEF ReposNext, repoVars, BeginClaim, MakeRepo, LookUp, Verify, Fetch, Persist, ClaimFails,
           LandPush, Complete, Retry, Lose, Release
  <2>3. QED
    BY <2>1, <2>2
<1>5. ASSUME NEW p \in pushes', rows'[p[1]].state \in {"active", "completed"},
             NEW k \in p[2] \ repos'[p[1]].head
      PROVE  Astray(k, p[1])'
  <2>1. CASE p \in pushes
    BY <1>2, <1>5, <2>1
  <2>2. CASE p \notin pushes
    <3>1. PICK e \in Execution, j \in Change : BeginPush(e, j) /\ p = <<e, repos[e].head \union {j}>>
      BY <1>4, <2>2
    <3>2. p[1] = e /\ p[2] = repos[e].head \union {j}
      BY <3>1
    <3>3. k \in (repos[e].head \union {j}) \ repos'[e].head
      BY <1>5, <3>2
    <3>4. Astray(k, e)'
      BY <1>3, <3>1, <3>3
    <3>5. QED
      BY <3>2, <3>4
  <2>3. QED
    BY <2>1, <2>2
<1>6. QED
  BY <1>1, <1>5 DEF LatePushesAstray, Completed

(* No candidate is taken back                                                  *)
LEMMA CompletedGrows ==
  ASSUME ReposTypes, ClaimsApart, [ReposNext]_repoVars
  PROVE  Completed \subseteq Completed'
BY CompletedStays DEF Completed

(* A claim that the step is not about                                          *)
LEMMA SeeksStill ==
  ASSUME ReposTypes, RowsHaveRepos, ClaimsApart, PushesToRows, ClaimsSeek,
         [ReposNext]_repoVars, NEW n \in Claimant, Under(n), claims'[n] = claims[n]
  PROVE  Seeks(n)'
<1>1. Branch(n)' = Branch(n)
  BY BranchStays
<1>2. Seeks(n)
  BY DEF ClaimsSeek
<1>3. Completed \subseteq Completed'
  BY CompletedGrows
<1>4. \A g \in claims[n].owed : Intact(g)' => Intact(g)
  BY <1>2, IntactWasIntact DEF Seeks
<1>5. ASSUME Searching(n) PROVE Searching(n)'
  <2>1. CASE Spoiled(n)
    <3>1. PICK f \in Completed : \E k \in Branch(n) \ rows[f].commit :
             Astray(k, f) /\ k \in repos[f].head
      BY <2>1 DEF Spoiled
    <3>2. PICK k \in Branch(n) \ rows[f].commit : Astray(k, f) /\ k \in repos[f].head
      BY <3>1
    <3>3. f \in Execution /\ rows[f].state = "completed"
      BY DEF Completed
    <3>4. rows'[f] = rows[f] /\ repos[f].head \subseteq repos'[f].head
      BY <3>3, CompletedStays
    <3>5. Astray(k, f)'
      BY <3>2, <3>3, AstrayStays DEF Carried
    <3>6. Spoiled(n)'
      BY <1>1, <1>3, <3>2, <3>4, <3>5 DEF Spoiled
    <3>7. QED
      BY <3>6 DEF Searching
  <2>2. CASE Branch(n) = {} /\ \A g \in claims[n].owed : Intact(g) => g \in claims[n].todo
    BY <1>1, <1>4, <2>2 DEF Searching
  <2>3. QED
    BY <1>5, <2>1, <2>2 DEF Searching
<1>6. ASSUME SeedHolds(n) PROVE SeedHolds(n)'
  <2>1. CASE Branch(n) = {}
    BY <1>1, <1>6, <2>1 DEF SeedHolds
  <2>2. CASE Branch(n) # {}
    <3>1. PICK f \in Completed :
            /\ rows[f].commit = Branch(n)
            /\ \A g \in claims[n].owed : Intact(g) => rows[f].attempt >= rows[g].attempt
      BY <1>6, <2>2 DEF SeedHolds
    <3>2. \A g \in Completed : g \in Execution /\ rows'[g] = rows[g]
      BY CompletedStays DEF Completed
    <3>3. \A g \in claims[n].owed : Intact(g)' => rows'[f].attempt >= rows'[g].attempt
      BY <1>2, <1>4, <3>1, <3>2 DEF Seeks
    <3>4. QED
      BY <1>1, <1>3, <2>2, <3>1, <3>2, <3>3 DEF SeedHolds
  <2>3. QED
    BY <2>1, <2>2
<1>7. QED
  BY <1>1, <1>2, <1>3, <1>5, <1>6 DEF Seeks

(* The seed a claim has found                                                  *)
LEMMA FetchSeeks ==
  ASSUME ReposTypes, RowsHaveRepos, ClaimsApart, LatePushesAstray, ClaimsSeek,
         NEW m \in Claimant, Fetch(m)
  PROVE  Seeks(m)'
<1> DEFINE e == claims[m].execution
<1>1. /\ e \in Execution /\ rows[e].state = "absent"
      /\ claims[m].owed \subseteq Completed /\ claims[m].todo \subseteq Completed
      /\ Searching(m) /\ UNCHANGED rows
  BY DEF Fetch, ClaimsApart, ClaimsSeek, Seeks, Under
<1>2. PICK f \in Execution :
        /\ FirstTried(f, claims[m].todo)
        /\ repos' = IF repos[e].head \subseteq repos[f].head
                    THEN [repos EXCEPT ![e].head = repos[f].head] ELSE repos
        /\ claims' =
              IF Seeded(e, f) THEN ClaimGoes(m, "persist")
              ELSE [claims EXCEPT ![m].todo = @ \ {f}, ![m].broken = TRUE,
                                  ![m].at = "verify"]
  BY DEF Fetch
<1>3. f \in claims[m].todo /\ \A g \in claims[m].todo : rows[g].attempt <= rows[f].attempt
  BY <1>2 DEF FirstTried, Newest
<1>4. f \in Completed /\ rows[f].state = "completed" /\ f # e
  BY <1>1, <1>3 DEF Completed
<1>5. rows[f].commit \subseteq repos[f].head /\ rows[f].commit # {}
  BY <1>4 DEF RowsHaveRepos
<1>6. \A g \in Completed : repos'[g] = repos[g]
  BY <1>1, <1>2 DEF ReposTypes, Repo, Completed
<1>7. Completed' = Completed /\ \A g \in Completed : Intact(g)' <=> Intact(g)
  BY <1>1, <1>6 DEF Completed, Intact
<1>8. /\ claims'[m].execution = e /\ claims'[m].owed = claims[m].owed
      /\ claims'[m].todo \subseteq claims[m].todo
      /\ IF Seeded(e, f) THEN claims'[m].at = "persist"
         ELSE claims'[m].at = "verify" /\ claims'[m].todo = claims[m].todo \ {f}
  BY <1>2 DEF ClaimGoes, ReposTypes, AnyClaim
<1>9. Branch(m)' = repos'[e].head
  BY <1>8 DEF Branch
<1>10. ASSUME NEW k, NEW g \in Completed, Astray(k, g) PROVE Astray(k, g)'
  <2>1. \A h \in Execution : rows[h].state # "absent" => repos'[h] = repos[h]
    BY <1>1, <1>2 DEF ReposTypes, Repo
  <2>2. pushes' = pushes
    BY DEF Fetch
  <2>3. QED
    BY <1>1, <1>10, <2>1, <2>2 DEF Astray
<1>11. ASSUME Spoiled(m) PROVE ~Seeded(e, f) /\ Spoiled(m)'
  <2>1. PICK g \in Completed : \E k \in Branch(m) \ rows[g].commit :
           Astray(k, g) /\ k \in repos[g].head
    BY <1>11 DEF Spoiled
  <2>2. PICK k \in Branch(m) \ rows[g].commit : Astray(k, g) /\ k \in repos[g].head
    BY <2>1
  <2>3. k \in repos[e].head /\ k \notin rows[f].commit
    BY <1>4, <2>2 DEF Branch, Astray
  <2>4. ~Seeded(e, f)
    BY <2>3 DEF Seeded
  <2>5. k \in Branch(m)'
    <3>1. CASE repos[e].head \subseteq repos[f].head
      BY <1>1, <1>2, <1>9, <2>3, <3>1 DEF ReposTypes, Repo
    <3>2. CASE ~(repos[e].head \subseteq repos[f].head)
      BY <1>2, <1>9, <2>3, <3>2
    <3>3. QED
      BY <3>1, <3>2
  <2>6. Astray(k, g)' /\ k \in repos'[g].head /\ rows'[g] = rows[g]
    BY <1>1, <1>6, <1>10, <2>2
  <2>7. Spoiled(m)'
    BY <1>7, <2>2, <2>5, <2>6 DEF Spoiled
  <2>8. QED
    BY <2>4, <2>7
<1>12. CASE Seeded(e, f)
  <2>1. ~Spoiled(m)
    BY <1>11, <1>12
  <2>2. Branch(m) = {} /\ \A g \in claims[m].owed : Intact(g) => g \in claims[m].todo
    BY <1>1, <2>1 DEF Searching
  <2>3. repos'[e].head = repos[f].head /\ repos[f].head = rows[f].commit
    BY <1>1, <1>2, <1>12 DEF Seeded, ReposTypes, Repo
  <2>4. \A g \in claims[m].owed : Intact(g)' => rows[f].attempt >= rows[g].attempt
    BY <1>1, <1>3, <1>7, <2>2
  <2>5. SeedHolds(m)'
    BY <1>1, <1>4, <1>5, <1>7, <1>8, <1>9, <2>3, <2>4 DEF SeedHolds
  <2>6. QED
    BY <1>1, <1>7, <1>8, <1>12, <2>5 DEF Seeks
<1>13. CASE ~Seeded(e, f)
  <2>1. Searching(m)'
    <3>1. CASE Spoiled(m)
      BY <1>11, <3>1 DEF Searching
    <3>2. CASE ~Spoiled(m)
      <4>1. Branch(m) = {} /\ \A g \in claims[m].owed : Intact(g) => g \in claims[m].todo
        BY <1>1, <3>2 DEF Searching
      <4>2. repos[f].head # rows[f].commit /\ repos'[e].head = repos[f].head
        BY <1>1, <1>2, <1>13, <4>1 DEF Branch, Seeded, ReposTypes, Repo
      <4>3. PICK k \in repos[f].head \ rows[f].commit : TRUE
        BY <1>5, <4>2
      <4>4. Astray(k, f)
        BY <1>4, <4>3 DEF LatePushesAstray
      <4>5. Astray(k, f)' /\ k \in repos'[f].head /\ rows'[f] = rows[f]
        BY <1>1, <1>4, <1>6, <1>10, <4>3, <4>4
      <4>6. Spoiled(m)'
        BY <1>4, <1>7, <1>9, <4>2, <4>3, <4>5 DEF Spoiled
      <4>7. QED
        BY <4>6 DEF Searching
    <3>3. QED
      BY <3>1, <3>2
  <2>2. QED
    BY <1>1, <1>7, <1>8, <1>13, <2>1 DEF Seeks
<1>14. QED
  BY <1>12, <1>13

(* Every claim                                                                 *)
LEMMA StepClaimsSeek ==
  ASSUME SeedInv, [ReposNext]_repoVars PROVE ClaimsSeek'
<1> USE DEF SeedInv
<1> SUFFICES ASSUME NEW n \in Claimant, Under(n)' PROVE Seeks(n)'
  BY DEF ClaimsSeek
<1>1. CASE claims'[n] = claims[n]
  <2>1. Under(n)
    BY <1>1 DEF Under
  <2>2. QED
    BY <1>1, <2>1, SeeksStill
<1>2. ASSUME NEW e \in Execution, BeginClaim(n, e) PROVE Seeks(n)'
  <2>1. /\ claims'[n].at = "repository" /\ claims'[n].owed = Completed /\ claims'[n].todo = {}
        /\ rows' = rows
    BY <1>2 DEF BeginClaim, IdleClaim, ReposTypes
  <2>2. QED
    BY <2>1 DEF Seeks, Completed
<1>3. CASE MakeRepo(n)
  <2>1. claims[n].execution \in Execution /\ Seeks(n) /\ rows' = rows
    BY <1>3 DEF MakeRepo, ClaimsApart, ClaimsSeek, Under
  <2>2. /\ claims'[n].at = "lookup" /\ claims'[n].owed = claims[n].owed
        /\ claims'[n].todo = claims[n].todo
        /\ claims'[n].execution = claims[n].execution
    BY <1>3 DEF MakeRepo, ClaimGoes, ReposTypes, AnyClaim
  <2>3. Branch(n)' = {}
    BY <1>3, <2>1, <2>2 DEF MakeRepo, Branch, ReposTypes
  <2>4. QED
    BY <2>1, <2>2, <2>3 DEF Seeks, Completed
<1>4. CASE LookUp(n)
  <2>1. Seeks(n) /\ Branch(n) = {} /\ rows' = rows /\ repos' = repos
    BY <1>4 DEF LookUp, ClaimsSeek, Seeks, Under
  <2>2. /\ claims'[n].at = IF Completed = {} THEN "persist" ELSE "verify"
        /\ claims'[n].owed = claims[n].owed /\ claims'[n].todo = Completed
        /\ claims'[n].execution = claims[n].execution
    BY <1>4 DEF LookUp, ReposTypes, AnyClaim
  <2>3. Completed' = Completed /\ Branch(n)' = {}
    BY <2>1, <2>2 DEF Completed, Branch
  <2>4. CASE Completed = {}
    BY <2>1, <2>2, <2>3, <2>4 DEF Seeks, SeedHolds
  <2>5. CASE Completed # {}
    <3>1. Searching(n)'
      BY <2>1, <2>2, <2>3 DEF Seeks, Searching
    <3>2. QED
      BY <2>1, <2>2, <2>3, <2>5, <3>1 DEF Seeks
  <2>6. QED
    BY <2>4, <2>5
<1>5. CASE Verify(n)
  <2>1. Seeks(n) /\ Searching(n) /\ rows' = rows /\ repos' = repos /\ pushes' = pushes
    BY <1>5 DEF Verify, ClaimsSeek, Seeks, Under
  <2>2. PICK f \in Execution :
          claims' = IF Intact(f) THEN ClaimGoes(n, "fetch")
                    ELSE [claims EXCEPT ![n].todo = @ \ {f}, ![n].broken = TRUE]
    BY <1>5 DEF Verify
  <2>3. /\ claims'[n].at \in {"verify", "fetch"} /\ claims'[n].owed = claims[n].owed
        /\ claims'[n].execution = claims[n].execution
        /\ \/ claims'[n].todo = claims[n].todo
           \/ ~Intact(f) /\ claims'[n].todo = claims[n].todo \ {f}
    BY <1>5, <2>2 DEF Verify, ClaimGoes, ReposTypes, AnyClaim
  <2>4. /\ Completed' = Completed /\ Branch(n)' = Branch(n)
        /\ \A g \in Execution : Intact(g)' <=> Intact(g)
        /\ \A k, g : Astray(k, g)' <=> Astray(k, g)
    BY <2>1, <2>3 DEF Completed, Branch, Intact, Astray
  <2>5. Searching(n)'
    <3>1. CASE Spoiled(n)
      <4>1. Spoiled(n)'
        BY <2>1, <2>4, <3>1 DEF Spoiled
      <4>2. QED
        BY <4>1 DEF Searching
    <3>2. CASE ~Spoiled(n)
      <4>1. Branch(n) = {} /\ \A g \in claims[n].owed : Intact(g) => g \in claims[n].todo
        BY <2>1, <3>2 DEF Searching
      <4>2. claims[n].owed \subseteq Execution
        BY DEF ReposTypes, AnyClaim
      <4>3. QED
        BY <2>3, <2>4, <4>1, <4>2 DEF Searching
    <3>3. QED
      BY <3>1, <3>2
  <2>6. QED
    BY <2>1, <2>3, <2>4, <2>5 DEF Seeks
<1>6. CASE Fetch(n)
  BY <1>6, FetchSeeks
<1>7. ASSUME Persist(n) \/ ClaimFails(n) PROVE FALSE
  BY <1>7 DEF Persist, ClaimFails, Under, IdleClaim, ReposTypes
<1>8. ASSUME NEW m \in Claimant, m # n,
             \/ \E e \in Execution : BeginClaim(m, e)
             \/ MakeRepo(m) \/ LookUp(m) \/ Verify(m) \/ Fetch(m) \/ Persist(m) \/ ClaimFails(m)
      PROVE  claims'[n] = claims[n]
  BY <1>8 DEF BeginClaim, MakeRepo, LookUp, Verify, Fetch, Persist, ClaimFails, ClaimGoes, ReposTypes
<1> HIDE DEF SeedInv
<1>9. QED
  BY <1>1, <1>2, <1>3, <1>4, <1>5, <1>6, <1>7, <1>8
     DEF ReposNext, repoVars, BeginPush, LandPush, Complete, Retry, Lose, Release

(* No claims and no rows                                                       *)
LEMMA SeedInit == ReposInit => SeedInv
<1> SUFFICES ASSUME ReposInit PROVE SeedInv
  OBVIOUS
<1> USE DEF ReposInit
<1>1. ReposTypes
  <2>1. rows \in [Execution -> AnyRow]
    BY DEF AnyRow, AbsentRow, Commit
  <2>2. repos \in [Execution -> Repo]
    BY DEF Repo, Commit
  <2>3. claims \in [Claimant -> AnyClaim]
    BY DEF AnyClaim, IdleClaim
  <2>4. QED
    BY <2>1, <2>2, <2>3 DEF ReposTypes
<1>2. TopAttempt
  <2>1. \A e \in Execution : rows[e].attempt = 0
    BY DEF AbsentRow
  <2>2. {0} \union {rows[e].attempt : e \in Execution} = {0}
    BY <2>1
  <2>3. QED
    BY <2>2 DEF TopAttempt
<1>3. RowsHaveRepos
  BY DEF RowsHaveRepos, AbsentRow
<1>4. ClaimsApart /\ ClaimsSeek
  BY DEF ClaimsApart, ClaimsSeek, Under, IdleClaim
<1>5. PushesToRows /\ LatePushesAstray
  BY DEF PushesToRows, LatePushesAstray, Completed, AbsentRow
<1>6. QED
  BY <1>1, <1>2, <1>3, <1>4, <1>5 DEF SeedInv

(* The invariant holds                                                         *)
LEMMA SeedInvariant == ReposSpec => []SeedInv
<1>1. SeedInv /\ [ReposNext]_repoVars => SeedInv'
  BY StepTypes, StepTopAttempt, StepRowsHaveRepos, StepClaimsApart, StepPushesToRows,
     StepLatePushesAstray, StepClaimsSeek DEF SeedInv
<1>2. QED
  BY SeedInit, <1>1, PTL DEF ReposSpec

(* A new attempt of a task starts from a candidate that was handed in, the     *)
(* newest of those that are whole since its claim began, and from the base     *)
(* only when there was none (seed_prior_candidate, git_broker.rs).             *)
THEOREM AttemptsAlwaysContinue == ReposSpec => AttemptsContinue
<1>1. SeedInv =>
        \A m \in Claimant :
           LET e == claims[m].execution
               seed == repos[e].head
               owed == claims[m].owed
           IN claims[m].at = "persist" /\ Starts(e) =>
                 IF seed = {} THEN owed = {}
                 ELSE \E f \in Completed :
                         /\ rows[f].commit = seed
                         /\ \A g \in owed :
                               Intact(g) => rows[f].attempt >= rows[g].attempt
  BY DEF SeedInv, ClaimsSeek, Seeks, SeedHolds, Under, Branch
<1>2. QED
  BY SeedInvariant, <1>1, PTL DEF ReposSpec, AttemptsContinue
=============================================================================
