------------------------------ MODULE Enrollment -----------------------------
(* How a worker joins the host and is known again: join codes (security.rs),    *)
(* register_worker, delete_worker and require_worker (api.rs) and the start of  *)
(* the daemon (async_main of the worker's main.rs) with the files it keeps. Of  *)
(* a credential only this matters: who still has the one whose hash the host    *)
(* keeps. One request whose sender is gone may still be under way.              *)
(* Bound: MaxMishaps crashes, lost answers, failed heartbeats, lost databases.  *)
EXTENDS Naturals

CONSTANT MaxMishaps
ASSUME EnrollmentAssumption == MaxMishaps \in Nat

VARIABLES
    workerRow,   \* the row of the worker: none, there or retired
    hash,        \* who has the credential of credential_hash
    startup,     \* where the start of the daemon is
    code,        \* the join code it was started with
    idFile, serverFile, credentialFile,
    request,     \* the daemon's registration on the host, and one whose sender is gone
    stray,
    mishaps

hostSide == <<workerRow, hash>>
files == <<idFile, serverFile, credentialFile>>
enrollVars == <<hostSide, startup, code, files, request, stray, mishaps>>

Holders == {"null", "file", "answer", "nobody"}
Places == {"off", "start", "register", "joined", "beat", "rejoin", "server", "run"}

EnrollmentTypeOK ==
    /\ workerRow \in {"none", "there", "retired"} /\ hash \in Holders /\ startup \in Places
    /\ code \in {"none", "fresh", "expired"} /\ credentialFile \in {"none", "kept"}
    /\ idFile \in {"none", "kept", "torn"} /\ serverFile \in {"none", "kept", "torn"}
    /\ request \in {"none", "sent", "checked", "answered"}
    /\ stray \in {"none", "sent", "checked"} /\ mishaps \in 0 .. MaxMishaps

EnrollmentInit ==
    /\ workerRow = "none" /\ hash = "null" /\ startup = "off" /\ code = "none"
    /\ idFile = "none" /\ serverFile = "none" /\ credentialFile = "none"
    /\ request = "none" /\ stray = "none" /\ mishaps = 0

Mishap == mishaps < MaxMishaps /\ mishaps' = mishaps + 1

-----------------------------------------------------------------------------
(* The daemon's process *)

(* The daemon ends; what it asked for may still be on its way to the host *)
Ends ==
    /\ startup' = "off" /\ request' = "none"
    /\ stray' = IF request \in {"sent", "checked"} /\ stray = "none" THEN request ELSE stray

(* with: the code the operator puts into the configuration *)
StartDaemon(with) ==
    /\ startup = "off" /\ startup' = "start" /\ code' = with
    /\ UNCHANGED <<hostSide, files, request, stray, mishaps>>

CodeExpires ==
    /\ code = "fresh" /\ code' = "expired"
    /\ UNCHANGED <<hostSide, startup, files, request, stray, mishaps>>

(* What the start ends with when a file does not parse or nothing is known *)
Unusable ==
    \/ idFile = "torn" \/ serverFile = "torn"
    \/ code = "none" /\ (serverFile = "none" \/ credentialFile = "none")

StartEnds ==
    /\ startup = "start" /\ Unusable /\ Ends
    /\ idFile' = IF idFile = "none" THEN "kept" ELSE idFile
    /\ UNCHANGED <<hostSide, code, serverFile, credentialFile, mishaps>>

OpenFiles ==
    /\ startup = "start" /\ ~Unusable
    /\ idFile' = "kept" /\ startup' = IF credentialFile = "kept" THEN "beat" ELSE "register"
    /\ UNCHANGED <<hostSide, code, serverFile, credentialFile, request, stray, mishaps>>

(* heartbeat: require_worker, and the row is refreshed *)
HashOnly == hash = "file"  \* mutant: retirement is left to the hash alone
Known == workerRow = "there" /\ hash = "file"

HeartbeatTaken ==
    /\ startup = "beat" /\ Known /\ startup' = "server"
    /\ UNCHANGED <<hostSide, code, files, request, stray, mishaps>>

GivesUp == FALSE  \* mutant: a rejected credential is kept
Rejoins == code # "none"

(* Refused, or lost on the way *)
HeartbeatRefused ==
    /\ startup = "beat"
    /\ IF Known THEN Mishap ELSE UNCHANGED mishaps
    /\ IF Rejoins THEN startup' = "rejoin" /\ UNCHANGED <<request, stray>> ELSE Ends
    /\ UNCHANGED <<hostSide, code, files>>

-----------------------------------------------------------------------------
(* Registration *)

SendRegistration ==
    /\ startup \in {"register", "rejoin"} /\ request = "none" /\ request' = "sent"
    /\ UNCHANGED <<hostSide, startup, code, files, stray, mishaps>>

(* The join code has expired, or the id is retired *)
RegistrationRefused ==
    /\ request = "sent" /\ (code = "expired" \/ workerRow = "retired")
    /\ startup' = "off" /\ request' = "none"
    /\ UNCHANGED <<hostSide, code, files, stray, mishaps>>

CheckRegistration ==
    /\ request = "sent" /\ code # "expired" /\ workerRow # "retired" /\ request' = "checked"
    /\ UNCHANGED <<hostSide, startup, code, files, stray, mishaps>>

CheckStray ==
    /\ stray = "sent" /\ stray' \in {"none", "checked"}
    /\ workerRow = "retired" => stray' = "none"
    /\ UNCHANGED <<hostSide, startup, code, files, request, mishaps>>

(* The upsert: a new hash, whoever still waits for the credential. A row that   *)
(* was retired since the check stays retired.                                   *)
Upsert(holder) == workerRow' = (IF workerRow = "none" THEN "there" ELSE workerRow) /\ hash' = holder

StoreRegistration ==
    /\ request = "checked" /\ request' = "answered" /\ Upsert("answer")
    /\ UNCHANGED <<startup, code, files, stray, mishaps>>

StoreStray ==
    /\ stray = "checked" /\ stray' = "none" /\ Upsert("nobody")
    /\ UNCHANGED <<startup, code, files, request, mishaps>>

AnswerLost ==
    /\ request = "answered" /\ Mishap
    /\ startup' = "off" /\ request' = "none"
    /\ hash' = IF hash = "answer" THEN "nobody" ELSE hash
    /\ UNCHANGED <<workerRow, code, files, stray>>

PersistCredential ==
    /\ request = "answered" /\ request' = "none" /\ credentialFile' = "kept"
    /\ hash' = IF hash = "answer" THEN "file" ELSE hash
    /\ startup' = IF startup = "register" THEN "joined" ELSE "server"
    /\ UNCHANGED <<workerRow, code, idFile, serverFile, stray, mishaps>>

(* After the first registration the heartbeat is tried with the new credential *)
PersistServer ==
    /\ startup \in {"joined", "server"} /\ serverFile' = "kept"
    /\ startup' = IF startup = "joined" THEN "beat" ELSE "run"
    /\ UNCHANGED <<hostSide, code, idFile, credentialFile, request, stray, mishaps>>

(* A crash; in the middle of a write it leaves the file empty *)
CrashDaemon ==
    /\ startup # "off" /\ Mishap /\ Ends
    /\ \/ UNCHANGED files
       \/ startup = "start" /\ idFile = "none" /\ idFile' = "torn"
          /\ UNCHANGED <<serverFile, credentialFile>>
       \/ startup \in {"joined", "server"} /\ serverFile' = "torn"
          /\ UNCHANGED <<idFile, credentialFile>>
       \/ request = "answered" /\ credentialFile' = "none" /\ UNCHANGED <<idFile, serverFile>>
    /\ hash' = IF hash = "answer" \/ (hash = "file" /\ credentialFile' = "none")
               THEN "nobody" ELSE hash
    /\ UNCHANGED <<workerRow, code>>

(* A running daemon never joins again: someone restarts it *)
Restart ==
    /\ startup = "run" /\ ~Known /\ Ends
    /\ UNCHANGED <<hostSide, code, files, mishaps>>

-----------------------------------------------------------------------------
(* The host *)

RetireWorker ==
    /\ workerRow = "there" /\ workerRow' = "retired" /\ hash' = "null"
    /\ UNCHANGED <<startup, code, files, request, stray, mishaps>>

(* The database is restored or replaced *)
ForgetWorker ==
    /\ workerRow = "there" /\ Mishap /\ workerRow' = "none" /\ hash' = "null"
    /\ UNCHANGED <<startup, code, files, request, stray>>

-----------------------------------------------------------------------------
EnrollmentNext ==
    \/ \E with \in {"none", "fresh"} : StartDaemon(with)
    \/ CodeExpires \/ StartEnds \/ OpenFiles \/ HeartbeatTaken \/ HeartbeatRefused
    \/ SendRegistration \/ RegistrationRefused \/ CheckRegistration \/ CheckStray
    \/ StoreRegistration \/ StoreStray \/ AnswerLost \/ PersistCredential
    \/ PersistServer \/ CrashDaemon \/ Restart \/ RetireWorker \/ ForgetWorker

(* The host answers, and the operator starts a daemon that stopped or is unknown *)
(* with a fresh code, again and again; a start is not always slower than its     *)
(* code's ten minutes. Nothing makes a heartbeat fail or a crash happen.         *)
StartStep ==
    \/ StartEnds \/ OpenFiles \/ HeartbeatTaken \/ (~Known /\ HeartbeatRefused)
    \/ SendRegistration \/ RegistrationRefused \/ StoreRegistration
    \/ PersistCredential \/ PersistServer \/ Restart
Unexpired(A) == code = "fresh" /\ A
EnrollmentFairness ==
    /\ SF_enrollVars(StartDaemon("fresh")) /\ SF_enrollVars(Unexpired(OpenFiles))
    /\ SF_enrollVars(Unexpired(HeartbeatRefused /\ ~Known))
    /\ SF_enrollVars(Unexpired(SendRegistration)) /\ SF_enrollVars(CheckRegistration)
    /\ WF_enrollVars(StartStep)
    /\ WF_enrollVars(CheckStray \/ StoreStray)

EnrollmentSpec == EnrollmentInit /\ [][EnrollmentNext]_enrollVars /\ EnrollmentFairness

-----------------------------------------------------------------------------
(* No heartbeat of a retired worker is taken, not even when a registration that *)
(* was checked before the retirement stores a hash after it ("retired worker    *)
(* IDs cannot be re-registered", register_worker and require_worker of api.rs)  *)
RetiredStaysOut ==
    [][workerRow = "retired" => /\ workerRow' = "retired"
                          /\ ~(startup = "beat" /\ startup' = "server")]_enrollVars

(* A fresh join code always brings a worker back, unless it is retired or a     *)
(* crash has left an empty worker-id or server-url ("provide a fresh --join-code *)
(* ... for recovery", async_main of the worker)                                 *)
Torn == idFile = "torn" \/ serverFile = "torn"
FreshCodeRecovers == <>[](workerRow = "retired" \/ Torn \/ (startup = "run" /\ Known))

(* "after the worker joins once, it remembers its own credential and you can    *)
(* throw the code away" (README.md): a worker that has joined holds, or is being *)
(* sent, the credential the host knows it by                                    *)
JoinedForGood == credentialFile = "kept" /\ workerRow = "there" => hash \in {"file", "answer"}
=============================================================================
