------------------------------- MODULE Projects ------------------------------
(* A project of the host: its row and Git credential (create_project,           *)
(* update_project, delete_project, probe_project_git of api.rs), the key the    *)
(* credentials are sealed with (git_credentials.rs), the probe of the upstream  *)
(* (git_broker.rs) and the calls that read the row and act on it later: the     *)
(* creation of a task. Every handler reads outside the transaction              *)
(* that writes, and is dropped where it waits when the request times out.       *)
(* Bounds: MaxRevisions credentials in all; MaxStarts starts of the host.       *)
EXTENDS Naturals, Sequences

CONSTANTS
    Updater,     \* update requests that may be in flight together
    SshKey, Token, User, Nothing,
    Job,         \* the tasks of the project
    MaxRevisions, MaxStarts

ASSUME ProjectsAssumption ==
    /\ Nothing \notin SshKey \cup Token \cup User
    /\ SshKey \cap Token = {} /\ MaxRevisions \in Nat /\ MaxStarts \in Nat

VARIABLES
    project,   \* the row, or Gone
    named,     \* the secret each credential revision was made for
    hostKey,   \* the key of the running host, 0 while it is down
    keyFile,   \* credential.key; an empty file has no key
    starts,
    update,    \* update[u]: the row the request is about to write
    probe,     \* the probe in flight
    deletion, creation,  \* whether the request has passed its check
    jobs,      \* the tasks there are
    held       \* the tasks with a lease that can be used

host == <<hostKey, keyFile, starts>>
work == <<jobs, held>>
projectVars == <<project, named, host, update, probe, deletion, creation, work>>

Gone == [enabled |-> FALSE, mode |-> "gone", user |-> Nothing, secret |-> Nothing,
         rev |-> 0, sealed |-> 0]
HostAuth == [mode |-> "host", user |-> Nothing, secret |-> Nothing]
Idle == [at |-> "idle", row |-> Gone, disabling |-> FALSE]
NoFile == [there |-> FALSE, key |-> 0]
NoProbe == [at |-> "idle", secret |-> Nothing, rev |-> 0]

(* What an operator may send: an empty secret keeps the one there is *)
Given == {HostAuth} \cup [mode : {"ssh_key"}, user : {Nothing}, secret : SshKey \cup {Nothing}]
         \cup [mode : {"https_basic"}, user : User \cup {Nothing}, secret : Token \cup {Nothing}]

ProjectsInit ==
    /\ project = Gone /\ named = <<>> /\ hostKey = 0 /\ keyFile = NoFile /\ starts = 0
    /\ update = [u \in Updater |-> Idle] /\ probe = NoProbe
    /\ deletion = FALSE /\ creation = FALSE
    /\ jobs = {} /\ held = {}

-----------------------------------------------------------------------------
(* The credential *)

Exists == project.mode # "gone"
Up == hostKey # 0

Sealed(row, in) ==
    [row EXCEPT !.mode = in.mode, !.user = in.user, !.secret = in.secret, !.sealed = hostKey,
                !.rev = Len(named) + 1]
Plain(row) == [row EXCEPT !.mode = "host", !.user = Nothing, !.secret = Nothing,
                          !.rev = 0, !.sealed = 0]

KeepsAny(row, in) ==  \* mutant: any secret will do for the new mode
    in.secret = Nothing /\ row.secret # Nothing
Keeps(row, in) == in.secret = Nothing /\ row.mode = in.mode /\ row.secret # Nothing

UserOf(row, in) ==
    IF in.user = Nothing /\ in.mode = row.mode THEN row.user ELSE in.user

(* The rows an update may write for this input; none when it is refused *)
Resolved(row, in) ==
    LET user == UserOf(row, in)
        whole == in.mode = "https_basic" => user # Nothing
    IN  IF in.mode = "host" THEN {Plain(row)}
        ELSE {r \in {[row EXCEPT !.mode = in.mode, !.user = user]} : whole /\ Keeps(row, in)}
             \cup {r \in {Sealed(row, [in EXCEPT !.user = user])} : whole /\ in.secret # Nothing}

Issue(row) == named' = IF row.rev > Len(named) THEN Append(named, row.secret) ELSE named

-----------------------------------------------------------------------------
(* The operator's requests *)

CreateProject(in) ==
    /\ Up /\ ~Exists /\ Len(named) < MaxRevisions
    /\ \E row \in Resolved([Gone EXCEPT !.enabled = TRUE], in) :
          project' = row /\ Issue(row)
    /\ UNCHANGED <<host, update, probe, deletion, creation, work>>

(* The row is read and the credential resolved before the transaction *)
UpdateReads(u, in, enabled) ==
    /\ Up /\ Exists /\ update[u] = Idle
    /\ in.secret = Nothing \/ Len(named) < MaxRevisions
    /\ \E row \in Resolved(project, in) :
          /\ update' = [update EXCEPT ![u] =
               [at |-> "write", row |-> [row EXCEPT !.enabled = enabled],
                disabling |-> project.enabled /\ ~enabled]]
          /\ Issue(row)
    /\ UNCHANGED <<project, host, probe, deletion, creation, work>>

(* Every column of the row; a row deleted meanwhile is an error *)
UpdateWrites(u) ==
    /\ update[u].at = "write" /\ update' = [update EXCEPT ![u] = Idle]
    /\ project' = IF Exists THEN update[u].row ELSE project
    /\ held' = IF Exists /\ update[u].disabling THEN {} ELSE held
    /\ UNCHANGED <<named, host, probe, deletion, creation, jobs>>

DeleteChecks ==
    /\ Up /\ Exists /\ ~deletion /\ jobs = {} /\ deletion' = TRUE
    /\ UNCHANGED <<project, named, host, update, probe, creation, work>>

(* ON DELETE CASCADE takes what refers to the row along *)
DeleteProject ==
    /\ deletion /\ deletion' = FALSE
    /\ project' = Gone /\ jobs' = {} /\ held' = {}
    /\ UNCHANGED <<named, host, update, probe, creation>>

CreateChecks ==
    /\ Up /\ project.enabled /\ ~creation /\ creation' = TRUE
    /\ UNCHANGED <<project, named, host, update, probe, deletion, work>>

(* The foreign key refuses a task of a project that is gone *)
CreateJob(j) ==
    /\ creation /\ j \notin jobs /\ creation' = FALSE
    /\ jobs' = IF Exists THEN jobs \cup {j} ELSE jobs
    /\ UNCHANGED <<project, named, host, update, probe, deletion, held>>

(* Of an enabled project; WorkLifecycle has the steps of a claim *)
ClaimJob(j) ==
    /\ Up /\ project.enabled /\ j \in jobs \ held /\ held' = held \cup {j}
    /\ UNCHANGED <<project, named, host, update, probe, deletion, creation, jobs>>

-----------------------------------------------------------------------------
(* The probe: a fetch and a dry-run push with the credential it read *)

RevisionNow == project.rev  \* mutant: the revision is read when the probe answers
RevisionRead == probe.rev

ProbeReads ==
    /\ Up /\ Exists /\ probe.at = "idle"
    /\ project.secret = Nothing \/ project.sealed = hostKey
    /\ probe' = [NoProbe EXCEPT !.at = "fetch", !.secret = project.secret, !.rev = project.rev]
    /\ UNCHANGED <<project, named, host, update, deletion, creation, work>>

(* A command that fails or takes longer than its 12 seconds is the last; how *)
(* far it came is what the answer says the host can do                       *)
ProbeCommand(works) ==
    /\ probe.at \in {"fetch", "push"}
    /\ probe' = [probe EXCEPT !.at = IF works /\ @ = "fetch" THEN "push" ELSE "clean"]
    /\ UNCHANGED <<project, named, host, update, deletion, creation, work>>

ProbeAnswers ==
    /\ probe.at = "clean"
    /\ probe' = [probe EXCEPT !.at = "answer", !.rev = RevisionRead]
    /\ UNCHANGED <<project, named, host, update, deletion, creation, work>>

ProbeSeen ==
    /\ probe.at = "answer" /\ probe' = NoProbe
    /\ UNCHANGED <<project, named, host, update, deletion, creation, work>>

-----------------------------------------------------------------------------
(* Requests that are dropped, and the host's process *)

Dropped(u, p, d, c) ==  \* these requests end where they wait
    /\ update' = [v \in Updater |-> IF v \in u THEN Idle ELSE update[v]]
    /\ probe' = IF p THEN NoProbe ELSE probe
    /\ deletion' = (deletion /\ ~d) /\ creation' = (creation /\ ~c)

(* Thirty seconds have passed *)
RequestTimesOut ==
    /\ \/ \E u \in Updater : update[u] # Idle /\ Dropped({u}, FALSE, FALSE, FALSE)
       \/ probe.at # "idle" /\ Dropped({}, TRUE, FALSE, FALSE)
       \/ deletion /\ Dropped({}, FALSE, TRUE, FALSE)
       \/ creation /\ Dropped({}, FALSE, FALSE, TRUE)
    /\ UNCHANGED <<project, named, host, work>>

NoKeyFound == NoFile  \* mutant: every start makes a key
KeyFound == keyFile

(* The key of the file, or a new one that is written before it is used; an *)
(* empty file ends the start, a crash before the key is written leaves one  *)
HostStarts(torn) ==
    /\ ~Up /\ starts < MaxStarts /\ starts' = starts + 1
    /\ IF KeyFound.there
       THEN KeyFound.key # 0 /\ ~torn /\ hostKey' = KeyFound.key /\ UNCHANGED keyFile
       ELSE /\ keyFile' = [there |-> TRUE, key |-> IF torn THEN 0 ELSE starts + 1]
            /\ hostKey' = IF torn THEN 0 ELSE starts + 1
    /\ UNCHANGED <<project, named, update, probe, deletion, creation, work>>

HostStops ==
    /\ Up /\ hostKey' = 0 /\ Dropped(Updater, TRUE, TRUE, TRUE)
    /\ UNCHANGED <<project, named, keyFile, starts, work>>

-----------------------------------------------------------------------------
ProjectsNext ==
    \/ \E in \in Given : CreateProject(in)
    \/ \E u \in Updater :
          \/ \E in \in Given, enabled \in BOOLEAN : UpdateReads(u, in, enabled)
          \/ UpdateWrites(u)
    \/ DeleteChecks \/ DeleteProject \/ CreateChecks
    \/ \E j \in Job : CreateJob(j) \/ ClaimJob(j)
    \/ ProbeReads \/ ProbeAnswers \/ ProbeSeen
    \/ \E works \in BOOLEAN : ProbeCommand(works)
    \/ RequestTimesOut \/ HostStops
    \/ \E torn \in BOOLEAN : HostStarts(torn)

ProjectsSpec == ProjectsInit /\ [][ProjectsNext]_projectVars

-----------------------------------------------------------------------------
WellFormed(row) ==
    CASE row.mode = "ssh_key" -> row.user = Nothing /\ row.secret \in SshKey
      [] row.mode = "https_basic" -> row.user \in User /\ row.secret \in Token
      [] OTHER -> row.user = Nothing /\ row.secret = Nothing

(* However updates overlap, the stored credential is one an operator entered   *)
(* for its mode, its revision names that secret, and the key of every later    *)
(* start of the host still opens it (resolve_updated_git_auth of api.rs,       *)
(* load_or_create_master_key of git_credentials.rs)                            *)
CredentialIsWhole ==
    /\ WellFormed(project)
    /\ project.secret # Nothing =>
         /\ project.rev \in 1 .. Len(named) /\ named[project.rev] = project.secret
         /\ Up => project.sealed = hostKey

(* A probe reports on the credential its revision names, whatever was stored   *)
(* while it ran ("reports the credential revision used for the probe",         *)
(* ARCHITECTURE.md, on probe_project_git of api.rs)                            *)
ProbeNamesItsCredential ==
    probe.at = "answer" =>
        probe.secret = IF probe.rev = 0 THEN Nothing ELSE named[probe.rev]

(* What is stored, and what a probe of it says, hold together however updates, *)
(* probes, restarts and dropped requests overlap                               *)
CredentialsAgree == CredentialIsWhole /\ ProbeNamesItsCredential

(* "project has task history; disable it instead of deleting it": no task that  *)
(* was created is ever lost (delete_project of api.rs)                          *)
TaskHistorySurvives == [][jobs \subseteq jobs']_projectVars
=============================================================================
