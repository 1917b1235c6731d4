--------------------------- MODULE SessionRecords ---------------------------
(* The files of a logical agent session (session.rs): for one task and role a  *)
(* record per backend, and what earlier versions wrote, a record of its own    *)
(* name for OpenCode and one for any backend. acquire_with and bind_with move  *)
(* such a record to its new name, release_with removes everything. The session *)
(* lock keeps these calls apart (WorkerDaemon); an error or a crash may end    *)
(* each of them between two of its writes.                                     *)
(* Bound: MaxBinds ids of backend sessions.                                    *)
EXTENDS Naturals, Sequences

CONSTANT MaxBinds

ASSUME RecordsAssumption == MaxBinds \in Nat \ {0}

VARIABLES
    file,   \* the record in each place
    dirs,   \* the data directories that exist
    call,   \* the call that holds the lock
    binds,  \* ids given so far
    due,    \* for each backend the record a run is to find (history)
    merged  \* a clean-up of the task has begun, and no run is owed anything (history)

recordVars == <<file, dirs, call, binds, due, merged>>

Backend == {"pi", "opencode"}
Scoped == {"pi", "opencode", "sanitized"}  \* the places in scoped_dir
Place == Scoped \cup {"legacy"}
Dir == {"task", "task.opencode"}

Unbound == 0
PiId == MaxBinds + 1  \* the id Pi's sessions had from the task
Session == [backend : Backend, id : 0 .. PiId, dir : Dir]
NoRecord == [backend |-> "none", id |-> Unbound, dir |-> "none"]

OldestFirst(b) ==  \* mutant: the record of the earliest version wins
    IF b = "pi" THEN <<"legacy", "pi">> ELSE <<"legacy", "sanitized", "opencode">>

(* Where a record of a backend may be, in the order it is looked for *)
Candidates(b) ==
    IF b = "pi" THEN <<"pi", "legacy">> ELSE <<"opencode", "sanitized", "legacy">>

Found(b) == {i \in 1 .. Len(Candidates(b)) : file[Candidates(b)[i]].backend = b}
Source(b) == Candidates(b)[CHOOSE i \in Found(b) : \A j \in Found(b) : i <= j]
Record(b) == IF Found(b) = {} THEN NoRecord ELSE file[Source(b)]

LegacyId(b) == IF b = "pi" THEN PiId ELSE Unbound
NewRecord(b) ==
    [backend |-> b, id |-> LegacyId(b), dir |-> IF b = "pi" THEN "task" ELSE "task.opencode"]

NoCall == [kind |-> "none", backend |-> "none", step |-> "none", source |-> "none",
           failed |-> FALSE]

RecordsTypeOK ==
    /\ file \in [Place -> Session \cup {NoRecord}]
    /\ dirs \subseteq Dir
    /\ call.step \in {"none", "write", "unlink", "dirs", "records", "legacy", "end"}
    /\ binds \in 0 .. MaxBinds
    /\ due \in [Backend -> Session \cup {NoRecord}] /\ merged \in BOOLEAN

(* A new task, or what an earlier version left: its data is in one directory *)
RecordsInit ==
    /\ \E old, oldest \in {NoRecord}
            \cup [backend : Backend, id : {Unbound, 1}, dir : {"task"}] :
          /\ old.backend # "pi"
          /\ file = [p \in Place |-> CASE p = "legacy" -> oldest
                                       [] p = "sanitized" -> old
                                       [] OTHER -> NoRecord]
    /\ dirs = {file[p].dir : p \in Place} \ {"none"}
    /\ call = NoCall /\ binds = 1
    /\ due = [b \in Backend |-> Record(b)] /\ merged = FALSE

-----------------------------------------------------------------------------
(* acquire_with and bind_with *)

Acquire(b) ==
    /\ call = NoCall
    /\ call' = [NoCall EXCEPT !.kind = "acquire", !.backend = b, !.step = "write"]
    /\ UNCHANGED <<file, dirs, binds, due, merged>>

Bind(b) ==
    /\ call = NoCall /\ binds < MaxBinds
    /\ binds' = binds + 1
    /\ call' = [NoCall EXCEPT !.kind = "bind", !.backend = b, !.step = "write"]
    /\ UNCHANGED <<file, dirs, due, merged>>

(* What is persisted: a bound id is never replaced by the one Pi used to have *)
Updated(b) ==
    LET known == IF Record(b) = NoRecord THEN NewRecord(b) ELSE Record(b)
    IN  IF call.kind = "bind" THEN [known EXCEPT !.id = binds]
        ELSE IF known.id = Unbound THEN [known EXCEPT !.id = LegacyId(b)] ELSE known

Owed(b, new) ==
    IF due[b] = NoRecord THEN new
    ELSE IF call.kind = "bind" THEN [due[b] EXCEPT !.id = binds]
    ELSE [due[b] EXCEPT !.id = IF @ = Unbound THEN LegacyId(b) ELSE @]

(* The record is written under its name as a whole (temporary file and rename) *)
(* before the file it was adopted from goes                                     *)
WriteRecord ==
    /\ call.step = "write"
    /\ LET b == call.backend
           adopted == Found(b) # {} /\ Source(b) # b
       IN  /\ file' = [file EXCEPT ![b] = Updated(b)]
           /\ dirs' = IF file[b].backend = b THEN dirs ELSE dirs \cup {Updated(b).dir}
           /\ due' = IF merged THEN due ELSE [due EXCEPT ![b] = Owed(b, Updated(b))]
           /\ call' = IF adopted
                      THEN [call EXCEPT !.step = "unlink", !.source = Source(b)]
                      ELSE NoCall
    /\ UNCHANGED <<binds, merged>>

Unlink ==
    /\ call.step = "unlink" /\ call' = NoCall
    /\ file' = [file EXCEPT ![call.source] = NoRecord]
    /\ UNCHANGED <<dirs, binds, due, merged>>

-----------------------------------------------------------------------------
(* release_with: what cannot be removed makes it fail, the rest is removed *)

BeginRelease ==
    /\ call = NoCall
    /\ call' = [NoCall EXCEPT !.kind = "release", !.step = "dirs"]
    /\ merged' = TRUE /\ due' = [b \in Backend |-> NoRecord]
    /\ UNCHANGED <<file, dirs, binds>>

GoOn(step, fails) ==
    call' = [call EXCEPT !.step = step, !.failed = @ \/ fails]

DataDirs == dirs  \* those of the records, and all that bear the task's id

RemoveDirs(kept) ==
    /\ call.step = "dirs" /\ kept \subseteq DataDirs \cap dirs
    /\ dirs' = (dirs \ DataDirs) \cup kept
    /\ GoOn("records", kept # {})
    /\ UNCHANGED <<file, binds, due, merged>>

RemoveRecords(kept) ==
    /\ call.step = "records" /\ kept \subseteq {p \in Scoped : file[p] # NoRecord}
    /\ file' = [p \in Place |-> IF p \in kept \cup {"legacy"} THEN file[p] ELSE NoRecord]
    /\ GoOn("legacy", kept # {})
    /\ UNCHANGED <<dirs, binds, due, merged>>

RemoveLegacy(fails) ==
    /\ call.step = "legacy"
    /\ fails => file["legacy"] # NoRecord
    /\ file' = IF fails THEN file ELSE [file EXCEPT !["legacy"] = NoRecord]
    /\ GoOn("end", fails)
    /\ UNCHANGED <<dirs, binds, due, merged>>

EndRelease ==
    /\ call.step = "end" /\ call' = NoCall
    /\ UNCHANGED <<file, dirs, binds, due, merged>>

(* An error, or the end of the process *)
Stop ==
    /\ call # NoCall /\ call' = NoCall
    /\ UNCHANGED <<file, dirs, binds, due, merged>>

RecordsNext ==
    \/ \E b \in Backend : Acquire(b) \/ Bind(b)
    \/ WriteRecord \/ Unlink \/ BeginRelease
    \/ \E kept \in SUBSET Dir : RemoveDirs(kept)
    \/ \E kept \in SUBSET Scoped : RemoveRecords(kept)
    \/ \E fails \in BOOLEAN : RemoveLegacy(fails)
    \/ EndRelease \/ Stop

RecordsSpec == RecordsInit /\ [][RecordsNext]_recordVars

-----------------------------------------------------------------------------
(* A run finds the session that was last bound for its backend, with its data, *)
(* whatever version wrote it, whichever backends ran in between and wherever   *)
(* an earlier call stopped (acquire_with, bind_with, persist_atomic)           *)
BindingsAreFound ==
    \A b \in Backend : due[b] # NoRecord => Record(b) = due[b] /\ due[b].dir \in dirs

(* "removal and enumeration failures are propagated so cleanup is never        *)
(* acknowledged while data remains" (release_with, session.rs:280)             *)
CleanupIsWhole ==
    call.step = "end" /\ ~call.failed =>
        dirs = {} /\ \A p \in Place : file[p] = NoRecord

(* Nothing of a session is lost before its clean-up, nothing is left behind it *)
SessionFilesHold == BindingsAreFound /\ CleanupIsWhole
=============================================================================
