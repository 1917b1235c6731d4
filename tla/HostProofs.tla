----------------------------- MODULE HostProofs -----------------------------
(* Proofs about what the host keeps and shows beside the life cycle of tasks:  *)
(* the waiting diagnostics of the board, for any fleet and any tasks; the      *)
(* credentials of a project, for any number of overlapping requests; and the   *)
(* history and reports of the Insights page, for any tasks, rows and days.     *)
EXTENDS Scheduling, Projects, Insights, FiniteSetTheorems, SequenceTheorems, TLAPS

-----------------------------------------------------------------------------
(* The waiting diagnostics *)

(* Whoever the board names as a reason, a claim made now decides by the same   *)
(* predicates: a claim takes a queued task only when every earlier answer of   *)
(* the diagnostics is out.                                                     *)
LEMMA QueuedTakers ==
  ASSUME NEW t \in Task, task[t].state = "queued", NEW w \in Worker, Passes(w, t)
  PROVE  /\ DepsDone(t) /\ Free(w) /\ w \in Live("worker") /\ w \in Scope /\ t \in Fits[w]
         /\ ready[w]
         /\ task[t].sticky # None /\ StickyActive(task[t].sticky, t) => w = task[t].sticky
  BY DEF Passes, Takes, KeptFor, Matches, Live

(* What a worker that would take a review has in common with every other       *)
LEMMA ReviewTakers ==
  ASSUME NEW t \in Task, task[t].state = "review", NEW w \in Worker, Passes(w, t)
  PROVE  /\ Free(w) /\ w \in Live("reviewer") /\ w \in Scope /\ w # task[t].by
         /\ ready[w] /\ ~task[t].leased
         /\ task[t].reviewer # None /\ Reserved(task[t].reviewer, t) => w = task[t].reviewer
  BY DEF Passes, Reviewable, KeptFor, Live

(* A worker the diagnostics count on would take the task.                      *)
LEMMA QueuedAwaiting ==
  ASSUME NEW t \in Task, task[t].state = "queued", QueuedReason(t) = "awaiting_claim"
  PROVE  \E w \in Worker : Passes(w, t)
<1>1. /\ DepsDone(t) /\ ~(task[t].sticky # None /\ StickyActive(task[t].sticky, t))
      /\ ~ \A w \in {v \in {u \in Live("worker") : u \in Scope /\ t \in Fits[u]} : ready[v]} :
            ~Free(w)
  BY DEF QueuedReason
<1>2. PICK w \in Worker : /\ w \in Live("worker") /\ w \in Scope /\ t \in Fits[w]
                          /\ ready[w] /\ Free(w)
  BY <1>1 DEF Live
<1> QED
  BY <1>1, <1>2 DEF Passes, Takes, KeptFor, Matches, Live

(* Where the board says that a review awaits its claim, somebody would take    *)
(* it                                                                          *)
LEMMA ReviewAwaiting ==
  ASSUME NEW t \in Task, task[t].state = "review", ReviewReason(t) = "awaiting_claim"
  PROVE  \E w \in Worker : Passes(w, t)
<1>1. /\ ~(task[t].reviewer # None /\ Reserved(task[t].reviewer, t))
      /\ ~task[t].leased
      /\ ~ \A w \in {v \in {u \in Live("reviewer") : u \in Scope /\ u # task[t].by} : ready[v]} :
            ~Free(w)
  BY DEF ReviewReason
<1>2. PICK w \in Worker : /\ w \in Live("reviewer") /\ w \in Scope /\ w # task[t].by
                          /\ ready[w] /\ Free(w)
  BY <1>1 DEF Live
<1> QED
  BY <1>1, <1>2 DEF Passes, Reviewable, KeptFor, Live

(* The board's reason of a queued task, against the checks of the claim        *)
LEMMA QueuedAnswers ==
  ASSUME NEW t \in Task, task[t].state = "queued"
  PROVE  LET takers == {w \in Worker : Passes(w, t)}
         IN  CASE Reason(t) = "awaiting_claim" -> takers # {}
               [] Reason(t) = "sticky_reserved" -> takers \subseteq {task[t].sticky}
               [] Reason(t) = "reviewer_reserved" -> takers \subseteq {task[t].reviewer}
               [] Reason(t) = "review_failure_limit" -> Exhausted(t)
               [] OTHER -> takers = {}
<1> DEFINE takers == {w \in Worker : Passes(w, t)}
<1>1. Reason(t) = QueuedReason(t)
  BY DEF Reason
<1>2. CASE QueuedReason(t) = "awaiting_claim"
  BY <1>1, <1>2, QueuedAwaiting
<1>3. CASE QueuedReason(t) = "sticky_reserved"
  <2>1. task[t].sticky # None /\ StickyActive(task[t].sticky, t)
    BY <1>3 DEF QueuedReason
  <2>2. takers \subseteq {task[t].sticky}
    BY <2>1, QueuedTakers
  <2> QED
    BY <1>1, <1>3, <2>2
<1>4. CASE QueuedReason(t) \notin {"awaiting_claim", "sticky_reserved"}
  <2>1. takers = {}
    <3> SUFFICES ASSUME NEW w \in Worker, Passes(w, t) PROVE FALSE
      OBVIOUS
    <3>1. /\ DepsDone(t) /\ Free(w) /\ w \in Live("worker") /\ w \in Scope /\ t \in Fits[w]
          /\ ready[w]
      BY QueuedTakers
    <3>2. w \in {v \in {u \in Live("worker") : u \in Scope /\ t \in Fits[u]} : ready[v]}
      BY <3>1
    <3> QED
      BY <3>1, <3>2, <1>4 DEF QueuedReason
  <2>2. QueuedReason(t) \notin {"reviewer_reserved", "review_failure_limit"}
    BY DEF QueuedReason
  <2> QED
    BY <1>1, <1>4, <2>1, <2>2
<1> QED
  BY <1>2, <1>3, <1>4

(* The same of a task in review                                                *)
LEMMA ReviewAnswers ==
  ASSUME NEW t \in Task, task[t].state = "review"
  PROVE  LET takers == {w \in Worker : Passes(w, t)}
         IN  CASE Reason(t) = "awaiting_claim" -> takers # {}
               [] Reason(t) = "sticky_reserved" -> takers \subseteq {task[t].sticky}
               [] Reason(t) = "reviewer_reserved" -> takers \subseteq {task[t].reviewer}
               [] Reason(t) = "review_failure_limit" -> Exhausted(t)
               [] OTHER -> takers = {}
<1> DEFINE takers == {w \in Worker : Passes(w, t)}
<1>1. Reason(t) = ReviewReason(t)
  BY DEF Reason
<1>2. CASE ReviewReason(t) = "awaiting_claim"
  BY <1>1, <1>2, ReviewAwaiting
<1>3. CASE ReviewReason(t) = "reviewer_reserved"
  <2>1. task[t].reviewer # None /\ Reserved(task[t].reviewer, t)
    BY <1>3 DEF ReviewReason
  <2>2. takers \subseteq {task[t].reviewer}
    BY <2>1, ReviewTakers
  <2> QED
    BY <1>1, <1>3, <2>2
<1>4. CASE ReviewReason(t) = "review_failure_limit"
  <2>1. Exhausted(t)
    BY <1>4 DEF ReviewReason
  <2> QED
    BY <1>1, <1>4, <2>1
<1>5. CASE ReviewReason(t) \notin {"awaiting_claim", "reviewer_reserved", "review_failure_limit"}
  <2>1. takers = {}
    <3> SUFFICES ASSUME NEW w \in Worker, Passes(w, t) PROVE FALSE
      OBVIOUS
    <3>1. /\ Free(w) /\ w \in Live("reviewer") /\ w \in Scope /\ w # task[t].by
          /\ ready[w] /\ ~task[t].leased
      BY ReviewTakers
    <3>2. w \in {v \in {u \in Live("reviewer") : u \in Scope /\ u # task[t].by} : ready[v]}
      BY <3>1
    <3> QED
      BY <3>1, <3>2, <1>5 DEF ReviewReason
  <2>2. ReviewReason(t) # "sticky_reserved"
    BY DEF ReviewReason
  <2> QED
    BY <1>1, <1>5, <2>1, <2>2
<1> QED
  BY <1>2, <1>3, <1>4, <1>5

(* The board tells the truth about every waiting task, for any number of        *)
(* workers and tasks (waiting_info and the claims of api.rs). It follows from   *)
(* the predicates the two share, so it holds of every state there could be.     *)
THEOREM BoardTellsTheTruth == SchedSpec => []DiagnosticsAgree
<1>1. DiagnosticsAgree
  <2> SUFFICES ASSUME NEW t \in Waiting
               PROVE  LET takers == {w \in Worker : Passes(w, t)}
                      IN  CASE Reason(t) = "awaiting_claim" -> takers # {}
                            [] Reason(t) = "sticky_reserved" -> takers \subseteq {task[t].sticky}
                            [] Reason(t) = "reviewer_reserved" -> takers \subseteq {task[t].reviewer}
                            [] Reason(t) = "review_failure_limit" -> Exhausted(t)
                            [] OTHER -> takers = {}
    BY DEF DiagnosticsAgree
  <2>1. t \in Task /\ task[t].state \in {"queued", "review"}
    BY DEF Waiting, In
  <2> QED
    BY <2>1, QueuedAnswers, ReviewAnswers
<1> QED
  BY <1>1, PTL

-----------------------------------------------------------------------------
(* The credentials of a project                                                *)

Secrets == SshKey \cup Token
ProjectRows ==
    [enabled : BOOLEAN, mode : {"gone", "host", "ssh_key", "https_basic"},
     user : User \cup {Nothing}, secret : Secrets \cup {Nothing}, rev : Nat, sealed : Nat]
Updates == [at : {"idle", "write"}, row : ProjectRows, disabling : BOOLEAN]
Probes == [at : {"idle", "fetch", "push", "clean", "answer"},
           secret : Secrets \cup {Nothing}, rev : Nat]

CredentialTypes ==
    /\ project \in ProjectRows /\ named \in Seq(Secrets) /\ hostKey \in Nat /\ starts \in Nat
    /\ keyFile \in [there : BOOLEAN, key : Nat]
    /\ update \in [Updater -> Updates] /\ probe \in Probes

(* A row is whole under these revisions and this key file: its credential is   *)
(* one of its mode, its revision names it, and the key in the file opens it.   *)
WholeUnder(row, names, key) ==
    /\ WellFormed(row)
    /\ IF row.secret = Nothing THEN row.rev = 0
       ELSE /\ row.rev \in 1 .. Len(names) /\ names[row.rev] = row.secret
            /\ key.there /\ row.sealed = key.key

(* The running host has the key of the file.                                   *)
KeyIsTheFiles == Up => keyFile.there /\ hostKey = keyFile.key

(* The stored row is whole, and so is every row an update in flight may write, *)
(* however old the row it was made of.                                         *)
RowsAreWhole ==
    /\ WholeUnder(project, named, keyFile)
    /\ \A u \in Updater : WholeUnder(update[u].row, named, keyFile)

(* What a probe has read it keeps, and its revision names it from then on.     *)
ProbeIsNamed ==
    /\ probe.rev <= Len(named)
    /\ probe.secret = IF probe.rev = 0 THEN Nothing ELSE named[probe.rev]

CredentialInvariant == CredentialTypes /\ KeyIsTheFiles /\ RowsAreWhole /\ ProbeIsNamed

(* Revisions are only ever added, and a key that is in the file stays there:   *)
(* a row that is whole stays so.                                               *)
Grows(names, later) == later = names \/ \E s \in Secrets : later = Append(names, s)

(* A sequence of secrets that grows keeps those it has                         *)
LEMMA GrowsKeeps ==
  ASSUME NEW names \in Seq(Secrets), NEW later, Grows(names, later)
  PROVE  /\ later \in Seq(Secrets) /\ Len(names) <= Len(later)
         /\ \A i \in 1 .. Len(names) : later[i] = names[i]
  BY DEF Grows

(* A row stays whole while secrets are added and the key is not replaced       *)
LEMMA WholeStays ==
  ASSUME NEW row \in ProjectRows, NEW names \in Seq(Secrets), NEW later, Grows(names, later),
         NEW key, NEW keyLater, key.there => keyLater = key,
         WholeUnder(row, names, key)
  PROVE  WholeUnder(row, later, keyLater)
  BY GrowsKeeps DEF WholeUnder, ProjectRows

(* What an update writes of a whole row is whole, once its revision is issued. *)
LEMMA ResolvedTypes ==
  ASSUME CredentialTypes, NEW base \in ProjectRows, NEW in \in Given, NEW row \in Resolved(base, in)
  PROVE  row \in ProjectRows
<1>1. in.mode \in {"host", "ssh_key", "https_basic"} /\ in.user \in User \cup {Nothing}
      /\ in.secret \in Secrets \cup {Nothing}
  BY DEF Given, HostAuth, Secrets
<1>2. UserOf(base, in) \in User \cup {Nothing}
  BY <1>1 DEF UserOf, ProjectRows
<1>3. hostKey \in Nat /\ Len(named) + 1 \in Nat
  BY DEF CredentialTypes
<1> DEFINE user == UserOf(base, in)
<1>4. CASE in.mode = "host"
  <2>1. row = [base EXCEPT !.mode = "host", !.user = Nothing, !.secret = Nothing,
                           !.rev = 0, !.sealed = 0]
    BY <1>4 DEF Resolved, Plain
  <2> QED
    BY <2>1 DEF ProjectRows
<1>5. CASE in.mode # "host"
  <2>1. \/ row = [base EXCEPT !.mode = in.mode, !.user = user]
        \/ row = [base EXCEPT !.mode = in.mode, !.user = user, !.secret = in.secret,
                              !.sealed = hostKey, !.rev = Len(named) + 1]
    BY <1>5 DEF Resolved, Sealed
  <2> HIDE DEF user
  <2> QED
    BY <1>1, <1>2, <1>3, <1>5, <2>1 DEF ProjectRows, user
<1> QED
  BY <1>4, <1>5

Issued(row) == IF row.rev > Len(named) THEN Append(named, row.secret) ELSE named

(* What create_project and update_project make of a whole row is whole         *)
LEMMA ResolvedIsWhole ==
  ASSUME CredentialTypes, KeyIsTheFiles, Up,
         NEW base \in ProjectRows, WholeUnder(base, named, keyFile),
         NEW in \in Given, NEW row \in Resolved(base, in)
  PROVE  WholeUnder(row, Issued(row), keyFile) /\ Grows(named, Issued(row))
<1> USE ProjectsAssumption
<1> DEFINE user == UserOf(base, in)
<1>1. named \in Seq(Secrets) /\ Len(named) \in Nat
  BY DEF CredentialTypes
<1>2. CASE in.mode = "host"
  <2>1. row = [base EXCEPT !.mode = "host", !.user = Nothing, !.secret = Nothing,
                           !.rev = 0, !.sealed = 0]
    BY <1>2 DEF Resolved, Plain
  <2>2. /\ row.mode = "host" /\ row.user = Nothing /\ row.secret = Nothing /\ row.rev = 0
    BY <2>1 DEF ProjectRows
  <2>3. Issued(row) = named
    BY <1>1, <2>2 DEF Issued
  <2> QED
    BY <2>2, <2>3 DEF WholeUnder, WellFormed, Grows
<1>3. CASE in.mode # "host"
  <2>1. /\ in.mode \in {"ssh_key", "https_basic"}
        /\ in.mode = "ssh_key" => in.user = Nothing /\ in.secret \in SshKey \cup {Nothing}
        /\ in.mode = "https_basic" =>
             in.user \in User \cup {Nothing} /\ in.secret \in Token \cup {Nothing}
    BY <1>3 DEF Given, HostAuth
  <2>2. /\ in.mode = "https_basic" => user # Nothing
        /\ \/ row = [base EXCEPT !.mode = in.mode, !.user = user] /\ Keeps(base, in)
           \/ /\ in.secret # Nothing
              /\ row = [base EXCEPT !.mode = in.mode, !.user = user, !.secret = in.secret,
                                    !.sealed = hostKey, !.rev = Len(named) + 1]
    BY <1>3 DEF Resolved, Sealed
  <2>3. /\ in.mode = "ssh_key" => user = Nothing
        /\ in.mode = "https_basic" => user \in User
    BY <2>1, <2>2 DEF UserOf, WholeUnder, WellFormed, ProjectRows
  <2> HIDE DEF user
  <2>4. CASE row = [base EXCEPT !.mode = in.mode, !.user = user] /\ Keeps(base, in)
    <3>1. /\ row.mode = in.mode /\ row.user = user /\ row.secret = base.secret
          /\ row.rev = base.rev /\ row.sealed = base.sealed /\ base.mode = in.mode
          /\ base.secret # Nothing
      BY <2>4 DEF ProjectRows, Keeps
    <3>2. row.rev \in 1 .. Len(named)
      BY <3>1 DEF WholeUnder
    <3>3. Issued(row) = named
      BY <1>1, <3>2 DEF Issued
    <3>4. WellFormed(row)
      BY <2>1, <2>3, <3>1 DEF WholeUnder, WellFormed
    <3> QED
      BY <3>1, <3>3, <3>4 DEF WholeUnder, Grows
  <2>5. CASE /\ in.secret # Nothing
             /\ row = [base EXCEPT !.mode = in.mode, !.user = user, !.secret = in.secret,
                                   !.sealed = hostKey, !.rev = Len(named) + 1]
    <3>1. /\ row.mode = in.mode /\ row.user = user /\ row.secret = in.secret
          /\ row.rev = Len(named) + 1 /\ row.sealed = hostKey
      BY <2>5 DEF ProjectRows
    <3>2. in.secret \in Secrets
      BY <2>1, <2>5 DEF Secrets
    <3>3. Issued(row) = Append(named, in.secret)
      BY <1>1, <3>1 DEF Issued
    <3>4. /\ Len(Issued(row)) = Len(named) + 1 /\ Issued(row)[Len(named) + 1] = in.secret
      BY <1>1, <3>2, <3>3
    <3>5. row.rev \in 1 .. Len(Issued(row))
      BY <1>1, <3>1, <3>4
    <3>6. WellFormed(row)
      BY <2>1, <2>3, <2>5, <3>1 DEF WellFormed
    <3>7. keyFile.there /\ row.sealed = keyFile.key
      BY <3>1 DEF KeyIsTheFiles
    <3> QED
      BY <2>5, <3>1, <3>2, <3>3, <3>4, <3>5, <3>6, <3>7 DEF WholeUnder, Grows
  <2> QED
    BY <2>2, <2>4, <2>5
<1> QED
  BY <1>2, <1>3

(* Dropped requests leave nothing behind that could be written.                *)
LEMMA GoneIsWhole ==
  ASSUME NEW names, NEW key PROVE Gone \in ProjectRows /\ WholeUnder(Gone, names, key)
  BY DEF Gone, ProjectRows, WholeUnder, WellFormed

(* An empty host                                                               *)
LEMMA InitCredentials == ProjectsInit => CredentialInvariant
<1> SUFFICES ASSUME ProjectsInit PROVE CredentialInvariant
  OBVIOUS
<1> USE DEF ProjectsInit
<1>1. CredentialTypes
  BY GoneIsWhole DEF CredentialTypes, NoFile, Idle, NoProbe, Updates, Probes
<1>2. RowsAreWhole
  BY GoneIsWhole DEF RowsAreWhole, Idle
<1> QED
  BY <1>1, <1>2 DEF CredentialInvariant, KeyIsTheFiles, Up, ProbeIsNamed, NoProbe

(* A step that issues no revision, touches no key and writes rows that are     *)
(* whole already.                                                              *)
LEMMA RowsStay ==
  ASSUME CredentialTypes, RowsAreWhole, Grows(named, named'), keyFile.there => keyFile' = keyFile,
         \/ project' = project \/ WholeUnder(project', named', keyFile'),
         \A u \in Updater : \/ update'[u] = update[u]
                            \/ WholeUnder(update'[u].row, named', keyFile')
  PROVE  RowsAreWhole'
<1>1. \A row \in ProjectRows : WholeUnder(row, named, keyFile) => WholeUnder(row, named', keyFile')
  BY WholeStays DEF CredentialTypes
<1>2. WholeUnder(project, named', keyFile')
  BY <1>1 DEF RowsAreWhole, CredentialTypes
<1>3. \A u \in Updater : WholeUnder(update[u].row, named', keyFile')
  BY <1>1 DEF RowsAreWhole, CredentialTypes, Updates
<1>4. WholeUnder(project', named', keyFile')
  BY <1>2
<1>5. \A u \in Updater : WholeUnder(update'[u].row, named', keyFile')
  BY <1>3
<1> QED
  BY <1>4, <1>5 DEF RowsAreWhole

(* A probe in flight keeps naming the secret its revision had                  *)
LEMMA ProbeStays ==
  ASSUME CredentialTypes, ProbeIsNamed, Grows(named, named'),
         probe'.rev = probe.rev, probe'.secret = probe.secret
  PROVE  ProbeIsNamed'
<1>1. /\ named' \in Seq(Secrets) /\ Len(named) <= Len(named')
      /\ \A i \in 1 .. Len(named) : named'[i] = named[i]
  BY GrowsKeeps DEF CredentialTypes
<1>2. probe.rev \in Nat /\ Len(named) \in Nat /\ Len(named') \in Nat
  BY <1>1 DEF CredentialTypes, Probes
<1>3. probe.rev # 0 => probe.rev \in 1 .. Len(named)
  BY <1>2 DEF ProbeIsNamed
<1> QED
  BY <1>1, <1>2, <1>3 DEF ProbeIsNamed

(* What a dropped request leaves.                                              *)
LEMMA DroppedLeaves ==
  ASSUME CredentialInvariant, NEW us \in SUBSET Updater, NEW p \in BOOLEAN, NEW d \in BOOLEAN,
         NEW c \in BOOLEAN, Dropped(us, p, d, c), UNCHANGED <<project, named, starts>>,
         hostKey' \in {0, hostKey}, UNCHANGED keyFile
  PROVE  CredentialInvariant'
<1> USE DEF CredentialInvariant
<1>1. /\ update' = [v \in Updater |-> IF v \in us THEN Idle ELSE update[v]]
      /\ probe' = IF p THEN NoProbe ELSE probe
  BY DEF Dropped
<1>2. Grows(named, named')
  BY DEF Grows
<1>3. Idle.row = Gone /\ Idle \in Updates /\ NoProbe \in Probes /\ NoProbe.rev = 0
      /\ NoProbe.secret = Nothing
  BY GoneIsWhole DEF Idle, Updates, Probes, NoProbe
<1>4. CredentialTypes'
  BY <1>1, <1>3 DEF CredentialTypes
<1>5. RowsAreWhole'
  <2>1. \A u \in Updater : \/ update'[u] = update[u]
                           \/ WholeUnder(update'[u].row, named', keyFile')
    BY <1>1, <1>3, GoneIsWhole
  <2> QED
    BY <1>2, <2>1, RowsStay
<1>6. ProbeIsNamed'
  <2>1. CASE p
    BY <1>1, <1>3, <2>1 DEF ProbeIsNamed, CredentialTypes
  <2>2. CASE ~p
    BY <1>1, <1>2, <2>2, ProbeStays
  <2> QED
    BY <2>1, <2>2
<1>7. KeyIsTheFiles'
  BY DEF KeyIsTheFiles, Up
<1> QED
  BY <1>4, <1>5, <1>6, <1>7

(* Creation writes a row of its own input under the key that is there          *)
LEMMA CreateProjectKeeps ==
  ASSUME CredentialInvariant, NEW in \in Given, CreateProject(in)
  PROVE  CredentialInvariant'
<1> USE DEF CredentialInvariant
<1> DEFINE base == [Gone EXCEPT !.enabled = TRUE]
<1>1. base \in ProjectRows /\ WholeUnder(base, named, keyFile)
  BY DEF Gone, ProjectRows, WholeUnder, WellFormed
<1>2. PICK row \in Resolved(base, in) : project' = row /\ Issue(row)
  BY DEF CreateProject
<1>3. Up /\ UNCHANGED <<hostKey, keyFile, starts, update, probe>>
  BY DEF CreateProject, host
<1>4. named' = Issued(row)
  BY <1>2 DEF Issue, Issued
<1> HIDE DEF base
<1>5. /\ row \in ProjectRows /\ WholeUnder(row, Issued(row), keyFile) /\ Grows(named, Issued(row))
  BY <1>1, <1>2, <1>3, ResolvedTypes, ResolvedIsWhole
<1>6. Grows(named, named') /\ named' \in Seq(Secrets)
  BY <1>4, <1>5, GrowsKeeps DEF CredentialTypes
<1>7. CredentialTypes'
  BY <1>2, <1>3, <1>5, <1>6 DEF CredentialTypes
<1>8. RowsAreWhole'
  <2>1. WholeUnder(project', named', keyFile')
    BY <1>2, <1>3, <1>4, <1>5
  <2> QED
    BY <1>3, <1>6, <2>1, RowsStay
<1>9. ProbeIsNamed' /\ KeyIsTheFiles'
  BY <1>3, <1>6, ProbeStays DEF KeyIsTheFiles, Up
<1> QED
  BY <1>7, <1>8, <1>9

(* What an update has resolved is whole from its read on                       *)
LEMMA UpdateReadsKeeps ==
  ASSUME CredentialInvariant, NEW w \in Updater, NEW in \in Given, NEW enabled \in BOOLEAN,
         UpdateReads(w, in, enabled)
  PROVE  CredentialInvariant'
<1> USE DEF CredentialInvariant
<1>1. PICK row \in Resolved(project, in) :
         /\ update' = [update EXCEPT ![w] =
               [at |-> "write", row |-> [row EXCEPT !.enabled = enabled],
                disabling |-> project.enabled /\ ~enabled]]
         /\ Issue(row)
  BY DEF UpdateReads
<1>2. Up /\ UNCHANGED <<project, hostKey, keyFile, starts, probe>>
  BY DEF UpdateReads, host
<1>3. named' = Issued(row)
  BY <1>1 DEF Issue, Issued
<1>4. project \in ProjectRows /\ WholeUnder(project, named, keyFile)
  BY DEF CredentialTypes, RowsAreWhole
<1>5. /\ row \in ProjectRows /\ WholeUnder(row, Issued(row), keyFile) /\ Grows(named, Issued(row))
  BY <1>1, <1>2, <1>4, ResolvedTypes, ResolvedIsWhole
<1>6. Grows(named, named') /\ named' \in Seq(Secrets)
  BY <1>3, <1>5, GrowsKeeps DEF CredentialTypes
<1> DEFINE stored == [row EXCEPT !.enabled = enabled]
<1>7. stored \in ProjectRows /\ WholeUnder(stored, Issued(row), keyFile)
  BY <1>5 DEF ProjectRows, WholeUnder, WellFormed
<1> DEFINE off == project.enabled /\ ~enabled
<1> HIDE DEF stored
<1>8. update' = [update EXCEPT ![w] = [at |-> "write", row |-> stored, disabling |-> off]]
  BY <1>1 DEF stored
<1>9. [at |-> "write", row |-> stored, disabling |-> off] \in Updates
  BY <1>7 DEF Updates
<1> HIDE DEF off
<1>10. CredentialTypes'
  BY <1>2, <1>6, <1>8, <1>9 DEF CredentialTypes
<1>11. RowsAreWhole'
  <2>1. \A u \in Updater : \/ update'[u] = update[u]
                           \/ WholeUnder(update'[u].row, named', keyFile')
    BY <1>2, <1>3, <1>7, <1>8 DEF CredentialTypes
  <2> QED
    BY <1>2, <1>6, <2>1, RowsStay
<1>12. ProbeIsNamed' /\ KeyIsTheFiles'
  BY <1>2, <1>6, ProbeStays DEF KeyIsTheFiles, Up
<1> QED
  BY <1>10, <1>11, <1>12

(* An update writes the whole row it resolved                                  *)
LEMMA UpdateWritesKeeps ==
  ASSUME CredentialInvariant, NEW w \in Updater, UpdateWrites(w) PROVE CredentialInvariant'
<1> USE DEF CredentialInvariant
<1>1. /\ update' = [update EXCEPT ![w] = Idle]
      /\ project' = IF Exists THEN update[w].row ELSE project
      /\ UNCHANGED <<named, hostKey, keyFile, starts, probe>>
  BY DEF UpdateWrites, host
<1>2. Grows(named, named') /\ Idle.row = Gone /\ Idle \in Updates
  BY <1>1, GoneIsWhole DEF Grows, Idle, Updates
<1>3. update[w].row \in ProjectRows /\ WholeUnder(update[w].row, named, keyFile)
  BY DEF CredentialTypes, RowsAreWhole, Updates
<1>4. CredentialTypes'
  BY <1>1, <1>2, <1>3 DEF CredentialTypes
<1>5. \A u \in Updater : update'[u] = update[u] \/ WholeUnder(update'[u].row, named', keyFile')
  BY <1>1, <1>2, GoneIsWhole DEF CredentialTypes
<1>6. project' = project \/ WholeUnder(project', named', keyFile')
  BY <1>1, <1>3
<1>7. RowsAreWhole'
  BY <1>1, <1>2, <1>5, <1>6, RowsStay
<1>8. ProbeIsNamed' /\ KeyIsTheFiles'
  BY <1>1, <1>2, ProbeStays DEF KeyIsTheFiles, Up
<1> QED
  BY <1>4, <1>7, <1>8

(* A probe writes a verdict only of the revision it read                       *)
LEMMA ProbeKeeps ==
  ASSUME CredentialInvariant,
         ProbeReads \/ ProbeAnswers \/ ProbeSeen \/ \E works \in BOOLEAN : ProbeCommand(works)
  PROVE  CredentialInvariant'
<1> USE DEF CredentialInvariant
<1>1. UNCHANGED <<project, named, hostKey, keyFile, starts, update>>
  BY DEF ProbeReads, ProbeAnswers, ProbeSeen, ProbeCommand, host
<1>2. Grows(named, named')
  BY <1>1 DEF Grows
<1>3. probe' \in Probes /\ ProbeIsNamed'
  <2>1. CASE ProbeReads
    <3>1. probe' = [NoProbe EXCEPT !.at = "fetch", !.secret = project.secret, !.rev = project.rev]
      BY <2>1 DEF ProbeReads
    <3>2. probe'.at = "fetch" /\ probe'.secret = project.secret /\ probe'.rev = project.rev
          /\ probe' \in Probes
      BY <3>1 DEF NoProbe, Probes, CredentialTypes, ProjectRows
    <3>3. WholeUnder(project, named, keyFile) /\ Len(named) \in Nat
      BY DEF RowsAreWhole, CredentialTypes
    <3> QED
      BY <1>1, <3>2, <3>3 DEF ProbeIsNamed, WholeUnder
  <2>2. CASE ProbeSeen
    BY <1>1, <2>2 DEF ProbeSeen, NoProbe, Probes, ProbeIsNamed, CredentialTypes
  <2>3. CASE ProbeAnswers \/ \E works \in BOOLEAN : ProbeCommand(works)
    <3>1. probe' \in Probes /\ probe'.rev = probe.rev /\ probe'.secret = probe.secret
      BY <2>3 DEF ProbeAnswers, ProbeCommand, RevisionRead, Probes, CredentialTypes
    <3> QED
      BY <1>2, <3>1, ProbeStays
  <2> QED
    BY <2>1, <2>2, <2>3
<1>4. CredentialTypes'
  BY <1>1, <1>3 DEF CredentialTypes
<1>5. RowsAreWhole'
  BY <1>1, <1>2, RowsStay
<1> QED
  BY <1>1, <1>3, <1>4, <1>5 DEF KeyIsTheFiles, Up

(* A start reads the key file, or makes it when there is none                  *)
LEMMA HostStartsKeeps ==
  ASSUME CredentialInvariant, NEW torn \in BOOLEAN, HostStarts(torn) PROVE CredentialInvariant'
<1> USE DEF CredentialInvariant
<1>1. UNCHANGED <<project, named, update, probe>> /\ starts' = starts + 1
  BY DEF HostStarts
<1>2. CASE keyFile.there
  <2>1. keyFile' = keyFile /\ hostKey' = keyFile.key
    BY <1>2 DEF HostStarts, KeyFound
  <2> QED
    BY <1>1, <1>2, <2>1, RowsStay, ProbeStays DEF CredentialTypes, KeyIsTheFiles, Up, Grows
<1>3. CASE ~keyFile.there
  <2>1. /\ keyFile' = [there |-> TRUE, key |-> IF torn THEN 0 ELSE starts + 1]
        /\ hostKey' = IF torn THEN 0 ELSE starts + 1
    BY <1>3 DEF HostStarts, KeyFound
  <2> QED
    BY <1>1, <1>3, <2>1, RowsStay, ProbeStays DEF CredentialTypes, KeyIsTheFiles, Up, Grows
<1> QED
  BY <1>2, <1>3

(* The invariant is inductive                                                  *)
LEMMA NextCredentials ==
  ASSUME CredentialInvariant, [ProjectsNext]_projectVars PROVE CredentialInvariant'
<1>1. ASSUME NEW u \in Updater, UpdateWrites(u) PROVE CredentialInvariant'
  BY <1>1, UpdateWritesKeeps
<1>2. ASSUME NEW u \in Updater, NEW in \in Given, NEW enabled \in BOOLEAN,
             UpdateReads(u, in, enabled)
      PROVE CredentialInvariant'
  BY <1>2, UpdateReadsKeeps
<1>3. ASSUME NEW in \in Given, CreateProject(in) PROVE CredentialInvariant'
  BY <1>3, CreateProjectKeeps
<1>4. CASE ProbeReads \/ ProbeAnswers \/ ProbeSeen \/ \E works \in BOOLEAN : ProbeCommand(works)
  BY <1>4, ProbeKeeps
<1>5. CASE RequestTimesOut
  <2>1. PICK us \in SUBSET Updater, p, d, c \in BOOLEAN : Dropped(us, p, d, c)
    BY <1>5 DEF RequestTimesOut
  <2>2. UNCHANGED <<project, named, starts, hostKey, keyFile>>
    BY <1>5 DEF RequestTimesOut, host
  <2> QED
    BY <2>1, <2>2, DroppedLeaves
<1>6. CASE HostStops
  BY <1>6, DroppedLeaves DEF HostStops
<1>7. ASSUME NEW torn \in BOOLEAN, HostStarts(torn) PROVE CredentialInvariant'
  BY <1>7, HostStartsKeeps
<1>8. CASE DeleteProject
  <2>1. project' = Gone /\ UNCHANGED <<named, hostKey, keyFile, starts, update, probe>>
    BY <1>8 DEF DeleteProject, host
  <2> QED
    BY <2>1, GoneIsWhole, RowsStay, ProbeStays
    DEF CredentialInvariant, CredentialTypes, KeyIsTheFiles, Up, Grows
<1>9. CASE \/ DeleteChecks \/ CreateChecks \/ UNCHANGED projectVars
           \/ \E j \in Job : CreateJob(j) \/ ClaimJob(j)
  <2>1. UNCHANGED <<project, named, hostKey, keyFile, starts, update, probe>>
    BY <1>9 DEF DeleteChecks, CreateChecks, CreateJob, ClaimJob, projectVars, host
  <2> QED
    BY <2>1 DEF CredentialInvariant, CredentialTypes, KeyIsTheFiles, Up, RowsAreWhole, ProbeIsNamed
<1> QED
  BY <1>1, <1>2, <1>3, <1>4, <1>5, <1>6, <1>7, <1>8, <1>9 DEF ProjectsNext

(* However updates, probes, restarts and dropped requests overlap, the stored   *)
(* credential is one an operator entered for its mode, the running host can     *)
(* open it, and a probe reports on the credential its revision names            *)
(* (update_project, probe_project_git, load_or_create_master_key).              *)
THEOREM CredentialsHold == ProjectsSpec => []CredentialsAgree
<1>1. CredentialInvariant => CredentialsAgree
  BY DEF CredentialInvariant, RowsAreWhole, WholeUnder, KeyIsTheFiles, ProbeIsNamed,
     CredentialsAgree, CredentialIsWhole, ProbeNamesItsCredential
<1> QED
  BY <1>1, InitCredentials, NextCredentials, PTL DEF ProjectsSpec

-----------------------------------------------------------------------------
(* The history the Insights page reads                                       *)

Active == {"assigned", "running"}
Ended == {"completed", "failed", "lost"}
Judgement == {"approve", "retry", "failed", "lost"}
SubjectStates ==
    {"none", "queued", "assigned", "running", "review", "merge_pending", "done", "failed",
     "cancelled"}
SubjectRow == [state : SubjectStates, made : Nat, cycle : Nat]
AttemptRow ==
    [task : Subject, backend : Backend, state : Active \cup Ended, made : Nat,
     renewed : BOOLEAN, started : Nat, finished : Nat]
VerdictRow ==
    [task : Subject, backend : Backend, state : {"assigned"} \cup Judgement, made : Nat,
     cycle : Nat]
OutcomeRow == [task : Subject, kind : Completion \cup SentBack, made : Nat]

HistoryTypes ==
    /\ today \in Nat /\ uses \in Backend
    /\ subject \in [Subject -> SubjectRow] /\ attempts \in Seq(AttemptRow)
    /\ verdicts \in Seq(VerdictRow) /\ outcomes \in Seq(OutcomeRow)

(* Nothing begins after today, nor ends before it began.                     *)
InOrder(e, day) == Begun(e) <= day /\ (e.state = "completed" => Begun(e) <= e.finished)
AttemptsInOrder == \A i \in 1 .. Len(attempts) : InOrder(attempts[i], today)

(* A task has one attempt or one review under way, and its state says so.    *)
AttemptsHold ==
    \A i \in 1 .. Len(attempts) : attempts[i].state \in Active =>
        /\ subject[attempts[i].task].state \in Active
        /\ \A j \in 1 .. Len(attempts) :
              attempts[j].state \in Active /\ attempts[j].task = attempts[i].task => j = i
VerdictsHold ==
    \A i \in 1 .. Len(verdicts) : verdicts[i].state = "assigned" =>
        /\ subject[verdicts[i].task].state = "review"
        /\ \A j \in 1 .. Len(verdicts) :
              verdicts[j].state = "assigned" /\ verdicts[j].task = verdicts[i].task => j = i

(* A completion is the last outcome of its task, which is done for good.     *)
CompletionsEnd ==
    \A i \in 1 .. Len(outcomes) : outcomes[i].kind \in Completion =>
        /\ subject[outcomes[i].task].state = "done"
        /\ \A j \in 1 .. Len(outcomes) : outcomes[j].task = outcomes[i].task => j <= i

(* A task that has attempts has a first one.                                 *)
FirstsAre ==
    \A t \in Subject : \A j \in 1 .. Len(attempts) : attempts[j].task = t =>
        \E i \in 1 .. Len(attempts) :
            /\ attempts[i].task = t
            /\ \A k \in 1 .. Len(attempts) : attempts[k].task = t => i <= k

Made == {t \in Subject : subject[t].state # "none"}

HistoryInvariant ==
    /\ HistoryTypes /\ AttemptsInOrder /\ AttemptsHold /\ VerdictsHold /\ CompletionsEnd
    /\ FirstsAre /\ IsFiniteSet(Made)

SubjectsGrow ==
    \A t \in Subject : subject[t].state # "none" =>
        subject'[t].state # "none" /\ subject'[t].made = subject[t].made

(* What no step takes back: rows and the facts that are settled in them.     *)
HistoryGrows ==
    /\ Len(attempts) <= Len(attempts') /\ Len(verdicts) <= Len(verdicts')
    /\ Len(outcomes) <= Len(outcomes')
    /\ \A i \in 1 .. Len(attempts) :
          /\ attempts'[i].task = attempts[i].task
          /\ attempts[i].state \in Ended => attempts'[i] = attempts[i]
    /\ \A i \in 1 .. Len(verdicts) :
          /\ verdicts'[i].task = verdicts[i].task /\ verdicts'[i].made = verdicts[i].made
          /\ verdicts[i].state # "assigned" => verdicts'[i] = verdicts[i]
    /\ \A i \in 1 .. Len(outcomes) : outcomes'[i] = outcomes[i]
    /\ SubjectsGrow

(* The work, without what it does to a report that is being read.            *)
Works ==
    \/ DayPasses
    \/ \E b \in Backend : Reconfigure(b)
    \/ \E t \in Subject :
          \/ CreateSubject(t) \/ ClaimSubject(t) \/ StartReview(t)
          \/ RetrySubject(t) \/ CancelSubject(t)
          \/ \E kind \in Completion \cup SentBack : GateEvent(t, kind)
    \/ \E i \in 1 .. Len(attempts) :
          \/ RenewAttempt(i)
          \/ \E s \in {"completed", "failed", "lost"} : EndAttempt(i, s)
    \/ \E i \in 1 .. Len(verdicts) :
          \E s \in {"approve", "retry", "failed", "lost"} : EndReview(i, s)

(* A task that is there may move to another state and cycle.                 *)
LEMMA SubjectMoves ==
  ASSUME HistoryTypes, NEW t \in Subject, NEW s, s \in SubjectStates \ {"none"},
         \/ subject' = [subject EXCEPT ![t].state = s]
         \/ subject' = [subject EXCEPT ![t].state = s, ![t].cycle = @ + 1]
  PROVE  /\ subject' \in [Subject -> SubjectRow] /\ SubjectsGrow
         /\ subject'[t].state = s
         /\ \A u \in Subject \ {t} : subject'[u] = subject[u]
<1>1. subject[t] \in SubjectRow /\ subject \in [Subject -> SubjectRow]
  BY DEF HistoryTypes
<1> DEFINE next == subject[t].cycle + 1
<1>2. \/ subject' = [subject EXCEPT ![t] = [subject[t] EXCEPT !.state = s]]
      \/ subject' = [subject EXCEPT ![t] = [subject[t] EXCEPT !.state = s, !.cycle = next]]
  <2>1. CASE subject' = [subject EXCEPT ![t].state = s]
    BY <1>1, <2>1
  <2>2. CASE subject' = [subject EXCEPT ![t].state = s, ![t].cycle = @ + 1]
    BY <1>1, <2>2
  <2> QED
    BY <2>1, <2>2
<1>3. PICK row : /\ subject' = [subject EXCEPT ![t] = row]
                 /\ \/ row = [subject[t] EXCEPT !.state = s]
                    \/ row = [subject[t] EXCEPT !.state = s, !.cycle = next]
  BY <1>2
<1>4. row \in SubjectRow /\ row.state = s /\ row.made = subject[t].made
  <2>1. next \in Nat
    BY <1>1 DEF SubjectRow
  <2> HIDE DEF next
  <2> QED
    BY <1>1, <1>3, <2>1 DEF SubjectRow
<1>5. /\ subject'[t] = row /\ \A u \in Subject \ {t} : subject'[u] = subject[u]
      /\ subject' \in [Subject -> SubjectRow]
  BY <1>1, <1>3, <1>4
<1> QED
  BY <1>4, <1>5 DEF SubjectsGrow

(* A row that is replaced leaves the others alone.                           *)
LEMMA RowReplaced ==
  ASSUME NEW S, NEW rows \in Seq(S), NEW i \in 1 .. Len(rows), NEW row \in S
  PROVE  LET new == [rows EXCEPT ![i] = row]
         IN  /\ new \in Seq(S) /\ Len(new) = Len(rows) /\ new[i] = row
             /\ \A j \in 1 .. Len(rows) : j # i => new[j] = rows[j]
  BY ExceptSeq

(* What Append adds, and what it leaves                                        *)
LEMMA RowAppended ==
  ASSUME NEW S, NEW rows \in Seq(S), NEW row \in S
  PROVE  LET new == Append(rows, row)
         IN  /\ new \in Seq(S) /\ Len(new) = Len(rows) + 1 /\ new[Len(rows) + 1] = row
             /\ \A j \in 1 .. Len(rows) : new[j] = rows[j]
  BY AppendProperties

(* The rows name tasks there are.                                            *)
LEMMA RowsAreOfTasks ==
  ASSUME HistoryTypes
  PROVE  /\ \A i \in 1 .. Len(attempts) : attempts[i] \in AttemptRow /\ attempts[i].task \in Subject
         /\ \A i \in 1 .. Len(verdicts) : verdicts[i] \in VerdictRow /\ verdicts[i].task \in Subject
         /\ \A i \in 1 .. Len(outcomes) : outcomes[i] \in OutcomeRow /\ outcomes[i].task \in Subject
<1>1. \A i \in 1 .. Len(attempts) : attempts[i] \in AttemptRow
  BY ElementOfSeq DEF HistoryTypes
<1>2. \A i \in 1 .. Len(verdicts) : verdicts[i] \in VerdictRow
  BY ElementOfSeq DEF HistoryTypes
<1>3. \A i \in 1 .. Len(outcomes) : outcomes[i] \in OutcomeRow
  BY ElementOfSeq DEF HistoryTypes
<1> QED
  BY <1>1, <1>2, <1>3 DEF AttemptRow, VerdictRow, OutcomeRow

(* Days that pass and a fleet that changes write no row of the past            *)
LEMMA QuietSteps ==
  ASSUME HistoryInvariant,
         \/ DayPasses
         \/ \E b \in Backend : Reconfigure(b)
         \/ UNCHANGED historyVars
  PROVE  HistoryInvariant' /\ HistoryGrows
<1>1. /\ today' \in Nat /\ today <= today' /\ uses' \in Backend
      /\ UNCHANGED <<subject, attempts, verdicts, outcomes>>
  BY DEF DayPasses, Reconfigure, historyVars, HistoryInvariant, HistoryTypes
<1>2. HistoryTypes' /\ Made' = Made
  BY <1>1 DEF HistoryInvariant, HistoryTypes, Made
<1>3. AttemptsInOrder'
  <2> SUFFICES ASSUME NEW i \in 1 .. Len(attempts) PROVE InOrder(attempts[i], today')
    BY <1>1 DEF AttemptsInOrder
  <2>1. attempts[i] \in AttemptRow /\ InOrder(attempts[i], today) /\ today \in Nat
    BY ElementOfSeq DEF HistoryInvariant, HistoryTypes, AttemptsInOrder
  <2> QED
    BY <1>1, <2>1 DEF InOrder, Begun, AttemptRow
<1>4. AttemptsHold' /\ VerdictsHold' /\ CompletionsEnd' /\ FirstsAre'
  BY <1>1 DEF HistoryInvariant, AttemptsHold, VerdictsHold, CompletionsEnd, FirstsAre
<1>5. HistoryGrows
  BY <1>1 DEF HistoryGrows, SubjectsGrow, HistoryInvariant, HistoryTypes
<1> QED
  BY <1>2, <1>3, <1>4, <1>5 DEF HistoryInvariant

(* A new task                                                                  *)
LEMMA CreateSubjectKeeps ==
  ASSUME HistoryInvariant, NEW t \in Subject, CreateSubject(t)
  PROVE  HistoryInvariant' /\ HistoryGrows
<1>1. /\ subject[t].state = "none" /\ UNCHANGED <<today, uses, attempts, verdicts, outcomes>>
      /\ subject' = [subject EXCEPT ![t] = [@ EXCEPT !.state = "queued", !.made = today]]
  BY DEF CreateSubject, State
<1>2. subject[t] \in SubjectRow /\ subject \in [Subject -> SubjectRow] /\ today \in Nat
  BY DEF HistoryInvariant, HistoryTypes
<1>3. /\ subject' \in [Subject -> SubjectRow] /\ subject'[t].state = "queued"
      /\ \A u \in Subject \ {t} : subject'[u] = subject[u]
  <2>1. PICK row : row = [subject[t] EXCEPT !.state = "queued", !.made = today]
    OBVIOUS
  <2>2. row \in SubjectRow /\ row.state = "queued"
    BY <1>2, <2>1 DEF SubjectRow, SubjectStates
  <2>3. subject' = [subject EXCEPT ![t] = row]
    BY <1>1, <1>2, <2>1
  <2> QED
    BY <1>2, <2>2, <2>3
<1>4. HistoryTypes'
  BY <1>1, <1>3 DEF HistoryInvariant, HistoryTypes
<1>8. AttemptsHold' /\ VerdictsHold' /\ CompletionsEnd'
  BY <1>1, <1>3, RowsAreOfTasks
  DEF HistoryInvariant, AttemptsHold, VerdictsHold, CompletionsEnd, Active
<1>9. AttemptsInOrder' /\ FirstsAre'
  BY <1>1 DEF HistoryInvariant, AttemptsInOrder, FirstsAre
<1>10. IsFiniteSet(Made')
  <2>1. Made' = Made \cup {t}
    BY <1>3 DEF Made
  <2> QED
    BY <2>1, FS_AddElement DEF HistoryInvariant
<1>11. HistoryGrows
  BY <1>1, <1>3 DEF HistoryGrows, SubjectsGrow, HistoryInvariant, HistoryTypes
<1> QED
  BY <1>4, <1>8, <1>9, <1>10, <1>11 DEF HistoryInvariant

(* Of(rows, t) in the words of the invariants.                               *)
LEMMA NobodyReviews ==
  ASSUME HistoryTypes, NEW t \in Subject, \A i \in Of(verdicts, t) : verdicts[i].state # "assigned"
  PROVE  \A i \in 1 .. Len(verdicts) : verdicts[i].task = t => verdicts[i].state # "assigned"
  BY DEF Of, Where

(* Who moves a task without a row moves none that is done or has an attempt  *)
(* under way.                                                                *)
LEMMA TasksMoved ==
  ASSUME HistoryInvariant, NEW t \in Subject, RetrySubject(t) \/ CancelSubject(t)
  PROVE  HistoryInvariant' /\ HistoryGrows
<1>1. UNCHANGED <<today, uses, attempts, verdicts, outcomes>>
  BY DEF RetrySubject, CancelSubject
<1>2. subject[t].state \in {"review", "failed", "queued"}
  BY DEF RetrySubject, CancelSubject
<1>3. subject[t].state = "review" =>
        \A i \in 1 .. Len(verdicts) : verdicts[i].task = t => verdicts[i].state # "assigned"
  BY NobodyReviews DEF RetrySubject, NotReviewed, CancelSubject, HistoryInvariant
<1>4. PICK s \in {"queued", "cancelled"} :
         /\ subject' \in [Subject -> SubjectRow] /\ SubjectsGrow /\ subject'[t].state = s
         /\ \A u \in Subject \ {t} : subject'[u] = subject[u]
  <2>1. \/ subject' = [subject EXCEPT ![t].state = "queued", ![t].cycle = @ + 1]
        \/ subject' = [subject EXCEPT ![t].state = "cancelled"]
    BY DEF RetrySubject, CancelSubject, Set
  <2> QED
    BY <1>2, <2>1, SubjectMoves DEF HistoryInvariant, SubjectStates
<1>5. HistoryTypes' /\ Made' = Made
  BY <1>1, <1>2, <1>4 DEF HistoryInvariant, HistoryTypes, Made
<1>6. AttemptsHold' /\ VerdictsHold' /\ CompletionsEnd'
  BY <1>1, <1>2, <1>3, <1>4, RowsAreOfTasks
  DEF HistoryInvariant, AttemptsHold, VerdictsHold, CompletionsEnd, Active
<1>7. AttemptsInOrder' /\ FirstsAre'
  BY <1>1 DEF HistoryInvariant, AttemptsInOrder, FirstsAre
<1>8. HistoryGrows
  BY <1>1, <1>4 DEF HistoryGrows, HistoryInvariant, HistoryTypes
<1> QED
  BY <1>5, <1>6, <1>7, <1>8 DEF HistoryInvariant

(* A claim adds an attempt under the backend the worker then has               *)
LEMMA ClaimSubjectKeeps ==
  ASSUME HistoryInvariant, NEW t \in Subject, ClaimSubject(t)
  PROVE  HistoryInvariant' /\ HistoryGrows
<1> USE InsightsAssumption
<1>1. PICK n \in Nat : n = Len(attempts)
  BY DEF HistoryInvariant, HistoryTypes
<1>2. PICK row : row = [task |-> t, backend |-> uses, state |-> "assigned", made |-> today,
                        renewed |-> FALSE, started |-> 0, finished |-> 0]
  OBVIOUS
<1>3. row \in AttemptRow
  BY <1>2 DEF AttemptRow, Active, HistoryInvariant, HistoryTypes
<1>4. /\ attempts' = Append(attempts, row) /\ UNCHANGED <<today, uses, verdicts, outcomes>>
      /\ subject[t].state = "queued" /\ subject' = [subject EXCEPT ![t].state = "assigned"]
  BY <1>2 DEF ClaimSubject, Set, State
<1>5. /\ attempts' \in Seq(AttemptRow) /\ Len(attempts') = n + 1 /\ attempts'[n + 1] = row
      /\ \A j \in 1 .. n : attempts'[j] = attempts[j]
  BY <1>1, <1>3, <1>4, RowAppended DEF HistoryInvariant, HistoryTypes
<1>6. /\ subject' \in [Subject -> SubjectRow] /\ SubjectsGrow /\ subject'[t].state = "assigned"
      /\ \A u \in Subject \ {t} : subject'[u] = subject[u]
  <2>1. "assigned" \in SubjectStates \ {"none"} /\ HistoryTypes
    BY DEF HistoryInvariant, SubjectStates
  <2> QED
    BY <1>4, <2>1, SubjectMoves
<1>7. HistoryTypes' /\ Made' = Made
  BY <1>4, <1>5, <1>6 DEF HistoryInvariant, HistoryTypes, Made
<1>8. InOrder(row, today) /\ row.task = t
  BY <1>2 DEF InOrder, Begun, HistoryInvariant, HistoryTypes
<1>9. AttemptsInOrder'
  BY <1>1, <1>4, <1>5, <1>8 DEF HistoryInvariant, AttemptsInOrder
<1>10. \A i \in 1 .. n : attempts[i].state \in Active => attempts[i].task # t
  BY <1>1, <1>4 DEF HistoryInvariant, AttemptsHold, Active
<1>11. AttemptsHold'
  BY <1>1, <1>5, <1>6, <1>8, <1>10, RowsAreOfTasks DEF HistoryInvariant, AttemptsHold, Active
<1>12. VerdictsHold' /\ CompletionsEnd'
  BY <1>4, <1>6, RowsAreOfTasks DEF HistoryInvariant, VerdictsHold, CompletionsEnd
<1>13. FirstsAre'
  <2> SUFFICES ASSUME NEW u \in Subject, NEW j \in 1 .. n + 1, attempts'[j].task = u
               PROVE  \E i \in 1 .. n + 1 :
                         /\ attempts'[i].task = u
                         /\ \A k \in 1 .. n + 1 : attempts'[k].task = u => i <= k
    BY <1>5 DEF FirstsAre
  <2>1. CASE \E k \in 1 .. n : attempts[k].task = u
    <3>1. PICK i \in 1 .. n : /\ attempts[i].task = u
                              /\ \A k \in 1 .. n : attempts[k].task = u => i <= k
      BY <1>1, <2>1 DEF HistoryInvariant, FirstsAre
    <3>2. i \in 1 .. n + 1 /\ attempts'[i].task = u
      BY <1>5, <3>1
    <3>3. ASSUME NEW k \in 1 .. n + 1, attempts'[k].task = u PROVE i <= k
      <4>1. CASE k \in 1 .. n
        BY <1>5, <3>1, <3>3, <4>1
      <4>2. CASE k = n + 1
        BY <3>1, <4>2
      <4> QED
        BY <4>1, <4>2
    <3> QED
      BY <3>2, <3>3
  <2>2. CASE \A k \in 1 .. n : attempts[k].task # u
    BY <1>5, <2>2
  <2> QED
    BY <2>1, <2>2
<1>14. HistoryGrows
  BY <1>1, <1>4, <1>5, <1>6 DEF HistoryGrows, HistoryInvariant, HistoryTypes
<1> QED
  BY <1>7, <1>9, <1>11, <1>12, <1>13, <1>14 DEF HistoryInvariant

(* A review adds a verdict that is open                                        *)
LEMMA StartReviewKeeps ==
  ASSUME HistoryInvariant, NEW t \in Subject, StartReview(t)
  PROVE  HistoryInvariant' /\ HistoryGrows
<1>1. PICK n \in Nat : n = Len(verdicts)
  BY DEF HistoryInvariant, HistoryTypes
<1>2. PICK row : row = [task |-> t, backend |-> uses, state |-> "assigned", made |-> today,
                        cycle |-> subject[t].cycle]
  OBVIOUS
<1>3. row \in VerdictRow /\ row.task = t
  BY <1>2 DEF VerdictRow, HistoryInvariant, HistoryTypes, SubjectRow
<1>4. /\ verdicts' = Append(verdicts, row) /\ subject[t].state = "review"
      /\ UNCHANGED <<today, uses, subject, attempts, outcomes>>
  BY <1>2 DEF StartReview, State
<1>5. /\ verdicts' \in Seq(VerdictRow) /\ Len(verdicts') = n + 1 /\ verdicts'[n + 1] = row
      /\ \A j \in 1 .. n : verdicts'[j] = verdicts[j]
  BY <1>1, <1>3, <1>4, RowAppended DEF HistoryInvariant, HistoryTypes
<1>6. \A i \in 1 .. n : verdicts[i].task = t => verdicts[i].state # "assigned"
  BY <1>1, NobodyReviews DEF StartReview, HistoryInvariant
<1>7. HistoryTypes' /\ Made' = Made
  BY <1>4, <1>5 DEF HistoryInvariant, HistoryTypes, Made
<1>8. VerdictsHold'
  BY <1>1, <1>3, <1>4, <1>5, <1>6, RowsAreOfTasks DEF HistoryInvariant, VerdictsHold
<1>9. AttemptsInOrder' /\ AttemptsHold' /\ CompletionsEnd' /\ FirstsAre'
  BY <1>4 DEF HistoryInvariant, AttemptsInOrder, AttemptsHold, CompletionsEnd, FirstsAre
<1>10. HistoryGrows
  BY <1>1, <1>4, <1>5 DEF HistoryGrows, SubjectsGrow, HistoryInvariant, HistoryTypes
<1> QED
  BY <1>7, <1>8, <1>9, <1>10 DEF HistoryInvariant

(* An event at the gate adds one to the history of the task                    *)
LEMMA GateEventKeeps ==
  ASSUME HistoryInvariant, NEW t \in Subject, NEW kind \in Completion \cup SentBack,
         GateEvent(t, kind)
  PROVE  HistoryInvariant' /\ HistoryGrows
<1>1. PICK n \in Nat : n = Len(outcomes)
  BY DEF HistoryInvariant, HistoryTypes
<1>2. PICK row : row = [task |-> t, kind |-> kind, made |-> today]
  OBVIOUS
<1>3. row \in OutcomeRow /\ row.task = t /\ row.kind = kind
  BY <1>2 DEF OutcomeRow, HistoryInvariant, HistoryTypes
<1>4. /\ outcomes' = Append(outcomes, row) /\ subject[t].state = "merge_pending"
      /\ UNCHANGED <<today, uses, attempts, verdicts>>
  BY <1>2 DEF GateEvent, State
<1>5. /\ outcomes' \in Seq(OutcomeRow) /\ Len(outcomes') = n + 1 /\ outcomes'[n + 1] = row
      /\ \A j \in 1 .. n : outcomes'[j] = outcomes[j]
  BY <1>1, <1>3, <1>4, RowAppended DEF HistoryInvariant, HistoryTypes
<1>6. PICK s \in {"done", "queued"} :
         /\ subject' \in [Subject -> SubjectRow] /\ SubjectsGrow /\ subject'[t].state = s
         /\ \A u \in Subject \ {t} : subject'[u] = subject[u]
         /\ kind \in Completion => s = "done"
  <2>1. CASE kind \in Completion
    <3>1. subject' = [subject EXCEPT ![t].state = "done"]
      BY <2>1 DEF GateEvent
    <3> QED
      BY <3>1, SubjectMoves DEF HistoryInvariant, SubjectStates
  <2>2. CASE kind \notin Completion
    <3>1. subject' = [subject EXCEPT ![t].state = "queued", ![t].cycle = @ + 1]
      BY <2>2 DEF GateEvent
    <3>2. "queued" \in SubjectStates \ {"none"} /\ HistoryTypes
      BY DEF HistoryInvariant, SubjectStates
    <3> QED
      BY <2>2, <3>1, <3>2, SubjectMoves
  <2> QED
    BY <2>1, <2>2
<1>7. HistoryTypes' /\ Made' = Made
  BY <1>4, <1>5, <1>6 DEF HistoryInvariant, HistoryTypes, Made
<1>8. \A i \in 1 .. n : outcomes[i].kind \in Completion => outcomes[i].task # t
  BY <1>1, <1>4 DEF HistoryInvariant, CompletionsEnd
<1>9. CompletionsEnd'
  BY <1>1, <1>3, <1>5, <1>6, <1>8, RowsAreOfTasks DEF HistoryInvariant, CompletionsEnd
<1>10. AttemptsHold' /\ VerdictsHold'
  BY <1>4, <1>6, RowsAreOfTasks DEF HistoryInvariant, AttemptsHold, VerdictsHold, Active
<1>11. AttemptsInOrder' /\ FirstsAre'
  <2>1. AttemptsInOrder'
    BY <1>4 DEF HistoryInvariant, AttemptsInOrder
  <2>2. FirstsAre'
    BY <1>4 DEF HistoryInvariant, FirstsAre
  <2> QED
    BY <2>1, <2>2
<1>12. HistoryGrows
  BY <1>1, <1>4, <1>5, <1>6 DEF HistoryGrows, HistoryInvariant, HistoryTypes
<1> QED
  BY <1>7, <1>9, <1>10, <1>11, <1>12 DEF HistoryInvariant

(* A row of an attempt under way is re-dated or closed, and its task moves on.*)
LEMMA AttemptMoves ==
  ASSUME HistoryInvariant, NEW i \in 1 .. Len(attempts), NEW row \in AttemptRow,
         attempts[i].state \in Active, row.task = attempts[i].task, InOrder(row, today),
         attempts' = [attempts EXCEPT ![i] = row],
         NEW s \in SubjectStates \ {"none", "done"},
         subject' = [subject EXCEPT ![attempts[i].task].state = s],
         row.state \in Active => s \in Active,
         UNCHANGED <<today, uses, verdicts, outcomes>>
  PROVE  HistoryInvariant' /\ HistoryGrows
<1>1. PICK n \in Nat : n = Len(attempts)
  BY SMTT(30) DEF HistoryInvariant, HistoryTypes
<1>2. PICK t \in Subject : t = attempts[i].task
  BY RowsAreOfTasks DEF HistoryInvariant
<1>3. /\ attempts' \in Seq(AttemptRow) /\ Len(attempts') = n /\ attempts'[i] = row
      /\ \A j \in 1 .. n : j # i => attempts'[j] = attempts[j]
  BY <1>1, RowReplaced DEF HistoryInvariant, HistoryTypes
<1>4. /\ subject[t].state \in Active
      /\ \A j \in 1 .. n : attempts[j].state \in Active /\ attempts[j].task = t => j = i
  BY <1>1, <1>2 DEF HistoryInvariant, AttemptsHold
<1>5. /\ subject' \in [Subject -> SubjectRow] /\ SubjectsGrow /\ subject'[t].state = s
      /\ \A u \in Subject \ {t} : subject'[u] = subject[u]
  BY <1>2, SubjectMoves DEF HistoryInvariant
<1>6. HistoryTypes' /\ Made' = Made
  BY <1>3, <1>4, <1>5 DEF HistoryInvariant, HistoryTypes, Made, Active
<1>7. AttemptsInOrder'
  BY <1>1, <1>3 DEF HistoryInvariant, AttemptsInOrder
<1>8. AttemptsHold'
  BY <1>1, <1>2, <1>3, <1>4, <1>5, RowsAreOfTasks DEF HistoryInvariant, AttemptsHold
<1>9. VerdictsHold' /\ CompletionsEnd'
  <2>1. VerdictsHold'
    <3>1. \A j \in 1 .. Len(verdicts) : verdicts[j].state = "assigned" =>
            subject'[verdicts[j].task] = subject[verdicts[j].task]
      BY <1>4, <1>5, RowsAreOfTasks DEF HistoryInvariant, VerdictsHold, Active
    <3>2. verdicts' = verdicts
      OBVIOUS
    <3> QED
      BY <3>1, <3>2 DEF HistoryInvariant, VerdictsHold
  <2>2. CompletionsEnd'
    BY ZenonT(30), <1>4, <1>5, RowsAreOfTasks DEF HistoryInvariant, CompletionsEnd, Active
  <2> QED
    BY <2>1, <2>2
<1>10. \A j \in 1 .. n : attempts'[j].task = attempts[j].task
  BY <1>1, <1>3
<1>11. FirstsAre'
  <2> SUFFICES ASSUME NEW u \in Subject, NEW j \in 1 .. n, attempts'[j].task = u
               PROVE  \E k \in 1 .. n :
                         /\ attempts'[k].task = u
                         /\ \A l \in 1 .. n : attempts'[l].task = u => k <= l
    BY <1>3 DEF FirstsAre
  <2>1. PICK k \in 1 .. n : /\ attempts[k].task = u
                            /\ \A l \in 1 .. n : attempts[l].task = u => k <= l
    BY <1>1, <1>10 DEF HistoryInvariant, FirstsAre
  <2> QED
    BY <1>10, <2>1
<1>12. HistoryGrows
  BY <1>1, <1>3, <1>5, <1>10 DEF HistoryGrows, HistoryInvariant, HistoryTypes, Active, Ended
<1> QED
  BY <1>6, <1>7, <1>8, <1>9, <1>11, <1>12 DEF HistoryInvariant

(* A renewal changes no field a report counts                                  *)
LEMMA RenewAttemptKeeps ==
  ASSUME HistoryInvariant, NEW i \in 1 .. Len(attempts), RenewAttempt(i)
  PROVE  HistoryInvariant' /\ HistoryGrows
<1>1. PICK row : row = [attempts[i] EXCEPT !.state = "running", !.renewed = TRUE, !.started = today]
  OBVIOUS
<1>2. attempts[i] \in AttemptRow /\ today \in Nat
  BY RowsAreOfTasks DEF HistoryInvariant, HistoryTypes
<1>3. /\ row \in AttemptRow /\ row.task = attempts[i].task /\ row.state = "running"
      /\ row.renewed = TRUE /\ row.started = today
  BY <1>1, <1>2 DEF AttemptRow, Active
<1>4. InOrder(row, today)
  BY <1>2, <1>3 DEF InOrder, Begun
<1>5. /\ attempts[i].state = "assigned" /\ attempts' = [attempts EXCEPT ![i] = row]
      /\ subject' = [subject EXCEPT ![attempts[i].task].state = "running"]
      /\ UNCHANGED <<today, uses, verdicts, outcomes>>
  BY <1>1 DEF RenewAttempt, Set, HistoryInvariant, HistoryTypes
<1> QED
  BY <1>3, <1>4, <1>5, AttemptMoves DEF Active, SubjectStates

(* An end closes one open attempt                                              *)
LEMMA EndAttemptKeeps ==
  ASSUME HistoryInvariant, NEW i \in 1 .. Len(attempts), NEW s \in Ended, EndAttempt(i, s)
  PROVE  HistoryInvariant' /\ HistoryGrows
<1>1. PICK row : row = [attempts[i] EXCEPT !.state = s, !.finished = today]
  OBVIOUS
<1>2. attempts[i] \in AttemptRow /\ today \in Nat /\ InOrder(attempts[i], today)
  BY RowsAreOfTasks DEF HistoryInvariant, HistoryTypes, AttemptsInOrder
<1>3. /\ row \in AttemptRow /\ row.task = attempts[i].task /\ row.state = s
      /\ row.renewed = attempts[i].renewed /\ row.started = attempts[i].started
      /\ row.made = attempts[i].made /\ row.finished = today
  BY <1>1, <1>2 DEF AttemptRow
<1>4. InOrder(row, today)
  BY <1>2, <1>3 DEF InOrder, Begun
<1>5. PICK next \in {"review", "failed", "queued"} :
         subject' = [subject EXCEPT ![attempts[i].task].state = next]
  BY DEF EndAttempt, Set, Ended
<1>6. /\ attempts[i].state \in Active /\ attempts' = [attempts EXCEPT ![i] = row]
      /\ UNCHANGED <<today, uses, verdicts, outcomes>>
  BY <1>1 DEF EndAttempt, Active, HistoryInvariant, HistoryTypes
<1>7. row.state \notin Active
  BY <1>3 DEF Active, Ended
<1> QED
  BY <1>3, <1>4, <1>5, <1>6, <1>7, AttemptMoves DEF SubjectStates

(* A judgement closes one open verdict                                         *)
LEMMA EndReviewKeeps ==
  ASSUME HistoryInvariant, NEW i \in 1 .. Len(verdicts), NEW s \in Judgement, EndReview(i, s)
  PROVE  HistoryInvariant' /\ HistoryGrows
<1>1. PICK n \in Nat : n = Len(verdicts)
  BY DEF HistoryInvariant, HistoryTypes
<1>2. PICK t \in Subject : t = verdicts[i].task
  BY RowsAreOfTasks DEF HistoryInvariant
<1>3. PICK row : row = [verdicts[i] EXCEPT !.state = s]
  OBVIOUS
<1>4. verdicts[i] \in VerdictRow
  BY RowsAreOfTasks DEF HistoryInvariant
<1>5. /\ row \in VerdictRow /\ row.task = t /\ row.state = s /\ row.made = verdicts[i].made
  BY <1>2, <1>3, <1>4 DEF VerdictRow
<1>6. /\ verdicts[i].state = "assigned" /\ verdicts' = [verdicts EXCEPT ![i] = row]
      /\ UNCHANGED <<today, uses, attempts, outcomes>>
  BY <1>3 DEF EndReview, Update, HistoryInvariant, HistoryTypes
<1>7. /\ verdicts' \in Seq(VerdictRow) /\ Len(verdicts') = n /\ verdicts'[i] = row
      /\ \A j \in 1 .. n : j # i => verdicts'[j] = verdicts[j]
  BY <1>1, <1>5, <1>6, RowReplaced DEF HistoryInvariant, HistoryTypes
<1>8. /\ subject[t].state = "review"
      /\ \A j \in 1 .. n : verdicts[j].state = "assigned" /\ verdicts[j].task = t => j = i
  BY <1>1, <1>2, <1>6 DEF HistoryInvariant, VerdictsHold
<1>9. PICK next \in {"merge_pending", "queued", "review"} :
         subject' = [subject EXCEPT ![t].state = next]
  BY <1>2 DEF EndReview, Set, Judgement
<1>10. /\ subject' \in [Subject -> SubjectRow] /\ SubjectsGrow /\ subject'[t].state = next
       /\ \A u \in Subject \ {t} : subject'[u] = subject[u]
  BY <1>9, SubjectMoves DEF HistoryInvariant, SubjectStates
<1>11. HistoryTypes' /\ Made' = Made
  BY <1>6, <1>7, <1>8, <1>10 DEF HistoryInvariant, HistoryTypes, Made
<1>12. VerdictsHold'
  <2>1. \A j \in 1 .. n : verdicts'[j].state = "assigned" =>
           /\ j # i /\ verdicts'[j] = verdicts[j] /\ verdicts[j].task \in Subject \ {t}
    <3> SUFFICES ASSUME NEW j \in 1 .. n, verdicts'[j].state = "assigned"
                 PROVE  /\ j # i /\ verdicts'[j] = verdicts[j]
                        /\ verdicts[j].task \in Subject \ {t}
      OBVIOUS
    <3>1. j # i
      BY <1>5, <1>7 DEF Judgement
    <3>2. verdicts'[j] = verdicts[j] /\ verdicts[j].task \in Subject
      BY <1>1, <1>7, <3>1, RowsAreOfTasks DEF HistoryInvariant
    <3> QED
      BY <1>8, <3>1, <3>2
  <2>2. \A j \in 1 .. n : verdicts[j].state = "assigned" =>
           /\ subject[verdicts[j].task].state = "review"
           /\ \A k \in 1 .. n :
                 verdicts[k].state = "assigned" /\ verdicts[k].task = verdicts[j].task => k = j
    BY <1>1 DEF HistoryInvariant, VerdictsHold
  <2>3. ASSUME NEW j \in 1 .. n, verdicts'[j].state = "assigned"
        PROVE  /\ subject'[verdicts'[j].task].state = "review"
               /\ \A k \in 1 .. n :
                     verdicts'[k].state = "assigned" /\ verdicts'[k].task = verdicts'[j].task
                        => k = j
    <3>1. subject'[verdicts'[j].task].state = "review"
      BY <1>10, <2>1, <2>2, <2>3
    <3>2. ASSUME NEW k \in 1 .. n, verdicts'[k].state = "assigned",
                 verdicts'[k].task = verdicts'[j].task
          PROVE  k = j
      BY <2>1, <2>2, <2>3, <3>2
    <3> QED
      BY <3>1, <3>2
  <2> QED
    BY <1>7, <2>3 DEF VerdictsHold
<1>13. AttemptsHold' /\ CompletionsEnd'
  BY <1>6, <1>8, <1>10, RowsAreOfTasks DEF HistoryInvariant, AttemptsHold, CompletionsEnd, Active
<1>14. AttemptsInOrder' /\ FirstsAre'
  BY <1>6 DEF HistoryInvariant, AttemptsInOrder, FirstsAre
<1>15. HistoryGrows
  BY <1>1, <1>2, <1>5, <1>6, <1>7, <1>10 DEF HistoryGrows, HistoryInvariant, HistoryTypes
<1> QED
  BY <1>11, <1>12, <1>13, <1>14, <1>15 DEF HistoryInvariant

(* The work of the host, all of it                                             *)
LEMMA WorkKeeps == ASSUME HistoryInvariant, Works PROVE HistoryInvariant' /\ HistoryGrows
  BY QuietSteps, CreateSubjectKeeps, TasksMoved, ClaimSubjectKeeps, StartReviewKeeps,
     GateEventKeeps, RenewAttemptKeeps, EndAttemptKeeps, EndReviewKeeps
  DEF Works, Ended, Judgement

(* An empty history                                                            *)
LEMMA InitHistory == InsightsInit => HistoryInvariant
<1> SUFFICES ASSUME InsightsInit PROVE HistoryInvariant
  OBVIOUS
<1> USE InsightsAssumption DEF InsightsInit
<1>1. /\ attempts = <<>> /\ verdicts = <<>> /\ outcomes = <<>> /\ uses \in Backend
      /\ subject = [t \in Subject |-> [state |-> "none", made |-> 0, cycle |-> 0]]
  BY DEF First
<1>2. subject \in [Subject -> SubjectRow] /\ Made = {}
  BY <1>1 DEF SubjectRow, SubjectStates, Made
<1>3. Len(attempts) = 0 /\ Len(verdicts) = 0 /\ Len(outcomes) = 0
  BY <1>1
<1>4. HistoryTypes
  BY <1>1, <1>2 DEF HistoryTypes
<1> QED
  BY <1>2, <1>3, <1>4, FS_EmptySet
  DEF HistoryInvariant, AttemptsInOrder, AttemptsHold, VerdictsHold, CompletionsEnd, FirstsAre

(* A query of the page leaves the history alone.                             *)
Queries ==
    \/ \E cut \in {0, WindowStart} : Ask(cut)
    \/ ReadCreated \/ ReadCompletions \/ ReadStarted \/ ReadFinished \/ ReadWaits
    \/ ReadLatest \/ ReadReviews \/ ReadGate \/ ReadReasons \/ ReadRounds
    \/ ReadOutcomes \/ ReadDetail \/ Answer

(* A step either does work or is a query of the report                         *)
LEMMA StepsOfInsights == InsightsNext <=> Works \/ Queries
  BY DEF InsightsNext, Works, Queries

(* The report writes none of the rows                                          *)
LEMMA QueriesOnlyRead == Queries => UNCHANGED historyVars
  BY DEF Queries, Reads, Ask, ReadCreated, ReadCompletions, ReadStarted, ReadFinished, ReadWaits,
     ReadLatest, ReadReviews, ReadGate, ReadReasons, ReadRounds, ReadOutcomes, ReadDetail, Answer

(* The invariant is inductive, and the history only grows                      *)
LEMMA HistoryKept ==
  HistoryInvariant /\ [InsightsNext]_insightVars => HistoryInvariant' /\ HistoryGrows
  BY StepsOfInsights, QueriesOnlyRead, WorkKeeps, QuietSteps DEF insightVars

(* Counting rows                                                             *)
LEMMA CountGrows ==
  ASSUME NEW n \in Nat, NEW m \in Nat, NEW S \in SUBSET (1 .. n), NEW T \in SUBSET (1 .. m),
         S \subseteq T
  PROVE  Cardinality(S) \in Nat /\ Cardinality(T) \in Nat /\ Cardinality(S) <= Cardinality(T)
<1>1. IsFiniteSet(1 .. m)
  BY FS_Interval
<1>2. IsFiniteSet(T)
  BY <1>1, FS_Subset
<1>3. IsFiniteSet(S) /\ Cardinality(S) <= Cardinality(T)
  BY <1>2, FS_Subset
<1> QED
  BY <1>2, <1>3, FS_CardinalityType

(* The rows the figures count, of given tables.                              *)
Completed(rows, cut) == {i \in 1 .. Len(rows) : rows[i].made >= cut /\ rows[i].kind \in Completion}
WorkRows(rows, b, s) ==
    {i \in 1 .. Len(rows) : Begun(rows[i]) >= 0 /\ UsedBy(rows[i]) = b /\ rows[i].state = s}
JudgedRows(rows, b, s) ==
    {i \in 1 .. Len(rows) : rows[i].made >= 0 /\ UsedBy(rows[i]) = b /\ rows[i].state = s}

(* The figures of the queries are cardinalities of sets of rows                *)
LEMMA FiguresCount ==
  /\ \A cut : Completions(cut) = Cardinality(Completed(outcomes, cut))
  /\ \A b, s : Work(0, b, s) = Cardinality(WorkRows(attempts, b, s))
  /\ \A b, s : Judged(0, b, s) = Cardinality(JudgedRows(verdicts, b, s))
  BY DEF Completions, Work, Judged, Number, Where, Completed, WorkRows, JudgedRows

(* What a report of all time has counted it counts for ever, and for the same*)
(* backend (insights of insights.rs).                                        *)
THEOREM HistoryStaysDurable == InsightsSpec => HistoryIsDurable
<1>1. HistoryInvariant /\ [InsightsNext]_insightVars =>
        [\/ UNCHANGED historyVars
         \/ /\ Completions(0)' >= Completions(0)
            /\ \A b \in Backend :
                  /\ \A s \in {"completed", "failed", "lost"} : Work(0, b, s)' >= Work(0, b, s)
                  /\ \A s \in {"approve", "retry", "failed", "lost"} :
                       Judged(0, b, s)' >= Judged(0, b, s)]_insightVars
  <2> SUFFICES ASSUME HistoryInvariant, [InsightsNext]_insightVars
               PROVE  /\ Completions(0)' >= Completions(0)
                      /\ \A b \in Backend :
                            /\ \A s \in Ended : Work(0, b, s)' >= Work(0, b, s)
                            /\ \A s \in Judgement : Judged(0, b, s)' >= Judged(0, b, s)
    BY DEF Ended, Judgement
  <2>1. HistoryTypes /\ HistoryTypes' /\ HistoryGrows
    BY HistoryKept DEF HistoryInvariant
  <2>2. /\ Len(attempts) \in Nat /\ Len(attempts') \in Nat /\ Len(verdicts) \in Nat
        /\ Len(verdicts') \in Nat /\ Len(outcomes) \in Nat /\ Len(outcomes') \in Nat
    BY <2>1 DEF HistoryTypes
  <2>3. (/\ \A cut : Completions(cut) = Cardinality(Completed(outcomes, cut))
         /\ \A b, s : Work(0, b, s) = Cardinality(WorkRows(attempts, b, s))
         /\ \A b, s : Judged(0, b, s) = Cardinality(JudgedRows(verdicts, b, s)))'
    BY FiguresCount, PTL
  <2>4. Completed(outcomes, 0) \subseteq Completed(outcomes', 0)
    BY <2>1, <2>2 DEF HistoryGrows, Completed
  <2>5. Cardinality(Completed(outcomes, 0)) <= Cardinality(Completed(outcomes', 0))
        /\ Cardinality(Completed(outcomes, 0)) \in Nat
        /\ Cardinality(Completed(outcomes', 0)) \in Nat
    BY <2>2, <2>4, CountGrows DEF Completed
  <2>6. ASSUME NEW b \in Backend, NEW s \in Ended PROVE Work(0, b, s)' >= Work(0, b, s)
    <3>1. WorkRows(attempts, b, s) \subseteq WorkRows(attempts', b, s)
      BY <2>1, <2>2 DEF HistoryGrows, WorkRows
    <3>2. /\ Cardinality(WorkRows(attempts, b, s)) <= Cardinality(WorkRows(attempts', b, s))
          /\ Cardinality(WorkRows(attempts, b, s)) \in Nat
          /\ Cardinality(WorkRows(attempts', b, s)) \in Nat
      BY <2>2, <3>1, CountGrows DEF WorkRows
    <3> QED
      BY <2>3, <3>2, FiguresCount
  <2>7. ASSUME NEW b \in Backend, NEW s \in Judgement PROVE Judged(0, b, s)' >= Judged(0, b, s)
    <3>1. JudgedRows(verdicts, b, s) \subseteq JudgedRows(verdicts', b, s)
      BY <2>1, <2>2 DEF HistoryGrows, JudgedRows, Judgement
    <3>2. /\ Cardinality(JudgedRows(verdicts, b, s)) <= Cardinality(JudgedRows(verdicts', b, s))
          /\ Cardinality(JudgedRows(verdicts, b, s)) \in Nat
          /\ Cardinality(JudgedRows(verdicts', b, s)) \in Nat
      BY <2>2, <3>1, CountGrows DEF JudgedRows
    <3> QED
      BY <2>3, <3>2, FiguresCount
  <2>8. Completions(0)' >= Completions(0)
    BY <2>3, <2>5, FiguresCount
  <2> QED
    BY <2>6, <2>7, <2>8
<1>2. HistoryInvariant /\ [InsightsNext]_insightVars => HistoryInvariant'
  BY HistoryKept
<1> QED
  BY <1>1, <1>2, InitHistory, PTL DEF InsightsSpec, HistoryIsDurable

(* The figures a report has so far, bounded by the rows they were counted in.*)
Fields ==
    {"at", "news", "cutoff", "cycle", "done", "completed", "begun", "finished", "waited", "latest",
     "reviews", "retries", "current", "gate", "returned", "reasons", "rounds", "lifetime",
     "cycleRetries", "ended", "created", "listed"}
Counts == {"at", "news", "cutoff", "done", "completed", "finished", "reviews", "retries", "current",
           "gate", "returned", "reasons", "rounds", "lifetime", "cycleRetries", "created"}
Report(r) ==
    /\ DOMAIN r = Fields
    /\ \A f \in Counts : r[f] \in Nat
    /\ r.begun \in [Subject -> Nat] /\ r.latest \in [Subject -> Nat]
    /\ r.ended \subseteq Subject /\ IsFiniteSet(r.ended) /\ IsFiniteSet(r.listed)

SentBackRows(rows, cut) ==
    {i \in 1 .. Len(rows) : rows[i].made >= cut /\ rows[i].kind \in SentBack}
FinishedRows(rows, cut) ==
    {i \in 1 .. Len(rows) : rows[i].state = "completed" /\ rows[i].finished >= cut}
RetryRows(rows, cut) == {i \in 1 .. Len(rows) : rows[i].made >= cut /\ rows[i].state = "retry"}
CycleRows(rows, cycles) == {i \in RetryRows(rows, 0) : rows[i].cycle = cycles[rows[i].task]}
RowsOf(rows, t) == {i \in 1 .. Len(rows) : rows[i].task = t}
CreatedOf(tasks, cut) ==
    {t \in Subject : tasks[t].state # "none" /\ tasks[t].made >= cut}

(* What each figure owes to the rows there were when it was read, and to the *)
(* figures read after it.                                                    *)
GateFigures(r, gates) ==
    /\ r.at > 2 => r.done <= Cardinality(Completed(gates, r.cutoff))
    /\ r.at > 8 => /\ r.done <= r.gate
                   /\ r.returned <= Cardinality(SentBackRows(gates, r.cutoff))
    /\ r.at > 9 => r.returned <= r.reasons
AttemptFigures(r, runs) ==
    /\ r.at > 3 => /\ r.completed <= Cardinality(FinishedRows(runs, r.cutoff))
                   /\ \A t \in Subject : r.begun[t] <= Cardinality(RowsOf(runs, t))
    /\ r.at > 4 => r.completed <= r.finished
    /\ r.at > 5 /\ r.cutoff = 0 => \A t \in Subject : r.begun[t] > 0 => t \in r.waited
    /\ r.at > 6 => \A t \in Subject : r.begun[t] <= r.latest[t]
VerdictFigures(r, reviews) ==
    /\ r.at > 7 => /\ r.current <= r.retries
                   /\ r.current <= Cardinality(CycleRows(reviews, r.cycle))
                   /\ r.cutoff = 0 => /\ r.reviews <= Len(reviews)
                                      /\ r.retries <= Cardinality(RetryRows(reviews, 0))
    /\ r.at > 10 => /\ r.current <= r.cycleRetries
                    /\ r.cutoff = 0 => r.reviews <= r.rounds /\ r.retries <= r.lifetime
TaskFigures(r, tasks) ==
    /\ r.at > 1 => r.created <= Cardinality(CreatedOf(tasks, r.cutoff))
    /\ r.at > 11 /\ r.cutoff = 0 =>
         /\ r.done <= Cardinality(r.ended)
         /\ \A t \in r.ended : tasks[t].state # "none"
    /\ r.at > 12 => /\ r.created <= Cardinality(r.listed)
                    /\ r.cutoff = 0 => r.done <= Cardinality(r.ended \cap r.listed)

FiguresInvariant ==
    /\ Report(report)
    /\ GateFigures(report, outcomes) /\ AttemptFigures(report, attempts)
    /\ VerdictFigures(report, verdicts) /\ TaskFigures(report, subject)

(* A report that has not begun                                                 *)
LEMMA InitFigures == InsightsInit => FiguresInvariant
<1> SUFFICES ASSUME InsightsInit PROVE FiguresInvariant
  OBVIOUS
<1>1. report = NoFigures
  BY DEF InsightsInit
<1>2. Report(report)
  BY <1>1, FS_EmptySet DEF NoFigures, Report, Fields, Counts
<1>3. report.at = 0
  BY <1>1 DEF NoFigures
<1> QED
  BY <1>2, <1>3
  DEF FiguresInvariant, GateFigures, AttemptFigures, VerdictFigures, TaskFigures

(* A query changes its own figures and goes on to the next.                  *)
Asked(changed) ==
    /\ report'.at = report.at + 1 /\ DOMAIN report' = Fields
    /\ \A g \in Fields : g # "at" /\ g \notin changed => report'[g] = report[g]

(* The rows counted are of a table.                                          *)
LEMMA RowsCounted ==
  ASSUME HistoryTypes
  PROVE  /\ \A cut : /\ Cardinality(Completed(outcomes, cut)) \in Nat
                     /\ Cardinality(SentBackRows(outcomes, cut)) \in Nat
                     /\ Cardinality(FinishedRows(attempts, cut)) \in Nat
                     /\ Cardinality(RetryRows(verdicts, cut)) \in Nat
         /\ \A t : Cardinality(RowsOf(attempts, t)) \in Nat
         /\ \A cycles : Cardinality(CycleRows(verdicts, cycles)) \in Nat
<1>1. /\ Len(attempts) \in Nat /\ Len(verdicts) \in Nat /\ Len(outcomes) \in Nat
  BY DEF HistoryTypes
<1>2. \A n \in Nat : \A S \in SUBSET (1 .. n) : Cardinality(S) \in Nat
  BY CountGrows
<1> QED
  BY <1>1, <1>2
  DEF Completed, SentBackRows, FinishedRows, RetryRows, RowsOf, CycleRows

(* The figures a query does not touch owe nothing new before their turn.     *)
LEMMA GatesStand ==
  ASSUME FiguresInvariant, UNCHANGED historyVars, NEW changed, Asked(changed),
         changed \cap {"cutoff", "done", "gate", "returned", "reasons"} = {},
         report'.at \notin {3, 9, 10}
  PROVE  GateFigures(report, outcomes)'
<1>1. /\ report'.cutoff = report.cutoff /\ report'.done = report.done /\ report'.gate = report.gate
      /\ report'.returned = report.returned /\ report'.reasons = report.reasons
      /\ report'.at = report.at + 1 /\ report.at \in Nat /\ outcomes' = outcomes
  BY DEF Asked, Fields, historyVars, FiguresInvariant, Report, Counts
<1>2. GateFigures(report, outcomes)
  BY DEF FiguresInvariant
<1> QED
  BY <1>1, <1>2 DEF GateFigures

(* A query about other figures leaves those of attempts as they are            *)
LEMMA AttemptsStand ==
  ASSUME FiguresInvariant, UNCHANGED historyVars, NEW changed, Asked(changed),
         changed \cap {"cutoff", "completed", "begun", "finished", "waited", "latest"} = {},
         report'.at \notin {4, 5, 6, 7}
  PROVE  AttemptFigures(report, attempts)'
<1>1. /\ report'.cutoff = report.cutoff /\ report'.completed = report.completed
      /\ report'.begun = report.begun /\ report'.finished = report.finished
      /\ report'.waited = report.waited /\ report'.latest = report.latest
      /\ report'.at = report.at + 1 /\ report.at \in Nat /\ attempts' = attempts
  BY DEF Asked, Fields, historyVars, FiguresInvariant, Report, Counts
<1>2. AttemptFigures(report, attempts)
  BY DEF FiguresInvariant
<1> QED
  BY <1>1, <1>2 DEF AttemptFigures

(* and those of verdicts                                                       *)
LEMMA VerdictsStand ==
  ASSUME FiguresInvariant, UNCHANGED historyVars, NEW changed, Asked(changed),
         changed \cap {"cutoff", "cycle", "reviews", "retries", "current", "rounds", "lifetime",
                       "cycleRetries"} = {},
         report'.at \notin {8, 11}
  PROVE  VerdictFigures(report, verdicts)'
<1>1. /\ report'.cutoff = report.cutoff /\ report'.cycle = report.cycle
      /\ report'.reviews = report.reviews /\ report'.retries = report.retries
      /\ report'.current = report.current /\ report'.rounds = report.rounds
      /\ report'.lifetime = report.lifetime /\ report'.cycleRetries = report.cycleRetries
      /\ report'.at = report.at + 1 /\ report.at \in Nat /\ verdicts' = verdicts
  BY DEF Asked, Fields, historyVars, FiguresInvariant, Report, Counts
<1>2. VerdictFigures(report, verdicts)
  BY DEF FiguresInvariant
<1> QED
  BY <1>1, <1>2 DEF VerdictFigures

(* and those of tasks                                                          *)
LEMMA TasksStand ==
  ASSUME FiguresInvariant, UNCHANGED historyVars, NEW changed, Asked(changed),
         changed \cap {"cutoff", "created", "ended", "listed"} = {},
         report'.at \notin {2, 12, 13}, "done" \notin changed \/ report'.at < 12
  PROVE  TaskFigures(report, subject)'
<1>1. /\ report'.cutoff = report.cutoff /\ report'.created = report.created
      /\ report'.ended = report.ended
      /\ report'.listed = report.listed
      /\ report'.done = report.done \/ report'.at < 12
      /\ report'.at = report.at + 1 /\ report.at \in Nat /\ subject' = subject
  BY DEF Asked, Fields, historyVars, FiguresInvariant, Report, Counts
<1>2. TaskFigures(report, subject)
  BY DEF FiguresInvariant
<1> QED
  BY <1>1, <1>2 DEF TaskFigures

(* One lemma per query: what is read is counted in rows there are, and bounded*)
(* by what was read before.                                                  *)
LEMMA CreatedRead ==
  ASSUME HistoryInvariant, FiguresInvariant, ReadCreated
  PROVE  FiguresInvariant'
<1>1. PICK v : v = Cardinality(Created(report.cutoff))
  OBVIOUS
<1>2. /\ report.at = 1 /\ UNCHANGED historyVars
      /\ report' = [[report EXCEPT !.created = v]
                     EXCEPT !.at = @ + 1]
  BY <1>1 DEF ReadCreated, Reads, With, Position
<1>3. /\ Asked({"created"}) /\ report'.at = 2
      /\ report'.created = v
  <2>1. DOMAIN report = Fields /\ DOMAIN report' = Fields
    BY <1>2 DEF FiguresInvariant, Report
  <2>2. /\ report'.at = report.at + 1
        /\ report'.created = v
        /\ \A g \in Fields :
             g # "at" /\ g \notin {"created"} => report'[g] = report[g]
    BY <1>2, <2>1 DEF Fields
  <2> QED
    BY <1>2, <2>1, <2>2 DEF Asked
<1>4. v = Cardinality(CreatedOf(subject, report.cutoff)) /\ v \in Nat
  <2>1. CreatedOf(subject, report.cutoff) \subseteq Made
    BY DEF CreatedOf, Made
  <2>2. Created(report.cutoff) = CreatedOf(subject, report.cutoff)
    BY DEF CreatedOf, Created
  <2> QED
    BY <1>1, <2>1, <2>2, FS_Subset, FS_CardinalityType DEF HistoryInvariant
<1>5. Report(report')
  BY <1>2, <1>3, <1>4 DEF FiguresInvariant, Report, Asked, Fields, Counts
<1>6. /\ GateFigures(report, outcomes)'
      /\ AttemptFigures(report, attempts)'
      /\ VerdictFigures(report, verdicts)'
  BY <1>2, <1>3, GatesStand, AttemptsStand, VerdictsStand
<1>7. TaskFigures(report, subject)'
  <2>1. TaskFigures(report, subject) /\ subject' = subject
    BY <1>2 DEF FiguresInvariant, historyVars
  <2> QED
    BY <1>2, <1>3, <1>4, <2>1
    DEF TaskFigures, Asked, Fields, FiguresInvariant, Report, Counts
<1> QED
  BY <1>5, <1>6, <1>7 DEF FiguresInvariant

(* The totals of completions, at the cutoff                                    *)
LEMMA CompletionsRead ==
  ASSUME HistoryInvariant, FiguresInvariant, ReadCompletions
  PROVE  FiguresInvariant'
<1>1. PICK v : v = Completions(report.cutoff)
  OBVIOUS
<1>2. /\ report.at = 2 /\ UNCHANGED historyVars
      /\ report' = [[report EXCEPT !.done = v]
                     EXCEPT !.at = @ + 1]
  BY <1>1 DEF ReadCompletions, Reads, With, Position
<1>3. /\ Asked({"done"}) /\ report'.at = 3
      /\ report'.done = v
  <2>1. DOMAIN report = Fields /\ DOMAIN report' = Fields
    BY <1>2 DEF FiguresInvariant, Report
  <2>2. /\ report'.at = report.at + 1
        /\ report'.done = v
        /\ \A g \in Fields :
             g # "at" /\ g \notin {"done"} => report'[g] = report[g]
    BY <1>2, <2>1 DEF Fields
  <2> QED
    BY <1>2, <2>1, <2>2 DEF Asked
<1>4. v = Cardinality(Completed(outcomes, report.cutoff)) /\ v \in Nat
  BY <1>1, FiguresCount, RowsCounted DEF HistoryInvariant
<1>5. Report(report')
  BY <1>2, <1>3, <1>4 DEF FiguresInvariant, Report, Asked, Fields, Counts
<1>6. /\ AttemptFigures(report, attempts)'
      /\ VerdictFigures(report, verdicts)'
      /\ TaskFigures(report, subject)'
  BY <1>2, <1>3, AttemptsStand, VerdictsStand, TasksStand
<1>7. GateFigures(report, outcomes)'
  <2>1. GateFigures(report, outcomes) /\ outcomes' = outcomes
    BY <1>2 DEF FiguresInvariant, historyVars
  <2> QED
    BY <1>2, <1>3, <1>4, <2>1
    DEF GateFigures, Asked, Fields, FiguresInvariant, Report, Counts
<1> QED
  BY <1>5, <1>6, <1>7 DEF FiguresInvariant

(* Every attempt begun in the window and completed since ended in it too.    *)
Since(cut) == {i \in 1 .. Len(attempts) : Begun(attempts[i]) >= cut}

(* The attempts begun since                                                    *)
LEMMA StartedRead ==
  ASSUME HistoryInvariant, FiguresInvariant, ReadStarted
  PROVE  FiguresInvariant'
<1>1. PICK v, w : /\ v = [t \in Subject |-> Cardinality(Since(report.cutoff) \cap Of(attempts, t))]
                  /\ w = Cardinality({i \in Since(report.cutoff) : attempts[i].state = "completed"})
  OBVIOUS
<1>2. /\ report.at = 3 /\ UNCHANGED historyVars
      /\ report' = [[report EXCEPT !.begun = v, !.completed = w]
                     EXCEPT !.at = @ + 1]
  BY <1>1 DEF ReadStarted, Reads, With, Position, Since, Where
<1>3. /\ Asked({"begun", "completed"}) /\ report'.at = 4
      /\ report'.begun = v /\ report'.completed = w
  <2>1. DOMAIN report = Fields /\ DOMAIN report' = Fields
    BY <1>2 DEF FiguresInvariant, Report
  <2>2. /\ report'.at = report.at + 1
        /\ report'.begun = v /\ report'.completed = w
        /\ \A g \in Fields :
             g # "at" /\ g \notin {"begun", "completed"} => report'[g] = report[g]
    BY <1>2, <2>1 DEF Fields
  <2> QED
    BY <1>2, <2>1, <2>2 DEF Asked
<1>4. /\ v \in [Subject -> Nat] /\ \A t \in Subject : v[t] <= Cardinality(RowsOf(attempts, t))
      /\ w \in Nat /\ w <= Cardinality(FinishedRows(attempts, report.cutoff))
      /\ \A t \in Subject : Cardinality(RowsOf(attempts, t)) \in Nat
      /\ Cardinality(FinishedRows(attempts, report.cutoff)) \in Nat
  <2>1. Len(attempts) \in Nat /\ report.cutoff \in Nat
    BY DEF HistoryInvariant, HistoryTypes, FiguresInvariant, Report, Counts
  <2>2. ASSUME NEW t \in Subject
        PROVE  /\ Cardinality(Since(report.cutoff) \cap Of(attempts, t)) \in Nat
               /\ Cardinality(RowsOf(attempts, t)) \in Nat
               /\ Cardinality(Since(report.cutoff) \cap Of(attempts, t))
                     <= Cardinality(RowsOf(attempts, t))
    <3>1. /\ Since(report.cutoff) \cap Of(attempts, t) \subseteq RowsOf(attempts, t)
          /\ RowsOf(attempts, t) \in SUBSET (1 .. Len(attempts))
      BY DEF Of, Where, RowsOf
    <3> QED
      BY <2>1, <3>1, CountGrows
  <2>3. /\ {i \in Since(report.cutoff) : attempts[i].state = "completed"}
             \subseteq FinishedRows(attempts, report.cutoff)
        /\ FinishedRows(attempts, report.cutoff) \in SUBSET (1 .. Len(attempts))
    <3> SUFFICES ASSUME NEW i \in 1 .. Len(attempts), attempts[i].state = "completed",
                        Begun(attempts[i]) >= report.cutoff
                 PROVE  attempts[i].finished >= report.cutoff
      BY DEF Since, FinishedRows
    <3>1. attempts[i] \in AttemptRow /\ Begun(attempts[i]) <= attempts[i].finished
      BY RowsAreOfTasks DEF HistoryInvariant, AttemptsInOrder, InOrder
    <3> QED
      BY <2>1, <3>1 DEF AttemptRow, Begun
  <2>4. /\ w \in Nat /\ w <= Cardinality(FinishedRows(attempts, report.cutoff))
        /\ Cardinality(FinishedRows(attempts, report.cutoff)) \in Nat
    BY <1>1, <2>1, <2>3, CountGrows
  <2> QED
    BY <1>1, <2>2, <2>4
<1>5. Report(report')
  BY <1>2, <1>3, <1>4 DEF FiguresInvariant, Report, Asked, Fields, Counts
<1>6. /\ GateFigures(report, outcomes)'
      /\ VerdictFigures(report, verdicts)'
      /\ TaskFigures(report, subject)'
  BY <1>2, <1>3, GatesStand, VerdictsStand, TasksStand
<1>7. AttemptFigures(report, attempts)'
  <2>1. AttemptFigures(report, attempts) /\ attempts' = attempts
    BY <1>2 DEF FiguresInvariant, historyVars
  <2> QED
    BY <1>2, <1>3, <1>4, <2>1
    DEF AttemptFigures, Asked, Fields, FiguresInvariant, Report, Counts
<1> QED
  BY <1>5, <1>6, <1>7 DEF FiguresInvariant

(* The attempts that ended since, by how they ended                            *)
LEMMA FinishedRead ==
  ASSUME HistoryInvariant, FiguresInvariant, ReadFinished
  PROVE  FiguresInvariant'
<1>1. PICK v : v = Cardinality(FinishedRows(attempts, report.cutoff))
  OBVIOUS
<1>2. /\ report.at = 4 /\ UNCHANGED historyVars
      /\ report' = [[report EXCEPT !.finished = v]
                     EXCEPT !.at = @ + 1]
  BY <1>1 DEF ReadFinished, Reads, With, Position, Number, Where, FinishedRows
<1>3. /\ Asked({"finished"}) /\ report'.at = 5
      /\ report'.finished = v
  <2>1. DOMAIN report = Fields /\ DOMAIN report' = Fields
    BY <1>2 DEF FiguresInvariant, Report
  <2>2. /\ report'.at = report.at + 1
        /\ report'.finished = v
        /\ \A g \in Fields :
             g # "at" /\ g \notin {"finished"} => report'[g] = report[g]
    BY <1>2, <2>1 DEF Fields
  <2> QED
    BY <1>2, <2>1, <2>2 DEF Asked
<1>4. v = Cardinality(FinishedRows(attempts, report.cutoff)) /\ v \in Nat
  BY <1>1, RowsCounted DEF HistoryInvariant
<1>5. Report(report')
  BY <1>2, <1>3, <1>4 DEF FiguresInvariant, Report, Asked, Fields, Counts
<1>6. /\ GateFigures(report, outcomes)'
      /\ VerdictFigures(report, verdicts)'
      /\ TaskFigures(report, subject)'
  BY <1>2, <1>3, GatesStand, VerdictsStand, TasksStand
<1>7. AttemptFigures(report, attempts)'
  <2>1. AttemptFigures(report, attempts) /\ attempts' = attempts
    BY <1>2 DEF FiguresInvariant, historyVars
  <2> QED
    BY <1>2, <1>3, <1>4, <2>1
    DEF AttemptFigures, Asked, Fields, FiguresInvariant, Report, Counts
<1> QED
  BY <1>5, <1>6, <1>7 DEF FiguresInvariant

(* A task with an attempt in the window of all time has its first one there. *)
LEMMA WaitsRead ==
  ASSUME HistoryInvariant, FiguresInvariant, ReadWaits
  PROVE  FiguresInvariant'
<1>1. PICK v : v = {t \in Subject :
                        \E i \in First(Of(attempts, t)) : attempts[i].made >= report.cutoff}
  OBVIOUS
<1>2. /\ report.at = 5 /\ UNCHANGED historyVars
      /\ report' = [[report EXCEPT !.waited = v]
                     EXCEPT !.at = @ + 1]
  BY <1>1 DEF ReadWaits, Reads, With, Position
<1>3. /\ Asked({"waited"}) /\ report'.at = 6
      /\ report'.waited = v
  <2>1. DOMAIN report = Fields /\ DOMAIN report' = Fields
    BY <1>2 DEF FiguresInvariant, Report
  <2>2. /\ report'.at = report.at + 1
        /\ report'.waited = v
        /\ \A g \in Fields :
             g # "at" /\ g \notin {"waited"} => report'[g] = report[g]
    BY <1>2, <2>1 DEF Fields
  <2> QED
    BY <1>2, <2>1, <2>2 DEF Asked
<1>4. report.cutoff = 0 => \A t \in Subject : report.begun[t] > 0 => t \in v
  <2> SUFFICES ASSUME report.cutoff = 0, NEW t \in Subject, report.begun[t] > 0 PROVE t \in v
    OBVIOUS
  <2>1. /\ report.begun[t] <= Cardinality(RowsOf(attempts, t)) /\ report.begun[t] \in Nat
        /\ Cardinality(RowsOf(attempts, t)) \in Nat
    BY <1>2, RowsCounted DEF FiguresInvariant, AttemptFigures, Report, HistoryInvariant
  <2>2. RowsOf(attempts, t) # {}
    BY <2>1, FS_EmptySet
  <2>3. PICK i \in 1 .. Len(attempts) :
           /\ attempts[i].task = t
           /\ \A k \in 1 .. Len(attempts) : attempts[k].task = t => i <= k
    BY <2>2 DEF RowsOf, HistoryInvariant, FirstsAre
  <2>4. i \in First(Of(attempts, t))
    BY <2>3 DEF First, Of, Where
  <2>5. attempts[i].made \in Nat
    BY RowsAreOfTasks DEF HistoryInvariant, AttemptRow
  <2> QED
    BY <1>1, <2>4, <2>5
<1>5. Report(report')
  BY <1>2, <1>3, <1>4 DEF FiguresInvariant, Report, Asked, Fields, Counts
<1>6. /\ GateFigures(report, outcomes)'
      /\ VerdictFigures(report, verdicts)'
      /\ TaskFigures(report, subject)'
  BY <1>2, <1>3, GatesStand, VerdictsStand, TasksStand
<1>7. AttemptFigures(report, attempts)'
  <2>1. AttemptFigures(report, attempts) /\ attempts' = attempts
    BY <1>2 DEF FiguresInvariant, historyVars
  <2> QED
    BY <1>2, <1>3, <1>4, <2>1
    DEF AttemptFigures, Asked, Fields, FiguresInvariant, Report, Counts
<1> QED
  BY <1>5, <1>6, <1>7 DEF FiguresInvariant

(* The latest attempt of each task                                             *)
LEMMA LatestRead ==
  ASSUME HistoryInvariant, FiguresInvariant, ReadLatest
  PROVE  FiguresInvariant'
<1>1. PICK v : v = [t \in Subject |-> Cardinality(RowsOf(attempts, t))]
  OBVIOUS
<1>2. /\ report.at = 6 /\ UNCHANGED historyVars
      /\ report' = [[report EXCEPT !.latest = v]
                     EXCEPT !.at = @ + 1]
  BY <1>1 DEF ReadLatest, Reads, With, Position, Of, Where, RowsOf
<1>3. /\ Asked({"latest"}) /\ report'.at = 7
      /\ report'.latest = v
  <2>1. DOMAIN report = Fields /\ DOMAIN report' = Fields
    BY <1>2 DEF FiguresInvariant, Report
  <2>2. /\ report'.at = report.at + 1
        /\ report'.latest = v
        /\ \A g \in Fields :
             g # "at" /\ g \notin {"latest"} => report'[g] = report[g]
    BY <1>2, <2>1 DEF Fields
  <2> QED
    BY <1>2, <2>1, <2>2 DEF Asked
<1>4. v \in [Subject -> Nat] /\ \A t \in Subject : v[t] = Cardinality(RowsOf(attempts, t))
  BY <1>1, RowsCounted DEF HistoryInvariant
<1>5. Report(report')
  BY <1>2, <1>3, <1>4 DEF FiguresInvariant, Report, Asked, Fields, Counts
<1>6. /\ GateFigures(report, outcomes)'
      /\ VerdictFigures(report, verdicts)'
      /\ TaskFigures(report, subject)'
  BY <1>2, <1>3, GatesStand, VerdictsStand, TasksStand
<1>7. AttemptFigures(report, attempts)'
  <2>1. AttemptFigures(report, attempts) /\ attempts' = attempts
    BY <1>2 DEF FiguresInvariant, historyVars
  <2> QED
    BY <1>2, <1>3, <1>4, <2>1
    DEF AttemptFigures, Asked, Fields, FiguresInvariant, Report, Counts
<1> QED
  BY <1>5, <1>6, <1>7 DEF FiguresInvariant

(* The retries of the cycles read at first are among all retries.            *)
LEMMA ReviewsRead ==
  ASSUME HistoryInvariant, FiguresInvariant, ReadReviews
  PROVE  FiguresInvariant'
<1>1. PICK v, w, x : /\ v = Cardinality({i \in 1 .. Len(verdicts) :
                                         verdicts[i].made >= report.cutoff})
                     /\ w = Cardinality(RetryRows(verdicts, report.cutoff))
                     /\ x = Cardinality(InCycle(RetryRows(verdicts, report.cutoff)))
  OBVIOUS
<1>2. /\ report.at = 7 /\ UNCHANGED historyVars
      /\ report' = [[report EXCEPT !.reviews = v, !.retries = w, !.current = x]
                     EXCEPT !.at = @ + 1]
  BY <1>1 DEF ReadReviews, Reads, With, Position, Number, Where, RetriesSince, RetryRows
<1>3. /\ Asked({"reviews", "retries", "current"}) /\ report'.at = 8
      /\ report'.reviews = v /\ report'.retries = w /\ report'.current = x
  <2>1. DOMAIN report = Fields /\ DOMAIN report' = Fields
    BY <1>2 DEF FiguresInvariant, Report
  <2>2. /\ report'.at = report.at + 1
        /\ report'.reviews = v /\ report'.retries = w /\ report'.current = x
        /\ \A g \in Fields :
             g # "at" /\ g \notin {"reviews", "retries", "current"} => report'[g] = report[g]
    BY <1>2, <2>1 DEF Fields
  <2> QED
    BY <1>2, <2>1, <2>2 DEF Asked
<1>4. /\ v \in Nat /\ v <= Len(verdicts) /\ w \in Nat /\ x \in Nat /\ x <= w
      /\ x <= Cardinality(CycleRows(verdicts, report.cycle))
      /\ report.cutoff = 0 => w = Cardinality(RetryRows(verdicts, 0))
  <2>1. PICK n \in Nat : n = Len(verdicts)
    BY DEF HistoryInvariant, HistoryTypes
  <2>2. v \in Nat /\ v <= n
    <3>1. Cardinality(1 .. n) = n
      BY FS_Interval
    <3> QED
      BY <1>1, <2>1, <3>1, CountGrows
  <2>3. /\ InCycle(RetryRows(verdicts, report.cutoff)) \subseteq RetryRows(verdicts, report.cutoff)
        /\ InCycle(RetryRows(verdicts, report.cutoff)) \subseteq CycleRows(verdicts, report.cycle)
        /\ RetryRows(verdicts, report.cutoff) \in SUBSET (1 .. n)
        /\ CycleRows(verdicts, report.cycle) \in SUBSET (1 .. n)
    <3>1. RetryRows(verdicts, report.cutoff) \subseteq RetryRows(verdicts, 0)
      <4>1. report.cutoff \in Nat
        BY DEF FiguresInvariant, Report, Counts
      <4>2. \A i \in 1 .. Len(verdicts) : verdicts[i].made \in Nat
        BY RowsAreOfTasks DEF HistoryInvariant, VerdictRow
      <4> QED
        BY <4>1, <4>2 DEF RetryRows
    <3> QED
      BY <2>1, <3>1 DEF InCycle, CycleRows, RetryRows
  <2>4. /\ w \in Nat /\ x \in Nat /\ x <= w
        /\ x <= Cardinality(CycleRows(verdicts, report.cycle))
    BY <1>1, <2>3, CountGrows
  <2> QED
    BY <1>1, <2>1, <2>2, <2>4
<1>5. Report(report')
  <2>1. Report(report) /\ v \in Nat /\ w \in Nat /\ x \in Nat
    BY <1>4 DEF FiguresInvariant
  <2> QED
    BY <1>3, <2>1 DEF Report, Asked, Fields, Counts
<1>6. /\ GateFigures(report, outcomes)'
      /\ AttemptFigures(report, attempts)'
      /\ TaskFigures(report, subject)'
  BY <1>2, <1>3, GatesStand, AttemptsStand, TasksStand
<1>7. VerdictFigures(report, verdicts)'
  <2>1. /\ verdicts' = verdicts
        /\ report'.cutoff = report.cutoff /\ report'.cycle = report.cycle
    BY <1>2, <1>3 DEF Asked, Fields, historyVars
  <2>2. Len(verdicts) \in Nat
    BY DEF HistoryInvariant, HistoryTypes
  <2> QED
    BY <1>3, <1>4, <2>1, <2>2 DEF VerdictFigures
<1> QED
  BY <1>5, <1>6, <1>7 DEF FiguresInvariant

(* The verdicts at the gate                                                    *)
LEMMA GateRead ==
  ASSUME HistoryInvariant, FiguresInvariant, ReadGate
  PROVE  FiguresInvariant'
<1>1. PICK v, w : /\ v = Completions(report.cutoff)
                  /\ w = Cardinality(SentBackRows(outcomes, report.cutoff))
  OBVIOUS
<1>2. /\ report.at = 8 /\ UNCHANGED historyVars
      /\ report' = [[report EXCEPT !.gate = v, !.returned = w]
                     EXCEPT !.at = @ + 1]
  BY <1>1 DEF ReadGate, Reads, With, Position, Number, Where, SentBackRows
<1>3. /\ Asked({"gate", "returned"}) /\ report'.at = 9
      /\ report'.gate = v /\ report'.returned = w
  <2>1. DOMAIN report = Fields /\ DOMAIN report' = Fields
    BY <1>2 DEF FiguresInvariant, Report
  <2>2. /\ report'.at = report.at + 1
        /\ report'.gate = v /\ report'.returned = w
        /\ \A g \in Fields :
             g # "at" /\ g \notin {"gate", "returned"} => report'[g] = report[g]
    BY <1>2, <2>1 DEF Fields
  <2> QED
    BY <1>2, <2>1, <2>2 DEF Asked
<1>4. /\ v = Cardinality(Completed(outcomes, report.cutoff)) /\ v \in Nat /\ w \in Nat
      /\ w = Cardinality(SentBackRows(outcomes, report.cutoff))
  BY <1>1, FiguresCount, RowsCounted DEF HistoryInvariant
<1>5. Report(report')
  BY <1>2, <1>3, <1>4 DEF FiguresInvariant, Report, Asked, Fields, Counts
<1>6. /\ AttemptFigures(report, attempts)'
      /\ VerdictFigures(report, verdicts)'
      /\ TaskFigures(report, subject)'
  BY <1>2, <1>3, AttemptsStand, VerdictsStand, TasksStand
<1>7. GateFigures(report, outcomes)'
  <2>1. GateFigures(report, outcomes) /\ outcomes' = outcomes
    BY <1>2 DEF FiguresInvariant, historyVars
  <2> QED
    BY <1>2, <1>3, <1>4, <2>1
    DEF GateFigures, Asked, Fields, FiguresInvariant, Report, Counts
<1> QED
  BY <1>5, <1>6, <1>7 DEF FiguresInvariant

(* The reasons of retries, beside the verdicts counted before                  *)
LEMMA ReasonsRead ==
  ASSUME HistoryInvariant, FiguresInvariant, ReadReasons
  PROVE  FiguresInvariant'
<1>1. PICK v : v = Cardinality(SentBackRows(outcomes, report.cutoff))
  OBVIOUS
<1>2. /\ report.at = 9 /\ UNCHANGED historyVars
      /\ report' = [[report EXCEPT !.reasons = v]
                     EXCEPT !.at = @ + 1]
  BY <1>1 DEF ReadReasons, Reads, With, Position, Number, Where, SentBackRows
<1>3. /\ Asked({"reasons"}) /\ report'.at = 10
      /\ report'.reasons = v
  <2>1. DOMAIN report = Fields /\ DOMAIN report' = Fields
    BY <1>2 DEF FiguresInvariant, Report
  <2>2. /\ report'.at = report.at + 1
        /\ report'.reasons = v
        /\ \A g \in Fields :
             g # "at" /\ g \notin {"reasons"} => report'[g] = report[g]
    BY <1>2, <2>1 DEF Fields
  <2> QED
    BY <1>2, <2>1, <2>2 DEF Asked
<1>4. v = Cardinality(SentBackRows(outcomes, report.cutoff)) /\ v \in Nat
  BY <1>1, RowsCounted DEF HistoryInvariant
<1>5. Report(report')
  BY <1>2, <1>3, <1>4 DEF FiguresInvariant, Report, Asked, Fields, Counts
<1>6. /\ AttemptFigures(report, attempts)'
      /\ VerdictFigures(report, verdicts)'
      /\ TaskFigures(report, subject)'
  BY <1>2, <1>3, AttemptsStand, VerdictsStand, TasksStand
<1>7. GateFigures(report, outcomes)'
  <2>1. GateFigures(report, outcomes) /\ outcomes' = outcomes
    BY <1>2 DEF FiguresInvariant, historyVars
  <2> QED
    BY <1>2, <1>3, <1>4, <2>1
    DEF GateFigures, Asked, Fields, FiguresInvariant, Report, Counts
<1> QED
  BY <1>5, <1>6, <1>7 DEF FiguresInvariant

(* The rounds of each task                                                     *)
LEMMA RoundsRead ==
  ASSUME HistoryInvariant, FiguresInvariant, ReadRounds
  PROVE  FiguresInvariant'
<1>1. PICK v, w, x : /\ v = Len(verdicts)
                     /\ w = Cardinality(RetryRows(verdicts, 0))
                     /\ x = Cardinality(CycleRows(verdicts, report.cycle))
  OBVIOUS
<1>2. /\ report.at = 10 /\ UNCHANGED historyVars
      /\ report' = [[report EXCEPT !.rounds = v, !.lifetime = w, !.cycleRetries = x]
                     EXCEPT !.at = @ + 1]
  BY <1>1 DEF ReadRounds, Reads, With, Position, Number, Where, RetriesSince, RetryRows,
     InCycle, CycleRows
<1>3. /\ Asked({"rounds", "lifetime", "cycleRetries"}) /\ report'.at = 11
      /\ report'.rounds = v /\ report'.lifetime = w /\ report'.cycleRetries = x
  <2>1. DOMAIN report = Fields /\ DOMAIN report' = Fields
    BY <1>2 DEF FiguresInvariant, Report
  <2>2. /\ report'.at = report.at + 1
        /\ report'.rounds = v /\ report'.lifetime = w /\ report'.cycleRetries = x
        /\ \A g \in Fields :
             g # "at" /\ g \notin {"rounds", "lifetime", "cycleRetries"} => report'[g] = report[g]
    BY <1>2, <2>1 DEF Fields
  <2> QED
    BY <1>2, <2>1, <2>2 DEF Asked
<1>4. /\ v = Len(verdicts) /\ v \in Nat /\ w = Cardinality(RetryRows(verdicts, 0)) /\ w \in Nat
      /\ x = Cardinality(CycleRows(verdicts, report.cycle)) /\ x \in Nat
  BY <1>1, RowsCounted DEF HistoryInvariant, HistoryTypes
<1>5. Report(report')
  <2>1. Report(report) /\ v \in Nat /\ w \in Nat /\ x \in Nat
    BY <1>4 DEF FiguresInvariant
  <2> QED
    BY <1>3, <2>1 DEF Report, Asked, Fields, Counts
<1>6. /\ GateFigures(report, outcomes)'
      /\ AttemptFigures(report, attempts)'
      /\ TaskFigures(report, subject)'
  BY <1>2, <1>3, GatesStand, AttemptsStand, TasksStand
<1>7. VerdictFigures(report, verdicts)'
  <2>1. VerdictFigures(report, verdicts) /\ verdicts' = verdicts
    BY <1>2 DEF FiguresInvariant, historyVars
  <2> QED
    BY <1>2, <1>3, <1>4, <2>1
    DEF VerdictFigures, Asked, Fields, FiguresInvariant, Report, Counts
<1> QED
  BY <1>5, <1>6, <1>7 DEF FiguresInvariant

(* Completions are of different tasks, each done and with that as its last   *)
(* outcome: an injection from the rows to the tasks.                         *)
LEMMA OutcomesRead ==
  ASSUME HistoryInvariant, FiguresInvariant, ReadOutcomes
  PROVE  FiguresInvariant'
<1>1. PICK v : v = {t \in Subject :
                        \E i \in Last(Of(outcomes, t)) : outcomes[i].kind \in Completion}
  OBVIOUS
<1>2. /\ report.at = 11 /\ UNCHANGED historyVars
      /\ report' = [[report EXCEPT !.ended = v]
                     EXCEPT !.at = @ + 1]
  BY <1>1 DEF ReadOutcomes, Reads, With, Position
<1>3. /\ Asked({"ended"}) /\ report'.at = 12
      /\ report'.ended = v
  <2>1. DOMAIN report = Fields /\ DOMAIN report' = Fields
    BY <1>2 DEF FiguresInvariant, Report
  <2>2. /\ report'.at = report.at + 1
        /\ report'.ended = v
        /\ \A g \in Fields :
             g # "at" /\ g \notin {"ended"} => report'[g] = report[g]
    BY <1>2, <2>1 DEF Fields
  <2> QED
    BY <1>2, <2>1, <2>2 DEF Asked
<1>4. /\ v \subseteq Subject /\ IsFiniteSet(v) /\ \A t \in v : subject[t].state # "none"
      /\ report.cutoff = 0 => report.done <= Cardinality(v)
  <2>1. \A t \in v : subject[t].state = "done"
    BY <1>1 DEF Last, Of, Where, HistoryInvariant, CompletionsEnd
  <2>2. IsFiniteSet(v) /\ Cardinality(v) \in Nat
    <3>1. v \in SUBSET Made
      BY <1>1, <2>1 DEF Made
    <3> QED
      BY <3>1, FS_Subset, FS_CardinalityType DEF HistoryInvariant
  <2>3. Cardinality(Completed(outcomes, report.cutoff)) <= Cardinality(v)
    <3> DEFINE taskOf == [i \in Completed(outcomes, report.cutoff) |-> outcomes[i].task]
    <3>1. \A i \in Completed(outcomes, report.cutoff) : taskOf[i] \in v
      <4> SUFFICES ASSUME NEW i \in Completed(outcomes, report.cutoff) PROVE outcomes[i].task \in v
        OBVIOUS
      <4>1. /\ i \in 1 .. Len(outcomes) /\ outcomes[i].kind \in Completion
            /\ outcomes[i].task \in Subject
        BY RowsAreOfTasks DEF Completed, HistoryInvariant
      <4>2. i \in Last(Of(outcomes, outcomes[i].task))
        BY <4>1 DEF Last, Of, Where, HistoryInvariant, CompletionsEnd
      <4> QED
        BY <1>1, <4>1, <4>2
    <3>2. \A i, j \in Completed(outcomes, report.cutoff) : taskOf[i] = taskOf[j] => i = j
      <4> SUFFICES ASSUME NEW i \in Completed(outcomes, report.cutoff),
                          NEW j \in Completed(outcomes, report.cutoff),
                          outcomes[i].task = outcomes[j].task
                   PROVE  i = j
        OBVIOUS
      <4>1. /\ i \in 1 .. Len(outcomes) /\ outcomes[i].kind \in Completion
            /\ j \in 1 .. Len(outcomes) /\ outcomes[j].kind \in Completion
        BY DEF Completed
      <4>2. i <= j /\ j <= i
        BY <4>1 DEF HistoryInvariant, CompletionsEnd
      <4> QED
        BY <4>1, <4>2
    <3>3. taskOf \in Injection(Completed(outcomes, report.cutoff), v)
      BY <3>1, <3>2 DEF Injection, IsInjective
    <3> QED
      BY <2>2, <3>3, FS_Injection
  <2>4. /\ report.done <= Cardinality(Completed(outcomes, report.cutoff)) /\ report.done \in Nat
        /\ Cardinality(Completed(outcomes, report.cutoff)) \in Nat
    BY <1>2, RowsCounted DEF FiguresInvariant, GateFigures, Report, Counts, HistoryInvariant
  <2>5. report.done <= Cardinality(v)
    BY <2>2, <2>3, <2>4
  <2> QED
    BY <1>1, <2>1, <2>2, <2>5
<1>5. Report(report')
  <2>1. Report(report) /\ v \subseteq Subject /\ IsFiniteSet(v)
    BY <1>4 DEF FiguresInvariant
  <2> QED
    BY <1>3, <2>1 DEF Report, Asked, Fields, Counts
<1>6. /\ GateFigures(report, outcomes)'
      /\ AttemptFigures(report, attempts)'
      /\ VerdictFigures(report, verdicts)'
  BY <1>2, <1>3, GatesStand, AttemptsStand, VerdictsStand
<1>7. TaskFigures(report, subject)'
  <2>1. TaskFigures(report, subject) /\ subject' = subject
    BY <1>2 DEF FiguresInvariant, historyVars
  <2> QED
    BY <1>2, <1>3, <1>4, <2>1
    DEF TaskFigures, Asked, Fields, FiguresInvariant, Report, Counts
<1> QED
  BY <1>5, <1>6, <1>7 DEF FiguresInvariant

(* The list of tasks, read last                                                *)
LEMMA DetailRead ==
  ASSUME HistoryInvariant, FiguresInvariant, ReadDetail
  PROVE  FiguresInvariant'
<1>1. PICK v : v = CreatedOf(subject, report.cutoff)
  OBVIOUS
<1>2. /\ report.at = 12 /\ UNCHANGED historyVars
      /\ report' = [[report EXCEPT !.listed = v]
                     EXCEPT !.at = @ + 1]
  BY <1>1 DEF ReadDetail, Reads, With, Position, Created, CreatedOf
<1>3. /\ Asked({"listed"}) /\ report'.at = 13
      /\ report'.listed = v
  <2>1. DOMAIN report = Fields /\ DOMAIN report' = Fields
    BY <1>2 DEF FiguresInvariant, Report
  <2>2. /\ report'.at = report.at + 1
        /\ report'.listed = v
        /\ \A g \in Fields :
             g # "at" /\ g \notin {"listed"} => report'[g] = report[g]
    BY <1>2, <2>1 DEF Fields
  <2> QED
    BY <1>2, <2>1, <2>2 DEF Asked
<1>4. /\ v = CreatedOf(subject, report.cutoff) /\ IsFiniteSet(v)
      /\ report.cutoff = 0 => report.ended \cap v = report.ended
  <2>1. v \in SUBSET Made
    BY <1>1 DEF CreatedOf, Made
  <2>2. IsFiniteSet(v)
    BY <2>1, FS_Subset DEF HistoryInvariant
  <2>3. ASSUME report.cutoff = 0 PROVE report.ended \subseteq v
    <3>1. /\ report.ended \subseteq Subject
          /\ \A t \in report.ended : subject[t].state # "none" /\ subject[t].made \in Nat
      BY <1>2, <2>3
      DEF FiguresInvariant, Report, TaskFigures, HistoryInvariant, HistoryTypes, SubjectRow
    <3> QED
      BY <1>1, <2>3, <3>1 DEF CreatedOf
  <2> QED
    BY <1>1, <2>2, <2>3
<1>5. Report(report')
  <2>1. Report(report) /\ IsFiniteSet(v)
    BY <1>4 DEF FiguresInvariant
  <2> QED
    BY <1>3, <2>1 DEF Report, Asked, Fields, Counts
<1>6. /\ GateFigures(report, outcomes)'
      /\ AttemptFigures(report, attempts)'
      /\ VerdictFigures(report, verdicts)'
  BY <1>2, <1>3, GatesStand, AttemptsStand, VerdictsStand
<1>7. TaskFigures(report, subject)'
  <2>1. TaskFigures(report, subject) /\ subject' = subject
    BY <1>2 DEF FiguresInvariant, historyVars
  <2> QED
    BY <1>2, <1>3, <1>4, <2>1
    DEF TaskFigures, Asked, Fields, FiguresInvariant, Report, Counts
<1> QED
  BY <1>5, <1>6, <1>7 DEF FiguresInvariant

(* A request begins and ends with no figures.                                *)
LEMMA AskAndAnswer ==
  ASSUME FiguresInvariant, HistoryInvariant, Answer \/ \E cut \in {0, WindowStart} : Ask(cut)
  PROVE  FiguresInvariant'
<1>1. CASE Answer
  <2>1. report' = NoFigures
    BY <1>1 DEF Answer
  <2>2. Report(report')
    BY <2>1, FS_EmptySet DEF NoFigures, Report, Fields, Counts
  <2>3. report'.at = 0
    BY <2>1 DEF NoFigures
  <2> QED
    BY <2>2, <2>3
    DEF FiguresInvariant, GateFigures, AttemptFigures, VerdictFigures, TaskFigures
<1>2. CASE \E cut \in {0, WindowStart} : Ask(cut)
  <2>1. PICK cut \in {0, WindowStart} : Ask(cut)
    BY <1>2
  <2>2. cut \in Nat
    BY InsightsAssumption DEF WindowStart, HistoryInvariant, HistoryTypes
  <2>3. PICK cycles : cycles = [t \in Subject |-> subject[t].cycle]
    OBVIOUS
  <2>4. report' = [NoFigures EXCEPT !.at = 1, !.cutoff = cut, !.cycle = cycles]
    BY <2>1, <2>3 DEF Ask
  <2>5. DOMAIN NoFigures = Fields /\ Report(NoFigures)
    BY FS_EmptySet DEF NoFigures, Report, Fields, Counts
  <2>6. /\ DOMAIN report' = Fields /\ report'.at = 1 /\ report'.cutoff = cut
        /\ \A g \in Fields : g \notin {"at", "cutoff", "cycle"} => report'[g] = NoFigures[g]
    BY <2>4, <2>5 DEF Fields
  <2>7. Report(report')
    BY <2>2, <2>5, <2>6 DEF Report, Fields, Counts
  <2> QED
    BY <2>6, <2>7
    DEF FiguresInvariant, GateFigures, AttemptFigures, VerdictFigures, TaskFigures
<1> QED
  BY <1>1, <1>2

(* The rows a figure was bounded by are there for good.                      *)
LEMMA RowsGrow ==
  ASSUME HistoryInvariant, HistoryInvariant', HistoryGrows
  PROVE  /\ \A cut : Cardinality(Completed(outcomes, cut)) <= Cardinality(Completed(outcomes', cut))
         /\ \A cut : Cardinality(SentBackRows(outcomes, cut))
                       <= Cardinality(SentBackRows(outcomes', cut))
         /\ \A cut : Cardinality(FinishedRows(attempts, cut))
                       <= Cardinality(FinishedRows(attempts', cut))
         /\ \A t : Cardinality(RowsOf(attempts, t)) <= Cardinality(RowsOf(attempts', t))
         /\ \A cut : Cardinality(RetryRows(verdicts, cut)) <= Cardinality(RetryRows(verdicts', cut))
         /\ \A cycles : Cardinality(CycleRows(verdicts, cycles))
                          <= Cardinality(CycleRows(verdicts', cycles))
         /\ \A cut : Cardinality(CreatedOf(subject, cut)) <= Cardinality(CreatedOf(subject', cut))
         /\ \A cut : Cardinality(CreatedOf(subject, cut)) \in Nat
         /\ \A cut : Cardinality(CreatedOf(subject', cut)) \in Nat
<1>1. PICK a \in Nat, b \in Nat, v \in Nat, w \in Nat, o \in Nat, p \in Nat :
         /\ a = Len(attempts) /\ b = Len(attempts') /\ v = Len(verdicts) /\ w = Len(verdicts')
         /\ o = Len(outcomes) /\ p = Len(outcomes') /\ a <= b /\ v <= w /\ o <= p
  <2>1. /\ Len(attempts) \in Nat /\ Len(verdicts) \in Nat /\ Len(outcomes) \in Nat
        /\ Len(attempts') \in Nat /\ Len(verdicts') \in Nat /\ Len(outcomes') \in Nat
    BY DEF HistoryInvariant, HistoryTypes
  <2> QED
    BY <2>1 DEF HistoryGrows
<1>2. ASSUME NEW cut
      PROVE  /\ Cardinality(Completed(outcomes, cut)) <= Cardinality(Completed(outcomes', cut))
             /\ Cardinality(SentBackRows(outcomes, cut))
                  <= Cardinality(SentBackRows(outcomes', cut))
  <2>1. /\ Completed(outcomes, cut) \subseteq Completed(outcomes', cut)
        /\ Completed(outcomes, cut) \in SUBSET (1 .. o)
        /\ Completed(outcomes', cut) \in SUBSET (1 .. p)
    BY <1>1 DEF Completed, HistoryGrows
  <2>2. /\ SentBackRows(outcomes, cut) \subseteq SentBackRows(outcomes', cut)
        /\ SentBackRows(outcomes, cut) \in SUBSET (1 .. o)
        /\ SentBackRows(outcomes', cut) \in SUBSET (1 .. p)
    BY <1>1 DEF SentBackRows, HistoryGrows
  <2> QED
    BY <2>1, <2>2, CountGrows
<1>3. ASSUME NEW cut
      PROVE  Cardinality(FinishedRows(attempts, cut)) <= Cardinality(FinishedRows(attempts', cut))
  <2>1. /\ FinishedRows(attempts, cut) \subseteq FinishedRows(attempts', cut)
        /\ FinishedRows(attempts, cut) \in SUBSET (1 .. a)
        /\ FinishedRows(attempts', cut) \in SUBSET (1 .. b)
    BY <1>1 DEF FinishedRows, HistoryGrows, Ended
  <2> QED
    BY <2>1, CountGrows
<1>4. ASSUME NEW t
      PROVE  Cardinality(RowsOf(attempts, t)) <= Cardinality(RowsOf(attempts', t))
  <2>1. /\ RowsOf(attempts, t) \subseteq RowsOf(attempts', t)
        /\ RowsOf(attempts, t) \in SUBSET (1 .. a) /\ RowsOf(attempts', t) \in SUBSET (1 .. b)
    BY <1>1 DEF RowsOf, HistoryGrows
  <2> QED
    BY <2>1, CountGrows
<1>5. ASSUME NEW cut
      PROVE  Cardinality(RetryRows(verdicts, cut)) <= Cardinality(RetryRows(verdicts', cut))
  <2>1. /\ RetryRows(verdicts, cut) \subseteq RetryRows(verdicts', cut)
        /\ RetryRows(verdicts, cut) \in SUBSET (1 .. v)
        /\ RetryRows(verdicts', cut) \in SUBSET (1 .. w)
    BY <1>1 DEF RetryRows, HistoryGrows
  <2> QED
    BY <2>1, CountGrows
<1>6. ASSUME NEW cycles
      PROVE  Cardinality(CycleRows(verdicts, cycles)) <= Cardinality(CycleRows(verdicts', cycles))
  <2>1. /\ CycleRows(verdicts, cycles) \subseteq CycleRows(verdicts', cycles)
        /\ CycleRows(verdicts, cycles) \in SUBSET (1 .. v)
        /\ CycleRows(verdicts', cycles) \in SUBSET (1 .. w)
    BY <1>1 DEF CycleRows, RetryRows, HistoryGrows
  <2> QED
    BY <2>1, CountGrows
<1>7. ASSUME NEW cut
      PROVE  /\ Cardinality(CreatedOf(subject, cut)) <= Cardinality(CreatedOf(subject', cut))
             /\ Cardinality(CreatedOf(subject, cut)) \in Nat
             /\ Cardinality(CreatedOf(subject', cut)) \in Nat
  <2>1. CreatedOf(subject, cut) \subseteq CreatedOf(subject', cut)
    BY DEF CreatedOf, HistoryGrows, SubjectsGrow
  <2>2. IsFiniteSet(CreatedOf(subject', cut))
    <3>1. CreatedOf(subject', cut) \in SUBSET Made' /\ IsFiniteSet(Made')
      BY DEF CreatedOf, Made, HistoryInvariant
    <3> QED
      BY <3>1, FS_Subset
  <2> QED
    BY <2>1, <2>2, FS_Subset, FS_CardinalityType
<1> QED
  BY <1>2, <1>3, <1>4, <1>5, <1>6, <1>7

(* The work between two queries leaves the figures within their bounds.      *)
LEMMA FiguresStand ==
  ASSUME HistoryInvariant, HistoryInvariant', HistoryGrows, FiguresInvariant,
         \/ UNCHANGED report
         \/ report' = [report EXCEPT !.news = @ + 1]
  PROVE  FiguresInvariant'
<1>1. /\ DOMAIN report' = Fields /\ \A g \in Fields : g # "news" => report'[g] = report[g]
      /\ report'.news \in Nat
  BY DEF FiguresInvariant, Report, Fields, Counts
<1>2. Report(report')
  BY <1>1 DEF FiguresInvariant, Report, Fields, Counts
<1>3. /\ report'.at = report.at /\ report'.cutoff = report.cutoff /\ report'.cycle = report.cycle
      /\ report'.done = report.done /\ report'.completed = report.completed
      /\ report'.begun = report.begun /\ report'.finished = report.finished
      /\ report'.waited = report.waited /\ report'.latest = report.latest
      /\ report'.reviews = report.reviews /\ report'.retries = report.retries
      /\ report'.current = report.current /\ report'.gate = report.gate
      /\ report'.returned = report.returned /\ report'.reasons = report.reasons
      /\ report'.rounds = report.rounds /\ report'.lifetime = report.lifetime
      /\ report'.cycleRetries = report.cycleRetries /\ report'.ended = report.ended
      /\ report'.created = report.created /\ report'.listed = report.listed
  BY <1>1 DEF Fields
<1>4. /\ report.done \in Nat /\ report.returned \in Nat /\ report.completed \in Nat
      /\ report.current \in Nat /\ report.reviews \in Nat /\ report.retries \in Nat
      /\ report.created \in Nat /\ report.begun \in [Subject -> Nat]
      /\ report.ended \subseteq Subject
  BY DEF FiguresInvariant, Report, Counts
<1>5. HistoryTypes /\ HistoryTypes'
  BY DEF HistoryInvariant
<1>6. (/\ \A cut : /\ Cardinality(Completed(outcomes, cut)) \in Nat
                   /\ Cardinality(SentBackRows(outcomes, cut)) \in Nat
                   /\ Cardinality(FinishedRows(attempts, cut)) \in Nat
                   /\ Cardinality(RetryRows(verdicts, cut)) \in Nat
       /\ \A t : Cardinality(RowsOf(attempts, t)) \in Nat
       /\ \A cycles : Cardinality(CycleRows(verdicts, cycles)) \in Nat)'
  BY <1>5, RowsCounted, PTL
<1>7. GateFigures(report, outcomes)'
  <2>1. GateFigures(report, outcomes)
    BY DEF FiguresInvariant
  <2> QED
    BY <1>3, <1>4, <1>5, <1>6, <2>1, RowsCounted, RowsGrow DEF GateFigures
<1>8. AttemptFigures(report, attempts)'
  <2>1. AttemptFigures(report, attempts)
    BY DEF FiguresInvariant
  <2> QED
    BY <1>3, <1>4, <1>5, <1>6, <2>1, RowsCounted, RowsGrow DEF AttemptFigures
<1>9. VerdictFigures(report, verdicts)'
  <2>1. VerdictFigures(report, verdicts)
    BY DEF FiguresInvariant
  <2>2. Len(verdicts) \in Nat /\ Len(verdicts') \in Nat /\ Len(verdicts) <= Len(verdicts')
    BY <1>5 DEF HistoryTypes, HistoryGrows
  <2>3. /\ Cardinality(CycleRows(verdicts, report.cycle)) \in Nat
        /\ Cardinality(CycleRows(verdicts', report.cycle)) \in Nat
        /\ Cardinality(CycleRows(verdicts, report.cycle))
             <= Cardinality(CycleRows(verdicts', report.cycle))
        /\ Cardinality(RetryRows(verdicts, 0)) \in Nat
        /\ Cardinality(RetryRows(verdicts', 0)) \in Nat
        /\ Cardinality(RetryRows(verdicts, 0)) <= Cardinality(RetryRows(verdicts', 0))
    BY <1>5, <1>6, RowsCounted, RowsGrow
  <2> QED
    BY <1>3, <1>4, <2>1, <2>2, <2>3 DEF VerdictFigures
<1>10. TaskFigures(report, subject)'
  <2>1. TaskFigures(report, subject)
    BY DEF FiguresInvariant
  <2>2. \A t \in report.ended : subject[t].state # "none" => subject'[t].state # "none"
    BY <1>4 DEF HistoryGrows, SubjectsGrow
  <2> QED
    BY <1>3, <1>4, <2>1, <2>2, RowsGrow DEF TaskFigures
<1> QED
  BY <1>2, <1>7, <1>8, <1>9, <1>10 DEF FiguresInvariant

(* Work that happens during a report is only noted as news                     *)
LEMMA WorksWithReports ==
  Works => UNCHANGED report \/ report' = [report EXCEPT !.news = @ + 1]
  BY DEF Works, Meanwhile, DayPasses, Reconfigure, CreateSubject, ClaimSubject, StartReview,
     RetrySubject, CancelSubject, GateEvent, RenewAttempt, EndAttempt, EndReview

(* The invariant of a report that is being read is inductive                   *)
LEMMA FiguresKept ==
  ASSUME HistoryInvariant, FiguresInvariant, [InsightsNext]_insightVars
  PROVE  FiguresInvariant'
<1>1. HistoryInvariant' /\ HistoryGrows
  BY HistoryKept
<1>2. CASE Works
  BY <1>1, <1>2, WorksWithReports, FiguresStand
<1>3. CASE Queries
  BY <1>3, AskAndAnswer, CreatedRead, CompletionsRead, StartedRead, FinishedRead, WaitsRead,
     LatestRead, ReviewsRead, GateRead, ReasonsRead, RoundsRead, OutcomesRead, DetailRead
  DEF Queries
<1>4. CASE UNCHANGED insightVars
  BY <1>1, <1>4, FiguresStand DEF insightVars
<1> QED
  BY <1>2, <1>3, <1>4, StepsOfInsights

(* No figure of a report contradicts one it was read after, whatever is      *)
(* claimed, judged and merged between its queries (insights of insights.rs). *)
THEOREM ReportsAlwaysAddUp == InsightsSpec => []ReportAddsUp
<1>1. FiguresInvariant => ReportAddsUp
  <2> SUFFICES ASSUME FiguresInvariant, report.at = 13 PROVE ReportAddsUp
    BY DEF ReportAddsUp
  <2>1. /\ report.done <= report.gate /\ report.completed <= report.finished
        /\ report.returned <= report.reasons
        /\ report.current <= report.retries /\ report.current <= report.cycleRetries
    BY DEF FiguresInvariant, GateFigures, AttemptFigures, VerdictFigures
  <2>2. report.cutoff = 0 =>
          /\ {t \in Subject : report.begun[t] > 0} \subseteq report.waited
          /\ \A t \in Subject : report.begun[t] <= report.latest[t]
    BY DEF FiguresInvariant, AttemptFigures
  <2>3. report.cutoff = 0 => report.reviews <= report.rounds /\ report.retries <= report.lifetime
    BY DEF FiguresInvariant, VerdictFigures
  <2>4. report.cutoff = 0 =>
          /\ report.done <= Cardinality(report.ended \cap report.listed)
          /\ report.created <= Cardinality(report.listed)
    BY DEF FiguresInvariant, TaskFigures
  <2> QED
    BY <2>1, <2>2, <2>3, <2>4 DEF ReportAddsUp
<1>2. HistoryInvariant /\ FiguresInvariant /\ [InsightsNext]_insightVars =>
        HistoryInvariant' /\ FiguresInvariant'
  BY HistoryKept, FiguresKept
<1> QED
  BY <1>1, <1>2, InitHistory, InitFigures, PTL DEF InsightsSpec
=============================================================================
