-------------------------- MODULE WorkspaceProofs ---------------------------
(* Proofs about the places work is done in: the sandbox of an interactive    *)
(* lease, for every set of calls, and the workspace of a task on a worker, for *)
(* every number of attempts. The last theorems say that shells and sandboxes *)
(* end.                                                                      *)
EXTENDS TaskWorkspace, InteractiveSandbox, TLAPS

-----------------------------------------------------------------------------
(* The sandbox of an interactive lease: the inductive invariant *)

(* Before the sandbox is attached nobody calls it and nothing is handed in *)
QuietUntilAttached ==
    /\ pick # "attached" => result = 0 /\ \A c \in Call : call[c] = IdleCall
    /\ lease = "completed" => pick = "attached"

(* A commit of the trusted checkout that has changes *)
Candidate(n) == n \in 1 .. Len(history) /\ history[n] # "base"

(* On its way to its report a finish carries a candidate, pushed before it is  *)
(* reported                                                                    *)
FinishCarriesCandidate ==
    \A c \in Call :
        /\ call[c].at = "push" => Candidate(call[c].sha)
        /\ call[c].at = "close" => call[c].sha <= Len(history)
        /\ role = "implementation" /\ call[c].at = "close" /\ call[c].op = "finish" =>
              Candidate(call[c].sha) /\ call[c].sha <= published

(* Only a write writes, only a bash call starts a shell *)
CallOfItsKind ==
    \A c \in Call :
        /\ call[c].at = "write" => call[c].op = "write"
        /\ call[c].at \in {"spawn", "watch"} => call[c].op = "bash"

SandboxInv ==
    /\ TypeOK
    /\ CallOfItsKind
    /\ QuietUntilAttached
    /\ AnswersAgreeWithLease
    /\ FinishCarriesCandidate
    /\ HandInIsPublished

-----------------------------------------------------------------------------

(* Initially the sandbox is being prepared and nobody calls it *)
LEMMA InitSandbox == Init => SandboxInv
<1> SUFFICES ASSUME Init PROVE SandboxInv
  OBVIOUS
<1>0. CallOfItsKind
  BY DEF Init, CallOfItsKind, IdleCall
<1>1. TypeOK
  <2>1. call \in [Call -> CallState \union {IdleCall}]
    BY DEF Init
  <2>2. history \in Seq(Content \ {"gone"}) /\ Len(history) = 0
    BY DEF Init
  <2>3. tree \in [Directory -> Content]
    BY DEF Init, Content
  <2>4. process \in [Call -> {"none", "spawned", "watched", "over"}]
    BY DEF Init
  <2>5. published \in 0 .. Len(history) /\ result \in 0 .. Len(history)
    BY <2>2 DEF Init
  <2>6. attached \in BOOLEAN /\ cancelled \in BOOLEAN
    BY DEF Init
  <2> QED
    BY <2>1, <2>2, <2>3, <2>4, <2>5, <2>6 DEF Init, TypeOK, Role
<1>2. QuietUntilAttached
  BY DEF Init, QuietUntilAttached
<1>3. AnswersAgreeWithLease
  BY DEF Init, AnswersAgreeWithLease, ClosedBy, IdleCall
<1>4. FinishCarriesCandidate
  BY DEF Init, FinishCarriesCandidate, IdleCall
<1>5. HandInIsPublished
  BY DEF Init, HandInIsPublished
<1> QED
  BY <1>0, <1>1, <1>2, <1>3, <1>4, <1>5 DEF SandboxInv

(* Where First sends a call *)
LEMMA FirstStep ==
    ASSUME NEW op \in Operation
    PROVE  /\ First(op) \in {"write", "spawn", "clear", "close"}
           /\ First(op) = "write" => op = "write"
           /\ First(op) = "spawn" => op = "bash"
           /\ First(op) = "close" => op # "finish" \/ role # "implementation"
  BY DEF First, Operation

(* A call that goes on keeps its type *)
LEMMA CallGoesOn ==
    ASSUME TypeOK, NEW c \in Call, call[c].at # "idle", NEW at, Goes(c, at),
           at \in Fallible \union {"watch", "detach", "done", "failed"}
    PROVE  call' \in [Call -> CallState \union {IdleCall}]
<1>1. call[c] \in CallState
  BY DEF TypeOK, IdleCall
<1>2. [call[c] EXCEPT !.at = at] \in CallState
  BY <1>1 DEF CallState
<1> QED
  BY <1>2 DEF TypeOK, Goes

(* Every step keeps the types *)
LEMMA TypeStep == SandboxInv /\ [Next]_vars => TypeOK'
<1> SUFFICES ASSUME SandboxInv, [Next]_vars PROVE TypeOK'
  OBVIOUS
<1> TypeOK
  BY DEF SandboxInv
<1> USE DEF TypeOK, CallState, IdleCall, Fallible, Directory, Content, Role
<1>1. CASE Attach
  <2> PICK content \in {"base", "work"} :
        /\ tree' = [d \in Directory |-> content]
        /\ history' = <<content>>
        /\ published' = IF content = "work" THEN 1 ELSE 0
    BY <1>1 DEF Attach
  <2>1. history' \in Seq(Content \ {"gone"}) /\ Len(history') = 1
    OBVIOUS
  <2>2. tree' \in [Directory -> Content]
    OBVIOUS
  <2>4. result = 0
    BY <1>1 DEF Attach, SandboxInv, QuietUntilAttached
  <2> QED
    BY <1>1, <2>1, <2>2, <2>4 DEF Attach
<1>2. CASE PreparationFails
  BY <1>2 DEF PreparationFails
<1>3. CASE PickReleases
  BY <1>3 DEF PickReleases, manager, checkout
<1>4. CASE KillProcesses
  BY <1>4 DEF KillProcesses, checkout
<1>5. CASE RemoveEnds
  BY <1>5 DEF RemoveEnds, checkout
<1>6. ASSUME NEW d \in Directory, RemoveFiles(d) PROVE TypeOK'
  BY <1>6 DEF RemoveFiles, manager
<1>7. CASE HeartbeatFails
  BY <1>7 DEF HeartbeatFails, manager, checkout
<1>8. CASE HeartbeatDetaches
  BY <1>8 DEF HeartbeatDetaches, DetachLocal, manager, checkout
<1>9. CASE HeartbeatCancelled
  BY <1>9 DEF HeartbeatCancelled, manager, checkout
<1>10. ASSUME NEW c \in Call, NEW op \in Operation, Begin(c, op) PROVE TypeOK'
  BY <1>10, FirstStep DEF Begin, manager, checkout
<1>11. ASSUME NEW c \in Call, Fails(c) PROVE TypeOK'
  BY <1>11 DEF Fails, Goes, manager, checkout
<1>12. ASSUME NEW c \in Call, Write(c) PROVE TypeOK'
  BY <1>12 DEF Write, Goes, manager
<1>13. ASSUME NEW c \in Call, Finishing(c) PROVE TypeOK'
  <2>1. CASE ClearTrusted(c)
    <3>1. call' \in [Call -> CallState \union {IdleCall}]
      BY <2>1, CallGoesOn DEF ClearTrusted
    <3> QED
      BY <2>1, <3>1 DEF ClearTrusted, manager
  <2>2. CASE CopyWorkspace(c)
    <3>1. call' \in [Call -> CallState \union {IdleCall}]
      BY <2>2, CallGoesOn DEF CopyWorkspace
    <3>2. tree' \in [Directory -> Content]
      BY <2>2 DEF CopyWorkspace
    <3> QED
      BY <2>2, <3>1, <3>2 DEF CopyWorkspace, manager
  <2>3. CASE AutoCommit(c)
    BY SMTT(30), <2>3 DEF AutoCommit, Goes, Holds, manager
  <2>4. CASE ReadHead(c)
    BY <2>4 DEF ReadHead, HeadCommit, AfterHead, manager, checkout
  <2>5. CASE PushCandidate(c)
    BY <2>5 DEF PushCandidate, Goes, HeadCommit, manager
  <2>6. CASE CloseLease(c)
    <3>1. call' \in [Call -> CallState \union {IdleCall}]
      BY <2>6, CallGoesOn DEF CloseLease
    <3>2. call[c] \in CallState
      BY <2>6 DEF CloseLease
    <3>3. call[c].sha \in 0 .. Len(history)
      BY <2>6, <3>2 DEF CloseLease, SandboxInv, FinishCarriesCandidate
    <3> QED
      BY <2>6, <3>1, <3>3 DEF CloseLease, manager
  <2>7. CASE CallDetaches(c)
    <3>1. call' \in [Call -> CallState \union {IdleCall}]
      BY <2>7, CallGoesOn DEF CallDetaches
    <3>2. attached' \in BOOLEAN /\ cancelled' \in BOOLEAN
      BY <2>7 DEF CallDetaches, DetachLocal, manager
    <3> QED
      BY <2>7, <3>1, <3>2 DEF CallDetaches, DetachLocal, manager, checkout
  <2> QED
    BY <1>13, <2>1, <2>2, <2>3, <2>4, <2>5, <2>6, <2>7 DEF Finishing
<1>14. ASSUME NEW c \in Call, Spawn(c) PROVE TypeOK'
  BY <1>14 DEF Spawn, Goes, manager, checkout
<1>15. ASSUME NEW c \in Call, Watch(c) PROVE TypeOK'
  BY <1>15 DEF Watch, Goes, manager, checkout
<1>16. ASSUME NEW c \in Call, ShellWrites(c) PROVE TypeOK'
  BY <1>16 DEF ShellWrites, manager
<1>17. ASSUME NEW c \in Call, ShellExits(c) \/ WatcherKills(c) PROVE TypeOK'
  BY <1>17 DEF ShellExits, WatcherKills, manager, checkout
<1>18. CASE LeasePasses \/ ReapLease
  BY <1>18 DEF LeasePasses, ReapLease, manager, checkout
<1>19. CASE Restart
  <2>1. \A c \in Call : call'[c] \in CallState \union {IdleCall}
    <3> TAKE c \in Call
    <3>1. CASE call[c].at \in {"idle", "done"}
      BY <1>19, <3>1 DEF Restart
    <3>2. CASE call[c].at \notin {"idle", "done"}
      <4>1. call[c] \in CallState
        BY <3>2
      <4>2. [call[c] EXCEPT !.at = "failed"] \in CallState
        BY <4>1
      <4> QED
        BY <1>19, <3>2, <4>2 DEF Restart
    <3> QED
      BY <3>1, <3>2
  <2>2. call' \in [Call -> CallState \union {IdleCall}]
    <3>1. call' = [c \in Call |-> call'[c]]
      BY <1>19 DEF Restart
    <3> QED
      BY <2>1, <3>1
  <2> QED
    BY <1>19, <2>2 DEF Restart
<1>20. CASE UNCHANGED vars
  BY <1>20 DEF vars
<1> QED
  BY <1>1, <1>2, <1>3, <1>4, <1>5, <1>6, <1>7, <1>8, <1>9, <1>10, <1>11, <1>12,
     <1>13, <1>14, <1>15, <1>16, <1>17, <1>18, <1>19, <1>20 DEF Next

-----------------------------------------------------------------------------

(* The parts of the invariant that say more than a type *)
Rest ==
    CallOfItsKind /\ QuietUntilAttached /\ AnswersAgreeWithLease /\ FinishCarriesCandidate /\ HandInIsPublished

(* A call at a step other than the last ones of a finish or a release matters   *)
(* to none of them                                                              *)
LEMMA CallMatters ==
    ASSUME SandboxInv, NEW c \in Call, call[c].at # "idle", pick = "attached",
           call' = [call EXCEPT ![c].at = call'[c].at],
           call'[c].at \in {"failed", "done", "watch", "copy", "commit", "head"},
           call'[c].at = "watch" => call[c].at = "spawn",
           call'[c].at = "done" => call[c].op \in {"write", "bash"} \/ call[c].at = "detach",
           UNCHANGED <<role, pick, lease, published, result>>,
           Len(history) <= Len(history'),
           \A n \in 1 .. Len(history) : history'[n] = history[n]
    PROVE  Rest'
<1> USE DEF SandboxInv
<1>1. call[c] \in CallState /\ \A d \in Call : d # c => call'[d] = call[d]
  BY DEF TypeOK, IdleCall
<1>2. call'[c].op = call[c].op
  BY <1>1 DEF TypeOK, CallState
<1>0. CallOfItsKind'
  BY <1>1, <1>2 DEF CallOfItsKind
<1>3. QuietUntilAttached'
  BY DEF QuietUntilAttached
<1>4. AnswersAgreeWithLease'
  <2>1. \A d \in Call : ClosedBy(d)' => ClosedBy(d) /\ call'[d].op = call[d].op
    BY <1>1, <1>2 DEF ClosedBy
  <2> QED
    BY <2>1 DEF AnswersAgreeWithLease
<1>5. FinishCarriesCandidate'
  <2>1. \A n : Candidate(n) => Candidate(n)'
    BY DEF Candidate, TypeOK
  <2>2. \A d \in Call : call'[d].at \in {"push", "close"} => call'[d] = call[d]
    BY <1>1
  <2>3. \A d \in Call : call[d].at = "close" => call[d].sha \in Nat
    BY DEF TypeOK, CallState, IdleCall
  <2>4. Len(history) \in Nat /\ Len(history') \in Nat
    BY DEF TypeOK
  <2> QED
    BY <2>1, <2>2, <2>3, <2>4 DEF FinishCarriesCandidate
<1>6. HandInIsPublished'
  BY DEF HandInIsPublished, TypeOK
<1> QED
  BY <1>0, <1>3, <1>4, <1>5, <1>6 DEF Rest

(* Every step keeps them *)
LEMMA RestStep == SandboxInv /\ [Next]_vars => Rest'
<1> SUFFICES ASSUME SandboxInv, [Next]_vars PROVE Rest'
  OBVIOUS
<1> TypeOK /\ Rest
  BY DEF SandboxInv, Rest
<1> Len(history) \in Nat
  BY DEF TypeOK
<1>0. \A c \in Call : call[c].at # "idle" => pick = "attached"
  BY DEF Rest, QuietUntilAttached, IdleCall
<1> DEFINE Same == <<role, pick, lease, history, published, result, call>>
<1>1. CASE UNCHANGED Same
  BY <1>1 DEF Rest, CallOfItsKind, QuietUntilAttached, AnswersAgreeWithLease, ClosedBy,
              FinishCarriesCandidate, Candidate, HandInIsPublished
<1>2. CASE Attach
  <2>1. QuietUntilAttached' /\ AnswersAgreeWithLease'
    BY <1>2 DEF Attach, Rest, QuietUntilAttached, AnswersAgreeWithLease, ClosedBy
  <2>2. \A c \in Call : call'[c].at = "idle"
    BY <1>2 DEF Attach, Rest, QuietUntilAttached, IdleCall
  <2>3. CallOfItsKind' /\ FinishCarriesCandidate'
    BY <2>2 DEF CallOfItsKind, FinishCarriesCandidate
  <2>4. lease' # "completed"
    BY <1>2 DEF Attach, Rest, QuietUntilAttached
  <2> QED
    BY <2>1, <2>3, <2>4 DEF Rest, HandInIsPublished
<1>3. CASE PreparationFails \/ PickReleases \/ LeasePasses \/ ReapLease
  <2>1. UNCHANGED <<role, history, published, result, call>>
    BY <1>3 DEF PreparationFails, PickReleases, LeasePasses, ReapLease, manager, checkout
  <2>2. lease' # "completed" \/ lease' = lease
    BY <1>3 DEF PreparationFails, PickReleases, LeasePasses, ReapLease
  <2>3. QuietUntilAttached'
    BY <1>3, <2>1 DEF PreparationFails, PickReleases, LeasePasses, ReapLease, Rest,
                      QuietUntilAttached
  <2>4. AnswersAgreeWithLease'
    <3>1. lease' = lease \/ lease \in {"active", "expired"}
      BY <1>3 DEF PreparationFails, PickReleases, LeasePasses, ReapLease
    <3> QED
      BY <2>1, <3>1 DEF Rest, AnswersAgreeWithLease, ClosedBy
  <2>5. CallOfItsKind' /\ FinishCarriesCandidate'
    BY <2>1 DEF Rest, CallOfItsKind, FinishCarriesCandidate, Candidate
  <2>6. HandInIsPublished'
    BY <2>1, <2>2 DEF Rest, HandInIsPublished
  <2> QED
    BY <2>3, <2>4, <2>5, <2>6 DEF Rest
<1>4. ASSUME NEW c \in Call, NEW op \in Operation, Begin(c, op) PROVE Rest'
  <2>1. /\ UNCHANGED <<role, pick, lease, history, published, result>>
        /\ call' = [call EXCEPT ![c] = [op |-> op, at |-> First(op), sha |-> 0]]
        /\ pick = "attached"
    BY <1>4 DEF Begin, checkout
  <2>2. call'[c] = [op |-> op, at |-> First(op), sha |-> 0]
    BY <2>1 DEF TypeOK
  <2>3. \A d \in Call : d # c => call'[d] = call[d]
    BY <2>1 DEF TypeOK
  <2>4. QuietUntilAttached' /\ HandInIsPublished'
    BY <2>1 DEF Rest, QuietUntilAttached, HandInIsPublished
  <2>5. AnswersAgreeWithLease'
    <3>1. \A d \in Call : ClosedBy(d)' => ClosedBy(d) /\ call'[d].op = call[d].op
      BY <2>2, <2>3, FirstStep DEF ClosedBy
    <3> QED
      BY <2>1, <3>1 DEF Rest, AnswersAgreeWithLease
  <2>6. FinishCarriesCandidate'
    <3>0. \A n : Candidate(n)' <=> Candidate(n)
      BY <2>1 DEF Candidate
    <3> SUFFICES ASSUME NEW d \in Call
                 PROVE  /\ call'[d].at = "push" => Candidate(call'[d].sha)
                        /\ call'[d].at = "close" => call'[d].sha <= Len(history')
                        /\ role' = "implementation" /\ call'[d].at = "close" /\ call'[d].op = "finish" =>
                              Candidate(call'[d].sha) /\ call'[d].sha <= published'
      BY <3>0 DEF FinishCarriesCandidate
    <3>1. CASE d = c
      <4>1. call'[d].at = First(op) /\ call'[d].op = op /\ call'[d].sha = 0
        BY <2>2, <3>1
      <4>2. First(op) # "push" /\ (First(op) = "close" => op # "finish" \/ role # "implementation")
        BY FirstStep
      <4> QED
        BY <2>1, <4>1, <4>2
    <3>2. CASE d # c
      <4>1. call'[d] = call[d]
        BY <2>3, <3>2
      <4> QED
        BY <2>1, <4>1 DEF Rest, FinishCarriesCandidate
    <3> QED
      BY <3>1, <3>2
  <2>7. CallOfItsKind'
    BY <2>2, <2>3, FirstStep DEF Rest, CallOfItsKind
  <2> QED
    BY <2>4, <2>5, <2>6, <2>7 DEF Rest
<1>5. ASSUME NEW c \in Call,
             Fails(c) \/ Write(c) \/ Spawn(c) \/ Watch(c) \/ ClearTrusted(c)
             \/ CopyWorkspace(c) \/ AutoCommit(c) \/ CallDetaches(c)
      PROVE  Rest'
  <2>1. PICK at : Goes(c, at) /\ at \in {"failed", "done", "watch", "copy", "commit", "head"}
    BY <1>5 DEF Fails, Write, Spawn, Watch, ClearTrusted, CopyWorkspace, AutoCommit, CallDetaches
  <2>2. call[c].at # "idle"
    BY <1>5 DEF Fails, Fallible, Write, Spawn, Watch, ClearTrusted, CopyWorkspace,
                AutoCommit, CallDetaches
  <2>3. call'[c].at = at /\ call' = [call EXCEPT ![c].at = call'[c].at]
    BY <2>1, <2>2 DEF Goes, TypeOK, CallState, IdleCall
  <2>4. UNCHANGED <<role, pick, lease, published, result>>
    BY <1>5 DEF Fails, Write, Spawn, Watch, ClearTrusted, CopyWorkspace, AutoCommit,
                CallDetaches, checkout
  <2>5. /\ Len(history) <= Len(history')
        /\ \A n \in 1 .. Len(history) : history'[n] = history[n]
    <3>1. CASE AutoCommit(c)
      BY <3>1 DEF AutoCommit, TypeOK, Holds
    <3>2. CASE history' = history
      BY <3>2
    <3> QED
      BY <1>5, <3>1, <3>2 DEF Fails, Write, Spawn, Watch, ClearTrusted, CopyWorkspace,
                              CallDetaches, checkout
  <2>6. at = "done" => call[c].op \in {"write", "bash"} \/ call[c].at = "detach"
    <3>1. CASE Write(c) \/ Watch(c)
      <4>1. call[c].at \in {"write", "watch"}
        BY <3>1 DEF Write, Watch
      <4> QED
        BY <4>1 DEF Rest, CallOfItsKind
    <3>2. CASE CallDetaches(c)
      BY <3>2 DEF CallDetaches
    <3>3. CASE Fails(c) \/ Spawn(c) \/ ClearTrusted(c) \/ CopyWorkspace(c) \/ AutoCommit(c)
      <4>1. call[c] \in CallState
        BY <2>2 DEF TypeOK, IdleCall
      <4>2. \A to : Goes(c, to) => call'[c].at = to
        BY <4>1 DEF Goes, TypeOK, CallState
      <4>3. call'[c].at # "done"
        BY <3>3, <4>2 DEF Fails, Spawn, ClearTrusted, CopyWorkspace, AutoCommit
      <4> QED
        BY <2>3, <4>3
    <3> QED
      BY <1>5, <3>1, <3>2, <3>3
  <2>7. at = "watch" => call[c].at = "spawn"
    BY <1>5, <2>2, <2>3 DEF Fails, Write, Spawn, Watch, ClearTrusted, CopyWorkspace,
                AutoCommit, CallDetaches, Goes, TypeOK, CallState, IdleCall
  <2> QED
    BY <2>1, <2>2, <2>3, <2>4, <2>5, <2>6, <2>7, <1>0, CallMatters
<1>6. ASSUME NEW c \in Call, ReadHead(c) \/ PushCandidate(c) \/ CloseLease(c) PROVE Rest'
  <2>0. call[c] \in CallState /\ pick = "attached"
    BY <1>6, <1>0 DEF ReadHead, PushCandidate, CloseLease, TypeOK, IdleCall
  <2>1. \A d \in Call : d # c => call'[d] = call[d]
    BY <1>6 DEF ReadHead, PushCandidate, CloseLease, Goes, TypeOK
  <2>2. UNCHANGED <<role, pick, history>>
    BY <1>6 DEF ReadHead, PushCandidate, CloseLease, checkout
  <2>3. call'[c].op = call[c].op /\ call'[c].at \in {"push", "close", "detach"}
    BY <1>6, <2>0 DEF ReadHead, PushCandidate, CloseLease, Goes, TypeOK, CallState, AfterHead
  <2>4. CallOfItsKind'
    BY <2>1, <2>3 DEF Rest, CallOfItsKind
  <2>5. published <= published' /\ published' <= Len(history)
    BY <1>6 DEF ReadHead, PushCandidate, CloseLease, HeadCommit, TypeOK, checkout
  <2>6. \A n : Candidate(n)' <=> Candidate(n)
    BY <2>2 DEF Candidate
  <2>7. CASE ReadHead(c)
    <3>1. UNCHANGED <<lease, published, result>>
      BY <2>7 DEF ReadHead, checkout
    <3>2. call'[c].at = "push" /\ Candidate(call'[c].sha)
      BY <2>7, <2>0 DEF ReadHead, AfterHead, HeadCommit, Candidate, TypeOK, CallState
    <3>3. QuietUntilAttached' /\ HandInIsPublished'
      BY <2>0, <2>2, <3>1 DEF Rest, QuietUntilAttached, HandInIsPublished
    <3>4. AnswersAgreeWithLease'
      BY <2>1, <3>1, <3>2 DEF Rest, AnswersAgreeWithLease, ClosedBy
    <3>5. FinishCarriesCandidate'
      BY <2>1, <2>2, <2>6, <3>1, <3>2 DEF Rest, FinishCarriesCandidate
    <3> QED
      BY <2>4, <3>3, <3>4, <3>5 DEF Rest
  <2>8. CASE PushCandidate(c)
    <3>1. UNCHANGED <<lease, result>> /\ published' = Len(history)
      BY <2>8 DEF PushCandidate, HeadCommit
    <3>2. call'[c].at = "close" /\ call'[c].sha = call[c].sha /\ Candidate(call[c].sha)
      BY <2>8, <2>0 DEF PushCandidate, Goes, TypeOK, CallState, Rest, FinishCarriesCandidate
    <3>3. call[c].sha \in 1 .. Len(history)
      BY <3>2 DEF Candidate
    <3>4. QuietUntilAttached'
      BY <2>0, <2>2, <3>1 DEF Rest, QuietUntilAttached
    <3>5. HandInIsPublished'
      BY <2>2, <2>5, <3>1 DEF Rest, HandInIsPublished, TypeOK
    <3>6. AnswersAgreeWithLease'
      BY <2>1, <3>1, <3>2 DEF Rest, AnswersAgreeWithLease, ClosedBy
    <3>7. FinishCarriesCandidate'
      <4> SUFFICES ASSUME NEW d \in Call
                   PROVE  /\ call'[d].at = "push" => Candidate(call'[d].sha)
                          /\ call'[d].at = "close" => call'[d].sha <= Len(history')
                          /\ role' = "implementation" /\ call'[d].at = "close" /\ call'[d].op = "finish" =>
                                Candidate(call'[d].sha) /\ call'[d].sha <= published'
        BY <2>6 DEF FinishCarriesCandidate
      <4>1. CASE d = c
        BY <2>2, <3>1, <3>2, <3>3, <4>1
      <4>2. CASE d # c
        <5>1. call'[d] = call[d]
          BY <2>1, <4>2
        <5>2. call[d].at = "close" => call[d].sha <= Len(history)
          BY DEF Rest, FinishCarriesCandidate
        <5> QED
          BY <2>2, <3>1, <5>1, <5>2 DEF Rest, FinishCarriesCandidate
      <4> QED
        BY <4>1, <4>2
    <3> QED
      BY <2>4, <3>4, <3>5, <3>6, <3>7 DEF Rest
  <2>9. CASE CloseLease(c)
    <3>1. /\ lease = "active" /\ published' = published
          /\ call[c].at = "close" /\ call'[c].at = "detach"
          /\ lease' = IF call[c].op = "finish" THEN "completed" ELSE "cancelled"
          /\ result' = IF call[c].op = "finish" THEN call[c].sha ELSE result
      BY <2>9, <2>0 DEF CloseLease, Closable, Goes, TypeOK, CallState
    <3>2. \A d \in Call : ~ClosedBy(d)
      BY <3>1 DEF Rest, AnswersAgreeWithLease
    <3>3. pick = "attached"
      BY <3>1 DEF Rest, QuietUntilAttached, IdleCall
    <3>4. QuietUntilAttached'
      BY <2>0, <2>2, <3>3 DEF Rest, QuietUntilAttached
    <3>5. AnswersAgreeWithLease'
      BY <2>1, <2>3, <3>1, <3>2 DEF AnswersAgreeWithLease, ClosedBy
    <3>6. FinishCarriesCandidate'
      BY <2>1, <2>2, <2>6, <3>1 DEF Rest, FinishCarriesCandidate
    <3>7. HandInIsPublished'
      <4> SUFFICES ASSUME role = "implementation", call[c].op = "finish"
                   PROVE  result' \in 1 .. published' /\ history'[result'] # "base"
        BY <2>2, <3>1 DEF HandInIsPublished
      <4>1. Candidate(call[c].sha) /\ call[c].sha <= published /\ result' = call[c].sha
        BY <3>1 DEF Rest, FinishCarriesCandidate
      <4> QED
        BY <2>2, <3>1, <4>1 DEF Candidate, TypeOK
    <3> QED
      BY <2>4, <3>4, <3>5, <3>6, <3>7 DEF Rest
  <2> QED
    BY <1>6, <2>7, <2>8, <2>9
<1>7. CASE Restart
  <2>1. UNCHANGED <<role, lease, history, published, result>>
    BY <1>7 DEF Restart
  <2>2. \A c \in Call : call'[c] = call[c] \/ call'[c].at = "failed"
    <3> TAKE c \in Call
    <3>1. CASE call[c].at \in {"idle", "done"}
      BY <1>7, <3>1 DEF Restart
    <3>2. CASE call[c].at \notin {"idle", "done"}
      <4>1. call[c] \in CallState
        BY <3>2 DEF TypeOK, IdleCall
      <4> QED
        BY <1>7, <3>2, <4>1 DEF Restart, CallState
    <3> QED
      BY <3>1, <3>2
  <2>3. /\ pick = "attached" => pick' = "attached"
        /\ pick # "attached" => call' = call
    <3>1. pick # "attached" => \A c \in Call : call[c] = IdleCall
      BY DEF Rest, QuietUntilAttached
    <3>2. call = [c \in Call |-> call[c]]
      BY DEF TypeOK
    <3> QED
      BY <1>7, <3>1, <3>2 DEF Restart, IdleCall
  <2>4. QuietUntilAttached' /\ HandInIsPublished'
    BY <2>1, <2>3 DEF Rest, QuietUntilAttached, HandInIsPublished
  <2>5. CallOfItsKind' /\ FinishCarriesCandidate'
    BY <2>1, <2>2 DEF Rest, CallOfItsKind, FinishCarriesCandidate, Candidate
  <2>6. AnswersAgreeWithLease'
    BY <2>1, <2>2 DEF Rest, AnswersAgreeWithLease, ClosedBy
  <2> QED
    BY <2>4, <2>5, <2>6 DEF Rest
<1> QED
  <2>1. KillProcesses \/ RemoveEnds \/ HeartbeatFails \/ HeartbeatDetaches
          \/ HeartbeatCancelled \/ UNCHANGED vars => UNCHANGED Same
    BY DEF KillProcesses, RemoveEnds, HeartbeatFails, HeartbeatDetaches,
           HeartbeatCancelled, vars, checkout
  <2>2. \A d \in Directory : RemoveFiles(d) => UNCHANGED Same
    BY DEF RemoveFiles
  <2>3. \A c \in Call : ShellWrites(c) \/ ShellExits(c) \/ WatcherKills(c) => UNCHANGED Same
    BY DEF ShellWrites, ShellExits, WatcherKills, checkout
  <2> QED
    BY <2>1, <2>2, <2>3, <1>1, <1>2, <1>3, <1>4, <1>5, <1>6, <1>7 DEF Next, Finishing

-----------------------------------------------------------------------------
(* The theorems *)

(* The sandbox keeps its inductive invariant. *)
THEOREM SandboxInvariant == Spec => []SandboxInv
<1>1. SandboxInv /\ [Next]_vars => SandboxInv'
  BY TypeStep, RestStep DEF SandboxInv, Rest
<1> QED
  BY <1>1, InitSandbox, PTL DEF Spec

(* Type correctness, for any number of calls. *)
THEOREM SandboxTypeCorrect == Spec => []TypeOK
<1>1. SandboxInv => TypeOK
  BY DEF SandboxInv
<1> QED
  BY <1>1, SandboxInvariant, PTL

(* However many calls, reaps, renewals and restarts interleave, at most one     *)
(* call closes the lease and its answer says how it ended.                      *)
THEOREM OneAnswerPerLease == Spec => []AnswersAgreeWithLease
<1>1. SandboxInv => AnswersAgreeWithLease
  BY DEF SandboxInv
<1> QED
  BY <1>1, SandboxInvariant, PTL

(* A completed execution's commit is on its review ref and changes something,   *)
(* even when several work_finish calls share the checkout.                      *)
THEOREM CandidatesArePublished == Spec => []HandInIsPublished
<1>1. SandboxInv => HandInIsPublished
  BY DEF SandboxInv
<1> QED
  BY <1>1, SandboxInvariant, PTL

(* Both, as the runs check it: a hand-in holds, whatever else was under way.    *)
THEOREM HandInsAlwaysHold == Spec => []HandInsHold
<1>1. AnswersAgreeWithLease /\ HandInIsPublished => HandInsHold
  BY DEF HandInsHold
<1> QED
  BY <1>1, OneAnswerPerLease, CandidatesArePublished, PTL

-----------------------------------------------------------------------------
(* The workspace of a task *)

-----------------------------------------------------------------------------
(* What a commit says of the work in its tree is in its history. *)
Recorded(commit) == commit.tree.own \in commit.prior \cup {0}

(* The places of an attempt that need no task branch. *)
Early == {"idle", "clone", "fetch", "branch", "checkout"}

(* Nothing is made before the task branch is checked out, and that is never    *)
(* before the clone.                                                           *)
BranchFirst ==
    /\ pc \in {"clone", "branch"} => ~onTask
    /\ ~onTask => made = {} /\ pc \in Early
    /\ onTask \/ pc \notin {"idle", "clone"} => exists

(* What the reset is about to overwrite is behind a branch. *)
BackedUp ==
    /\ pc = "backup" => made \subseteq head.prior \cup backups
    /\ pc = "reset" => made \subseteq backups

(* From the restored tree on, the attempt carries the candidate's work.        *)
CarriesCandidate ==
    pc \in {"merge", "run"} /\ seed # Nothing =>
        wt.own = seed.tree.own /\ seed.prior \subseteq head.prior

KeptInvariant ==
    /\ WorkspaceTypeOK
    /\ 0 \notin made
    /\ Recorded(head) /\ Recorded(seed) /\ Recorded(candidate)
    /\ BranchFirst
    /\ BackedUp
    /\ CarriesCandidate
    /\ NothingDiscarded

-----------------------------------------------------------------------------
(* Commits *)

(* Upstream's versions are commits                                             *)
LEMMA BaseIsCommit ==
    \A v \in Versions : BaseTree(v) \in Tree /\ Base(v) \in Commit /\ Recorded(Base(v))
BY WorkspaceAssumption DEF BaseTree, Base, Tree, Commit, Works, Versions, Recorded

(* A commit of a tree keeps what was behind HEAD and adds the tree's work.     *)
LEMMA CommitKeeps ==
    ASSUME WorkspaceTypeOK, NEW files \in Tree
    PROVE  /\ CommitOf(files) \in Commit /\ CommitOf(files).tree = files
           /\ CommitOf(files).prior = head.prior \cup ({files.own} \ {0})
           /\ Recorded(CommitOf(files))
BY WorkspaceAssumption DEF WorkspaceTypeOK, CommitOf, Commit, Tree, Works, Versions, Recorded

(* Init: the workspace is not there. *)
LEMMA InitKept == WorkspaceInit => KeptInvariant
<1> SUFFICES ASSUME WorkspaceInit PROVE KeptInvariant
  OBVIOUS
<1>1. 0 \in Versions /\ 1 \in Versions /\ 0 \in Works /\ Torn \in Tree
  BY WorkspaceAssumption DEF Versions, Works, Torn, Tree
<1>2. Nothing \in Commit /\ Recorded(Nothing)
  BY <1>1, BaseIsCommit DEF Nothing
<1>3. upstream \in Versions \ {0} /\ pc \in Steps
  BY <1>1 DEF WorkspaceInit, Steps
<1>4. WorkspaceTypeOK
  BY <1>1, <1>2, <1>3 DEF WorkspaceInit, WorkspaceTypeOK
<1> QED
  BY <1>2, <1>4 DEF WorkspaceInit, KeptInvariant, BranchFirst, BackedUp, CarriesCandidate,
                    NothingDiscarded, Early

-----------------------------------------------------------------------------
(* Types *)

(* The types are inductive                                                     *)
LEMMA NextWorkspaceTypeOK ==
    ASSUME WorkspaceTypeOK, [WorkspaceNext]_workspaceVars PROVE WorkspaceTypeOK'
<1> USE DEF Steps
<1>0. /\ upstream \in Versions /\ 0 \in Versions /\ 0 \in Works
      /\ Torn \in Tree /\ Nothing \in Commit /\ Base(upstream) \in Commit
      /\ BaseTree(upstream) \in Tree
  BY WorkspaceAssumption, BaseIsCommit
     DEF WorkspaceTypeOK, Versions, Works, Torn, Tree, Nothing
<1>1. CASE UpstreamMoves
  <2>1. upstream' \in Versions \ {0}
    BY <1>1, WorkspaceAssumption DEF UpstreamMoves, WorkspaceTypeOK, Versions
  <2> QED
    BY <1>1, <2>1 DEF UpstreamMoves, WorkspaceTypeOK, repo
<1>2. CASE OtherDelivers
  <2>1. works + 1 \in Works
    BY <1>2, WorkspaceAssumption DEF OtherDelivers, WorkspaceTypeOK, Works
  <2>2. candidate' \in Commit
    BY <1>0, <1>2, <2>1 DEF OtherDelivers, WorkspaceTypeOK, Commit, Tree
  <2> QED
    BY <1>2, <2>1, <2>2 DEF OtherDelivers, WorkspaceTypeOK, repo
<1>3. CASE OpenWorkspace \/ Abandon \/ Clone \/ FetchBase \/ MakeBranch
  BY <1>0, <1>3 DEF OpenWorkspace, Abandon, Clone, FetchBase, MakeBranch, Seeded,
                    WorkspaceTypeOK, world, repo, Commit
<1>4. CASE CheckoutBranch
  <2>1. wt' \in Tree
    BY <1>4 DEF CheckoutBranch, WorkspaceTypeOK, Commit, Tree
  <2> QED
    BY <1>4, <2>1 DEF CheckoutBranch, WorkspaceTypeOK, world
<1>5. CASE Restore
  <2>1. CommitOf(wt) \in Commit
    BY CommitKeeps DEF WorkspaceTypeOK
  <2> QED
    BY <1>0, <1>5, <2>1 DEF Restore, CommitAll, WorkspaceTypeOK, world
<1>6. CASE Backup
  BY <1>6 DEF Backup, Backed, WorkspaceTypeOK, world, Commit
<1>7. CASE Reset
  BY <1>0, <1>7 DEF Reset, WorkspaceTypeOK, world, Commit
<1>8. CASE MergeClean
  <2>1. head' \in Commit
    BY <1>8, BaseIsCommit DEF MergeClean, WorkspaceTypeOK, Commit, Tree
  <2>2. wt' \in Tree
    BY <1>8 DEF MergeClean, WorkspaceTypeOK, Tree
  <2> QED
    BY <1>8, <2>1, <2>2 DEF MergeClean, WorkspaceTypeOK, world
<1>9. CASE AlreadyBased \/ MergeConflicts \/ MergeRefused
  BY <1>9 DEF AlreadyBased, MergeConflicts, MergeRefused, WorkspaceTypeOK, world, repo
<1>10. CASE Run
  <2>1. works' \in Works
    BY <1>10, WorkspaceAssumption DEF Run, WorkspaceTypeOK, Works
  <2>2. wt.up \in Versions /\ [wt EXCEPT !.own = 0] \in Tree
    BY <1>0 DEF WorkspaceTypeOK, Tree
  <2>3. out' \in Tree
    BY <1>10, <2>1, <2>2 DEF Run, AgentCopy, WorkspaceTypeOK, Tree
  <2> QED
    BY <1>10, <2>1, <2>3 DEF Run, WorkspaceTypeOK, repo
<1>11. CASE Sync \/ SyncTorn
  BY <1>0, <1>11 DEF Sync, SyncTorn, BuiltUpon, WorkspaceTypeOK, world, Tree
<1>12. CASE CommitResult
  <2>1. CommitOf(wt) \in Commit
    BY CommitKeeps DEF WorkspaceTypeOK
  <2> QED
    BY <1>0, <1>12, <2>1 DEF CommitResult, WorkspaceTypeOK, world
<1>13. CASE Push \/ Report
  BY <1>13 DEF Push, Report, WorkspaceTypeOK, world, repo
<1>14. CASE UNCHANGED workspaceVars
  BY <1>14 DEF workspaceVars, world, repo, WorkspaceTypeOK
<1> QED
  BY <1>1, <1>2, <1>3, <1>4, <1>5, <1>6, <1>7, <1>8, <1>9, <1>10, <1>11, <1>12, <1>13, <1>14
     DEF WorkspaceNext

-----------------------------------------------------------------------------
(* The steps that touch HEAD, the worktree, the backups, or what was made      *)

Rewrites ==
    \/ Clone \/ FetchBase \/ MakeBranch \/ CheckoutBranch \/ Restore \/ Backup \/ Reset
    \/ MergeClean \/ Sync \/ SyncTorn \/ CommitResult

(* All others leave what is kept alone.                                        *)
LEMMA OthersLeaveTheWork ==
    ASSUME [WorkspaceNext]_workspaceVars, ~Rewrites
    PROVE  UNCHANGED <<head, wt, backups, made, onTask, exists, base>>
BY DEF WorkspaceNext, workspaceVars, world, repo, Rewrites, UpstreamMoves, OtherDelivers,
       OpenWorkspace, Abandon, AlreadyBased, MergeConflicts, MergeRefused, Run, Push, Report

(* Every commit records the work in its tree.                                  *)
LEMMA CommitsRecord ==
    ASSUME KeptInvariant, [WorkspaceNext]_workspaceVars
    PROVE  Recorded(head)' /\ Recorded(seed)' /\ Recorded(candidate)'
<1> USE DEF KeptInvariant
<1>0. /\ Recorded(Nothing) /\ Recorded(Base(upstream)) /\ Recorded(Base(base))
      /\ CommitOf(wt) \in Commit /\ Recorded(CommitOf(wt))
  BY WorkspaceAssumption, BaseIsCommit, CommitKeeps DEF WorkspaceTypeOK, Versions, Nothing
<1>1. Recorded(candidate)'
  <2>1. CASE OtherDelivers
    BY <2>1 DEF OtherDelivers, Recorded
  <2>2. CASE Report
    BY <2>2 DEF Report, Recorded
  <2>3. CASE ~OtherDelivers /\ ~Report
    <3>1. candidate' = candidate
      BY <2>3 DEF WorkspaceNext, workspaceVars, world, UpstreamMoves, OpenWorkspace, Abandon,
                  Clone, FetchBase, MakeBranch, CheckoutBranch, Restore, Backup, Reset,
                  AlreadyBased, MergeClean, MergeConflicts, MergeRefused, Run, Sync, SyncTorn,
                  CommitResult, Push
    <3> QED
      BY <3>1 DEF Recorded
  <2> QED
    BY <2>1, <2>2, <2>3
<1>2. Recorded(seed)'
  <2>1. seed' \in {seed, Nothing, candidate}
    BY DEF WorkspaceNext, workspaceVars, UpstreamMoves, OtherDelivers, OpenWorkspace, Abandon,
           Clone, FetchBase, MakeBranch, CheckoutBranch, Restore, Backup, Reset, AlreadyBased,
           MergeClean, MergeConflicts, MergeRefused, Run, Sync, SyncTorn, CommitResult, Push,
           Report, Seeded
  <2> QED
    BY <1>0, <2>1 DEF Recorded
<1>3. Recorded(head)'
  <2>1. CASE MergeClean /\ head.prior # {}
    <3>1. head'.tree.own = head.tree.own /\ head'.prior = head.prior
      BY <2>1 DEF MergeClean, WorkspaceTypeOK, Commit, Tree
    <3> QED
      BY <3>1 DEF Recorded
  <2>2. CASE ~(MergeClean /\ head.prior # {})
    <3>1. head' \in {head, Base(upstream), Base(base), candidate, seed, CommitOf(wt)}
      BY <2>2, OthersLeaveTheWork
         DEF Rewrites, Clone, FetchBase, MakeBranch, CheckoutBranch, Restore, CommitAll, Backup,
             Reset, MergeClean, Sync, SyncTorn, CommitResult
    <3> QED
      BY <1>0, <3>1 DEF Recorded
  <2> QED
    BY <2>1, <2>2
<1> QED
  BY <1>1, <1>2, <1>3

(* Nothing is made before the task's branch is there                           *)
LEMMA NextBranchFirst ==
    ASSUME KeptInvariant, [WorkspaceNext]_workspaceVars
    PROVE  BranchFirst' /\ 0 \notin made'
<1> USE DEF KeptInvariant, BranchFirst, Early
<1>1. CASE ~Rewrites
  <2>1. UNCHANGED <<onTask, exists, made>>
    BY <1>1, OthersLeaveTheWork
  <2>2. pc' \in {pc, "idle"} \/ (pc = "idle" /\ pc' = IF exists THEN "fetch" ELSE "clone")
        \/ (onTask /\ pc' \in Steps \ Early)
    BY <1>1 DEF WorkspaceNext, workspaceVars, Rewrites, UpstreamMoves, OtherDelivers,
           OpenWorkspace, Abandon, AlreadyBased, MergeConflicts, MergeRefused, Run, Push, Report,
           Steps
  <2> QED
    BY <2>1, <2>2 DEF Steps
<1>2. CASE Clone \/ FetchBase \/ MakeBranch \/ CheckoutBranch
  BY <1>2 DEF Clone, FetchBase, MakeBranch, CheckoutBranch
<1>3. CASE Restore \/ Backup \/ Reset \/ MergeClean \/ CommitResult
  BY <1>3 DEF Restore, Backup, Reset, MergeClean, CommitResult
<1>4. CASE Sync \/ SyncTorn
  BY <1>4 DEF Sync, SyncTorn, BuiltUpon
<1> QED
  BY <1>1, <1>2, <1>3, <1>4 DEF Rewrites

(* What a restore is about to drop is in the backup                            *)
LEMMA NextBackedUp ==
    ASSUME KeptInvariant, [WorkspaceNext]_workspaceVars PROVE BackedUp'
<1> USE DEF KeptInvariant
<1>1. CASE Restore
  <2>1. wt \in Tree
    BY DEF WorkspaceTypeOK
  <2>2. head'.prior = head.prior \cup ({wt.own} \ {0})
    <3>1. CASE NeedsCommit
      BY <1>1, <2>1, <3>1, CommitKeeps DEF Restore, CommitAll
    <3>2. CASE ~NeedsCommit
      BY <1>1, <3>2 DEF Restore, NeedsCommit, Dirty, Recorded
    <3> QED
      BY <3>1, <3>2
  <2>3. made' = made /\ backups' = backups /\ pc' # "reset"
    BY <1>1 DEF Restore
  <2> QED
    BY <2>2, <2>3 DEF BackedUp, NothingDiscarded
<1>2. CASE Backup
  BY <1>2 DEF Backup, Backed, BackedUp
<1>3. CASE ~Restore /\ ~Backup
  <2>1. pc' \notin {"backup", "reset"} \/ UNCHANGED <<pc, made, head, backups>>
    BY <1>3 DEF WorkspaceNext, workspaceVars, repo, UpstreamMoves, OtherDelivers, OpenWorkspace,
                Abandon, Clone, FetchBase, MakeBranch, CheckoutBranch, Reset, AlreadyBased,
                MergeClean, MergeConflicts, MergeRefused, Run, Sync, SyncTorn, CommitResult, Push,
                Report
  <2> QED
    BY <2>1 DEF BackedUp
<1> QED
  BY <1>1, <1>2, <1>3

(* The restore, or the branch made on the candidate, gives the attempt the      *)
(* candidate's work; what merges afterwards adds the base to it.               *)
LEMMA NextCarriesCandidate ==
    ASSUME KeptInvariant, [WorkspaceNext]_workspaceVars PROVE CarriesCandidate'
<1> USE DEF KeptInvariant
<1>1. CASE MakeBranch \/ CheckoutBranch \/ Reset
  BY <1>1 DEF MakeBranch, CheckoutBranch, Reset, CarriesCandidate, Seeded
<1>2. CASE Restore
  <2>1. CASE NeedsCommit
    BY <1>2, <2>1 DEF Restore, CarriesCandidate
  <2>2. CASE ~NeedsCommit
    BY <1>2, <2>2 DEF Restore, NeedsCommit, Dirty, CarriesCandidate
  <2> QED
    BY <2>1, <2>2
<1>3. CASE MergeClean
  <2>1. wt'.own = wt.own
    BY <1>3 DEF MergeClean, WorkspaceTypeOK, Tree
  <2>2. head.prior \subseteq head'.prior
    BY <1>3 DEF MergeClean, WorkspaceTypeOK, Commit
  <2>3. pc = "merge" /\ seed' = seed
    BY <1>3 DEF MergeClean
  <2> QED
    BY <2>1, <2>2, <2>3 DEF CarriesCandidate
<1>4. CASE AlreadyBased \/ MergeConflicts \/ MergeRefused
  BY <1>4 DEF AlreadyBased, MergeConflicts, MergeRefused, repo, CarriesCandidate
<1>5. CASE ~(MakeBranch \/ CheckoutBranch \/ Reset \/ Restore \/ MergeClean)
           /\ ~(AlreadyBased \/ MergeConflicts \/ MergeRefused)
  <2>1. pc' \notin {"merge", "run"} \/ UNCHANGED <<pc, seed, wt, head>>
    BY <1>5 DEF WorkspaceNext, workspaceVars, repo, UpstreamMoves, OtherDelivers, OpenWorkspace,
                Abandon, Clone, FetchBase, Backup, Run, Sync, SyncTorn, CommitResult, Push, Report
  <2> QED
    BY <2>1 DEF CarriesCandidate
<1> QED
  BY <1>1, <1>2, <1>3, <1>4, <1>5

(* A result leaves the worktree only onto a branch.                            *)
LEMMA NextNothingDiscarded ==
    ASSUME KeptInvariant, [WorkspaceNext]_workspaceVars PROVE NothingDiscarded'
<1> USE DEF KeptInvariant
<1>1. CASE ~Rewrites
  BY <1>1, OthersLeaveTheWork DEF NothingDiscarded
<1>2. CASE Clone \/ MakeBranch \/ FetchBase \/ CheckoutBranch
  BY <1>2 DEF Clone, MakeBranch, FetchBase, CheckoutBranch, BranchFirst, NothingDiscarded
<1>3. CASE Restore \/ CommitResult
  <2>1. wt \in Tree
    BY DEF WorkspaceTypeOK
  <2>2. head.prior \subseteq head'.prior
    BY <1>3, <2>1, CommitKeeps DEF Restore, CommitAll, CommitResult
  <2>3. UNCHANGED <<wt, backups, made>>
    BY <1>3 DEF Restore, CommitResult
  <2> QED
    BY <2>2, <2>3 DEF NothingDiscarded
<1>4. CASE Backup
  BY <1>4 DEF Backup, Backed, NothingDiscarded
<1>5. CASE Reset
  BY <1>5 DEF Reset, BackedUp, NothingDiscarded
<1>6. CASE MergeClean
  <2>1. wt'.own = wt.own
    BY <1>6 DEF MergeClean, WorkspaceTypeOK, Tree
  <2>2. head.prior \subseteq head'.prior
    BY <1>6 DEF MergeClean, WorkspaceTypeOK, Commit
  <2>3. UNCHANGED <<backups, made>>
    BY <1>6 DEF MergeClean
  <2> QED
    BY <2>1, <2>2, <2>3 DEF NothingDiscarded
<1>7. CASE Sync \/ SyncTorn
  BY <1>7 DEF Sync, SyncTorn, BuiltUpon, NothingDiscarded
<1> QED
  BY <1>1, <1>2, <1>3, <1>4, <1>5, <1>6, <1>7 DEF Rewrites

(* The invariant is inductive                                                  *)
LEMMA NextKept ==
    KeptInvariant /\ [WorkspaceNext]_workspaceVars => KeptInvariant'
BY NextWorkspaceTypeOK, CommitsRecord, NextBranchFirst, NextBackedUp, NextCarriesCandidate,
   NextNothingDiscarded DEF KeptInvariant

(* A worker never loses an agent's result, and the agent of a retry starts with *)
(* the candidate's work, however often an attempt stops half way                *)
(* (prepare_workspace and run_task of the worker).                              *)
THEOREM WorkSurvivesAttempts == WorkspaceSpec => []WorkIsKept
<1>1. KeptInvariant => WorkIsKept
  BY DEF KeptInvariant, CarriesCandidate, WorkIsKept, RetryStartsFromCandidate
<1> QED
  BY InitKept, NextKept, <1>1, PTL DEF WorkspaceSpec

-----------------------------------------------------------------------------
(* Liveness of the sandbox: its shells end and it leaves the map *)

(* The map, the token, the heartbeat and the teardown of a sandbox tell the     *)
(* same: it is there until somebody detaches it, and then never again.          *)
MapTells ==
    /\ pick = "preparing" => teardown = "none" /\ ~cancelled
    /\ pick # "attached" => ~attached
    /\ pick = "attached" =>
          /\ heartbeat # "none"
          /\ attached <=> teardown = "none"
          /\ cancelled <=> ~attached
          /\ heartbeat = "ended" => ~attached

(* Where a call is that started a shell.                                       *)
ShellsHaveCalls ==
    \A c \in Call :
        /\ process[c] # "none" => call[c].at \in {"watch", "done", "failed"}
        /\ process[c] = "spawned" => call[c].at = "watch"

SandboxFacts == MapTells /\ ShellsHaveCalls

(* Every step keeps the map and the shells in line                             *)
LEMMA FactsStep ==
  ASSUME SandboxInv, SandboxFacts, [Next]_vars
  PROVE  SandboxFacts'
<1>t. /\ call \in [Call -> CallState \union {IdleCall}]
      /\ process \in [Call -> {"none", "spawned", "watched", "over"}]
      /\ attached \in BOOLEAN /\ cancelled \in BOOLEAN
      /\ pick # "attached" => \A c \in Call : call[c].at = "idle"
  BY DEF SandboxInv, TypeOK, QuietUntilAttached, IdleCall
<1>1. MapTells'
  <2>1. CASE Attach \/ PreparationFails \/ PickReleases
    BY <1>t, <2>1 DEF SandboxFacts, MapTells, Attach, PreparationFails, PickReleases, manager
  <2>2. CASE KillProcesses \/ RemoveEnds \/ \E d \in Directory : RemoveFiles(d)
    BY <1>t, <2>2 DEF SandboxFacts, MapTells, KillProcesses, RemoveEnds, RemoveFiles, manager
  <2>3. CASE HeartbeatFails \/ HeartbeatDetaches \/ HeartbeatCancelled
    BY <1>t, <2>3 DEF SandboxFacts, MapTells, HeartbeatFails, HeartbeatDetaches, HeartbeatCancelled,
       DetachLocal, manager
  <2>4. ASSUME NEW c \in Call, CallDetaches(c) PROVE MapTells'
    BY <1>t, <2>4 DEF SandboxFacts, MapTells, CallDetaches, DetachLocal, manager
  <2>5. CASE Restart
    BY <1>t, <2>5 DEF SandboxFacts, MapTells, Restart
  <2>6. CASE UNCHANGED <<pick, manager, heartbeat>>
    BY <2>6 DEF SandboxFacts, MapTells, manager
  <2> QED
    BY <2>1, <2>2, <2>3, <2>4, <2>5, <2>6
       DEF Next, Begin, Fails, Write, Finishing, ClearTrusted, CopyWorkspace, AutoCommit, ReadHead,
           PushCandidate, CloseLease, Spawn, Watch, ShellWrites, ShellExits, WatcherKills,
           LeasePasses, ReapLease, manager, vars
<1>2. ShellsHaveCalls'
  <2> SUFFICES ASSUME NEW c \in Call
               PROVE  /\ process'[c] # "none" => call'[c].at \in {"watch", "done", "failed"}
                      /\ process'[c] = "spawned" => call'[c].at = "watch"
    BY DEF ShellsHaveCalls
  <2>0. /\ process[c] # "none" => call[c].at \in {"watch", "done", "failed"}
        /\ process[c] = "spawned" => call[c].at = "watch"
    BY DEF SandboxFacts, ShellsHaveCalls
  <2>1. CASE UNCHANGED <<call, process>>
    BY <2>0, <2>1
  <2>2. CASE KillProcesses \/ Restart
    BY <1>t, <2>0, <2>2 DEF KillProcesses, Restart, Running, CallState, IdleCall
  <2>3. ASSUME NEW d \in Call,
               \/ \E op \in Operation : Begin(d, op)
               \/ Fails(d) \/ Write(d) \/ Finishing(d)
               \/ Spawn(d) \/ Watch(d) \/ ShellWrites(d) \/ ShellExits(d) \/ WatcherKills(d)
        PROVE  /\ process'[c] # "none" => call'[c].at \in {"watch", "done", "failed"}
               /\ process'[c] = "spawned" => call'[c].at = "watch"
    <3>1. CASE c # d
      <4>1. call'[c] = call[c] /\ process'[c] = process[c]
        BY <1>t, <2>3, <3>1
           DEF Begin, Fails, Write, Finishing, ClearTrusted, CopyWorkspace, AutoCommit, ReadHead,
               PushCandidate, CloseLease, CallDetaches, Spawn, Watch, ShellWrites, ShellExits,
               WatcherKills, Goes
      <4> QED
        BY <2>0, <4>1
    <3>2. CASE c = d /\ (Spawn(d) \/ Watch(d))
      <4>1. call[c] \in CallState
        BY <1>t, <3>2 DEF Spawn, Watch, IdleCall
      <4> QED
        BY <1>t, <2>0, <3>2, <4>1 DEF Spawn, Watch, Goes, CallState
    <3>3. CASE c = d /\ (ShellWrites(d) \/ ShellExits(d) \/ WatcherKills(d))
      BY <1>t, <2>0, <3>3 DEF ShellWrites, ShellExits, WatcherKills, Running
    <3>4. CASE c = d /\ ((\E op \in Operation : Begin(d, op)) \/ Fails(d) \/ Write(d) \/ Finishing(d))
      <4>1. call[c].at \notin {"watch", "done", "failed"} /\ UNCHANGED process
        BY <3>4 DEF Begin, Fails, Fallible, Write, Finishing, ClearTrusted, CopyWorkspace, AutoCommit,
           ReadHead, PushCandidate, CloseLease, CallDetaches
      <4> QED
        BY <2>0, <4>1
    <3> QED
      BY <2>3, <3>1, <3>2, <3>3, <3>4
  <2> QED
    BY <2>1, <2>2, <2>3
       DEF Next, Attach, PreparationFails, PickReleases, RemoveEnds, RemoveFiles, HeartbeatFails,
           HeartbeatDetaches, HeartbeatCancelled, LeasePasses, ReapLease, vars
<1> QED
  BY <1>1, <1>2 DEF SandboxFacts

(* The facts hold of every sandbox.                                            *)
LEMMA FactsHold == Spec => []SandboxFacts
<1>1. Init => SandboxFacts
  BY DEF Init, SandboxFacts, MapTells, ShellsHaveCalls
<1>2. SandboxInv /\ SandboxFacts /\ [Next]_vars => SandboxFacts'
  BY FactsStep
<1> QED
  BY <1>1, <1>2, SandboxInvariant, PTL DEF Spec

(* A shell that runs, before and after its entry in the map of processes       *)
Spawned(c) == process[c] = "spawned"
Watched(c) == process[c] = "watched"

(* The stages of a shell                                                       *)
LEMMA ShellStages ==
  ASSUME SandboxInv, SandboxFacts, [Next]_vars, NEW c \in Call
  PROVE  /\ Spawned(c) => Spawned(c)' \/ Watched(c)' \/ process'[c] = "over"
         /\ Watched(c) => Watched(c)' \/ process'[c] = "over"
         /\ process[c] = "over" => process'[c] = "over"
         /\ cancelled => cancelled'
<1>t. /\ process \in [Call -> {"none", "spawned", "watched", "over"}]
      /\ pick # "attached" => \A d \in Call : call[d].at = "idle"
      /\ attached => ~cancelled
  BY DEF SandboxInv, TypeOK, QuietUntilAttached, IdleCall, SandboxFacts, MapTells
<1> USE DEF Spawned, Watched
<1>1. cancelled => cancelled'
  BY <1>t DEF SandboxFacts, MapTells, Next, Attach, PreparationFails, PickReleases,
     KillProcesses, RemoveEnds, RemoveFiles, HeartbeatFails, HeartbeatDetaches, HeartbeatCancelled,
     DetachLocal, manager, Begin, Fails, Write, Finishing, ClearTrusted, CopyWorkspace, AutoCommit,
     ReadHead, PushCandidate, CloseLease, CallDetaches, Spawn, Watch, ShellWrites, ShellExits,
     WatcherKills, LeasePasses, ReapLease, Restart, vars
<1>2. CASE UNCHANGED process
  BY <1>1, <1>2
<1>3. CASE KillProcesses \/ Restart
  BY <1>t, <1>1, <1>3 DEF KillProcesses, Restart, Running
<1>4. ASSUME NEW d \in Call, Spawn(d) \/ Watch(d) \/ ShellExits(d) \/ WatcherKills(d)
      PROVE  /\ Spawned(c) => Spawned(c)' \/ Watched(c)' \/ process'[c] = "over"
             /\ Watched(c) => Watched(c)' \/ process'[c] = "over"
             /\ process[c] = "over" => process'[c] = "over"
  <2>1. Spawn(d) => process[d] = "none"
    BY <1>t DEF Spawn, SandboxFacts, ShellsHaveCalls
  <2> QED
    BY <1>t, <1>4, <2>1 DEF Spawn, Watch, ShellExits, WatcherKills, Running
<1> QED
  BY <1>1, <1>2, <1>3, <1>4
     DEF Next, Attach, PreparationFails, PickReleases, RemoveEnds, RemoveFiles, HeartbeatFails,
         HeartbeatDetaches, HeartbeatCancelled, Begin, Fails, Write, Finishing, ClearTrusted,
         CopyWorkspace, AutoCommit, ReadHead, PushCandidate, CloseLease, CallDetaches, ShellWrites,
         LeasePasses, ReapLease, vars, checkout

(* Every shell of a sandbox that is cancelled ends, for good, also one that a   *)
(* call was just starting: under the fairness of its watcher, which waits for   *)
(* nothing but what WatchEnabled and KillEnabled say (about ENABLED).           *)
THEOREM EveryShellEnds ==
  ASSUME NEW c \in Call
  PROVE  /\ Spec
         /\ WF_vars(Watch(c)) /\ WF_vars(WatcherKills(c))
         /\ []WatchEnabled(c) /\ []KillEnabled(c)
         => (cancelled ~> [](process[c] \notin Running))
<1> DEFINE Ended == process[c] = "over"
           WatchCan == ENABLED <<Watch(c)>>_vars
           KillCan == ENABLED <<WatcherKills(c)>>_vars
<1>1. SandboxInv /\ SandboxFacts /\ [Next]_vars
         => /\ Spawned(c) => Spawned(c)' \/ Watched(c)' \/ Ended'
            /\ Watched(c) => Watched(c)' \/ Ended'
            /\ Ended => Ended'
            /\ cancelled => cancelled'
  BY ShellStages
<1>2. SandboxInv /\ <<Watch(c)>>_vars => ~Spawned(c)'
  BY DEF Watch, Spawned, SandboxInv, TypeOK
<1>3. SandboxInv /\ <<WatcherKills(c)>>_vars => ~Watched(c)'
  BY DEF WatcherKills, Watched, SandboxInv, TypeOK
<1>4. SandboxFacts /\ WatchEnabled(c) => (Spawned(c) => WatchCan)
  BY DEF SandboxFacts, ShellsHaveCalls, WatchEnabled, Spawned
<1>5. KillEnabled(c) => (cancelled /\ Watched(c) => KillCan)
  BY DEF KillEnabled, MustDie, Watched
<1>6. SandboxInv => (process[c] \notin Running <=> ~Spawned(c) /\ ~Watched(c))
  BY DEF SandboxInv, TypeOK, Running, Spawned, Watched
<1>7. Ended => ~Spawned(c) /\ ~Watched(c)
  BY DEF Spawned, Watched
<1> HIDE DEF Ended
<1> QED
  BY <1>1, <1>2, <1>3, <1>4, <1>5, <1>6, <1>7, SandboxInvariant, FactsHold, PTL DEF Spec

(* A sandbox whose lease is over, and where its heartbeat and teardown are     *)
LeaseOver == pick = "attached" /\ lease # "active"
Waits == heartbeat = "waiting"
Stops == heartbeat = "stopping"
Killing == teardown = "kill"

(* Out of the map, its heartbeat over, its registered shells killed             *)
Detached == ~attached /\ heartbeat = "ended" /\ teardown \in {"remove", "done"}

(* The stages of a sandbox whose lease is over                                 *)
LEMMA DetachStages ==
  ASSUME SandboxInv, SandboxFacts, LeaseOver, [Next]_vars
  PROVE  /\ LeaseOver'
         /\ Waits' => Waits
         /\ Stops' => Waits \/ Stops
         /\ ~attached => ~attached'
         /\ ~attached /\ ~Killing => ~Killing'
<1> USE DEF LeaseOver, Waits, Stops, Killing
<1>t. /\ attached \in BOOLEAN
      /\ heartbeat \in {"none", "waiting", "stopping", "ended"}
      /\ teardown \in {"none", "kill", "remove", "done"}
  BY DEF SandboxInv, TypeOK
<1>1. CASE HeartbeatFails \/ HeartbeatDetaches \/ HeartbeatCancelled
  BY <1>t, <1>1 DEF HeartbeatFails, HeartbeatDetaches, HeartbeatCancelled, DetachLocal, manager
<1>2. ASSUME NEW c \in Call, CallDetaches(c)
      PROVE  /\ UNCHANGED <<pick, lease, heartbeat>>
             /\ ~attached => UNCHANGED <<attached, teardown>>
  BY <1>2 DEF CallDetaches, DetachLocal, manager
<1>3. CASE Restart
  BY <1>3 DEF Restart
<1>4. CASE KillProcesses \/ RemoveEnds \/ \E d \in Directory : RemoveFiles(d)
  BY <1>4 DEF KillProcesses, RemoveEnds, RemoveFiles, manager
<1>5. ASSUME NEW c \in Call, CloseLease(c)
      PROVE  FALSE
  BY <1>5 DEF CloseLease, Closable
<1>6. CASE LeasePasses \/ ReapLease
  BY <1>6 DEF LeasePasses, ReapLease, manager
<1>7. CASE UNCHANGED <<pick, lease, manager, heartbeat>>
  BY <1>7 DEF manager
<1> QED
  BY <1>1, <1>2, <1>3, <1>4, <1>5, <1>6, <1>7
     DEF Next, Attach, PreparationFails, PickReleases, Begin, Fails, Write, Finishing, ClearTrusted,
         CopyWorkspace, AutoCommit, ReadHead, PushCandidate, Spawn, Watch, ShellWrites, ShellExits,
         WatcherKills, manager, vars

(* Once its lease is over a sandbox leaves the map for good, its heartbeat ends *)
(* and the shells registered by then are killed, however many calls are under   *)
(* way: under the fairness of the heartbeat and the teardown, with the          *)
(* hypothesis DetachEnabled about ENABLED.                                      *)
THEOREM EverySandboxDetaches ==
  /\ Spec
  /\ WF_vars(HeartbeatFindsLeaseOver) /\ WF_vars(HeartbeatDetaches) /\ WF_vars(KillProcesses)
  /\ []DetachEnabled
  => (LeaseOver ~> []Detached)
<1> DEFINE FindCan == ENABLED <<HeartbeatFindsLeaseOver>>_vars
           DetachCan == ENABLED <<HeartbeatDetaches>>_vars
           KillCan == ENABLED <<KillProcesses>>_vars
<1>1. SandboxInv /\ SandboxFacts /\ LeaseOver /\ [Next]_vars
         => /\ LeaseOver'
            /\ Waits' => Waits
            /\ Stops' => Waits \/ Stops
            /\ ~attached => ~attached'
            /\ ~attached /\ ~Killing => ~Killing'
  BY DetachStages
<1>2. <<HeartbeatFindsLeaseOver>>_vars => ~Waits'
  BY DEF HeartbeatFindsLeaseOver, HeartbeatFails, Waits
<1>3. <<HeartbeatDetaches>>_vars => ~Stops' /\ ~Waits'
  BY DEF HeartbeatDetaches, Stops, Waits
<1>4. <<KillProcesses>>_vars => ~Killing'
  BY DEF KillProcesses, Killing
<1>5. DetachEnabled => /\ LeaseOver /\ Waits => FindCan
                       /\ Stops => DetachCan
                       /\ Killing => KillCan
  BY DEF DetachEnabled, LeaseOver, Waits, Stops, Killing
<1>6. SandboxInv /\ SandboxFacts /\ LeaseOver /\ ~Waits /\ ~Stops => ~attached
  BY DEF SandboxInv, TypeOK, SandboxFacts, MapTells, LeaseOver, Waits, Stops
<1>7. SandboxInv /\ SandboxFacts /\ LeaseOver /\ ~Waits /\ ~Stops /\ ~Killing => Detached
  BY DEF SandboxInv, TypeOK, SandboxFacts, MapTells, LeaseOver, Waits, Stops, Killing, Detached
<1> QED
  BY <1>1, <1>2, <1>3, <1>4, <1>5, <1>6, <1>7, SandboxInvariant, FactsHold, PTL DEF Spec
=============================================================================
