---------------------------- MODULE AgentRunProofs ---------------------------
(* Proofs about what surrounds an agent's run: the slot of its verdict, for     *)
(* any number of submissions, the OpenCode budget, the watchdog of Pi, for      *)
(* every limit and any set of tool calls, the label of a command, for any       *)
(* number of wrappers around it, and the catalog a worker claims by, for any    *)
(* models, switches and faults.                                                 *)
EXTENDS PiWatchdog, ReviewSlot, OpenCodeBudget, CommandLabels, AgentCatalog,
        FiniteSetTheorems, SequenceTheorems, TLAPS

-----------------------------------------------------------------------------
(* The slot of a review's verdict *)

(* The mutex of the verdict is held exactly by the call that stores in it, and  *)
(* while it has stored nothing nobody has: the check was made under the lock.   *)
MutexHeld ==
    \A c \in Call : call[c] \in {"store", "close"} <=> holder = c
StoresFirst == \A c \in Call : call[c] = "store" => verdict = None /\ c \in Valid
TakenIsVerdict == \A c \in Call : Taken(c) => verdict = c
VerdictIsSeen == waiter = "verdict" => verdict # None

(* Valid calls go for the lock, invalid ones are counted.                       *)
Sorted ==
    \A c \in Call : /\ call[c] \in {"lock", "store", "close"} => c \in Valid
                    /\ call[c] \in {"count", "fail", "shut"} => c \notin Valid

SlotInv == SlotTypeOK /\ MutexHeld /\ StoresFirst /\ TakenIsVerdict /\ VerdictIsSeen /\ Sorted

(* A slot no call has reached                                                  *)
LEMMA InitSlot == SlotInit => SlotInv
<1> SUFFICES ASSUME SlotInit PROVE SlotInv
  OBVIOUS
<1> USE SlotAssumption
<1>1. SlotTypeOK
  BY DEF SlotInit, SlotTypeOK, CallStates, Answers, ReviewOutcomes
<1>2. MutexHeld /\ StoresFirst /\ TakenIsVerdict /\ VerdictIsSeen /\ Sorted
  BY DEF SlotInit, MutexHeld, StoresFirst, TakenIsVerdict, Taken, VerdictIsSeen, Sorted
<1> QED
  BY <1>1, <1>2 DEF SlotInv

(* A call goes on to a state that neither holds the mutex nor takes a verdict.  *)
LEMMA IdleGoing ==
  ASSUME SlotInv, NEW c \in Call, NEW state \in CallStates, Goes(c, state),
         state \notin {"store", "close", "accepted"}, state = "tell" => c \notin Valid,
         state = "lock" => c \in Valid, state \in {"count", "fail", "shut"} => c \notin Valid,
         call[c] \notin {"store", "close"},
         UNCHANGED <<verdict, holder>>,
         waiter' = waiter \/ waiter' # "verdict"
  PROVE  MutexHeld' /\ StoresFirst' /\ TakenIsVerdict' /\ VerdictIsSeen' /\ Sorted'
<1>1. call'[c] = state /\ \A d \in Call \ {c} : call'[d] = call[d]
  BY DEF Goes, SlotInv, SlotTypeOK
<1>2. MutexHeld'
  BY <1>1 DEF SlotInv, MutexHeld
<1>3. StoresFirst' /\ Sorted'
  BY <1>1 DEF SlotInv, StoresFirst, Sorted
<1>4. TakenIsVerdict'
  BY <1>1 DEF SlotInv, TakenIsVerdict, Taken
<1>5. VerdictIsSeen'
  BY DEF SlotInv, VerdictIsSeen
<1> QED
  BY <1>2, <1>3, <1>4, <1>5

(* Every step of a call keeps the types of the slot                            *)
LEMMA CallTypes == ASSUME SlotTypeOK, NEW c \in Call, CallStep(c) PROVE SlotTypeOK'
<1>1. call' \in [Call -> CallStates]
  BY DEF SlotTypeOK, CallStates, Answers, CallStep, Submit, Parse, CountInvalid, FailSlot, ShutSlot,
     LockVerdict, StoreVerdict, CloseSlot, Tell, Goes
<1>2. /\ waiter' \in {"verdict?", "failure?", "gap", "asleep"} \union ReviewOutcomes
      /\ UNCHANGED <<canceller, run>>
  BY DEF SlotTypeOK, CallStep, Submit, Parse, CountInvalid, FailSlot, ShutSlot, LockVerdict,
     StoreVerdict, CloseSlot, Tell, Notified
<1>3. verdict' \in Call \union {None} /\ holder' \in Call \union {None}
  BY DEF SlotTypeOK, CallStep, Submit, Parse, CountInvalid, FailSlot, ShutSlot, LockVerdict,
     StoreVerdict, CloseSlot, Tell, slot
<1>4. failure' \in {None, "budget", "cancelled"}
  BY DEF SlotTypeOK, CallStep, Submit, Parse, CountInvalid, FailSlot, ShutSlot, LockVerdict,
     StoreVerdict, CloseSlot, Tell, slot
<1>5. terminal' \in BOOLEAN
  <2>1. UNCHANGED terminal \/ terminal' = TRUE
    BY DEF CallStep, Submit, Parse, CountInvalid, FailSlot, ShutSlot, LockVerdict,
       StoreVerdict, CloseSlot, Tell, slot
  <2> QED
    BY <2>1 DEF SlotTypeOK
<1>6. invalid' \in Nat
  <2>1. UNCHANGED invalid \/ invalid' = invalid + 1
    BY DEF CallStep, Submit, Parse, CountInvalid, FailSlot, ShutSlot, LockVerdict,
       StoreVerdict, CloseSlot, Tell, slot
  <2> QED
    BY <2>1 DEF SlotTypeOK
<1> QED
  BY <1>1, <1>2, <1>3, <1>4, <1>5, <1>6 DEF SlotTypeOK

(* Every step of a call keeps the mutex exact and the verdict the one that     *)
(* was stored                                                                  *)
LEMMA CallKeepsSlot == ASSUME SlotInv, NEW c \in Call, CallStep(c) PROVE SlotInv'
<1> USE SlotAssumption
<1>0. SlotTypeOK'
  BY CallTypes DEF SlotInv
<1> USE DEF SlotInv
<1>1. CASE Submit(c) \/ Parse(c) \/ CountInvalid(c) \/ FailSlot(c) \/ ShutSlot(c)
  <2>1. PICK state \in {"expired", "closed", "parse", "lock", "count", "fail", "correct it",
                         "shut", "tell"} :
            /\ Goes(c, state) /\ (state = "lock" => c \in Valid)
            /\ (state \in {"count", "fail", "shut", "tell"} => c \notin Valid)
    BY <1>1 DEF Submit, Parse, CountInvalid, FailSlot, ShutSlot, Sorted
  <2>2. call[c] \notin {"store", "close"} /\ UNCHANGED <<verdict, holder, waiter>>
    BY <1>1 DEF Submit, Parse, CountInvalid, FailSlot, ShutSlot, slot
  <2>3. state \in CallStates
    BY <2>1 DEF CallStates, Answers
  <2> QED
    BY <2>1, <2>2, <2>3, <1>0, IdleGoing
<1>2. CASE LockVerdict(c) /\ AlreadyTaken
  <2>1. Goes(c, "closed") /\ call[c] = "lock" /\ UNCHANGED <<verdict, holder, waiter>>
    BY <1>2 DEF LockVerdict
  <2> QED
    BY <2>1, <1>0, IdleGoing DEF CallStates, Answers
<1> DEFINE Others == \A d \in Call \ {c} : call'[d] = call[d]
<1>3. CASE LockVerdict(c) /\ ~AlreadyTaken
  <2>1. /\ call[c] = "lock" /\ call'[c] = "store" /\ Others /\ holder = None /\ holder' = c
        /\ verdict = None /\ UNCHANGED <<verdict, waiter>>
    BY <1>3 DEF LockVerdict, AlreadyTaken, Goes, SlotTypeOK
  <2>2. MutexHeld' /\ StoresFirst' /\ Sorted'
    BY <2>1 DEF MutexHeld, StoresFirst, Sorted
  <2>3. TakenIsVerdict' /\ VerdictIsSeen'
    BY <2>1 DEF TakenIsVerdict, Taken, VerdictIsSeen
  <2> QED
    BY <1>0, <2>2, <2>3
<1>4. CASE StoreVerdict(c)
  <2>1. /\ call[c] = "store" /\ call'[c] = "close" /\ Others /\ UNCHANGED <<holder, waiter>>
        /\ verdict = None /\ verdict' = c
    BY <1>4 DEF StoreVerdict, StoresFirst, Goes, SlotTypeOK
  <2>2. \A d \in Call : call[d] = "store" => d = c
    BY <2>1 DEF MutexHeld
  <2>3. MutexHeld' /\ StoresFirst' /\ Sorted'
    BY <2>1, <2>2 DEF MutexHeld, StoresFirst, Sorted
  <2>4. TakenIsVerdict' /\ VerdictIsSeen'
    BY <2>1 DEF TakenIsVerdict, Taken, VerdictIsSeen
  <2> QED
    BY <1>0, <2>3, <2>4
<1>5. CASE CloseSlot(c)
  <2>1. /\ call[c] = "close" /\ call'[c] = "tell" /\ Others /\ UNCHANGED <<verdict, waiter>>
        /\ holder = c /\ holder' = None
    BY <1>5 DEF CloseSlot, MutexHeld, Goes, SlotTypeOK
  <2>2. MutexHeld' /\ StoresFirst' /\ Sorted'
    BY <2>1 DEF MutexHeld, StoresFirst, Sorted
  <2>3. TakenIsVerdict' /\ VerdictIsSeen'
    BY <2>1 DEF TakenIsVerdict, Taken, VerdictIsSeen
  <2> QED
    BY <1>0, <2>2, <2>3
<1>6. CASE Tell(c)
  <2>1. /\ call[c] = "tell" /\ call'[c] = (IF c \in Valid THEN "accepted" ELSE "aborted") /\ Others
        /\ UNCHANGED <<verdict, holder>> /\ (waiter' = waiter \/ waiter' = "verdict?")
    BY <1>6 DEF Tell, Goes, Notified, slot, SlotTypeOK
  <2>2. MutexHeld' /\ StoresFirst' /\ Sorted'
    BY <2>1 DEF MutexHeld, StoresFirst, Sorted
  <2>3. TakenIsVerdict' /\ VerdictIsSeen'
    BY <2>1 DEF TakenIsVerdict, Taken, VerdictIsSeen
  <2> QED
    BY <1>0, <2>2, <2>3
<1> QED
  BY <1>1, <1>2, <1>3, <1>4, <1>5, <1>6 DEF CallStep

(* Cancellation and the waiting job touch no submission; the job only sees a    *)
(* verdict that is there, and looks for it under the lock.                      *)
LEMMA OthersKeepSlot ==
  ASSUME SlotInv, Cancel \/ CancelFails \/ CancelTells \/ WaiterStep \/ RunEnds \/ UNCHANGED slotVars
  PROVE  SlotInv'
<1> USE DEF Cancel, CancelFails, CancelTells, WaiterStep, LookForVerdict, LookForFailure,
            FallAsleep, GiveUp, GraceOver, RunEnds, slotVars, slot, Notified
<1>1. /\ UNCHANGED <<call, verdict, holder, invalid>>
      /\ waiter' = "verdict" => waiter = "verdict" \/ verdict # None
  OBVIOUS
<1>2. /\ canceller' \in {"idle", "fail", "tell", "done"} /\ run' \in {"running", "ended"}
      /\ waiter' \in {"verdict?", "failure?", "gap", "asleep"} \union ReviewOutcomes
      /\ terminal' \in BOOLEAN /\ failure' \in {None, "budget", "cancelled"}
  BY DEF SlotInv, SlotTypeOK, ReviewOutcomes
<1>3. SlotTypeOK'
  BY <1>1, <1>2 DEF SlotInv, SlotTypeOK
<1>4. MutexHeld' /\ StoresFirst' /\ Sorted'
  BY <1>1 DEF SlotInv, MutexHeld, StoresFirst, Sorted
<1>5. TakenIsVerdict' /\ VerdictIsSeen'
  BY <1>1 DEF SlotInv, TakenIsVerdict, Taken, VerdictIsSeen
<1> QED
  BY <1>3, <1>4, <1>5 DEF SlotInv

(* The slot keeps its invariant, for any number of submissions.                 *)
THEOREM SlotInvariant == SlotSpec => []SlotInv
<1>1. SlotInv /\ [SlotNext]_slotVars => SlotInv'
  BY CallKeepsSlot, OthersKeepSlot DEF SlotNext
<1> QED
  BY <1>1, InitSlot, PTL DEF SlotSpec

(* However many submissions overlap with each other and with a cancellation, at *)
(* most one is taken and it is the verdict the job hands to the host.           *)
THEOREM ReviewHasOneVerdict == SlotSpec => []OneVerdict
<1>1. SlotInv => OneVerdict
  BY DEF SlotInv, TakenIsVerdict, VerdictIsSeen, OneVerdict
<1> QED
  BY <1>1, SlotInvariant, PTL

(* A failure is recorded, a verdict stored, the mutex of the verdict taken      *)
Failed == failure # None
Stored == verdict # None
Locked == holder # None

(* Whoever is about to wake the job has left it something to find.              *)
TellersLeaveSomething ==
    /\ \A c \in Call : call[c] \in {"shut", "tell"} /\ c \notin Valid => Failed
    /\ canceller = "tell" => Failed

(* It is recorded before the job is told, and stays                            *)
LEMMA TellersKeepLeaving ==
  ASSUME SlotInv, TellersLeaveSomething, [SlotNext]_slotVars
  PROVE  TellersLeaveSomething'
<1> USE DEF TellersLeaveSomething, Failed
<1>t. call \in [Call -> CallStates]
  BY DEF SlotInv, SlotTypeOK
<1>1. ASSUME NEW c \in Call, CallStep(c) PROVE TellersLeaveSomething'
  <2>1. UNCHANGED canceller /\ (UNCHANGED failure \/ Failed')
    BY <1>1 DEF CallStep, Submit, Parse, CountInvalid, FailSlot, ShutSlot, LockVerdict,
       StoreVerdict, CloseSlot, Tell, slot, None
  <2>2. \A d \in Call \ {c} : call'[d] = call[d]
    BY <1>t, <1>1 DEF CallStep, Submit, Parse, CountInvalid, FailSlot, ShutSlot, LockVerdict,
       StoreVerdict, CloseSlot, Tell, Goes
  <2>3. call'[c] \in {"shut", "tell"} /\ c \notin Valid => Failed'
    BY <1>t, <1>1 DEF CallStep, Submit, Parse, CountInvalid, FailSlot, ShutSlot, LockVerdict,
       StoreVerdict, CloseSlot, Tell, Goes, SlotInv, Sorted, slot, None
  <2> QED
    BY <2>1, <2>2, <2>3
<1>2. CASE Cancel \/ CancelFails \/ CancelTells
  BY <1>2 DEF Cancel, CancelFails, CancelTells, slot, None
<1>3. CASE WaiterStep \/ RunEnds \/ UNCHANGED slotVars
  BY <1>3 DEF WaiterStep, LookForVerdict, LookForFailure, FallAsleep, GiveUp, RunEnds, slotVars, slot
<1> QED
  BY <1>1, <1>2, <1>3 DEF SlotNext

(* What the run's end, the stored verdict and the recorded failure are, they   *)
(* stay, and the mutex is not taken again once a verdict is stored.             *)
LEMMA SlotFactsStay ==
  ASSUME SlotInv, [SlotNext]_slotVars
  PROVE  /\ run = "ended" => run' = "ended"
         /\ Stored => Stored'
         /\ Failed => Failed'
         /\ Stored /\ ~Locked => ~Locked'
         /\ ~Stored /\ Locked => Locked'
<1> USE SlotAssumption DEF Stored, Failed, Locked
<1>1. ASSUME NEW c \in Call, CallStep(c)
      PROVE  /\ UNCHANGED run
             /\ Stored => Stored'
             /\ Failed => Failed'
             /\ Stored /\ ~Locked => ~Locked'
             /\ ~Stored /\ Locked => Locked'
  <2>1. CASE Submit(c) \/ Parse(c) \/ CountInvalid(c) \/ FailSlot(c) \/ ShutSlot(c) \/ Tell(c)
    BY <2>1 DEF Submit, Parse, CountInvalid, FailSlot, ShutSlot, Tell, slot, None
  <2>2. CASE LockVerdict(c)
    BY <2>2 DEF LockVerdict, AlreadyTaken
  <2>3. CASE StoreVerdict(c)
    BY <2>3 DEF StoreVerdict
  <2>4. CASE CloseSlot(c)
    BY <2>4 DEF CloseSlot, SlotInv, TakenIsVerdict, Taken, Sorted
  <2> QED
    BY <1>1, <2>1, <2>2, <2>3, <2>4 DEF CallStep
<1>2. CASE Cancel \/ CancelFails \/ CancelTells
  BY <1>2 DEF Cancel, CancelFails, CancelTells, slot, None
<1>3. CASE WaiterStep \/ RunEnds \/ UNCHANGED slotVars
  BY <1>3 DEF WaiterStep, LookForVerdict, LookForFailure, FallAsleep, GiveUp, RunEnds, slotVars, slot
<1> QED
  BY <1>1, <1>2, <1>3 DEF SlotNext

(* Where the waiting job is                                                    *)
Looks == waiter = "verdict?"
Checks == waiter = "failure?"
Gap == waiter = "gap"
Sleeps == waiter = "asleep"

(* How the waiting job goes on once the run has ended, whatever step is taken.  *)
LEMMA WaiterMoves ==
  ASSUME SlotInv, TellersLeaveSomething, run = "ended", [SlotNext]_slotVars
  PROVE  /\ Looks => Looks' \/ Over' \/ (Checks' /\ ~Stored)
         /\ Checks => Checks' \/ Over' \/ (Gap' /\ ~Failed)
         /\ Gap => Gap' \/ Sleeps'
         /\ Sleeps => Sleeps' \/ Over' \/ (Looks' /\ (Stored' \/ Failed'))
         /\ Over => Over'
<1> USE DEF Looks, Checks, Gap, Sleeps, Stored, Failed, Over, ReviewOutcomes
<1>1. ASSUME NEW c \in Call, CallStep(c)
      PROVE  UNCHANGED waiter \/ (Sleeps /\ Looks' /\ (Stored' \/ Failed'))
  <2>1. CASE Tell(c)
    <3>1. Stored \/ Failed
      BY <2>1, SlotAssumption
         DEF Tell, SlotInv, TakenIsVerdict, Taken, TellersLeaveSomething
    <3> QED
      BY <2>1, <3>1 DEF Tell, Notified, slot
  <2> QED
    BY <1>1, <2>1 DEF CallStep, Submit, Parse, CountInvalid, FailSlot, ShutSlot, LockVerdict,
       StoreVerdict, CloseSlot
<1>2. CASE Cancel \/ CancelFails
  BY <1>2 DEF Cancel, CancelFails
<1>3. CASE CancelTells
  BY <1>3 DEF CancelTells, Notified, TellersLeaveSomething, slot
<1>4. CASE WaiterStep
  BY <1>4 DEF WaiterStep, LookForVerdict, LookForFailure, FallAsleep, GiveUp, GraceOver
<1>5. CASE RunEnds
  BY <1>5 DEF RunEnds
<1>6. CASE UNCHANGED slotVars
  BY <1>6 DEF slotVars
<1> QED
  BY <1>1, <1>2, <1>3, <1>4, <1>5, <1>6 DEF SlotNext

(* A step of the job itself takes it on.                                        *)
LEMMA WaiterGoesOn ==
  ASSUME SlotInv, <<WaiterStep>>_slotVars
  PROVE  ~(Looks /\ Looks') /\ ~(Checks /\ Checks') /\ ~(Gap /\ Gap') /\ ~(Sleeps /\ Sleeps')
BY DEF WaiterStep, LookForVerdict, LookForFailure, FallAsleep, GiveUp, Looks, Checks, Gap, Sleeps

(* The call that holds the mutex stores its verdict, then lets go.              *)
LEMMA HolderGoesOn ==
  ASSUME SlotInv, StoresOrCloses
  PROVE  (~Stored => Stored') /\ (Stored => ~Locked')
BY SlotAssumption DEF StoresOrCloses, StoreVerdict, CloseSlot, SlotInv, StoresFirst, TakenIsVerdict,
   Taken, Sorted, Stored, Locked

(* When the agent's run has ended the review ends, whatever submissions and     *)
(* cancellation are under way: under the fairness of the job and of the call    *)
(* that holds the mutex. That neither waits for more than WaiterEnabled and     *)
(* HolderEnabled say is the hypothesis about ENABLED.                           *)
THEOREM EndedRunIsOver ==
  /\ SlotSpec
  /\ WF_slotVars(WaiterStep) /\ WF_slotVars(StoresOrCloses)
  /\ []WaiterEnabled /\ []HolderEnabled
  => EndedRunEndsReview
<1> DEFINE Quiet == run = "ended"
           WaiterCan == ENABLED <<WaiterStep>>_slotVars
           HolderCan == ENABLED <<StoresOrCloses>>_slotVars
<1>1. SlotInit => TellersLeaveSomething
  BY DEF SlotInit, TellersLeaveSomething
<1>2. SlotInv /\ TellersLeaveSomething /\ [SlotNext]_slotVars => TellersLeaveSomething'
  BY TellersKeepLeaving
<1>3. SlotInv /\ [SlotNext]_slotVars => /\ Quiet => Quiet'
                                        /\ Stored => Stored'
                                        /\ Failed => Failed'
                                        /\ Stored /\ ~Locked => ~Locked'
                                        /\ ~Stored /\ Locked => Locked'
  BY SlotFactsStay
<1>4. SlotInv /\ TellersLeaveSomething /\ Quiet /\ [SlotNext]_slotVars
         => /\ Looks => Looks' \/ Over' \/ (Checks' /\ ~Stored)
            /\ Checks => Checks' \/ Over' \/ (Gap' /\ ~Failed)
            /\ Gap => Gap' \/ Sleeps'
            /\ Sleeps => Sleeps' \/ Over' \/ (Looks' /\ (Stored' \/ Failed'))
            /\ Over => Over'
  BY WaiterMoves
<1>5. SlotInv /\ <<WaiterStep>>_slotVars
         => ~(Looks /\ Looks') /\ ~(Checks /\ Checks') /\ ~(Gap /\ Gap') /\ ~(Sleeps /\ Sleeps')
  BY WaiterGoesOn
<1>6. SlotInv /\ <<StoresOrCloses>>_slotVars => (~Stored => Stored') /\ (Stored => ~Locked')
  BY HolderGoesOn
<1>7. WaiterEnabled /\ Quiet => ((Looks /\ ~Locked) \/ Checks \/ Gap \/ Sleeps => WaiterCan)
  BY DEF WaiterEnabled, MayGoOn, Looks, Checks, Gap, Sleeps, Locked
<1>8. HolderEnabled => (Locked => HolderCan)
  BY DEF HolderEnabled, Locked
<1>9. SlotInv => Looks \/ Checks \/ Gap \/ Sleeps \/ Over
  BY DEF SlotInv, SlotTypeOK, Looks, Checks, Gap, Sleeps, Over
<1>10. SlotSpec => []SlotInv
  BY SlotInvariant
<1>11. EndedRunEndsReview <=> (Quiet ~> Over)
  BY DEF EndedRunEndsReview
<1> HIDE DEF Quiet
<1> QED
  BY <1>1, <1>2, <1>3, <1>4, <1>5, <1>6, <1>7, <1>8, <1>9, <1>10, <1>11, PTL DEF SlotSpec

-----------------------------------------------------------------------------
(* The budget of an OpenCode run *)

(* The ticks of a run as numbers, of which none is more than the run took.     *)
Ticks ==
    /\ wall \in Nat /\ idle \in Nat /\ credited \in Nat /\ last \in Nat /\ model \in Nat
    /\ wall <= MaxWall /\ idle <= wall /\ credited <= wall /\ last <= wall /\ model <= wall

(* A lane that is free has no age.                                             *)
Lanes ==
    /\ busy \subseteq Lane /\ age \in [Lane -> 0 .. wall]
    /\ \A l \in Lane \ busy : age[l] = 0

Results == {"running", "over budget", "stalled", "tool limit", "failed", "done"}

(* Calls side by side may be credited more than the ticks they cover, no less. *)
CreditCovers == covered \subseteq 1 .. wall /\ Cardinality(covered) <= credited

(* The model is charged what it worked alone since calls ran side by side:     *)
(* after the cap the credit is no more than the run, and from then on the      *)
(* model, the credit and the only call under way share what time there is.     *)
ModelIsCharged ==
    /\ busy = {} => model + credited <= wall
    /\ model > 0 => \A l \in busy : busy = {l} /\ model + credited + age[l] <= wall

(* The agent may have overrun its budget since the last line, and no longer.   *)
OverrunIsSilence ==
    /\ result = "running" => wall < Budget + idle + credited /\ idle <= Stall
    /\ result = "over budget" => wall >= Budget + credited

RunInvariant ==
    /\ Ticks /\ Lanes /\ result \in Results
    /\ CreditCovers /\ ModelIsCharged /\ OverrunIsSilence

(* What the ticks of one more call do to the ticks covered.                    *)
LEMMA CoveredMore ==
    ASSUME NEW w \in Nat, NEW a \in 0 .. w, NEW S, S \subseteq 1 .. w
    PROVE  LET T == S \union (w - a + 1 .. w)
           IN  T \subseteq 1 .. w /\ Cardinality(T) <= Cardinality(S) + a /\ Cardinality(T) <= w
<1> DEFINE R == w - a + 1 .. w
<1>1. R \subseteq 1 .. w /\ S \union R \subseteq 1 .. w
  OBVIOUS
<1>2. IsFiniteSet(1 .. w) /\ Cardinality(1 .. w) = w
  <2>1. 1 \in Int /\ w \in Int
    OBVIOUS
  <2> QED
    BY <2>1, FS_Interval
<1>3. IsFiniteSet(R) /\ Cardinality(R) = a
  <2>1. w - a + 1 \in Int /\ w \in Int
    OBVIOUS
  <2>2. /\ IsFiniteSet(R)
        /\ Cardinality(R) = IF w - a + 1 > w THEN 0 ELSE w - (w - a + 1) + 1
    BY <2>1, FS_Interval
  <2> QED
    BY <2>2
<1>4. IsFiniteSet(S)
  <2>1. S \in SUBSET (1 .. w)
    OBVIOUS
  <2> QED
    BY <1>2, <2>1, FS_Subset
<1>5. Cardinality(S \union R) <= w
  <2>1. (S \union R) \in SUBSET (1 .. w)
    BY <1>1
  <2>2. Cardinality(S \union R) <= Cardinality(1 .. w)
    BY <1>2, <2>1, FS_Subset
  <2> QED
    BY <1>2, <2>2
<1>6. Cardinality(S \union R) = Cardinality(S) + Cardinality(R) - Cardinality(S \cap R)
  BY <1>3, <1>4, FS_Union
<1>7. Cardinality(S \cap R) \in Nat /\ Cardinality(S) \in Nat
  <2>1. IsFiniteSet(S \cap R)
    BY <1>4, FS_Intersection
  <2> QED
    BY <1>4, <2>1, FS_CardinalityType
<1>8. Cardinality(S \union R) <= Cardinality(S) + a
  BY <1>3, <1>6, <1>7
<1> QED
  BY <1>1, <1>5, <1>8

(* The ticks covered are finitely many.                                        *)
LEMMA CoveredFinite ==
    ASSUME NEW w \in Nat, NEW S, S \subseteq 1 .. w PROVE Cardinality(S) \in Nat
<1>1. 1 \in Int /\ w \in Int /\ S \in SUBSET (1 .. w)
  OBVIOUS
<1>2. IsFiniteSet(1 .. w)
  BY <1>1, FS_Interval
<1>3. IsFiniteSet(S)
  BY <1>1, <1>2, FS_Subset
<1> QED
  BY <1>3, FS_CardinalityType

(* What a line does: the silence is over, and the agent is within its budget   *)
(* or the run is not.                                                          *)
LEMMA LineRead ==
    ASSUME Ticks, NEW c \in Nat, c <= wall, wall' = wall, credited' = c, idle' = 0,
           result' = BudgetOf(c)
    PROVE  OverrunIsSilence' /\ result' \in Results
<1>0. wall \in Nat /\ Budget \in Nat /\ Stall \in Nat
  BY RunAssumption DEF Ticks
<1>1. /\ result' \in {"over budget", "running"}
      /\ result' = "over budget" <=> wall - c >= Budget
  BY DEF BudgetOf
<1>2. wall - c >= Budget <=> wall >= Budget + c
  BY <1>0
<1>3. ~(wall >= Budget + c) => wall < Budget + 0 + c /\ 0 <= Stall
  BY <1>0
<1>4. OverrunIsSilence'
  BY <1>1, <1>2, <1>3 DEF OverrunIsSilence
<1> QED
  BY <1>1, <1>4 DEF Results

(* Init: no time has passed.                                                   *)
LEMMA InitRun == RunInit => RunInvariant
<1> SUFFICES ASSUME RunInit PROVE RunInvariant
  OBVIOUS
<1>1. Ticks
  BY RunAssumption DEF RunInit, Ticks
<1>2. Lanes /\ result \in Results
  BY <1>1 DEF RunInit, Lanes, Ticks, Results
<1>3. CreditCovers
  BY FS_EmptySet DEF RunInit, CreditCovers
<1>4. ModelIsCharged /\ OverrunIsSilence
  BY RunAssumption DEF RunInit, ModelIsCharged, OverrunIsSilence
<1> QED
  BY <1>1, <1>2, <1>3, <1>4 DEF RunInvariant

(* A tick is the model's if no call runs.                                      *)
LEMMA TickRun == RunInvariant /\ RunTick => RunInvariant'
<1> SUFFICES ASSUME RunInvariant, RunTick PROVE RunInvariant'
  OBVIOUS
<1>0. Ticks /\ Lanes /\ CreditCovers /\ ModelIsCharged /\ OverrunIsSilence
  BY DEF RunInvariant
<1>1. /\ wall' = wall + 1 /\ idle' = idle + 1 /\ idle < Stall /\ wall < MaxWall
      /\ model' = IF busy = {} THEN model + 1 ELSE model
      /\ age' = [l \in Lane |-> IF l \in busy THEN age[l] + 1 ELSE 0]
      /\ credited' = credited /\ last' = last /\ busy' = busy /\ covered' = covered
      /\ result' = result /\ result = "running"
  BY DEF RunTick
<1>2. Ticks'
  BY <1>0, <1>1, RunAssumption DEF Ticks
<1>3. \A l \in Lane : age[l] \in Nat /\ age[l] <= wall
  BY <1>0 DEF Lanes, Ticks
<1>4. Lanes'
  <2>1. \A l \in Lane : (IF l \in busy THEN age[l] + 1 ELSE 0) \in 0 .. wall + 1
    BY <1>0, <1>3 DEF Ticks
  <2> QED
    BY <1>0, <1>1, <2>1 DEF Lanes
<1>5. CreditCovers'
  <2>1. 1 .. wall \subseteq 1 .. wall + 1
    BY <1>0 DEF Ticks
  <2> QED
    BY <1>0, <1>1, <2>1 DEF CreditCovers
<1>6. ModelIsCharged'
  <2>1. CASE busy = {}
    BY <1>0, <1>1, <2>1 DEF ModelIsCharged, Ticks
  <2>2. CASE busy # {}
    <3>1. ASSUME model > 0, NEW l \in busy
          PROVE  busy = {l} /\ model + credited + age'[l] <= wall + 1
      <4>1. busy = {l} /\ model + credited + age[l] <= wall /\ age'[l] = age[l] + 1
        BY <1>0, <1>1, <3>1 DEF ModelIsCharged, Lanes
      <4> QED
        BY <1>0, <1>3, <3>1, <4>1 DEF Ticks, Lanes
    <3> QED
      BY <1>1, <2>2, <3>1 DEF ModelIsCharged
  <2> QED
    BY <2>1, <2>2
<1>7. OverrunIsSilence'
  BY <1>0, <1>1, RunAssumption DEF OverrunIsSilence, Ticks
<1>8. result' \in Results
  BY <1>1 DEF Results
<1> QED
  BY <1>2, <1>4, <1>5, <1>6, <1>7, <1>8 DEF RunInvariant

(* A call that starts next to another ends the count of the model's time.      *)
LEMMA StartRun == ASSUME RunInvariant, NEW l \in Lane, ToolStarts(l) PROVE RunInvariant'
<1>0. Ticks /\ Lanes /\ CreditCovers /\ ModelIsCharged /\ OverrunIsSilence
  BY DEF RunInvariant
<1>1. /\ l \notin busy /\ busy' = busy \union {l}
      /\ model' = IF busy = {} THEN model ELSE 0
      /\ result' = result /\ wall' = wall /\ idle' = idle /\ credited' = credited
      /\ last' = last /\ age' = age /\ covered' = covered
  BY DEF ToolStarts
<1>2. Ticks'
  BY <1>0, <1>1 DEF Ticks
<1>3. Lanes'
  BY <1>0, <1>1 DEF Lanes
<1>4. CreditCovers' /\ OverrunIsSilence' /\ result' \in Results
  BY <1>0, <1>1 DEF CreditCovers, OverrunIsSilence, RunInvariant
<1>5. ModelIsCharged'
  <2>1. CASE busy = {}
    <3>1. age[l] = 0 /\ model + credited + 0 <= wall /\ busy' = {l}
      BY <1>0, <1>1, <2>1 DEF Lanes, ModelIsCharged, Ticks
    <3> QED
      BY <1>1, <2>1, <3>1 DEF ModelIsCharged
  <2>2. CASE busy # {}
    BY <1>1, <2>2 DEF ModelIsCharged
  <2> QED
    BY <2>1, <2>2
<1> QED
  BY <1>2, <1>3, <1>4, <1>5 DEF RunInvariant

(* A call that ends in a line, with or without a credit. The credit grows by   *)
(* what the call took, or is all the run took.                                 *)
LEMMA EndRun ==
    ASSUME RunInvariant, NEW l \in busy, LaneEnds(l), NEW c \in Nat,
           credited <= c, c <= wall, c <= credited + age[l],
           wall' = wall, model' = model, credited' = c, last' \in {last, age[l]},
           CreditCovers', OverrunIsSilence', result' \in Results
    PROVE  RunInvariant'
<1>0. Ticks /\ Lanes /\ ModelIsCharged
  BY DEF RunInvariant
<1>1. /\ busy' = busy \ {l} /\ age' = [age EXCEPT ![l] = 0] /\ idle' = 0
      /\ l \in Lane /\ age[l] \in Nat /\ age[l] <= wall
  BY <1>0 DEF LaneEnds, Lanes, Ticks
<1>2. Ticks'
  BY <1>0, <1>1 DEF Ticks
<1>3. Lanes'
  BY <1>0, <1>1 DEF Lanes, Ticks
<1>4. ModelIsCharged'
  <2>1. CASE model = 0
    BY <1>0, <1>2, <2>1 DEF ModelIsCharged, Ticks
  <2>2. CASE model > 0
    <3>1. busy = {l} /\ model + credited + age[l] <= wall
      BY <1>0, <2>2 DEF ModelIsCharged
    <3>2. busy' = {}
      BY <1>1, <3>1
    <3>3. model + c <= wall
      BY <1>0, <1>1, <3>1 DEF Ticks
    <3> QED
      BY <3>2, <3>3 DEF ModelIsCharged
  <2> QED
    BY <1>0, <2>1, <2>2 DEF Ticks
<1> QED
  BY <1>2, <1>3, <1>4 DEF RunInvariant

(* A completed call is credited, up to the whole run.                          *)
LEMMA CompleteRun == ASSUME RunInvariant, NEW l \in Lane, ToolCompletes(l) PROVE RunInvariant'
<1>0. Ticks /\ Lanes /\ CreditCovers
  BY DEF RunInvariant
<1>1. /\ l \in busy /\ LaneEnds(l) /\ last' = age[l] /\ wall' = wall /\ model' = model
      /\ idle' = 0
  BY DEF ToolCompletes, LaneEnds
<1>2. age[l] \in Nat /\ age[l] \in 0 .. wall
  BY <1>0 DEF Lanes, Ticks
<1>3. CASE age[l] > ToolLimit
  <2>1. result' = "tool limit" /\ credited' = credited /\ covered' = covered
    BY <1>3 DEF ToolCompletes
  <2>2. CreditCovers' /\ OverrunIsSilence' /\ result' \in Results
    BY <1>0, <1>1, <2>1 DEF CreditCovers, OverrunIsSilence, Results
  <2>3. PICK c \in Nat : c = credited
    BY <1>0 DEF Ticks
  <2>4. credited <= c /\ c <= wall /\ c <= credited + age[l]
    BY <1>0, <1>2, <2>3 DEF Ticks
  <2>5. credited' = c
    BY <2>1, <2>3
  <2> QED
    BY <1>1, <2>2, <2>4, <2>5, EndRun
<1>4. CASE ~(age[l] > ToolLimit)
  <2>1. /\ credited' = LeastOf(credited + age[l], wall) /\ result' = BudgetOf(credited')
        /\ covered' = covered \union (wall - age[l] + 1 .. wall)
    BY <1>4 DEF ToolCompletes, Credit, Ran
  <2>2. PICK c \in Nat : c = LeastOf(credited + age[l], wall)
    BY <1>0, <1>2 DEF LeastOf, Ticks
  <2>3. c <= wall /\ c <= credited + age[l] /\ credited <= c
    BY <1>0, <1>2, <2>2 DEF LeastOf, Ticks
  <2>4. credited' = c /\ result' = BudgetOf(c)
    BY <2>1, <2>2
  <2>5. OverrunIsSilence' /\ result' \in Results
    BY <1>0, <1>1, <2>3, <2>4, LineRead
  <2>6. CreditCovers'
    <3>0. wall \in Nat /\ covered \subseteq 1 .. wall
      BY <1>0 DEF CreditCovers, Ticks
    <3>1. /\ covered' \subseteq 1 .. wall
          /\ Cardinality(covered') <= Cardinality(covered) + age[l]
          /\ Cardinality(covered') <= wall
      BY <1>2, <2>1, <3>0, CoveredMore
    <3>2. Cardinality(covered) \in Nat /\ Cardinality(covered') \in Nat
      BY <1>0, <3>1, CoveredFinite DEF CreditCovers, Ticks
    <3>3. Cardinality(covered') <= c
      BY <1>0, <1>2, <2>2, <3>1, <3>2 DEF LeastOf, CreditCovers, Ticks
    <3> QED
      BY <1>1, <2>4, <3>1, <3>3 DEF CreditCovers
  <2> QED
    BY <1>1, <2>3, <2>4, <2>5, <2>6, EndRun
<1> QED
  BY <1>3, <1>4

(* A failed call stays charged.                                                *)
LEMMA FailRun == ASSUME RunInvariant, NEW l \in Lane, ToolFails(l) PROVE RunInvariant'
<1>0. Ticks /\ Lanes /\ CreditCovers
  BY DEF RunInvariant
<1>1. /\ l \in busy /\ LaneEnds(l) /\ last' = last /\ wall' = wall /\ model' = model
      /\ idle' = 0 /\ credited' = credited /\ covered' = covered /\ result' = BudgetOf(credited)
  BY DEF ToolFails, LaneEnds
<1>2. credited \in Nat /\ credited <= wall /\ age[l] \in Nat
  BY <1>0 DEF Lanes, Ticks
<1>3. OverrunIsSilence' /\ result' \in Results
  BY <1>0, <1>1, <1>2, LineRead
<1>4. CreditCovers'
  BY <1>0, <1>1 DEF CreditCovers
<1> QED
  BY <1>1, <1>2, <1>3, <1>4, EndRun

(* Any other line, and the end of the output or of the patience.               *)
LEMMA NextRun == RunInvariant /\ [RunNext]_runVars => RunInvariant'
<1> SUFFICES ASSUME RunInvariant, [RunNext]_runVars PROVE RunInvariant'
  OBVIOUS
<1>0. Ticks /\ Lanes /\ CreditCovers /\ ModelIsCharged /\ OverrunIsSilence
  BY DEF RunInvariant
<1>1. CASE ModelLine \/ ToolRepeated
  <2>1. /\ wall' = wall /\ idle' = 0 /\ last' = last /\ busy' = busy /\ age' = age
        /\ covered' = covered /\ model' = model /\ credited' = credited
        /\ result' = BudgetOf(credited)
    BY <1>1 DEF ModelLine, ToolRepeated, Known
  <2>2. OverrunIsSilence' /\ result' \in Results
    BY <1>0, <2>1, LineRead DEF Ticks
  <2>3. Ticks' /\ Lanes' /\ CreditCovers' /\ ModelIsCharged'
    BY <1>0, <2>1 DEF Ticks, Lanes, CreditCovers, ModelIsCharged
  <2> QED
    BY <2>2, <2>3 DEF RunInvariant
<1>2. CASE NoLine \/ RunExit \/ UNCHANGED runVars
  <2>1. UNCHANGED <<wall, idle, credited, last, busy, age, covered, model>>
    BY <1>2 DEF NoLine, RunExit, runVars
  <2>2. result' = result \/ result' \in {"stalled", "done", "failed"}
    BY <1>2 DEF NoLine, RunExit, runVars
  <2>3. Ticks' /\ Lanes' /\ CreditCovers' /\ ModelIsCharged'
    BY <1>0, <2>1 DEF Ticks, Lanes, CreditCovers, ModelIsCharged
  <2>4. OverrunIsSilence' /\ result' \in Results
    BY <1>0, <2>1, <2>2 DEF OverrunIsSilence, Results, RunInvariant
  <2> QED
    BY <2>3, <2>4 DEF RunInvariant
<1> QED
  BY <1>1, <1>2, TickRun, StartRun, CompleteRun, FailRun DEF RunNext

(* A run is cut as over budget only for time in which no completed call ran,   *)
(* and calls side by side buy the model no time ahead (run_with_limits).       *)
THEOREM OpenCodeBudgetIsTheAgents == RunSpec => []BudgetIsTheAgents
<1>1. ASSUME RunInvariant PROVE BudgetIsTheAgents
  <2>0. Ticks /\ Lanes /\ CreditCovers /\ ModelIsCharged /\ OverrunIsSilence
    BY <1>1 DEF RunInvariant
  <2>1. ASSUME result = "over budget" PROVE wall - Cardinality(covered) >= Budget
    <3>1. Cardinality(covered) \in Nat
      BY <2>0, CoveredFinite DEF CreditCovers, Ticks
    <3>2. /\ wall \in Nat /\ credited \in Nat /\ Budget \in Nat
          /\ wall >= Budget + credited /\ Cardinality(covered) <= credited
      BY <2>0, <2>1, RunAssumption DEF OverrunIsSilence, CreditCovers, Ticks
    <3>3. \A w, c, b, n \in Nat : w >= b + c /\ n <= c => w - n >= b
      OBVIOUS
    <3> QED
      BY <3>1, <3>2, <3>3
  <2>2. ASSUME result = "running" PROVE model < Budget + Stall
    <3>1. wall < Budget + idle + credited /\ idle <= Stall
      BY <2>0, <2>2 DEF OverrunIsSilence
    <3>2. CASE model = 0
      BY <3>2, RunAssumption
    <3>3. CASE model > 0
      <4>1. model + credited <= wall
        <5>1. CASE busy = {}
          BY <2>0, <5>1 DEF ModelIsCharged
        <5>2. CASE busy # {}
          <6>1. PICK l \in busy : TRUE
            BY <5>2
          <6>2. model + credited + age[l] <= wall /\ age[l] \in Nat
            BY <2>0, <3>3, <6>1 DEF ModelIsCharged, Lanes, Ticks
          <6> QED
            BY <2>0, <6>2 DEF Ticks
        <5> QED
          BY <5>1, <5>2
      <4> QED
        BY <2>0, <3>1, <4>1, RunAssumption DEF Ticks
    <3> QED
      BY <2>0, <3>2, <3>3 DEF Ticks
  <2> QED
    BY <2>1, <2>2 DEF BudgetIsTheAgents
<1> QED
  BY InitRun, NextRun, <1>1, PTL DEF RunSpec

-----------------------------------------------------------------------------
(* The watchdog of a Pi run *)

(* A call whose events carry no id is recognised by its tool's name: it is the *)
(* only call of that name.                                                     *)
OwnNames == \A t \in NoId, u \in Tool : ToolName[u] = ToolName[t] => u = t

(* How long Pi may have said nothing: the interval, and one grace for every    *)
(* probe sent since.                                                           *)
ProbeClock ==
    outcome = "running" =>
        /\ awaiting => /\ missed < MaxMissed
                       /\ silence + wait = ProbeInterval + missed * ProbeGrace + ProbeGrace
        /\ ~awaiting => missed = 0 /\ silence + wait = ProbeInterval

(* A run at its last inactive answer is over.                                  *)
StillAnswers == outcome = "running" => inactive < MaxInactive

WatchInvariant ==
    /\ TypeOK
    /\ ProbeClock /\ SilenceBounded
    /\ StillAnswers
    /\ NoGhosts

(* The arithmetic of one more interval of grace                                *)
LEMMA OneMoreGrace ==
    ASSUME NEW k \in Nat, NEW n \in Nat, NEW g \in Nat, k < n
    PROVE  k * g \in Nat /\ (k + 1) * g = k * g + g /\ k * g + g <= n * g
<1>1. PICK d \in Nat : n = k + 1 + d
  <2>1. n - k - 1 \in Nat /\ n = k + 1 + (n - k - 1)
    OBVIOUS
  <2> QED
    BY <2>1
<1>2. k * g \in Nat /\ d * g \in Nat
  OBVIOUS
<1>3. n * g = k * g + g + d * g
  BY <1>1
<1> QED
  BY <1>2, <1>3

(* Tables *)

TableOK(tab) ==
    /\ DOMAIN tab \subseteq Tool
    /\ \A t \in DOMAIN tab : tab[t] \in [age : 0 .. HardLimit, idle : 0 .. ToolStall]

(* A started call is tracked, at the cost of the stalest if the table is full. *)
LEMMA StartedTable ==
    ASSUME TableOK(table), NEW t \in Tool
    PROVE  TableOK(Started(t)) /\ DOMAIN Started(t) \subseteq DOMAIN table \cup {t}
<1>1. PICK kept \in SUBSET DOMAIN table :
          Started(t) = [u \in kept \cup {t} |->
                          IF u = t THEN [age |-> 0, idle |-> 0] ELSE table[u]]
  BY DEF Started
<1>2. [age |-> 0, idle |-> 0] \in [age : 0 .. HardLimit, idle : 0 .. ToolStall]
  BY WatchdogAssumption
<1> QED
  BY <1>1, <1>2 DEF TableOK

(* An update of a call that is not tracked tracks it.                          *)
LEMMA UpdatedTable ==
    ASSUME TableOK(table), NEW t \in Tool
    PROVE  TableOK(Updated(t)) /\ DOMAIN Updated(t) \subseteq DOMAIN table \cup {t}
<1>1. CASE Candidates(t) = {}
  BY <1>1, StartedTable DEF Updated
<1>2. CASE Candidates(t) # {}
  <2>1. PICK key : Updated(t) = [table EXCEPT ![key].idle = 0]
    BY <1>2 DEF Updated
  <2>2. 0 \in 0 .. ToolStall
    BY WatchdogAssumption
  <2> QED
    BY <2>1, <2>2 DEF TableOK
<1> QED
  BY <1>1, <1>2

(* A call that ends is tracked no more.                                        *)
LEMMA EndedTable ==
    ASSUME OwnNames, TableOK(table), NEW t \in Tool
    PROVE  TableOK(Ended(t)) /\ DOMAIN Ended(t) \subseteq DOMAIN table \ {t}
<1>1. Candidates(t) = DOMAIN table \cap {t}
  BY DEF Candidates, OwnNames, TableOK
<1>2. CASE t \notin DOMAIN table
  BY <1>1, <1>2 DEF Ended
<1>3. CASE t \in DOMAIN table
  <2>1. Candidates(t) = {t}
    BY <1>1, <1>3
  <2>2. table[t].idle >= table[t].idle
    BY <1>3 DEF TableOK
  <2>3. Stalest({t}) = t
    BY <2>2 DEF Stalest
  <2>4. Ended(t) = [u \in DOMAIN table \ {t} |-> table[u]]
    BY <2>1, <2>3 DEF Ended, Without
  <2> QED
    BY <2>4 DEF TableOK
<1> QED
  BY <1>2, <1>3

(* Time passes for every call in the table.                                    *)
LEMMA AgedStays ==
    ASSUME NEW limit \in Nat, NEW n \in 0 .. limit PROVE Aged(n, limit) \in 0 .. limit
BY DEF Aged

(* A tick ages the calls of the table and changes nothing else of it           *)
LEMMA AgedTable ==
    ASSUME TableOK(table), Tick PROVE TableOK(table') /\ DOMAIN table' = DOMAIN table
<1>1. table' = [t \in DOMAIN table |->
                    [age |-> Aged(table[t].age, HardLimit),
                     idle |-> Aged(table[t].idle, ToolStall)]]
  BY DEF Tick
<1>2. ASSUME NEW t \in DOMAIN table
      PROVE  /\ Aged(table[t].age, HardLimit) \in 0 .. HardLimit
             /\ Aged(table[t].idle, ToolStall) \in 0 .. ToolStall
  BY AgedStays, WatchdogAssumption DEF TableOK
<1> QED
  BY <1>1, <1>2 DEF TableOK

-----------------------------------------------------------------------------
(* What every line of Pi does to the probes                                    *)

Probes ==
    /\ wait \in 0 .. MaxOf(ProbeInterval, ProbeGrace) /\ awaiting \in BOOLEAN
    /\ missed \in 0 .. MaxMissed /\ asked \in 0 .. MaxMissed /\ silence \in Nat

Fates ==
    /\ outcome \in Outcomes /\ phase \in Phases
    /\ inactive \in 0 .. MaxInactive /\ progress \in 0 .. ModelStall

PiTypes ==
    /\ pi \in {"idle", "model", "tools", "compacting", "retrying", "settled"}
    /\ tool \in [Tool -> {"to come", "running", "ended"}]
    /\ review \in BOOLEAN /\ nudged \in BOOLEAN /\ final \in BOOLEAN

(* The types in the parts the steps disturb one by one                         *)
LEMMA TypesInParts == TypeOK <=> Probes /\ Fates /\ PiTypes /\ TableOK(table)
BY DEF TypeOK, Probes, Fates, PiTypes, TableOK

(* A judgement is an outcome, and lets a run go on only below its hard         *)
(* limit                                                                       *)
LEMMA JudgedIsOutcome ==
    ASSUME NEW ph, NEW tab, NEW prog \in Nat, NEW inact \in Nat
    PROVE  /\ Judged(ph, tab, prog, inact) \in Outcomes
           /\ Judged(ph, tab, prog, inact) = "running" => inact < MaxInactive
BY WatchdogAssumption DEF Judged, Outcomes

(* After a line from Pi the probes and the silence count anew                  *)
LEMMA LineResets ==
    ASSUME Line, asked' \in 0 .. MaxMissed
    PROVE  Probes' /\ ProbeClock' /\ SilenceBounded'
<1>1. wait' = ProbeInterval /\ awaiting' = FALSE /\ missed' = 0 /\ silence' = 0
  BY DEF Line
<1>2. ProbeInterval \in 0 .. MaxOf(ProbeInterval, ProbeGrace) /\ 0 \in 0 .. MaxMissed
  BY WatchdogAssumption DEF MaxOf
<1>3. 0 + ProbeInterval = ProbeInterval /\ MaxMissed * ProbeGrace \in Nat
      /\ 0 <= ProbeInterval + MaxMissed * ProbeGrace
  BY WatchdogAssumption
<1> QED
  BY <1>1, <1>2, <1>3 DEF Probes, ProbeClock, SilenceBounded

(* Where progress is judged, the outcome and its counters keep their bounds    *)
LEMMA ProgressDecides ==
    ASSUME NEW ph \in Phases, NEW tab, Progress(ph, tab)
    PROVE  Fates' /\ StillAnswers'
<1>1. phase' = ph /\ inactive' = 0 /\ progress' = 0 /\ outcome' = Judged(ph, tab, 0, 0)
  BY DEF Progress
<1>2. 0 \in 0 .. MaxInactive /\ 0 \in 0 .. ModelStall /\ 0 < MaxInactive /\ 0 \in Nat
  BY WatchdogAssumption
<1> QED
  BY <1>1, <1>2, JudgedIsOutcome DEF Fates, StillAnswers

(* The probes between two lines: a tick shortens the wait, a probe that runs    *)
(* out counts as missed.                                                       *)
LEMMA NextProbes ==
    ASSUME WatchInvariant, [Next]_vars PROVE Probes' /\ ProbeClock' /\ SilenceBounded'
<1> USE WatchdogAssumption
<1>0. Probes /\ ProbeClock /\ SilenceBounded
  BY TypesInParts DEF WatchInvariant
<1>a. /\ wait \in Nat /\ missed \in Nat /\ asked \in Nat /\ silence \in Nat
      /\ missed <= MaxMissed /\ asked <= MaxMissed
      /\ MaxOf(ProbeInterval, ProbeGrace) \in Nat /\ wait <= MaxOf(ProbeInterval, ProbeGrace)
  BY <1>0 DEF Probes, MaxOf
<1>b. /\ \A k \in Nat : k < MaxMissed =>
            /\ k * ProbeGrace \in Nat /\ (k + 1) * ProbeGrace = k * ProbeGrace + ProbeGrace
            /\ k * ProbeGrace + ProbeGrace <= MaxMissed * ProbeGrace
      /\ MaxMissed * ProbeGrace \in Nat
  BY OneMoreGrace
<1>1. CASE Tick
  <2>1. /\ outcome = "running" /\ wait > 0 /\ wait' = wait - 1 /\ silence' = silence + 1
        /\ UNCHANGED <<outcome, awaiting, missed, asked>>
    BY <1>1 DEF Tick
  <2>2. Probes'
    BY <1>0, <1>a, <2>1 DEF Probes
  <2>3. silence + wait = (silence + 1) + (wait - 1) /\ silence + 1 <= silence + wait
    BY <1>a, <2>1
  <2>4. ProbeClock'
    BY <1>0, <2>1, <2>3 DEF ProbeClock
  <2>5. silence + wait <= ProbeInterval + MaxMissed * ProbeGrace
    <3>1. CASE awaiting
      <4>1. silence + wait = ProbeInterval + missed * ProbeGrace + ProbeGrace
            /\ missed < MaxMissed
        BY <1>0, <2>1, <3>1 DEF ProbeClock
      <4> QED
        BY <1>a, <1>b, <4>1
    <3>2. CASE ~awaiting
      <4>1. silence + wait = ProbeInterval
        BY <1>0, <2>1, <3>2 DEF ProbeClock
      <4> QED
        BY <1>a, <1>b, <4>1
    <3> QED
      BY <3>1, <3>2
  <2>6. silence + 1 <= ProbeInterval + MaxMissed * ProbeGrace
    BY <1>a, <1>b, <2>3, <2>5
  <2>7. SilenceBounded'
    BY <2>1, <2>6 DEF SilenceBounded
  <2> QED
    BY <2>2, <2>4, <2>7
<1>2. CASE TimesOut
  <2>1. /\ outcome = "running" /\ wait = 0 /\ silence' = silence
        /\ missed' = IF awaiting THEN missed + 1 ELSE missed
    BY <1>2 DEF TimesOut, MissCounted
  <2>2. SilenceBounded'
    BY <1>0, <2>1 DEF SilenceBounded
  <2>3. asked' \in 0 .. MaxMissed
    BY <1>0, <1>2, AgedStays DEF TimesOut, Probes
  <2>4. ProbeGrace \in 0 .. MaxOf(ProbeInterval, ProbeGrace)
    BY DEF MaxOf
  <2>5. CASE awaiting
    <3>1. /\ missed < MaxMissed
          /\ silence + 0 = ProbeInterval + missed * ProbeGrace + ProbeGrace
      BY <1>0, <2>1, <2>5 DEF ProbeClock
    <3>2. missed + 1 \in Nat /\ missed + 1 <= MaxMissed
      BY <1>a, <3>1
    <3>3. missed' = missed + 1 /\ missed' \in 0 .. MaxMissed
      BY <2>1, <2>5, <3>2
    <3>4. CASE missed + 1 >= MaxMissed
      <4>1. outcome' = "unresponsive" /\ awaiting' = FALSE /\ wait' = wait
        BY <1>2, <2>5, <3>3, <3>4 DEF TimesOut
      <4>2. Probes'
        BY <1>0, <2>1, <2>3, <3>3, <4>1 DEF Probes
      <4> QED
        BY <2>2, <4>1, <4>2 DEF ProbeClock
    <3>5. CASE ~(missed + 1 >= MaxMissed)
      <4>1. awaiting' = TRUE /\ wait' = ProbeGrace
        BY <1>2, <2>5, <3>3, <3>5 DEF TimesOut
      <4>2. Probes'
        BY <1>0, <2>1, <2>3, <2>4, <3>3, <4>1 DEF Probes
      <4>3. missed + 1 < MaxMissed
        BY <1>a, <3>5
      <4>4. silence + ProbeGrace = ProbeInterval + (missed + 1) * ProbeGrace + ProbeGrace
        BY <1>a, <1>b, <3>1
      <4>5. ProbeClock'
        BY <2>1, <3>3, <4>1, <4>3, <4>4 DEF ProbeClock
      <4> QED
        BY <2>2, <4>2, <4>5
    <3> QED
      BY <3>4, <3>5
  <2>6. CASE ~awaiting
    <3>1. missed = 0 /\ missed' = 0 /\ silence + 0 = ProbeInterval
      BY <1>0, <2>1, <2>6 DEF ProbeClock
    <3>2. awaiting' = TRUE /\ wait' = ProbeGrace
      BY <1>2, <2>6 DEF TimesOut
    <3>3. Probes'
      BY <1>0, <2>1, <2>3, <2>4, <3>1, <3>2 DEF Probes
    <3>4. 0 < MaxMissed /\ silence + ProbeGrace = ProbeInterval + 0 * ProbeGrace + ProbeGrace
      BY <1>a, <3>1
    <3>5. ProbeClock'
      BY <2>1, <3>1, <3>2, <3>4 DEF ProbeClock
    <3> QED
      BY <2>2, <3>3, <3>5
  <2> QED
    BY <2>5, <2>6
<1>3. CASE AgentLine \/ (\E t \in Tool : ToolLine(t)) \/ Chatter \/ FinalText \/ AskUser
           \/ (\E success \in BOOLEAN : AnswerProbe(success))
  <2>1. Line
    BY <1>3 DEF AgentLine, ToolLine, TurnStarts, ModelSpeaks, Compact, Retry, Settle, StartTool,
                UpdateTool, EndTool, Chatter, FinalText, AskUser, Ends, AnswerProbe, Progress
  <2>2. asked' = asked \/ (asked > 0 /\ asked' = asked - 1)
    BY <1>3 DEF AgentLine, ToolLine, TurnStarts, ModelSpeaks, Compact, Retry, Settle, StartTool,
                UpdateTool, EndTool, Chatter, FinalText, AskUser, Ends, AnswerProbe, Progress
  <2>3. asked' \in 0 .. MaxMissed
    BY <1>0, <2>2 DEF Probes
  <2> QED
    BY <2>1, <2>3, LineResets
<1>4. CASE Exit \/ UNCHANGED vars
  <2>1. /\ UNCHANGED <<wait, awaiting, missed, asked, silence>>
        /\ outcome' = "running" => outcome = "running"
    BY <1>4 DEF Exit, vars, probes
  <2>2. Probes' /\ SilenceBounded'
    BY <1>0, <2>1 DEF Probes, SilenceBounded
  <2>3. ProbeClock'
    BY <1>0, <2>1 DEF ProbeClock
  <2> QED
    BY <2>2, <2>3
<1> QED
  BY <1>1, <1>2, <1>3, <1>4 DEF Next

(* What a run is at, and why it ends.                                          *)
LEMMA NextFates ==
    ASSUME WatchInvariant, [Next]_vars PROVE Fates' /\ StillAnswers'
<1> USE WatchdogAssumption
<1>0. Fates /\ StillAnswers
  BY TypesInParts DEF WatchInvariant
<1>a. inactive \in Nat /\ inactive <= MaxInactive /\ progress \in Nat
  BY <1>0 DEF Fates
<1>1. CASE Tick
  <2>1. /\ UNCHANGED <<outcome, phase, inactive>> /\ progress' \in 0 .. ModelStall
    BY <1>0, <1>1, AgedStays DEF Tick, Fates
  <2> QED
    BY <1>0, <2>1 DEF Fates, StillAnswers
<1>2. CASE TimesOut \/ Exit \/ Chatter \/ UNCHANGED vars
  <2>1. /\ UNCHANGED <<phase, inactive, progress>>
        /\ outcome' \in {outcome, "unresponsive", "done", "exited"}
    BY <1>2 DEF TimesOut, Exit, Chatter, vars
  <2> QED
    BY <1>0, <2>1 DEF Fates, StillAnswers, Outcomes
<1>3. CASE AgentLine \/ \E t \in Tool : ToolLine(t)
  <2>1. \E ph \in Phases : \E tab : Progress(ph, tab)
    BY <1>3 DEF AgentLine, ToolLine, TurnStarts, ModelSpeaks, Compact, Retry, Settle, StartTool,
                UpdateTool, EndTool, Phases
  <2> QED
    BY <2>1, ProgressDecides
<1>4. CASE \E success \in BOOLEAN : AnswerProbe(success)
  <2>1. /\ outcome = "running" /\ inactive' \in {0, inactive + 1}
        /\ UNCHANGED <<phase, progress>>
        /\ outcome' = Judged(phase, table, progress, inactive')
    BY <1>4 DEF AnswerProbe, Inactivity, Line
  <2>2. PICK n \in Nat : n = inactive' /\ n <= MaxInactive
    BY <1>0, <1>a, <2>1 DEF StillAnswers
  <2>3. /\ outcome' \in Outcomes
        /\ outcome' = "running" => n < MaxInactive
    BY <1>a, <2>1, <2>2, JudgedIsOutcome
  <2> QED
    BY <1>0, <2>1, <2>2, <2>3 DEF Fates, StillAnswers
<1>5. CASE FinalText \/ AskUser
  <2>1. PICK as \in {"done", "refused"} : \E line : Ends(line, as)
    BY <1>5 DEF FinalText, AskUser
  <2>2. /\ outcome' \in {as, Judged(phase, table, progress, inactive)}
        /\ outcome' # "running" /\ UNCHANGED <<phase, inactive, progress>>
    BY <2>1 DEF Ends
  <2>3. outcome' \in Outcomes
    BY <1>a, <2>2, JudgedIsOutcome DEF Outcomes
  <2> QED
    BY <1>0, <2>2, <2>3 DEF Fates, StillAnswers
<1> QED
  BY <1>1, <1>2, <1>3, <1>4, <1>5 DEF Next

(* Pi, and the prompts of its run.                                             *)
LEMMA NextPi ==
    ASSUME WatchInvariant, [Next]_vars PROVE PiTypes'
<1>0. PiTypes
  BY TypesInParts DEF WatchInvariant
<1>1. CASE AgentLine
  <2>1. UNCHANGED <<tool, review>> /\ (UNCHANGED nudged \/ nudged' = TRUE)
        /\ (UNCHANGED final \/ final' = TRUE)
    BY <1>1 DEF AgentLine, TurnStarts, ModelSpeaks, Compact, Retry, Settle, Progress, turns
  <2>2. pi' \in {pi, "idle", "model", "compacting", "retrying", "settled"}
    BY <1>1 DEF AgentLine, TurnStarts, ModelSpeaks, Compact, Retry, Settle
  <2> QED
    BY <1>0, <2>1, <2>2 DEF PiTypes
<1>2. CASE \E t \in Tool : ToolLine(t)
  <2>1. UNCHANGED <<review, nudged, final>> /\ pi' \in {pi, "tools", "model"}
    BY <1>2 DEF ToolLine, StartTool, UpdateTool, EndTool, Progress, turns
  <2>2. tool' \in [Tool -> {"to come", "running", "ended"}]
    BY <1>0, <1>2 DEF ToolLine, StartTool, UpdateTool, EndTool, PiTypes
  <2> QED
    BY <1>0, <2>1, <2>2 DEF PiTypes
<1>3. CASE ~AgentLine /\ ~(\E t \in Tool : ToolLine(t))
  <2>1. UNCHANGED <<pi, tool, review, nudged, final>>
    BY <1>3 DEF Next, Tick, TimesOut, Chatter, AnswerProbe, FinalText, AskUser, Ends, Exit, vars,
                world, turns
  <2> QED
    BY <1>0, <2>1 DEF PiTypes
<1> QED
  BY <1>1, <1>2, <1>3

(* Only calls that run are tracked: one that ends leaves the table.            *)
LEMMA NextTable ==
    ASSUME OwnNames, WatchInvariant, [Next]_vars PROVE TableOK(table)' /\ NoGhosts'
<1>0. TableOK(table) /\ NoGhosts /\ tool \in [Tool -> {"to come", "running", "ended"}]
  BY TypesInParts DEF WatchInvariant, PiTypes
<1>1. CASE Tick
  <2>1. TableOK(table') /\ DOMAIN table' = DOMAIN table /\ tool' = tool
    BY <1>0, <1>1, AgedTable DEF Tick, world
  <2> QED
    BY <1>0, <2>1 DEF TableOK, NoGhosts, Running
<1>2. ASSUME NEW t \in Tool, StartTool(t) \/ UpdateTool(t)
      PROVE  TableOK(table)' /\ NoGhosts'
  <2>1. TableOK(table') /\ DOMAIN table' \subseteq DOMAIN table \cup {t}
    BY <1>0, <1>2, StartedTable, UpdatedTable DEF StartTool, UpdateTool, Progress
  <2>2. Running \cup {t} \subseteq Running'
    BY <1>0, <1>2 DEF StartTool, UpdateTool, Running
  <2> QED
    BY <1>0, <2>1, <2>2 DEF TableOK, NoGhosts
<1>3. ASSUME NEW t \in Tool, EndTool(t)
      PROVE  TableOK(table)' /\ NoGhosts'
  <2>1. TableOK(table') /\ DOMAIN table' \subseteq DOMAIN table \ {t}
    BY <1>0, <1>3, EndedTable DEF EndTool, Progress
  <2>2. Running \ {t} \subseteq Running'
    BY <1>0, <1>3 DEF EndTool, Running
  <2> QED
    BY <1>0, <2>1, <2>2 DEF TableOK, NoGhosts
<1>4. CASE ~Tick /\ ~(\E t \in Tool : ToolLine(t))
  <2>1. table' = table /\ tool' = tool
    BY <1>4 DEF Next, AgentLine, TurnStarts, ModelSpeaks, Compact, Retry, Settle, Progress,
                TimesOut, Chatter, AnswerProbe, FinalText, AskUser, Ends, Exit, vars, world
  <2> QED
    BY <1>0, <2>1 DEF TableOK, NoGhosts, Running
<1> QED
  BY <1>1, <1>2, <1>3, <1>4 DEF ToolLine

(* Init: nothing was said, and no call is tracked.                             *)
LEMMA InitWatch == Init => WatchInvariant
<1> SUFFICES ASSUME Init PROVE WatchInvariant
  OBVIOUS
<1> USE WatchdogAssumption
<1>1. DOMAIN table = {}
  <2>1. table = <<>>
    BY DEF Init
  <2>2. DOMAIN <<>> = {}
    OBVIOUS
  <2> QED
    BY <2>1, <2>2
<1>2. ProbeInterval \in 0 .. MaxOf(ProbeInterval, ProbeGrace) /\ 0 \in 0 .. MaxMissed
      /\ 0 \in 0 .. MaxInactive /\ 0 \in 0 .. ModelStall /\ 0 \in Nat
  BY DEF MaxOf
<1>3. Probes
  BY <1>2 DEF Init, Probes
<1>4. Fates
  BY <1>2 DEF Init, Fates, Outcomes, Phases
<1>5. PiTypes /\ TableOK(table) /\ NoGhosts
  BY <1>1 DEF Init, PiTypes, TableOK, NoGhosts
<1>6. ProbeClock
  <2>1. 0 + ProbeInterval = ProbeInterval
    OBVIOUS
  <2> QED
    BY <2>1 DEF Init, ProbeClock
<1>7. SilenceBounded
  <2>1. MaxMissed * ProbeGrace \in Nat
    OBVIOUS
  <2>2. 0 <= ProbeInterval + MaxMissed * ProbeGrace
    BY <2>1
  <2> QED
    BY <2>2 DEF Init, SilenceBounded
<1>8. StillAnswers
  <2>1. 0 < MaxInactive
    OBVIOUS
  <2> QED
    BY <2>1 DEF Init, StillAnswers
<1> QED
  BY <1>3, <1>4, <1>5, <1>6, <1>7, <1>8, TypesInParts DEF WatchInvariant

(* The watchdog gives a silent Pi up in time, and never cuts a run for a call   *)
(* that has ended, for any number of parallel calls of which those without an  *)
(* id have a name of their own (run_rpc and ActiveTools of runtime.rs).        *)
THEOREM PiWatchdogIsExact == ASSUME OwnNames PROVE Spec => []WatchdogIsExact
<1>1. WatchInvariant /\ [Next]_vars => WatchInvariant'
  <2> SUFFICES ASSUME WatchInvariant, [Next]_vars PROVE WatchInvariant'
    OBVIOUS
  <2>1. (TypeOK <=> Probes /\ Fates /\ PiTypes /\ TableOK(table))'
    BY TypesInParts, PTL
  <2> QED
    BY <2>1, NextProbes, NextFates, NextPi, NextTable DEF WatchInvariant
<1>2. WatchInvariant => WatchdogIsExact
  BY DEF WatchInvariant, WatchdogIsExact
<1> QED
  BY InitWatch, <1>1, <1>2, PTL DEF Spec

-----------------------------------------------------------------------------
(* The label of a command *)

(* The commands written so far, one around the other, are the induction: the    *)
(* machine of CommandLabels adds one wrapper at a time, and each round of       *)
(* peeling goes back to an earlier command of the list.                         *)

(* Every atom commands are made of; no separator is among them.                *)
Names ==
    {"cargo", "test", "-x", "build", "/tmp/s", "git", "push", "secret", "ls", "pytest", "bash",
     "sh", "-c", "/usr/bin/sudo", "sudo", "-u", "env", "FOO=bar", "time", "-p", "timeout", "300",
     "--kill-after", "5", "/bin/bash", "-lc", "nice", "-n", "10"}
Atoms == {Atom(a) : a \in Names}

(* No word of W is a separator                                                 *)
Proper(W) == \A w \in W : w.atom # ";"

(* Short sequences                                                             *)
LEMMA ShortSequences ==
  ASSUME NEW S, NEW x \in S, NEW y \in S, NEW z \in S, NEW v \in S
  PROVE  /\ <<x>> \in Seq(S) /\ <<x, y>> \in Seq(S) /\ <<x, y, z>> \in Seq(S)
         /\ <<x, y, z, v>> \in Seq(S)
OBVIOUS

(* The words of a sequence of atoms                                            *)
LEMMA WordsAre ==
  ASSUME NEW a \in Seq(Names)
  PROVE  /\ Words(a) \in Seq(Atoms) /\ Len(Words(a)) = Len(a)
         /\ \A i \in 1 .. Len(a) : Words(a)[i] = Atom(a[i])
<1>1. DOMAIN a = 1 .. Len(a) /\ Len(a) \in Nat /\ \A i \in 1 .. Len(a) : a[i] \in Names
  BY LenProperties, ElementOfSeq
<1>2. Words(a) = [i \in 1 .. Len(a) |-> Atom(a[i])]
  BY <1>1 DEF Words
<1>3. \A i \in 1 .. Len(a) : Atom(a[i]) \in Atoms
  BY <1>1 DEF Atoms
<1> HIDE DEF Atoms, Atom
<1> QED
  BY <1>1, <1>2, <1>3

(* Dropping takes away nothing of a command that has none of the atoms.         *)
LEMMA DroppingNone ==
  ASSUME NEW W, NEW c \in Seq(W), NEW atoms, \A i \in 1 .. Len(c) : c[i].atom \notin atoms
  PROVE  Dropping(c, atoms) = c
<1> DEFINE kept == {i \in DOMAIN c : c[i].atom \notin atoms}
           before(i) == {j \in kept : j < i}
<1>1. DOMAIN c = 1 .. Len(c) /\ Len(c) \in Nat
  BY LenProperties
<1>2. kept = 1 .. Len(c)
  BY <1>1
<1>3. Cardinality(kept) = Len(c)
  <2>1. Cardinality(1 .. Len(c)) = Len(c)
    BY <1>1, FS_Interval
  <2> QED
    BY <1>2, <2>1
<1>4. ASSUME NEW i \in kept PROVE Cardinality(before(i)) = i - 1
  <2>1. before(i) = 1 .. i - 1 /\ i \in Nat /\ i - 1 \in Nat
    BY <1>1, <1>2, <1>4
  <2>2. \A m \in Nat : Cardinality(1 .. m) = m
    BY FS_Interval
  <2> HIDE DEF before
  <2> QED
    BY <2>1, <2>2
<1>5. ASSUME NEW k \in 1 .. Len(c)
      PROVE  (CHOOSE i \in kept : Cardinality(before(i)) = k - 1) = k
  <2> HIDE DEF before
  <2>1. k \in kept /\ Cardinality(before(k)) = k - 1
    BY <1>2, <1>4, <1>5
  <2>2. ASSUME NEW i \in kept, Cardinality(before(i)) = k - 1 PROVE i = k
    BY <1>1, <1>2, <1>4, <1>5, <2>2
  <2> HIDE DEF kept
  <2> QED
    BY <2>1, <2>2
<1>6. Dropping(c, atoms) =
        [k \in 1 .. Cardinality(kept) |-> c[CHOOSE i \in kept : Cardinality(before(i)) = k - 1]]
  BY DEF Dropping
<1>7. Dropping(c, atoms) = [k \in 1 .. Len(c) |-> c[k]]
  <2> HIDE DEF kept, before
  <2> QED
    BY <1>3, <1>5, <1>6
<1> QED
  BY <1>1, <1>7, LenProperties

(* A command whose words are programs and flags is split into its words.       *)
LEMMA SplitIsWhole ==
  ASSUME NEW W, Proper(W), NEW c \in Seq(W)
  PROVE  Split(c) = c
<1>1. \A i \in 1 .. Len(c) : c[i].atom \notin Separator
  BY ElementOfSeq DEF Proper, Separator
<1> QED
  BY <1>1, DroppingNone DEF Split

(* Everything before the first word that is no argument of a wrapper goes.     *)
LEMMA SkipLeadIs ==
  ASSUME NEW W, NEW words \in Seq(W), NEW numbers, NEW k \in 1 .. Len(words),
         \A j \in 1 .. k - 1 : IsLead(words, j, numbers), ~IsLead(words, k, numbers)
  PROVE  SkipLead(words, numbers) = SubSeq(words, k, Len(words))
<1> DEFINE StopsAt(i) == /\ \A j \in 1 .. i - 1 : IsLead(words, j, numbers)
                         /\ i <= Len(words) => ~IsLead(words, i, numbers)
<1>1. Len(words) \in Nat
  BY LenProperties
<1>2. k \in 1 .. Len(words) + 1 /\ StopsAt(k)
  BY <1>1
<1>3. ASSUME NEW i \in 1 .. Len(words) + 1, StopsAt(i) PROVE i = k
  <2>1. ~(i < k)
    BY <1>1, <1>3
  <2>2. ~(k < i)
    BY <1>1, <1>3
  <2> QED
    BY <2>1, <2>2, <1>1
<1>4. SkipLead(words, numbers) = From(words, CHOOSE i \in 1 .. Len(words) + 1 : StopsAt(i))
  BY DEF SkipLead
<1> HIDE DEF StopsAt
<1>5. (CHOOSE i \in 1 .. Len(words) + 1 : StopsAt(i)) = k
  BY <1>2, <1>3
<1> QED
  BY <1>4, <1>5 DEF From

(* x is y with words of atoms in front                                         *)
OnTop(x, atoms, y) ==
    /\ Len(x) = Len(atoms) + Len(y)
    /\ \A i \in 1 .. Len(atoms) : x[i] = Atom(atoms[i])
    /\ \A i \in 1 .. Len(y) : x[Len(atoms) + i] = y[i]

(* What a wrapper that does not quote puts in front                            *)
InFront(layer) ==
    CASE layer = "sudo" -> <<"/usr/bin/sudo">>
      [] layer = "user" -> <<"sudo", "-u", "secret">>
      [] layer = "env" -> <<"env", "FOO=bar">>
      [] layer = "assignment" -> <<"FOO=bar">>
      [] layer = "time" -> <<"time", "-p">>
      [] layer = "nice" -> <<"nice", "-n", "10">>
      [] layer = "timeout" -> <<"timeout", "300">>
      [] OTHER -> <<"timeout", "--kill-after", "5", "300">>

(* Words put in front of a command                                             *)
LEMMA PutInFront ==
  ASSUME NEW W, Atoms \subseteq W, NEW c \in Seq(W), NEW a \in Seq(Names)
  PROVE  Words(a) \o c \in Seq(W) /\ OnTop(Words(a) \o c, a, c)
<1>1. Words(a) \in Seq(W) /\ Len(Words(a)) = Len(a) /\ \A i \in 1 .. Len(a) : Words(a)[i] = Atom(a[i])
  BY WordsAre, SeqMonotonic
<1>2. /\ Len(a) \in Nat /\ Len(c) \in Nat
  BY LenProperties
<1> HIDE DEF Atom
<1>3. /\ Words(a) \o c \in Seq(W) /\ Len(Words(a) \o c) = Len(a) + Len(c)
      /\ \A i \in 1 .. Len(a) + Len(c) :
            (Words(a) \o c)[i] = IF i <= Len(a) THEN Words(a)[i] ELSE c[i - Len(a)]
  <2> DEFINE w == Words(a)
  <2>1. w \in Seq(W) /\ Len(w) = Len(a)
    BY <1>1
  <2> HIDE DEF w
  <2>2. /\ w \o c \in Seq(W) /\ Len(w \o c) = Len(w) + Len(c)
        /\ \A i \in 1 .. Len(w) + Len(c) :
              (w \o c)[i] = IF i <= Len(w) THEN w[i] ELSE c[i - Len(w)]
    BY <2>1, ConcatProperties
  <2> QED
    BY <2>1, <2>2 DEF w
<1>4. ASSUME NEW i \in 1 .. Len(c) PROVE (Words(a) \o c)[Len(a) + i] = c[i]
  <2>1. Len(a) + i \in 1 .. Len(a) + Len(c) /\ ~(Len(a) + i <= Len(a)) /\ Len(a) + i - Len(a) = i
    BY <1>2
  <2> QED
    BY <1>3, <2>1
<1>5. ASSUME NEW i \in 1 .. Len(a) PROVE (Words(a) \o c)[i] = Atom(a[i])
  <2>1. i \in 1 .. Len(a) + Len(c) /\ i <= Len(a)
    BY <1>2
  <2> QED
    BY <1>1, <1>3, <2>1
<1> QED
  BY <1>3, <1>4, <1>5 DEF OnTop

(* Any wrapper but a shell puts its words in front of the command;             *)
LEMMA WrappedOnTop ==
  ASSUME NEW W, Atoms \subseteq W, NEW c \in Seq(W), NEW layer \in ReadLayer \ {"shell"}
  PROVE  Wrapped(layer, c) \in Seq(W) /\ OnTop(Wrapped(layer, c), InFront(layer), c)
<1>1. InFront(layer) \in Seq(Names)
  <2>1. \A x \in Names, y \in Names, z \in Names, v \in Names :
           /\ <<x>> \in Seq(Names) /\ <<x, y>> \in Seq(Names) /\ <<x, y, z>> \in Seq(Names)
           /\ <<x, y, z, v>> \in Seq(Names)
    BY ShortSequences
  <2>2. {"/usr/bin/sudo", "sudo", "-u", "secret", "env", "FOO=bar", "time", "-p", "timeout", "300",
         "--kill-after", "5", "nice", "-n", "10"} \subseteq Names
    BY DEF Names
  <2> QED
    BY <2>1, <2>2 DEF InFront
<1>2. Wrapped(layer, c) = Words(InFront(layer)) \o c
  BY DEF InFront, Wrapped, ReadLayer
<1> QED
  BY <1>1, <1>2, PutInFront

(* a shell quotes it.                                                          *)
LEMMA WrappedInShell ==
  ASSUME NEW W, Atoms \subseteq W, NEW c, Quoted(c) \in W
  PROVE  /\ Wrapped("shell", c) = <<Atom("/bin/bash"), Atom("-lc"), Quoted(c)>>
         /\ Wrapped("shell", c) \in Seq(W)
<1> DEFINE a == <<"/bin/bash", "-lc">>
<1>1. a \in Seq(Names) /\ Len(a) = 2 /\ a[1] = "/bin/bash" /\ a[2] = "-lc"
  BY DEF Names
<1>2. /\ Words(a) \in Seq(Atoms) /\ Len(Words(a)) = 2
      /\ Words(a)[1] = Atom("/bin/bash") /\ Words(a)[2] = Atom("-lc")
  BY <1>1, WordsAre
<1>3. Wrapped("shell", c) = Words(a) \o <<Quoted(c)>>
  BY DEF Wrapped
<1> HIDE DEF a, Atom, Quoted
<1>4. Words(a) = <<Atom("/bin/bash"), Atom("-lc")>>
  BY <1>2
<1>5. Atom("/bin/bash") \in W /\ Atom("-lc") \in W
  BY DEF Atoms, Names
<1>6. Wrapped("shell", c) = <<Atom("/bin/bash"), Atom("-lc"), Quoted(c)>>
  BY <1>3, <1>4
<1>7. <<Atom("/bin/bash"), Atom("-lc"), Quoted(c)>> \in Seq(W)
  BY <1>5, ShortSequences
<1> QED
  BY <1>6, <1>7

(* A command that does not begin with an argument of a wrapper                 *)
Bold(c) == Len(c) > 0 /\ ~IsFlag(c[1]) /\ ~IsAssignment(c[1]) /\ ~IsNumber(c[1])

(* x is y after k assignments                                                  *)
Assigned(x, k, y) ==
    /\ Len(x) = k + Len(y)
    /\ \A j \in 1 .. k : IsAssignment(x[j])
    /\ \A j \in 1 .. Len(y) : x[k + j] = y[j]

(* c[0], c[1], ... are the commands the agent wrote one around the other, in   *)
(* words of W; c[f[i]] is what follows the assignments in front of c[i].       *)
Levels(W, c, f, n) ==
    /\ Proper(W) /\ Atoms \subseteq W
    /\ c \in [0 .. n -> Seq(W)] /\ f \in [0 .. n -> Nat]
    /\ plain \in Plain /\ c[0] = plain
    /\ \A i \in 1 .. n : \E layer \in ReadLayer : c[i] = Wrapped(layer, c[i - 1])
    /\ \A i \in 0 .. n :
          /\ f[i] <= i /\ Len(c[i]) > 0
          /\ Bold(c[f[i]]) /\ Assigned(c[i], i - f[i], c[f[i]])

(* What is left of a plain command of a shell once that is peeled              *)
Script == <<Atom("/tmp/s"), Atom("test")>>
Spent == Base(plain[1]) \in Shells /\ tokens \in {<<>>, Script}

LabelsInv ==
    /\ stage \in {"write", "peel", "named"} /\ layers \in Nat /\ round \in Nat
    /\ stage = "write" => round = 0
    /\ ~misread => \E W, c, f :
          /\ Levels(W, c, f, layers) /\ text = c[layers]
          /\ stage = "peel" =>
                \/ \E m \in 0 .. layers : m + round <= layers /\ tokens = c[m]
                \/ Spent
    /\ ReadWrappersAreTransparent

PlainWords ==
    {<<"cargo", "test">>, <<"cargo", "-x", "build">>, <<"cargo", "/tmp/s">>,
     <<"git", "/tmp/s", "push">>, <<"git", "secret">>, <<"ls", "test">>, <<"pytest", "-x">>,
     <<"secret", "push">>, <<"bash", "-x", "/tmp/s", "test">>, <<"sh", "-c">>}

(* What plain commands begin with                                              *)
LEMMA PlainFacts ==
  ASSUME NEW p \in Plain
  PROVE  /\ p \in Seq(Atoms) /\ Bold(p)
         /\ Base(p[1]) \notin Openers \cup {"timeout"}
         /\ Base(p[1]) \in Shells => \/ p = Words(<<"bash", "-x", "/tmp/s", "test">>)
                                     \/ p = Words(<<"sh", "-c">>)
<1>1. PICK a \in PlainWords : p = Words(a)
  BY DEF Plain, PlainWords
<1>2. /\ a \in Seq(Names) /\ Len(a) \in Nat /\ Len(a) > 0
      /\ a[1] \in {"cargo", "git", "ls", "pytest", "secret", "bash", "sh"}
      /\ a[1] \in {"bash", "sh"} => a \in {<<"bash", "-x", "/tmp/s", "test">>, <<"sh", "-c">>}
  <2>1. \A x \in Names, y \in Names, z \in Names, v \in Names :
           /\ <<x>> \in Seq(Names) /\ <<x, y>> \in Seq(Names) /\ <<x, y, z>> \in Seq(Names)
           /\ <<x, y, z, v>> \in Seq(Names)
    BY ShortSequences
  <2>2. {"cargo", "test", "-x", "build", "/tmp/s", "git", "push", "secret", "ls", "pytest", "bash",
         "sh", "-c"} \subseteq Names
    BY DEF Names
  <2>3. a \in Seq(Names)
    <3> HIDE DEF Names
    <3>1. <<"cargo", "test">> \in Seq(Names) /\ <<"cargo", "-x", "build">> \in Seq(Names)
      BY <2>1, <2>2
    <3>2. <<"cargo", "/tmp/s">> \in Seq(Names) /\ <<"git", "/tmp/s", "push">> \in Seq(Names)
      BY <2>1, <2>2
    <3>3. <<"git", "secret">> \in Seq(Names) /\ <<"ls", "test">> \in Seq(Names)
      BY <2>1, <2>2
    <3>4. <<"pytest", "-x">> \in Seq(Names) /\ <<"secret", "push">> \in Seq(Names)
      BY <2>1, <2>2
    <3>5. <<"bash", "-x", "/tmp/s", "test">> \in Seq(Names) /\ <<"sh", "-c">> \in Seq(Names)
      BY <2>1, <2>2
    <3> QED
      BY <3>1, <3>2, <3>3, <3>4, <3>5, <1>1, Zenon DEF PlainWords
  <2>4. Len(a) \in Nat /\ Len(a) > 0
    BY <1>1, SMTT(60) DEF PlainWords
  <2>5. a[1] \in {"cargo", "git", "ls", "pytest", "secret", "bash", "sh"}
    BY <1>1 DEF PlainWords
  <2>6. a[1] \in {"bash", "sh"} => a \in {<<"bash", "-x", "/tmp/s", "test">>, <<"sh", "-c">>}
    BY <1>1 DEF PlainWords
  <2> QED
    BY <2>3, <2>4, <2>5, <2>6
<1>3. /\ p \in Seq(Atoms) /\ Len(p) > 0 /\ p[1] = Atom(a[1])
  BY <1>1, <1>2, WordsAre
<1>4. p[1].atom = a[1]
  BY <1>3 DEF Atom
<1>5. /\ ~IsFlag(p[1]) /\ ~IsAssignment(p[1]) /\ ~IsNumber(p[1])
      /\ Base(p[1]) \notin Openers \cup {"timeout"} /\ (Base(p[1]) \in Shells => a[1] \in {"bash", "sh"})
  BY <1>2, <1>4 DEF IsFlag, Flags, ValueFlags, IsAssignment, IsNumber, Base, Openers, Shells
<1> QED
  BY <1>1, <1>2, <1>3, <1>5 DEF Bold

(* Arguments of wrappers in front of a command are skipped up to the command.  *)
LEMMA LeadSkipped ==
  ASSUME NEW W, NEW x \in Seq(W), NEW y \in Seq(W), NEW numbers \in BOOLEAN, NEW k \in Nat,
         Bold(y), Len(x) = k + Len(y),
         \A j \in 1 .. k : IsLead(x, j, numbers),
         k > 0 => ~TakesValue(x[k]),
         \A j \in 1 .. Len(y) : x[k + j] = y[j]
  PROVE  SkipLead(x, numbers) = y
<1>1. Len(x) \in Nat /\ Len(y) \in Nat /\ 1 \in 1 .. Len(y) /\ k + 1 \in 1 .. Len(x)
  BY LenProperties DEF Bold
<1>2. x[k + 1] = y[1] /\ (k + 1 > 1 => k > 0) /\ (k + 1) - 1 = k
  BY <1>1
<1>3. ~IsLead(x, k + 1, numbers)
  BY <1>2 DEF IsLead, Bold
<1>4. SkipLead(x, numbers) = SubSeq(x, k + 1, Len(x))
  BY <1>1, <1>2, <1>3, SkipLeadIs
<1>5. /\ SubSeq(x, k + 1, Len(x)) \in Seq(W) /\ Len(SubSeq(x, k + 1, Len(x))) = Len(y)
      /\ \A j \in 1 .. Len(y) : SubSeq(x, k + 1, Len(x))[j] = y[j]
  <2>1. \A i \in k + 1 .. Len(x) : x[i] \in W
    BY <1>1, ElementOfSeq
  <2>2. /\ k + 1 \in Int /\ Len(x) \in Int /\ k + 1 <= Len(x)
        /\ Len(x) - (k + 1) + 1 = Len(y)
    BY <1>1
  <2>3. /\ SubSeq(x, k + 1, Len(x)) \in Seq(W) /\ Len(SubSeq(x, k + 1, Len(x))) = Len(y)
        /\ \A j \in 1 .. Len(y) : SubSeq(x, k + 1, Len(x))[j] = x[k + 1 + j - 1]
    BY <2>1, <2>2, SubSeqProperties
  <2>4. \A j \in 1 .. Len(y) : k + 1 + j - 1 = k + j
    BY <1>1
  <2> QED
    BY <2>3, <2>4
<1> QED
  BY <1>4, <1>5, SeqEqual

(* The start                                                                   *)
LEMMA InitLabels == LabelsInit => LabelsInv
<1> SUFFICES ASSUME LabelsInit PROVE LabelsInv
  OBVIOUS
<1>1. layers = 0 /\ plain \in Plain /\ text = plain /\ stage = "write" /\ round = 0
  BY DEF LabelsInit
<1> DEFINE c == [i \in 0 .. 0 |-> plain]
           f == [i \in 0 .. 0 |-> 0]
<1>2. Proper(Atoms)
  <2>1. ASSUME NEW w \in Atoms PROVE w.atom # ";"
    <3>1. PICK a \in Names : w = Atom(a)
      BY DEF Atoms
    <3>2. w.atom = a
      BY <3>1 DEF Atom
    <3> QED
      BY <3>2 DEF Names
  <2> QED
    BY <2>1 DEF Proper
<1>3. plain \in Seq(Atoms) /\ Bold(plain) /\ Len(plain) \in Nat
  BY <1>1, PlainFacts, LenProperties
<1>4. c \in [0 .. 0 -> Seq(Atoms)] /\ f \in [0 .. 0 -> Nat] /\ c[0] = plain /\ f[0] = 0
  BY <1>3
<1> HIDE DEF c, f
<1>5. Levels(Atoms, c, f, 0)
  BY <1>1, <1>2, <1>3, <1>4 DEF Levels, Assigned, Bold
<1> QED
  BY <1>1, <1>4, <1>5 DEF LabelsInv, ReadWrappersAreTransparent

(* What a wrapper puts in front of the command is skipped up to it.            *)
LEMMA LeadWords ==
  ASSUME NEW layer \in ReadLayer \ {"shell", "assignment"}
  PROVE  LET a == InFront(layer) numbers == layer \in {"timeout", "kill"} IN
         /\ Len(a) \in 1 .. 4
         /\ \A j \in 2 .. Len(a) :
               \/ IsFlag(Atom(a[j])) \/ IsAssignment(Atom(a[j]))
               \/ j > 2 /\ TakesValue(Atom(a[j - 1]))
               \/ numbers /\ IsNumber(Atom(a[j]))
         /\ Len(a) > 1 => ~TakesValue(Atom(a[Len(a)]))
         /\ Base(Atom(a[1])) = "timeout" <=> numbers
         /\ Base(Atom(a[1])) \in Openers <=> ~numbers
         /\ Base(Atom(a[1])) \notin Shells
         /\ ~IsFlag(Atom(a[1])) /\ ~IsAssignment(Atom(a[1])) /\ ~IsNumber(Atom(a[1]))
<1>1. layer \in {"sudo", "user", "env", "time", "nice", "timeout", "kill"}
  BY DEF ReadLayer
<1> USE DEF InFront, IsFlag, Flags, ValueFlags, IsAssignment, IsNumber, TakesValue, Atom, Base, Openers, Shells
<1>2. CASE layer = "sudo"
  BY <1>2
<1>3. CASE layer = "user"
  BY <1>3
<1>4. CASE layer = "env"
  BY <1>4
<1>5. CASE layer = "time"
  BY <1>5
<1>6. CASE layer = "timeout"
  BY <1>6
<1>7. CASE layer = "kill"
  BY <1>7
<1>8. CASE layer = "nice"
  BY <1>8
<1> QED
  BY <1>1, <1>2, <1>3, <1>4, <1>5, <1>6, <1>7, <1>8

(* Words that are arguments of a wrapper, and the assignments after them       *)
LEMMA ArgumentsSkipped ==
  ASSUME NEW W, NEW w \in Seq(W), NEW c \in Seq(W), NEW y \in Seq(W), NEW a,
         NEW k \in Nat, NEW numbers \in BOOLEAN, Bold(y), Assigned(c, k, y),
         OnTop(w, a, c), Len(a) \in 1 .. 4,
         \A j \in 2 .. Len(a) :
            \/ IsFlag(Atom(a[j])) \/ IsAssignment(Atom(a[j]))
            \/ j > 2 /\ TakesValue(Atom(a[j - 1]))
            \/ numbers /\ IsNumber(Atom(a[j])),
         Len(a) > 1 => ~TakesValue(Atom(a[Len(a)]))
  PROVE  SkipLead(Tail(w), numbers) = y
<1> DEFINE x == Tail(w)
           l == Len(a) - 1
<1>1. /\ Len(w) = Len(a) + Len(c)
      /\ \A i \in 1 .. Len(a) : w[i] = Atom(a[i])
      /\ \A i \in 1 .. Len(c) : w[Len(a) + i] = c[i]
  BY DEF OnTop
<1>2. /\ Len(a) \in 1 .. 4
      /\ \A j \in 2 .. Len(a) :
            \/ IsFlag(Atom(a[j])) \/ IsAssignment(Atom(a[j]))
            \/ j > 2 /\ TakesValue(Atom(a[j - 1]))
            \/ numbers /\ IsNumber(Atom(a[j]))
      /\ Len(a) > 1 => ~TakesValue(Atom(a[Len(a)]))
  OBVIOUS
<1>3. /\ Len(c) \in Nat /\ Len(y) \in Nat /\ Len(y) > 0 /\ Len(c) = k + Len(y)
      /\ \A j \in 1 .. k : IsAssignment(c[j])
      /\ \A j \in 1 .. Len(y) : c[k + j] = y[j]
  BY LenProperties DEF Bold, Assigned
<1>4. w # <<>> /\ l \in Nat /\ Len(w) \in Nat
  <2>1. l \in Nat /\ Len(w) \in Nat /\ Len(w) > 0
    <3>1. Len(a) \in 1 .. 4 /\ Len(c) \in Nat /\ Len(w) = Len(a) + Len(c)
      BY <1>1, <1>3
    <3>2. \A n \in 1 .. 4, d \in Nat : n - 1 \in Nat /\ n + d \in Nat /\ n + d > 0
      OBVIOUS
    <3> QED
      BY <3>1, <3>2
  <2>2. Len(w) # Len(<<>>)
    BY <2>1, EmptySeq
  <2> QED
    BY <2>1, <2>2
<1>5. /\ x \in Seq(W) /\ Len(x) = l + k + Len(y)
      /\ \A i \in 1 .. Len(x) : x[i] = w[i + 1]
  BY <1>1, <1>2, <1>3, <1>4, HeadTailProperties
<1> HIDE DEF x
<1>6. \A j \in 1 .. l : j \in 1 .. Len(x) /\ j + 1 \in 2 .. Len(a) /\ x[j] = Atom(a[j + 1])
  BY <1>1, <1>2, <1>3, <1>4, <1>5
<1>7. \A j \in l + 1 .. l + k : j \in 1 .. Len(x) /\ j - l \in 1 .. k /\ x[j] = c[j - l]
  <2> TAKE j \in l + 1 .. l + k
  <2>1. j \in 1 .. Len(x) /\ j - l \in 1 .. k /\ j - l \in 1 .. Len(c) /\ j + 1 = Len(a) + (j - l)
    BY <1>2, <1>3, <1>4, <1>5
  <2>2. x[j] = w[j + 1] /\ w[Len(a) + (j - l)] = c[j - l]
    BY <1>1, <1>5, <2>1
  <2> QED
    BY <2>1, <2>2
<1>8. ASSUME NEW j \in 1 .. l + k PROVE IsLead(x, j, numbers)
  <2>1. CASE j <= l
    <3>1. j \in 1 .. l
      BY <1>4, <2>1
    <3>2. PICK i \in 2 .. Len(a) : i = j + 1 /\ x[j] = Atom(a[i])
      BY <1>6, <3>1
    <3>3. CASE i > 2 /\ TakesValue(Atom(a[i - 1]))
      <4>1. j > 1 /\ j - 1 \in 1 .. l /\ (j - 1) + 1 = i - 1
        BY <1>4, <3>1, <3>2, <3>3
      <4>2. x[j - 1] = Atom(a[(j - 1) + 1])
        BY <1>6, <4>1
      <4>3. x[j - 1] = Atom(a[i - 1])
        BY <4>1, <4>2
      <4> QED
        BY <3>3, <4>1, <4>3 DEF IsLead
    <3>4. \/ IsFlag(x[j]) \/ IsAssignment(x[j])
          \/ numbers /\ IsNumber(x[j])
          \/ i > 2 /\ TakesValue(Atom(a[i - 1]))
      <4>1. \/ IsFlag(Atom(a[i])) \/ IsAssignment(Atom(a[i]))
            \/ i > 2 /\ TakesValue(Atom(a[i - 1]))
            \/ numbers /\ IsNumber(Atom(a[i]))
        BY <1>2
      <4> QED
        BY <3>2, <4>1
    <3> QED
      BY <3>3, <3>4 DEF IsLead
  <2>2. CASE j > l
    <3>1. j \in l + 1 .. l + k
      BY <1>4, <2>2
    <3> QED
      BY <1>3, <1>7, <3>1 DEF IsLead
  <2> QED
    BY <1>4, <2>1, <2>2
<1>9. ASSUME l + k > 0 PROVE ~TakesValue(x[l + k])
  <2>1. CASE k = 0
    <3>1. l \in 1 .. l /\ l + 1 = Len(a) /\ Len(a) > 1 /\ l + k = l
      BY <1>2, <1>4, <1>9, <2>1
    <3> QED
      BY <1>2, <1>6, <3>1
  <2>2. CASE k > 0
    <3>1. l + k \in l + 1 .. l + k /\ l + k - l = k
      BY <1>4, <2>2
    <3> QED
      BY <1>3, <1>7, <3>1 DEF IsAssignment, TakesValue, ValueFlags
  <2> QED
    BY <2>1, <2>2
<1>10. ASSUME NEW j \in 1 .. Len(y) PROVE x[(l + k) + j] = y[j]
  <2>1. /\ (l + k) + j \in 1 .. Len(x) /\ k + j \in 1 .. Len(c)
        /\ (l + k) + j + 1 = Len(a) + (k + j)
    BY <1>2, <1>3, <1>4, <1>5
  <2>2. x[(l + k) + j] = w[(l + k) + j + 1] /\ w[Len(a) + (k + j)] = c[k + j] /\ c[k + j] = y[j]
    BY <1>1, <1>3, <1>5, <2>1
  <2> QED
    BY <2>1, <2>2
<1>11. l + k \in Nat /\ Len(x) = (l + k) + Len(y)
  BY <1>4, <1>5
<1> HIDE DEF l
<1>12. SkipLead(x, numbers) = y
  BY <1>5, <1>8, <1>9, <1>10, <1>11, LeadSkipped
<1> QED
  BY <1>12 DEF x

(* A wrapper is peeled, with the assignments it uncovers.                      *)
LEMMA PrefixPeeled ==
  ASSUME NEW W, Atoms \subseteq W, NEW c \in Seq(W), NEW layer \in ReadLayer \ {"shell", "assignment"},
         NEW k \in Nat, NEW y \in Seq(W), Bold(y), Assigned(c, k, y)
  PROVE  /\ SkipLead(Tail(Wrapped(layer, c)), layer \in {"timeout", "kill"}) = y
         /\ Wrapped(layer, c)[1] = Atom(InFront(layer)[1])
<1>1. Wrapped(layer, c) \in Seq(W) /\ OnTop(Wrapped(layer, c), InFront(layer), c)
  BY WrappedOnTop
<1>2. /\ Len(InFront(layer)) \in 1 .. 4
      /\ \A j \in 2 .. Len(InFront(layer)) :
            \/ IsFlag(Atom(InFront(layer)[j])) \/ IsAssignment(Atom(InFront(layer)[j]))
            \/ j > 2 /\ TakesValue(Atom(InFront(layer)[j - 1]))
            \/ layer \in {"timeout", "kill"} /\ IsNumber(Atom(InFront(layer)[j]))
      /\ Len(InFront(layer)) > 1 => ~TakesValue(Atom(InFront(layer)[Len(InFront(layer))]))
  BY LeadWords
<1>3. SkipLead(Tail(Wrapped(layer, c)), layer \in {"timeout", "kill"}) = y
  <2> DEFINE a == InFront(layer)
             numbers == layer \in {"timeout", "kill"}
             w == Wrapped(layer, c)
  <2>1. w \in Seq(W) /\ OnTop(w, a, c) /\ numbers \in BOOLEAN
    BY <1>1
  <2>2. /\ Len(a) \in 1 .. 4
        /\ \A j \in 2 .. Len(a) :
              \/ IsFlag(Atom(a[j])) \/ IsAssignment(Atom(a[j]))
              \/ j > 2 /\ TakesValue(Atom(a[j - 1]))
              \/ numbers /\ IsNumber(Atom(a[j]))
        /\ Len(a) > 1 => ~TakesValue(Atom(a[Len(a)]))
    BY <1>2
  <2> HIDE DEF a, numbers, w
  <2>3. SkipLead(Tail(w), numbers) = y
    BY <2>1, <2>2, ArgumentsSkipped
  <2> QED
    BY <2>3 DEF w, numbers
<1>4. Wrapped(layer, c)[1] = Atom(InFront(layer)[1])
  BY <1>1, <1>2 DEF OnTop
<1> QED
  BY <1>3, <1>4

(* So are the assignments in front of a command.                               *)
LEMMA AssignmentsPeeled ==
  ASSUME NEW W, NEW c \in Seq(W), NEW k \in Nat, NEW y \in Seq(W), Bold(y), Assigned(c, k, y)
  PROVE  SkipLead(c, FALSE) = y
<1>1. \A j \in 1 .. k : IsAssignment(c[j])
  BY DEF Assigned
<1>2. /\ Len(c) = k + Len(y) /\ \A j \in 1 .. Len(y) : c[k + j] = y[j]
      /\ \A j \in 1 .. k : IsLead(c, j, FALSE)
  BY DEF Assigned, IsLead
<1>3. k > 0 => ~TakesValue(c[k])
  BY <1>1 DEF IsAssignment, TakesValue, ValueFlags
<1> QED
  BY <1>2, <1>3, LeadSkipped

(* One more wrapper around a command                                           *)
LEMMA OneLayerMore ==
  ASSUME NEW W, NEW c, NEW f, layers \in Nat, Levels(W, c, f, layers), text = c[layers],
         NEW layer \in ReadLayer
  PROVE  \E V, d, g : Levels(V, d, g, layers + 1) /\ d[layers + 1] = Wrapped(layer, text)
<1> DEFINE V == W \cup {Quoted(text)}
           n == layers + 1
           x == Wrapped(layer, text)
           k == IF layer = "assignment" THEN f[layers] ELSE n
           d == [i \in 0 .. n |-> IF i = n THEN x ELSE c[i]]
           g == [i \in 0 .. n |-> IF i = n THEN k ELSE f[i]]
<1>1. /\ Proper(W) /\ Atoms \subseteq W
      /\ c \in [0 .. layers -> Seq(W)] /\ f \in [0 .. layers -> Nat]
      /\ plain \in Plain /\ c[0] = plain
      /\ \A i \in 1 .. layers : \E la \in ReadLayer : c[i] = Wrapped(la, c[i - 1])
      /\ \A i \in 0 .. layers :
            /\ f[i] <= i /\ Len(c[i]) > 0
            /\ Bold(c[f[i]]) /\ Assigned(c[i], i - f[i], c[f[i]])
  BY DEF Levels
<1>2. Proper(V) /\ Atoms \subseteq V /\ W \subseteq V /\ Quoted(text) \in V
  <2>1. Quoted(text).atom = ""
    BY DEF Quoted
  <2>2. \A w \in W : w.atom # ";"
    BY <1>1 DEF Proper
  <2> HIDE DEF Quoted
  <2>3. Proper(V)
    BY <2>1, <2>2 DEF Proper
  <2> QED
    BY <1>1, <2>3
<1>3. \A i \in 0 .. layers : c[i] \in Seq(V) /\ f[i] \in Nat
  <2> TAKE i \in 0 .. layers
  <2>1. c[i] \in Seq(W) /\ f[i] \in Nat
    BY <1>1
  <2> HIDE DEF V
  <2> QED
    BY <1>2, <2>1, SeqMonotonic
<1>4. text \in Seq(V) /\ layers \in 0 .. layers
  BY <1>3
<1>5. /\ n \in Nat /\ n \in 0 .. n /\ \A i \in 0 .. layers : i \in 0 .. n /\ i # n
      /\ \A i \in 0 .. n : i # n => i \in 0 .. layers
  OBVIOUS
<1>6. /\ x \in Seq(V) /\ Len(x) > 0 /\ k \in Nat /\ k <= n
      /\ Bold(d[k]) /\ Assigned(x, n - k, d[k])
  <2>1. CASE layer = "shell"
    <3>1. x = <<Atom("/bin/bash"), Atom("-lc"), Quoted(text)>> /\ x \in Seq(V)
      <4> HIDE DEF V
      <4> QED
        BY <1>2, <2>1, WrappedInShell
    <3>2. Len(x) = 3 /\ x[1].atom = "/bin/bash"
      BY <3>1 DEF Atom
    <3>3. Bold(x)
      BY <3>2 DEF Bold, IsFlag, Flags, ValueFlags, IsAssignment, IsNumber
    <3>4. k = n /\ d[k] = x /\ n - k = 0
      BY <1>5, <2>1
    <3>5. Assigned(x, 0, x)
      BY <3>2 DEF Assigned
    <3> HIDE DEF x, d, k, n, V
    <3> QED
      BY <1>5, <3>1, <3>2, <3>3, <3>4, <3>5
  <2>2. CASE layer \in ReadLayer \ {"shell", "assignment"}
    <3>1. x \in Seq(V) /\ OnTop(x, InFront(layer), text)
      <4> HIDE DEF V
      <4> QED
        BY <1>2, <1>4, <2>2, WrappedOnTop
    <3> DEFINE a == InFront(layer)
    <3>2. /\ Len(a) \in 1 .. 4
          /\ ~IsFlag(Atom(a[1])) /\ ~IsAssignment(Atom(a[1])) /\ ~IsNumber(Atom(a[1]))
      BY <2>2, LeadWords
    <3>3. Len(text) \in Nat /\ Len(x) = Len(a) + Len(text) /\ x[1] = Atom(a[1])
      <4> HIDE DEF V, x
      <4> QED
        BY <1>4, <3>1, <3>2, LenProperties DEF OnTop
    <3>4. Len(x) \in Nat /\ Len(x) > 0
      <4> HIDE DEF V, x, a
      <4> QED
        BY <3>2, <3>3
    <3>5. k = n /\ d[k] = x /\ n - k = 0
      BY <1>5, <2>2
    <3> HIDE DEF x, d, k, n, V, a
    <3>6. Bold(x) /\ Assigned(x, 0, x)
      BY <3>2, <3>3, <3>4 DEF Bold, Assigned
    <3> QED
      BY <1>5, <3>1, <3>4, <3>5, <3>6
  <2>3. CASE layer = "assignment"
    <3>1. x \in Seq(V) /\ OnTop(x, InFront(layer), text)
      <4> HIDE DEF V
      <4> QED
        BY <1>2, <1>4, <2>3, WrappedOnTop
    <3>2. InFront(layer) = <<"FOO=bar">>
      BY <2>3 DEF InFront
    <3> DEFINE l == f[layers]
               y == c[l]
    <3>3. /\ l \in Nat /\ l <= layers /\ Bold(y) /\ Assigned(text, layers - l, y)
          /\ y \in Seq(V)
      BY <1>1, <1>3, <1>4
    <3>4. k = l /\ d[k] = y /\ n - k = (layers - l) + 1
      BY <1>5, <2>3, <3>3
    <3>5. /\ Len(text) = (layers - l) + Len(y) /\ Len(text) \in Nat /\ Len(y) \in Nat
          /\ \A j \in 1 .. layers - l : IsAssignment(text[j])
          /\ \A j \in 1 .. Len(y) : text[(layers - l) + j] = y[j]
      <4> HIDE DEF V, y, l
      <4> QED
        BY <1>4, <3>3, LenProperties DEF Assigned
    <3>6. /\ Len(x) = 1 + Len(text) /\ x[1] = Atom("FOO=bar")
          /\ \A i \in 1 .. Len(text) : x[1 + i] = text[i]
      <4> HIDE DEF V, x
      <4>1. OnTop(x, <<"FOO=bar">>, text)
        BY <3>1, <3>2
      <4> QED
        BY <4>1 DEF OnTop
    <3> DEFINE m == layers - l
    <3>7. m \in Nat /\ Len(x) = (m + 1) + Len(y) /\ Len(x) > 0
      <4>1. m \in Nat
        BY <3>3
      <4> HIDE DEF m, x, y, l, d, k, V
      <4>2. Len(x) = 1 + Len(text) /\ Len(text) = m + Len(y) /\ Len(y) \in Nat
        BY <3>5, <3>6 DEF m
      <4> QED
        BY <4>1, <4>2
    <3> HIDE DEF x, d, k, n, V, y, l
    <3>8. ASSUME NEW j \in 1 .. m + 1 PROVE IsAssignment(x[j])
      <4>1. CASE j = 1
        BY <3>6, <4>1 DEF IsAssignment, Atom
      <4>2. CASE j # 1
        <5>1. j - 1 \in 1 .. m /\ j - 1 \in 1 .. Len(text) /\ 1 + (j - 1) = j
          BY <3>5, <3>7, <4>2
        <5> QED
          BY <3>5, <3>6, <5>1
      <4> QED
        BY <4>1, <4>2
    <3>9. ASSUME NEW j \in 1 .. Len(y) PROVE x[(m + 1) + j] = y[j]
      <4>1. m + j \in 1 .. Len(text) /\ 1 + (m + j) = (m + 1) + j
        BY <3>5, <3>7
      <4> QED
        BY <3>5, <3>6, <4>1
    <3> HIDE DEF m
    <3>10. Assigned(x, m + 1, y)
      BY <3>7, <3>8, <3>9 DEF Assigned
    <3>11. k \in Nat /\ k <= n
      BY <3>3, <3>4 DEF n
    <3> QED
      BY <3>1, <3>3, <3>4, <3>7, <3>10, <3>11 DEF m
  <2> QED
    BY <2>1, <2>2, <2>3
<1>7. /\ d \in [0 .. n -> Seq(V)] /\ g \in [0 .. n -> Nat] /\ d[0] = plain
      /\ d[n] = x /\ g[n] = k
      /\ \A i \in 0 .. layers : d[i] = c[i] /\ g[i] = f[i]
  <2> HIDE DEF V, x, k
  <2>1. \A i \in 0 .. n : d[i] \in Seq(V) /\ g[i] \in Nat
    BY <1>3, <1>5, <1>6
  <2>2. 0 \in 0 .. layers
    BY <1>1, <1>4
  <2> QED
    BY <1>1, <1>5, <2>1, <2>2
<1> HIDE DEF V, x, k, d, g
<1>8. ASSUME NEW i \in 1 .. n PROVE \E la \in ReadLayer : d[i] = Wrapped(la, d[i - 1])
  <2>1. CASE i = n
    <3>1. i - 1 = layers /\ d[i - 1] = text
      BY <1>4, <1>7, <2>1
    <3> QED
      BY <1>7, <2>1, <3>1 DEF x
  <2>2. CASE i # n
    <3>1. i \in 1 .. layers /\ i \in 0 .. layers /\ i - 1 \in 0 .. layers
      BY <2>2
    <3> QED
      BY <1>1, <1>7, <3>1
  <2> QED
    BY <2>1, <2>2
<1>9. ASSUME NEW i \in 0 .. n
      PROVE  /\ g[i] <= i /\ Len(d[i]) > 0
             /\ Bold(d[g[i]]) /\ Assigned(d[i], i - g[i], d[g[i]])
  <2>1. CASE i = n
    BY <1>6, <1>7, <2>1
  <2>2. CASE i # n
    <3>1. i \in 0 .. layers /\ f[i] \in 0 .. layers
      <4>1. i \in 0 .. layers
        BY <1>5, <2>2
      <4>2. f[i] \in Nat /\ f[i] <= i
        BY <1>1, <1>3, <4>1
      <4> QED
        BY <4>1, <4>2
    <3> QED
      BY <1>1, <1>7, <3>1
  <2> QED
    BY <2>1, <2>2
<1>10. Levels(V, d, g, n)
  <2> HIDE DEF n
  <2> QED
    BY <1>1, <1>2, <1>7, <1>8, <1>9 DEF Levels
<1> QED
  BY <1>7, <1>10 DEF x

(* A wrapper more                                                              *)
LEMMA WrapLabels ==
  ASSUME LabelsInv, ~misread, NEW layer \in ReadLayer, Wrap(layer)
  PROVE  LabelsInv'
<1>1. PICK W, c, f : Levels(W, c, f, layers) /\ text = c[layers]
  BY DEF LabelsInv
<1>2. /\ stage = "write" /\ layers \in Nat /\ round \in Nat /\ layers' = layers + 1
      /\ stage' = stage /\ plain' = plain /\ round' = round /\ text' = Wrapped(layer, text)
  BY DEF Wrap, LabelsInv
<1>3. PICK V, d, g : Levels(V, d, g, layers + 1) /\ d[layers + 1] = Wrapped(layer, text)
  BY <1>1, <1>2, OneLayerMore
<1>4. Levels(V, d, g, layers)'
  BY <1>2, <1>3 DEF Levels
<1> QED
  BY <1>2, <1>3, <1>4 DEF LabelsInv, ReadWrappersAreTransparent

(* The text is split.                                                          *)
LEMMA ClassifyLabels ==
  ASSUME LabelsInv, ~misread, Classify
  PROVE  LabelsInv'
<1>1. PICK W, c, f : Levels(W, c, f, layers) /\ text = c[layers]
  BY DEF LabelsInv
<1>2. /\ layers \in Nat /\ layers' = layers /\ stage' = "peel" /\ plain' = plain /\ round = 0
      /\ round' = round /\ text' = text /\ tokens' = Split(text)
  BY DEF Classify, LabelsInv
<1>3. Proper(W) /\ text \in Seq(W) /\ layers \in 0 .. layers
  BY <1>1, <1>2 DEF Levels
<1>4. tokens' = c[layers]
  BY <1>1, <1>2, <1>3, SplitIsWhole
<1>5. Levels(W, c, f, layers)'
  BY <1>1, <1>2 DEF Levels
<1> QED
  BY <1>1, <1>2, <1>3, <1>4, <1>5 DEF LabelsInv, ReadWrappersAreTransparent

(* A round of peeling that leaves a command written earlier, or what is left of *)
(* a shell                                                                     *)
LEMMA RoundDone ==
  ASSUME LabelsInv, ~misread, stage = "peel", NEW W, NEW c, NEW f, Levels(W, c, f, layers), text = c[layers],
         NEW words, Left(words),
         \/ \E m \in 0 .. layers : m + (round + 1) <= layers /\ words = c[m]
         \/ Base(plain[1]) \in Shells /\ words \in {<<>>, Script}
  PROVE  LabelsInv'
<1>1. /\ layers \in Nat /\ round \in Nat /\ layers' = layers /\ stage' = "peel" /\ plain' = plain
      /\ round' = round + 1 /\ text' = text /\ tokens' = words
  BY DEF Left, LabelsInv
<1>2. Levels(W, c, f, layers)'
  BY <1>1 DEF Levels
<1>3. \/ \E m \in 0 .. layers' : m + round' <= layers' /\ tokens' = c[m]
      \/ Spent'
  BY <1>1 DEF Spent
<1> QED
  BY <1>1, <1>2, <1>3 DEF LabelsInv, ReadWrappersAreTransparent

(* A wrapper that does not quote, around a command                             *)
LEMMA PrefixLevel ==
  ASSUME NEW W, NEW c, NEW f, NEW n \in Nat, Levels(W, c, f, n), NEW m \in 1 .. n,
         NEW layer \in ReadLayer \ {"shell", "assignment"}, c[m] = Wrapped(layer, c[m - 1])
  PROVE  /\ SkipLead(Tail(c[m]), layer \in {"timeout", "kill"}) = c[f[m - 1]]
         /\ f[m - 1] \in 0 .. m - 1
         /\ Base(c[m][1]) = "timeout" <=> layer \in {"timeout", "kill"}
         /\ Base(c[m][1]) \in Openers <=> layer \notin {"timeout", "kill"}
         /\ Base(c[m][1]) \notin Shells /\ ~IsAssignment(c[m][1])
<1> DEFINE l == f[m - 1]
           k == (m - 1) - l
<1>1. m - 1 \in 0 .. n /\ m - 1 \in Nat
  OBVIOUS
<1>2. l \in Nat /\ l <= m - 1 /\ Bold(c[l]) /\ Assigned(c[m - 1], k, c[l])
      /\ c[m - 1] \in Seq(W) /\ Atoms \subseteq W
  BY <1>1 DEF Levels
<1>3. k \in Nat /\ l \in 0 .. m - 1 /\ l \in 0 .. n
  BY <1>1, <1>2
<1>4. c[l] \in Seq(W)
  BY <1>3 DEF Levels
<1> HIDE DEF l, k
<1>5. /\ SkipLead(Tail(Wrapped(layer, c[m - 1])), layer \in {"timeout", "kill"}) = c[l]
      /\ Wrapped(layer, c[m - 1])[1] = Atom(InFront(layer)[1])
  BY <1>2, <1>3, <1>4, PrefixPeeled
<1>6. c[m][1] = Atom(InFront(layer)[1])
  BY <1>5
<1>7. /\ Base(Atom(InFront(layer)[1])) = "timeout" <=> layer \in {"timeout", "kill"}
      /\ Base(Atom(InFront(layer)[1])) \in Openers <=> layer \notin {"timeout", "kill"}
      /\ Base(Atom(InFront(layer)[1])) \notin Shells /\ ~IsAssignment(Atom(InFront(layer)[1]))
  BY LeadWords
<1> QED
  BY <1>3, <1>5, <1>6, <1>7 DEF l

(* What PeelAssignments leaves                                                 *)
WithoutLead(words) == SkipLead(words, FALSE)

(* An assignment in front of a command                                         *)
LEMMA AssignmentLevel ==
  ASSUME NEW W, NEW c, NEW f, NEW n \in Nat, Levels(W, c, f, n), NEW m \in 1 .. n,
         c[m] = Wrapped("assignment", c[m - 1])
  PROVE  /\ IsAssignment(c[m][1])
         /\ f[m] \in 0 .. m - 1
         /\ WithoutLead(c[m]) = c[f[m]]
<1>1. m \in 0 .. n /\ m - 1 \in 0 .. n
  OBVIOUS
<1>2. /\ f[m] \in Nat /\ f[m] <= m /\ Bold(c[f[m]]) /\ Assigned(c[m], m - f[m], c[f[m]])
      /\ c[m - 1] \in Seq(W) /\ c[m] \in Seq(W) /\ Atoms \subseteq W
  BY <1>1 DEF Levels
<1>3. OnTop(c[m], <<"FOO=bar">>, c[m - 1])
  <2>1. "assignment" \in ReadLayer \ {"shell"} /\ InFront("assignment") = <<"FOO=bar">>
    BY DEF ReadLayer, InFront
  <2> QED
    BY <1>2, <2>1, WrappedOnTop
<1>4. c[m][1] = Atom("FOO=bar")
  BY <1>3 DEF OnTop
<1>5. c[m][1].atom = "FOO=bar"
  BY <1>4 DEF Atom
<1>6. f[m] # m
  BY <1>2, <1>5 DEF Bold, IsAssignment
<1>7. f[m] \in 0 .. m - 1 /\ f[m] \in 0 .. n /\ m - f[m] \in Nat
  BY <1>2, <1>6
<1>8. c[f[m]] \in Seq(W)
  BY <1>7 DEF Levels
<1>9. WithoutLead(c[m]) = c[f[m]]
  BY <1>2, <1>7, <1>8, AssignmentsPeeled DEF WithoutLead
<1> QED
  BY <1>5, <1>7, <1>9 DEF IsAssignment

(* A command quoted for a shell                                                *)
LEMMA ShellLevel ==
  ASSUME NEW W, NEW c, NEW f, NEW n \in Nat, Levels(W, c, f, n), NEW m \in 1 .. n,
         c[m] = Wrapped("shell", c[m - 1])
  PROVE  /\ Unquoted(From(c[m], 3)) = c[m - 1] /\ Len(c[m]) = 3 /\ DOMAIN c[m] = 1 .. 3
         /\ \A i \in 1 .. 3 : IsShellC(c[m][i]) <=> i = 2
         /\ c[m][1].atom = "/bin/bash"
<1> DEFINE y == c[m - 1]
           q == Quoted(y)
<1>1. m - 1 \in 0 .. n
  OBVIOUS
<1>2. Proper(W) /\ y \in Seq(W) /\ Len(y) > 0
  BY <1>1 DEF Levels
<1>3. c[m] = <<Atom("/bin/bash"), Atom("-lc"), q>> /\ c[m] \in Seq(W \cup {q})
  <2>1. Atoms \subseteq W \cup {q} /\ q \in W \cup {q}
    BY DEF Levels
  <2> QED
    BY <2>1, WrappedInShell
<1>4. y # <<>> /\ Split(y) = y
  BY <1>2, SplitIsWhole, EmptySeq
<1>6. q.inner = y /\ q.atom = ""
  BY DEF Quoted
<1> HIDE DEF y, q
<1>10. c[m][1] = Atom("/bin/bash") /\ c[m][2] = Atom("-lc") /\ c[m][3] = q /\ Len(c[m]) = 3
  <2>1. \A x, a, b, d : x = <<a, b, d>> => x[1] = a /\ x[2] = b /\ x[3] = d /\ Len(x) = 3
    OBVIOUS
  <2> DEFINE x == c[m]
  <2>2. x = <<Atom("/bin/bash"), Atom("-lc"), q>>
    BY <1>3
  <2> HIDE DEF x
  <2>3. x[1] = Atom("/bin/bash") /\ x[2] = Atom("-lc") /\ x[3] = q /\ Len(x) = 3
    BY <2>1, <2>2
  <2> QED
    BY <2>3 DEF x
<1>5. From(c[m], 3) = <<q>>
  <2>1. /\ SubSeq(c[m], 3, 3) \in Seq({q}) /\ Len(SubSeq(c[m], 3, 3)) = 1
        /\ SubSeq(c[m], 3, 3)[1] = q
    <3>1. \A i \in 3 .. 3 : c[m][i] \in {q}
      BY <1>10
    <3>2. /\ SubSeq(c[m], 3, 3) \in Seq({q})
          /\ Len(SubSeq(c[m], 3, 3)) = IF 3 <= 3 THEN 3 - 3 + 1 ELSE 0
          /\ \A i \in 1 .. 3 - 3 + 1 : SubSeq(c[m], 3, 3)[i] = c[m][3 + i - 1]
      BY <3>1, SubSeqProperties
    <3> QED
      BY <3>2, <1>10
  <2>2. <<q>> \in Seq({q}) /\ Len(<<q>>) = 1 /\ <<q>>[1] = q
    OBVIOUS
  <2>3. SubSeq(c[m], 3, 3) = <<q>>
    <3> DEFINE x == SubSeq(c[m], 3, 3)
    <3>1. x \in Seq({q}) /\ Len(x) = 1 /\ x[1] = q
      BY <2>1
    <3> HIDE DEF x
    <3>2. x = <<q>>
      BY <2>2, <3>1, SeqEqual
    <3> QED
      BY <3>2 DEF x
  <2> QED
    BY <2>3, <1>10 DEF From
<1>7. Unquoted(<<q>>) = FlattenSeq(<<y>>)
  <2>1. [i \in DOMAIN <<q>> |-> IF <<q>>[i].inner = <<>> THEN <<<<q>>[i]>> ELSE Split(<<q>>[i].inner)]
           = <<y>>
    <3>1. DOMAIN <<q>> = 1 .. 1 /\ <<q>>[1] = q /\ DOMAIN <<y>> = 1 .. 1 /\ <<y>>[1] = y
      OBVIOUS
    <3>2. <<y>> = [i \in 1 .. 1 |-> y]
      OBVIOUS
    <3>3. \A i \in 1 .. 1 : (IF <<q>>[i].inner = <<>> THEN <<<<q>>[i]>> ELSE Split(<<q>>[i].inner)) = y
      <4> TAKE i \in 1 .. 1
      <4>1. <<q>>[i] = q
        BY <3>1
      <4> QED
        BY <4>1, <1>4, <1>6
    <3> QED
      BY <3>1, <3>2, <3>3
  <2> QED
    BY <2>1 DEF Unquoted
<1>8. FlattenSeq(<<y>>) = y
  <2> DEFINE flatten == CHOOSE g : g = [i \in 1 .. 1 |-> IF i = 1 THEN <<y>>[i] ELSE g[i - 1] \o <<y>>[i]]
  <2>1. \E g : g = [i \in 1 .. 1 |-> IF i = 1 THEN <<y>>[i] ELSE g[i - 1] \o <<y>>[i]]
    <3>1. [i \in 1 .. 1 |-> y] = [i \in 1 .. 1 |-> IF i = 1 THEN <<y>>[i]
              ELSE [j \in 1 .. 1 |-> y][i - 1] \o <<y>>[i]]
      OBVIOUS
    <3> QED
      BY <3>1
  <2>2. flatten = [i \in 1 .. 1 |-> IF i = 1 THEN <<y>>[i] ELSE flatten[i - 1] \o <<y>>[i]]
    <3> DEFINE P(g) == g = [i \in 1 .. 1 |-> IF i = 1 THEN <<y>>[i] ELSE g[i - 1] \o <<y>>[i]]
    <3>1. \E g : P(g)
      BY <2>1
    <3> HIDE DEF P
    <3>2. P(CHOOSE g : P(g))
      BY <3>1
    <3> QED
      BY <3>2 DEF P
  <2>3. flatten[1] = y
    <3> HIDE DEF flatten
    <3> QED
      BY <2>2
  <2>4. FlattenSeq(<<y>>) = flatten[1]
    BY DEF FlattenSeq
  <2> QED
    BY <2>3, <2>4
<1>9. /\ \A i \in 1 .. 3 : IsShellC(c[m][i]) <=> i = 2
      /\ Len(c[m]) = 3 /\ DOMAIN c[m] = 1 .. 3 /\ c[m][1].atom = "/bin/bash"
  <2>1. Atom("/bin/bash").atom = "/bin/bash" /\ Atom("-lc").atom = "-lc"
    BY DEF Atom
  <2>2. DOMAIN c[m] = 1 .. 3
    BY <1>3, <1>10, LenProperties
  <2>3. IsShellC(c[m][2]) /\ ~IsShellC(c[m][1]) /\ ~IsShellC(c[m][3])
    BY <1>6, <1>10, <2>1 DEF IsShellC
  <2>4. \A i \in 1 .. 3 : i = 1 \/ i = 2 \/ i = 3
    OBVIOUS
  <2> QED
    BY <1>10, <2>1, <2>2, <2>3, <2>4
<1> QED
  BY <1>5, <1>7, <1>8, <1>9 DEF y

(* Shells the agent starts itself: what is left of them when they are peeled   *)
LEMMA PlainScript ==
  LET b == Words(<<"bash", "-x", "/tmp/s", "test">>) IN
  /\ b # <<>> /\ \A i \in DOMAIN b : ~IsShellC(b[i])
  /\ Dropping(Tail(b), Flags) = Script
<1> DEFINE b == Words(<<"bash", "-x", "/tmp/s", "test">>)
           t == Tail(b)
           kept == {i \in DOMAIN t : t[i].atom \notin Flags}
           before(i) == {j \in kept : j < i}
<1>1. b = <<Atom("bash"), Atom("-x"), Atom("/tmp/s"), Atom("test")>>
  <2> HIDE DEF Atom
  <2> QED
    BY DEF Words
<1>2. \A i \in DOMAIN b : ~IsShellC(b[i])
  BY <1>1 DEF Atom, IsShellC
<1>3. t = <<Atom("-x"), Atom("/tmp/s"), Atom("test")>>
  <2> HIDE DEF b
  <2>1. \A x, p, q, r, s : x = <<p, q, r, s>> => Tail(x) = <<q, r, s>>
    OBVIOUS
  <2> QED
    BY <1>1, <2>1
<1> HIDE DEF b, t
<1>4. DOMAIN t = 1 .. 3 /\ t[1].atom = "-x" /\ t[2] = Atom("/tmp/s") /\ t[3] = Atom("test")
      /\ t[2].atom = "/tmp/s" /\ t[3].atom = "test"
  BY <1>3 DEF Atom
<1>5. kept = {2, 3}
  BY <1>4 DEF Flags, ValueFlags
<1> HIDE DEF kept
<1>6. Cardinality(kept) = 2 /\ before(2) = {} /\ before(3) = {2}
  <2>1. kept = 2 .. 3
    BY <1>5
  <2>2. Cardinality(2 .. 3) = 2
    <3>1. \A p \in Int, q \in Int : Cardinality(p .. q) = IF p > q THEN 0 ELSE q - p + 1
      BY FS_Interval
    <3> DEFINE p == 2
               q == 3
    <3>2. p \in Int /\ q \in Int /\ ~(p > q) /\ q - p + 1 = 2
      OBVIOUS
    <3> HIDE DEF p, q
    <3>3. Cardinality(p .. q) = 2
      BY <3>1, <3>2
    <3> QED
      BY <3>3 DEF p, q
  <2>3. before(2) = {} /\ before(3) = {2}
    BY <1>5
  <2> QED
    BY <2>1, <2>2, <2>3
<1>7. Cardinality(before(2)) = 0 /\ Cardinality(before(3)) = 1
  BY <1>6, FS_EmptySet, FS_Singleton
<1> HIDE DEF before
<1>8. \A k \in 1 .. 2 : (CHOOSE i \in kept : Cardinality(before(i)) = k - 1) = k + 1
  <2> TAKE k \in 1 .. 2
  <2>1. k + 1 \in kept /\ Cardinality(before(k + 1)) = k - 1
    BY <1>5, <1>7
  <2>2. ASSUME NEW i \in kept, Cardinality(before(i)) = k - 1 PROVE i = k + 1
    BY <1>5, <1>7, <2>2
  <2> QED
    BY <2>1, <2>2
<1>9. Dropping(t, Flags) =
        [k \in 1 .. Cardinality(kept) |-> t[CHOOSE i \in kept : Cardinality(before(i)) = k - 1]]
  BY DEF Dropping, kept, before
<1>10. Dropping(t, Flags) = [k \in 1 .. 2 |-> t[k + 1]]
  BY <1>6, <1>8, <1>9
<1>11. [k \in 1 .. 2 |-> t[k + 1]] = <<t[2], t[3]>>
  OBVIOUS
<1>12. Dropping(t, Flags) = Script
  BY <1>4, <1>10, <1>11 DEF Script
<1>13. b # <<>>
  BY <1>1
<1> QED
  BY <1>2, <1>12, <1>13 DEF b, t

(* A shell without a command                                                   *)
LEMMA PlainShell ==
  LET s == Words(<<"sh", "-c">>) IN
  /\ \A i \in DOMAIN s : IsShellC(s[i]) <=> i = 2
  /\ Unquoted(From(s, 3)) = <<>> /\ 2 \in DOMAIN s
<1> DEFINE s == Words(<<"sh", "-c">>)
<1>1. s = <<Atom("sh"), Atom("-c")>>
  <2> HIDE DEF Atom
  <2> QED
    BY DEF Words
<1>2. Len(s) = 2 /\ \A i \in DOMAIN s : IsShellC(s[i]) <=> i = 2
  BY <1>1 DEF Atom, IsShellC
<1>3. 2 \in DOMAIN s
  BY <1>1
<1> HIDE DEF s
<1>4. From(s, 3) = <<>>
  BY <1>2, SubSeqEmpty DEF From
<1>5. [i \in DOMAIN <<>> |-> IF <<>>[i].inner = <<>> THEN <<<<>>[i]>> ELSE Split(<<>>[i].inner)] = <<>>
  OBVIOUS
<1>6. Unquoted(<<>>) = FlattenSeq(<<>>)
  BY <1>5 DEF Unquoted
<1>7. FlattenSeq(<<>>) = <<>>
  BY EmptySeq DEF FlattenSeq
<1> QED
  BY <1>2, <1>3, <1>4, <1>6, <1>7 DEF s

(* A round of peeling begins with a command the agent wrote.                   *)
LEMMA RoundBegins ==
  ASSUME LabelsInv, ~misread, Peels, Peelable
  PROVE  \E W, c, f : /\ Levels(W, c, f, layers) /\ text = c[layers]
                      /\ \E m \in 0 .. layers : m + round <= layers /\ tokens = c[m]
<1>1. stage = "peel" /\ tokens # <<>>
  BY DEF Peels
<1>2. ASSUME Spent PROVE FALSE
  <2>1. tokens = Script
    BY <1>1, <1>2 DEF Spent
  <2>2. tokens[1].atom = "/tmp/s"
    BY <2>1 DEF Script, Atom
  <2> QED
    BY <2>2 DEF Peelable, First, Base, Shells, Openers, IsAssignment
<1> QED
  BY <1>1, <1>2 DEF LabelsInv

(* What stands in front of a command the agent wrote: nothing, or one wrapper. *)
LEMMA InFrontOf ==
  ASSUME LabelsInv, NEW W, NEW c, NEW f, Levels(W, c, f, layers), NEW m \in 0 .. layers
  PROVE  \/ m = 0 /\ c[m] = plain /\ plain \in Plain
         \/ m \in 1 .. layers /\ c[m] = Wrapped("shell", c[m - 1])
         \/ m \in 1 .. layers /\ c[m] = Wrapped("assignment", c[m - 1])
         \/ /\ m \in 1 .. layers
            /\ \E layer \in ReadLayer \ {"shell", "assignment"} : c[m] = Wrapped(layer, c[m - 1])
<1>1. layers \in Nat
  BY DEF LabelsInv
<1>2. CASE m = 0
  BY <1>2 DEF Levels
<1>3. CASE m # 0
  <2>1. m \in 1 .. layers
    BY <1>1, <1>3
  <2>2. PICK layer \in ReadLayer : c[m] = Wrapped(layer, c[m - 1])
    BY <2>1 DEF Levels
  <2> QED
    BY <2>1, <2>2
<1> QED
  BY <1>2, <1>3

(* A shell with a command is peeled.                                           *)
LEMMA ShellLabels ==
  ASSUME LabelsInv, ~misread, PeelShell
  PROVE  LabelsInv'
<1>1. Peels /\ Peelable /\ stage = "peel" /\ First \in Shells
  BY DEF PeelShell, Peels, Peelable
<1>2. PICK W, c, f : /\ Levels(W, c, f, layers) /\ text = c[layers]
                     /\ \E m \in 0 .. layers : m + round <= layers /\ tokens = c[m]
  BY <1>1, RoundBegins
<1>3. PICK m \in 0 .. layers : m + round <= layers /\ tokens = c[m]
  BY <1>2
<1>4. PICK i \in CFlags : (\A j \in CFlags : i <= j) /\ Left(Unquoted(From(tokens, i + 1)))
  BY DEF PeelShell
<1>5. layers \in Nat /\ round \in Nat
  BY DEF LabelsInv
<1>6. CASE m = 0 /\ tokens = plain /\ plain \in Plain
  <2>1. Base(plain[1]) \in Shells
    BY <1>1, <1>6 DEF First
  <2>2. \A k \in DOMAIN plain : IsShellC(plain[k]) => k = 2
    BY <1>6, <2>1, PlainFacts, PlainScript, PlainShell
  <2>3. i = 2 /\ plain = Words(<<"sh", "-c">>)
    <3>1. i \in DOMAIN plain /\ IsShellC(plain[i])
      BY <1>4, <1>6 DEF CFlags
    <3> QED
      BY <1>6, <2>1, <2>2, <3>1, PlainFacts, PlainScript
  <2>4. Unquoted(From(tokens, i + 1)) = <<>>
    BY <1>6, <2>3, PlainShell
  <2> QED
    BY <1>1, <1>2, <1>4, <2>1, <2>4, RoundDone
<1>7. CASE m \in 1 .. layers /\ c[m] = Wrapped("shell", c[m - 1])
  <2>1. /\ Unquoted(From(tokens, 3)) = c[m - 1] /\ DOMAIN tokens = 1 .. 3
        /\ \A k \in 1 .. 3 : IsShellC(tokens[k]) <=> k = 2
    BY <1>2, <1>3, <1>5, <1>7, ShellLevel
  <2>2. i = 2
    BY <1>4, <2>1 DEF CFlags
  <2>3. Left(c[m - 1]) /\ m - 1 \in 0 .. layers /\ (m - 1) + (round + 1) <= layers
    BY <1>3, <1>4, <1>5, <1>7, <2>1, <2>2
  <2> QED
    BY <1>1, <1>2, <2>3, RoundDone
<1>8. CASE m \in 1 .. layers /\ c[m] = Wrapped("assignment", c[m - 1])
  <2>1. IsAssignment(tokens[1])
    BY <1>2, <1>3, <1>5, <1>8, AssignmentLevel
  <2> QED
    BY <1>1, <2>1 DEF First, Base, Shells, IsAssignment
<1>9. CASE m \in 1 .. layers /\ \E layer \in ReadLayer \ {"shell", "assignment"} : c[m] = Wrapped(layer, c[m - 1])
  <2>1. PICK layer \in ReadLayer \ {"shell", "assignment"} : c[m] = Wrapped(layer, c[m - 1])
    BY <1>9
  <2>2. Base(tokens[1]) \notin Shells
    BY <1>2, <1>3, <1>5, <1>9, <2>1, PrefixLevel
  <2> QED
    BY <1>1, <2>2 DEF First
<1> QED
  BY <1>2, <1>3, <1>6, <1>7, <1>8, <1>9, InFrontOf

(* A shell with a script is peeled.                                            *)
LEMMA ScriptLabels ==
  ASSUME LabelsInv, ~misread, PeelScript
  PROVE  LabelsInv'
<1>1. /\ Peels /\ Peelable /\ stage = "peel" /\ First \in Shells /\ CFlags = {}
      /\ Left(Dropping(Tail(tokens), Flags))
  BY DEF PeelScript, Peels, Peelable
<1>2. PICK W, c, f : /\ Levels(W, c, f, layers) /\ text = c[layers]
                     /\ \E m \in 0 .. layers : m + round <= layers /\ tokens = c[m]
  BY <1>1, RoundBegins
<1>3. PICK m \in 0 .. layers : m + round <= layers /\ tokens = c[m]
  BY <1>2
<1>5. layers \in Nat /\ round \in Nat
  BY DEF LabelsInv
<1>6. CASE m = 0 /\ tokens = plain /\ plain \in Plain
  <2>1. Base(plain[1]) \in Shells
    BY <1>1, <1>6 DEF First
  <2>2. plain = Words(<<"bash", "-x", "/tmp/s", "test">>)
    <3>1. \A k \in DOMAIN plain : ~IsShellC(plain[k])
      BY <1>1, <1>6 DEF CFlags
    <3> QED
      BY <1>6, <2>1, <3>1, PlainFacts, PlainShell
  <2>3. Dropping(Tail(tokens), Flags) = Script
    BY <1>6, <2>2, PlainScript
  <2> QED
    BY <1>1, <1>2, <2>1, <2>3, RoundDone
<1>7. CASE m \in 1 .. layers /\ c[m] = Wrapped("shell", c[m - 1])
  <2>1. DOMAIN tokens = 1 .. 3 /\ \A k \in 1 .. 3 : IsShellC(tokens[k]) <=> k = 2
    BY <1>2, <1>3, <1>5, <1>7, ShellLevel
  <2>2. 2 \in CFlags
    BY <2>1 DEF CFlags
  <2> QED
    BY <1>1, <2>2
<1>8. CASE m \in 1 .. layers /\ c[m] = Wrapped("assignment", c[m - 1])
  <2>1. IsAssignment(tokens[1])
    BY <1>2, <1>3, <1>5, <1>8, AssignmentLevel
  <2> QED
    BY <1>1, <2>1 DEF First, Base, Shells, IsAssignment
<1>9. CASE m \in 1 .. layers /\ \E layer \in ReadLayer \ {"shell", "assignment"} : c[m] = Wrapped(layer, c[m - 1])
  <2>1. PICK layer \in ReadLayer \ {"shell", "assignment"} : c[m] = Wrapped(layer, c[m - 1])
    BY <1>9
  <2>2. Base(tokens[1]) \notin Shells
    BY <1>2, <1>3, <1>5, <1>9, <2>1, PrefixLevel
  <2> QED
    BY <1>1, <2>2 DEF First
<1> QED
  BY <1>2, <1>3, <1>6, <1>7, <1>8, <1>9, InFrontOf

(* A wrapper that does not quote is peeled, timeout with the numbers after it.  *)
LEMMA PrefixLabels ==
  ASSUME LabelsInv, ~misread, PeelPrefix \/ PeelTimeout
  PROVE  LabelsInv'
<1> DEFINE numbers == First = "timeout"
<1>1. /\ Peels /\ Peelable /\ stage = "peel" /\ First \in Openers \cup {"timeout"}
      /\ Left(SkipLead(Tail(tokens), numbers))
  BY DEF PeelPrefix, PeelTimeout, Peels, Peelable, Openers
<1>2. PICK W, c, f : /\ Levels(W, c, f, layers) /\ text = c[layers]
                     /\ \E m \in 0 .. layers : m + round <= layers /\ tokens = c[m]
  BY <1>1, RoundBegins
<1>3. PICK m \in 0 .. layers : m + round <= layers /\ tokens = c[m]
  BY <1>2
<1>5. layers \in Nat /\ round \in Nat
  BY DEF LabelsInv
<1>6. CASE m = 0 /\ tokens = plain /\ plain \in Plain
  BY <1>1, <1>6, PlainFacts DEF First
<1>7. CASE m \in 1 .. layers /\ c[m] = Wrapped("shell", c[m - 1])
  <2>1. tokens[1].atom = "/bin/bash"
    BY <1>2, <1>3, <1>5, <1>7, ShellLevel
  <2> QED
    BY <1>1, <2>1 DEF First, Base, Openers, IsAssignment
<1>8. CASE m \in 1 .. layers /\ c[m] = Wrapped("assignment", c[m - 1])
  <2>1. IsAssignment(tokens[1])
    BY <1>2, <1>3, <1>5, <1>8, AssignmentLevel
  <2> QED
    BY <1>1, <2>1 DEF First, Base, Openers, IsAssignment
<1>9. CASE m \in 1 .. layers /\ \E layer \in ReadLayer \ {"shell", "assignment"} : c[m] = Wrapped(layer, c[m - 1])
  <2>1. PICK layer \in ReadLayer \ {"shell", "assignment"} : c[m] = Wrapped(layer, c[m - 1])
    BY <1>9
  <2>2. /\ SkipLead(Tail(tokens), layer \in {"timeout", "kill"}) = c[f[m - 1]]
        /\ f[m - 1] \in 0 .. m - 1
        /\ Base(tokens[1]) = "timeout" <=> layer \in {"timeout", "kill"}
    BY <1>2, <1>3, <1>5, <1>9, <2>1, PrefixLevel
  <2>3. SkipLead(Tail(tokens), numbers) = c[f[m - 1]]
    <3>1. numbers = (layer \in {"timeout", "kill"})
      BY <2>2 DEF First
    <3> QED
      BY <2>2, <3>1
  <2>4. f[m - 1] \in 0 .. layers /\ f[m - 1] + (round + 1) <= layers
    BY <1>3, <1>5, <1>9, <2>2
  <2> QED
    BY <1>1, <1>2, <2>3, <2>4, RoundDone
<1> QED
  BY <1>2, <1>3, <1>6, <1>7, <1>8, <1>9, InFrontOf

(* Assignments are peeled.                                                     *)
LEMMA AssignmentLabels ==
  ASSUME LabelsInv, ~misread, PeelAssignments
  PROVE  LabelsInv'
<1>1. /\ Peels /\ Peelable /\ stage = "peel" /\ IsAssignment(tokens[1])
      /\ Left(WithoutLead(tokens))
  BY DEF PeelAssignments, Peels, Peelable, WithoutLead
<1>2. PICK W, c, f : /\ Levels(W, c, f, layers) /\ text = c[layers]
                     /\ \E m \in 0 .. layers : m + round <= layers /\ tokens = c[m]
  BY <1>1, RoundBegins
<1>3. PICK m \in 0 .. layers : m + round <= layers /\ tokens = c[m]
  BY <1>2
<1>5. layers \in Nat /\ round \in Nat
  BY DEF LabelsInv
<1>6. CASE m = 0 /\ tokens = plain /\ plain \in Plain
  BY <1>1, <1>6, PlainFacts DEF Bold
<1>7. CASE m \in 1 .. layers /\ c[m] = Wrapped("shell", c[m - 1])
  <2>1. tokens[1].atom = "/bin/bash"
    BY <1>2, <1>3, <1>5, <1>7, ShellLevel
  <2> QED
    BY <1>1, <2>1 DEF IsAssignment
<1>8. CASE m \in 1 .. layers /\ c[m] = Wrapped("assignment", c[m - 1])
  <2>1. WithoutLead(tokens) = c[f[m]] /\ f[m] \in 0 .. m - 1
    BY <1>2, <1>3, <1>5, <1>8, AssignmentLevel
  <2>2. f[m] \in 0 .. layers /\ f[m] + (round + 1) <= layers
    BY <1>3, <1>5, <1>8, <2>1
  <2> QED
    BY <1>1, <1>2, <2>1, <2>2, RoundDone
<1>9. CASE m \in 1 .. layers /\ \E layer \in ReadLayer \ {"shell", "assignment"} : c[m] = Wrapped(layer, c[m - 1])
  <2>1. PICK layer \in ReadLayer \ {"shell", "assignment"} : c[m] = Wrapped(layer, c[m - 1])
    BY <1>9
  <2>2. ~IsAssignment(tokens[1])
    BY <1>2, <1>3, <1>5, <1>9, <2>1, PrefixLevel
  <2> QED
    BY <1>1, <2>2
<1> QED
  BY <1>2, <1>3, <1>6, <1>7, <1>8, <1>9, InFrontOf

(* What is left is named: a command with a wrapper would be peeled further, as  *)
(* there is a round for every wrapper.                                         *)
LEMMA NameLabels ==
  ASSUME LabelsInv, ~misread, Name
  PROVE  LabelsInv'
<1>1. /\ stage = "peel" /\ ~(Peels /\ Peelable) /\ label' = LabelOf(tokens) /\ stage' = "named"
      /\ plain' = plain /\ layers' = layers /\ text' = text /\ round' = round
  BY DEF Name
<1>2. PICK W, c, f : /\ Levels(W, c, f, layers) /\ text = c[layers]
                     /\ \/ \E m \in 0 .. layers : m + round <= layers /\ tokens = c[m]
                        \/ Spent
  BY <1>1 DEF LabelsInv
<1>3. layers \in Nat /\ round \in Nat
  BY DEF LabelsInv
<1>4. plain \in Plain /\ plain \in Seq(W) /\ Proper(W)
  BY <1>2, <1>3 DEF Levels
<1>5. Split(plain) = plain
  BY <1>4, SplitIsWhole
<1>6. ASSUME layers <= Rounds PROVE label' = LabelOf(Split(plain))
  <2>1. CASE Spent
    <3>1. LabelOf(tokens) = Generic
      <4>1. CASE tokens = <<>>
        BY <4>1 DEF LabelOf
      <4>2. CASE tokens = Script
        <5>1. tokens[1].atom = "/tmp/s"
          BY <4>2 DEF Script, Atom
        <5>2. Base(tokens[1]) \notin KnownPrograms
          BY <5>1 DEF Base, KnownPrograms
        <5> QED
          BY <5>2 DEF LabelOf
      <4> QED
        BY <2>1, <4>1, <4>2 DEF Spent
    <3>2. LabelOf(plain) = Generic
      <4>1. Base(plain[1]) \notin KnownPrograms
        BY <2>1 DEF Spent, Shells, KnownPrograms
      <4> QED
        BY <4>1 DEF LabelOf
    <3> QED
      BY <1>1, <1>5, <3>1, <3>2
  <2>2. ASSUME NEW m \in 0 .. layers, m + round <= layers, tokens = c[m]
        PROVE  label' = LabelOf(Split(plain))
    <3>1. CASE m = 0 /\ c[m] = plain
      BY <1>1, <1>5, <2>2, <3>1
    <3>2. ASSUME m \in 1 .. layers, Peelable PROVE FALSE
      <4>1. round < Rounds
        BY <1>3, <1>6, <2>2, <3>2, LabelsAssumption
      <4>2. tokens # <<>>
        BY <1>2, <2>2, EmptySeq DEF Levels
      <4> QED
        BY <1>1, <3>2, <4>1, <4>2 DEF Peels
    <3>3. CASE m \in 1 .. layers /\ c[m] = Wrapped("shell", c[m - 1])
      <4>1. tokens[1].atom = "/bin/bash"
        BY <1>2, <1>3, <2>2, <3>3, ShellLevel
      <4>2. Peelable
        BY <4>1 DEF Peelable, First, Base, Shells
      <4> QED
        BY <3>2, <3>3, <4>2
    <3>4. CASE m \in 1 .. layers /\ c[m] = Wrapped("assignment", c[m - 1])
      <4>1. IsAssignment(tokens[1])
        BY <1>2, <1>3, <2>2, <3>4, AssignmentLevel
      <4>2. Peelable
        BY <4>1 DEF Peelable
      <4> QED
        BY <3>2, <3>4, <4>2
    <3>5. ASSUME m \in 1 .. layers, NEW layer \in ReadLayer \ {"shell", "assignment"},
                 c[m] = Wrapped(layer, c[m - 1])
          PROVE  FALSE
      <4>1. Base(tokens[1]) = "timeout" \/ Base(tokens[1]) \in Openers
        BY <1>2, <1>3, <2>2, <3>5, PrefixLevel
      <4>2. Peelable
        BY <4>1 DEF Peelable, First
      <4> QED
        BY <3>2, <3>5, <4>2
    <3> QED
      BY <1>2, <2>2, <3>1, <3>3, <3>4, <3>5, InFrontOf
  <2> QED
    BY <1>2, <2>1, <2>2
<1>7. Levels(W, c, f, layers)'
  BY <1>1, <1>2 DEF Levels
<1>8. (stage = "named" /\ layers <= Rounds => label = LabelOf(Split(plain)))'
  BY <1>1, <1>6
<1> QED
  BY <1>1, <1>2, <1>3, <1>7, <1>8 DEF LabelsInv, ReadWrappersAreTransparent

(* Of a command with a misread wrapper nothing more is said.                   *)
LEMMA MisreadLabels ==
  ASSUME LabelsInv, LabelsNext, misread'
  PROVE  LabelsInv'
<1>1. /\ stage \in {"write", "peel", "named"} /\ layers \in Nat /\ round \in Nat
      /\ stage = "write" => round = 0
  BY DEF LabelsInv
<1>2. \/ stage' = stage /\ round' = round /\ layers' = layers + 1
      \/ stage' \in {"peel", "named"} /\ round' = round /\ layers' = layers
      \/ stage' = "peel" /\ round' = round + 1 /\ layers' = layers
  BY DEF LabelsNext, Wrap, Classify, PeelShell, PeelScript, PeelPrefix, PeelTimeout,
     PeelAssignments, Name, Left, Peels
<1>3. /\ stage' \in {"write", "peel", "named"} /\ layers' \in Nat /\ round' \in Nat
      /\ (stage = "write" => round = 0)'
  BY <1>1, <1>2
<1> QED
  BY <1>3 DEF LabelsInv, ReadWrappersAreTransparent

(* The inductive invariant holds of every reachable state.                     *)
THEOREM LabelsInvariant == LabelsSpec => []LabelsInv
<1>1. LabelsInit => LabelsInv
  BY InitLabels
<1>2. LabelsInv /\ [LabelsNext]_labelVars => LabelsInv'
  <2> SUFFICES ASSUME LabelsInv, [LabelsNext]_labelVars PROVE LabelsInv'
    OBVIOUS
  <2>1. CASE UNCHANGED labelVars
    <3>1. /\ stage' = stage /\ plain' = plain /\ layers' = layers /\ text' = text
          /\ misread' = misread /\ tokens' = tokens /\ round' = round /\ label' = label
      BY <2>1 DEF labelVars
    <3>2. \A W, c, f : Levels(W, c, f, layers)' = Levels(W, c, f, layers)
      BY <3>1 DEF Levels
    <3>3. Spent' = Spent /\ ReadWrappersAreTransparent' = ReadWrappersAreTransparent
      BY <3>1 DEF Spent, ReadWrappersAreTransparent
    <3> QED
      BY <3>1, <3>2, <3>3 DEF LabelsInv
  <2>2. CASE LabelsNext /\ misread'
    BY <2>2, MisreadLabels
  <2>3. CASE LabelsNext /\ ~misread'
    <3>1. /\ ~misread
          /\ \A layer \in ReadLayer \union MisreadLayer : Wrap(layer) => layer \in ReadLayer
      <4>1. \A layer \in ReadLayer \union MisreadLayer :
               Wrap(layer) => ~misread /\ layer \notin MisreadLayer
        BY <2>3, Zenon DEF Wrap
      <4>2. CASE UNCHANGED misread
        <5>1. ~misread
          BY <2>3, <4>2
        <5> QED
          BY <4>1, <5>1
      <4>3. CASE \E layer \in ReadLayer \union MisreadLayer : Wrap(layer)
        BY <4>1, <4>3
      <4> QED
        BY <2>3, <4>2, <4>3 DEF LabelsNext, Classify, PeelShell, PeelScript, PeelPrefix,
           PeelTimeout, PeelAssignments, Name, Left
    <3>2. CASE \E layer \in ReadLayer : Wrap(layer)
      BY <3>1, <3>2, WrapLabels
    <3>3. CASE Classify
      BY <3>1, <3>3, ClassifyLabels
    <3>4. CASE PeelShell
      BY <3>1, <3>4, ShellLabels
    <3>5. CASE PeelScript
      BY <3>1, <3>5, ScriptLabels
    <3>6. CASE PeelPrefix \/ PeelTimeout
      BY <3>1, <3>6, PrefixLabels
    <3>7. CASE PeelAssignments
      BY <3>1, <3>7, AssignmentLabels
    <3>8. CASE Name
      BY <3>1, <3>8, NameLabels
    <3> QED
      BY <2>3, <3>1, <3>2, <3>3, <3>4, <3>5, <3>6, <3>7, <3>8 DEF LabelsNext
  <2> QED
    BY <2>1, <2>2, <2>3
<1> QED
  BY <1>1, <1>2, PTL DEF LabelsSpec

(* As many wrappers as there are rounds of peeling, in any order and nested in  *)
(* quotes, do not change the label of the command they surround, when each is  *)
(* one whose arguments the tables of classify_bash_command read as the wrapper *)
(* does: for any number of rounds and wrappers.                                *)
THEOREM LabelsAreTransparent == LabelsSpec => []ReadWrappersAreTransparent
<1>1. LabelsInv => ReadWrappersAreTransparent
  BY DEF LabelsInv
<1> QED
  BY <1>1, LabelsInvariant, PTL

-----------------------------------------------------------------------------
(* The catalog a worker claims by *)

(* Where the daemon has settled with the backend of its configuration: from its *)
(* first refresh on, except on the way back to the start.                       *)
Settled ==
    \/ step \in {"first refresh", "loop", "config", "refresh", "gate", "claim"}
    \/ step = "report" /\ next # "fetch"

(* Why it holds: the configuration changes its backend only together with a     *)
(* probe of the new one, and a catalog is of the backend that was asked last;   *)
(* between the first configuration and the probe that follows the old catalog   *)
(* stands, and there the daemon is not settled.                                 *)
OfItsBackend == Settled => askedOf = config.backend \/ unasked

(* What a probe leaves behind                                                  *)
LEMMA AskedOne ==
  ASSUME CatalogTypeOK, NEW b \in AgentType, NEW answer \in {offers[b], {}}, Listing(b, answer)
  PROVE  catalog' \in Catalog /\ askedOf' = b /\ troubles' \in 0 .. MaxTroubles
BY CatalogAssumption DEF CatalogTypeOK, Listing, Fails, Catalog

(* and a probe that is followed by a report                                    *)
LEMMA Asked ==
  ASSUME CatalogTypeOK, NEW b \in AgentType, NEW place, Asks(b, place)
  PROVE  /\ catalog' \in Catalog /\ askedOf' = b /\ troubles' \in 0 .. MaxTroubles
         /\ step' = "report" /\ next' = place
BY AskedOne DEF Asks

(* The types are inductive                                                     *)
LEMMA CatalogTypes == CatalogTypeOK /\ [CatalogNext]_catalogVars => CatalogTypeOK'
<1> SUFFICES ASSUME CatalogTypeOK, [CatalogNext]_catalogVars PROVE CatalogTypeOK'
  OBVIOUS
<1> DEFINE Host == /\ row \in Selection /\ reported \in Catalog /\ wanted \in BOOLEAN
                   /\ update \in [due : BOOLEAN, agent : Selection]
                   /\ updates \in 0 .. MaxUpdates
           Daemon == /\ step \in Steps /\ next \in Steps /\ config \in Config
                     /\ catalog \in Catalog /\ askedOf \in AgentType /\ unasked \in BOOLEAN
           World == offers \in [AgentType -> Catalog] /\ shifts \in 0 .. MaxShifts
           Trouble == troubles \in 0 .. MaxTroubles
<1>0. Host /\ Daemon /\ World /\ Trouble
  BY DEF CatalogTypeOK
<1>1. SUFFICES Host' /\ Daemon' /\ World' /\ Trouble'
  BY DEF CatalogTypeOK
<1>2. Fetched \in Config
  BY <1>0 DEF Fetched, Config, Selection
<1>3. config.backend \in AgentType /\ row.backend \in AgentType /\ "pi" \in AgentType
  BY <1>0 DEF Config, Selection, AgentType
<1>4. UNCHANGED hostRow => Host'
  BY <1>0 DEF hostRow
<1>5. UNCHANGED daemonVars => Daemon'
  BY <1>0 DEF daemonVars
<1>6. UNCHANGED offering => World'
  BY <1>0 DEF offering
<1>7. Fails \/ UNCHANGED troubles => Trouble'
  BY <1>0, CatalogAssumption DEF Fails
<1>8. ASSUME NEW b \in AgentType, NEW models \in Catalog, OffersShift(b, models)
      PROVE  Host' /\ Daemon' /\ World' /\ Trouble'
  <2>1. World'
    BY <1>0, <1>8, CatalogAssumption DEF OffersShift
  <2> QED
    BY <1>4, <1>5, <1>7, <1>8, <2>1 DEF OffersShift
<1>9. ASSUME NEW b \in AgentType, NEW m \in Model \cup {NoModel}, NEW clear \in BOOLEAN,
             UpdateReads(b, m, clear)
      PROVE  Host' /\ Daemon' /\ World' /\ Trouble'
  <2>1. [backend |-> b, model |-> Resolved(b, m, clear)] \in Selection
    BY <1>0 DEF Resolved, Selection
  <2>2. Host'
    BY <1>0, <1>9, <2>1, CatalogAssumption DEF UpdateReads
  <2> QED
    BY <1>5, <1>6, <1>7, <1>9, <2>2 DEF UpdateReads
<1>10. CASE UpdateWrites \/ OrderRefresh
  <2>1. CASE UpdateWrites
    <3>1. update.agent \in Selection /\ update' \in [due : BOOLEAN, agent : Selection]
      BY <1>0, <2>1 DEF UpdateWrites
    <3>2. Host'
      BY <1>0, <2>1, <3>1 DEF UpdateWrites
    <3> QED
      BY <1>5, <1>6, <1>7, <2>1, <3>2 DEF UpdateWrites
  <2>2. CASE OrderRefresh
    <3>1. Host'
      BY <1>0, <2>2, CatalogAssumption DEF OrderRefresh
    <3> QED
      BY <1>5, <1>6, <1>7, <2>2, <3>1 DEF OrderRefresh
  <2> QED
    BY <1>10, <2>1, <2>2
<1>11. CASE DaemonStep
  <2>1. CASE StartUp \/ FirstReconcile \/ Reprobe
    <3>1. Daemon' /\ Trouble'
      BY <1>0, <1>3, <2>1, Asked, CatalogTypeOK DEF StartUp, FirstReconcile, Reprobe, Steps
    <3> QED
      BY <1>4, <1>6, <2>1, <3>1 DEF StartUp, FirstReconcile, Reprobe
  <2>2. CASE FirstConfig \/ NotYetDue \/ NoRefresh \/ Gate \/ Claims
    <3>1. Daemon'
      BY <1>0, <1>2, <2>2 DEF FirstConfig, NotYetDue, NoRefresh, Gate, Claims, AfterRefresh,
         GoesTo, Steps
    <3> QED
      BY <1>4, <1>6, <1>7, <2>2, <3>1 DEF FirstConfig, NotYetDue, NoRefresh, Gate, Claims
  <2>3. CASE Report
    <3>1. Daemon' /\ Host'
      BY <1>0, <2>3 DEF Report, GoesTo
    <3> QED
      BY <1>6, <1>7, <2>3, <3>1 DEF Report
  <2>4. CASE FetchConfig
    <3>1. Daemon' /\ Trouble'
      BY <1>0, <1>2, <1>3, <2>4, Asked, CatalogTypeOK DEF FetchConfig, GoesTo, Steps
    <3> QED
      BY <1>4, <1>6, <2>4, <3>1 DEF FetchConfig
  <2>5. CASE Refresh
    <3>1. config' \in Config /\ Host' /\ step' \in Steps /\ next' \in Steps
      BY <1>0, <2>5 DEF Refresh, AfterRefresh, Config, Steps
    <3>2. catalog' \in Catalog /\ askedOf' \in AgentType /\ unasked' \in BOOLEAN /\ Trouble'
      BY <1>0, <1>3, <1>7, <2>5, AskedOne, CatalogTypeOK DEF Refresh
    <3> QED
      BY <1>6, <2>5, <3>1, <3>2 DEF Refresh
  <2> QED
    BY <1>11, <2>1, <2>2, <2>3, <2>4, <2>5 DEF DaemonStep
<1>12. CASE Disturbance
  <2>1. Daemon'
    BY <1>0, <1>12 DEF Disturbance, FirstReconcileFails, DaemonRestarts, ConfigLost, ReconcileFails,
       GoesTo, Steps
  <2> QED
    BY <1>4, <1>6, <1>7, <1>12, <2>1
       DEF Disturbance, FirstReconcileFails, DaemonRestarts, ConfigLost, ReconcileFails
<1>13. CASE UNCHANGED catalogVars
  BY <1>4, <1>5, <1>6, <1>7, <1>13 DEF catalogVars
<1> QED
  BY <1>8, <1>9, <1>10, <1>11, <1>12, <1>13 DEF CatalogNext

(* and so is that the catalog of a settled daemon is of its backend.            *)
LEMMA StaysOfItsBackend ==
  ASSUME CatalogTypeOK, OfItsBackend, [CatalogNext]_catalogVars
  PROVE  OfItsBackend'
<1>1. config.backend \in AgentType /\ row.backend \in AgentType /\ "pi" \in AgentType
  BY DEF CatalogTypeOK, Config, Selection, AgentType
<1>2. ASSUME UNCHANGED daemonVars PROVE OfItsBackend'
  BY <1>2 DEF daemonVars, OfItsBackend, Settled
<1>3. CASE StartUp \/ FirstConfig \/ FirstReconcileFails \/ DaemonRestarts
  BY <1>1, <1>3, Asked
     DEF StartUp, FirstConfig, FirstReconcileFails, DaemonRestarts, GoesTo, OfItsBackend, Settled
<1>4. CASE FirstReconcile \/ Reprobe
  BY <1>1, <1>4, Asked DEF FirstReconcile, Reprobe, OfItsBackend, Settled
<1>5. CASE FetchConfig
  <2>1. CASE Switched(Fetched)
    BY <1>1, <1>5, <2>1, Asked DEF FetchConfig, Fetched, OfItsBackend, Settled
  <2>2. CASE ~Switched(Fetched)
    BY <1>5, <2>2 DEF FetchConfig, Switched, GoesTo, OfItsBackend, Settled
  <2> QED
    BY <2>1, <2>2
<1>6. CASE Refresh
  <2>1. Settled /\ config'.backend = config.backend
    BY <1>6 DEF Refresh, Settled, CatalogTypeOK, Config
  <2>2. CASE UNCHANGED <<catalog, askedOf, unasked>>
    BY <2>1, <2>2 DEF OfItsBackend
  <2>3. CASE \E answer \in {offers[config.backend], {}} : Listing(config.backend, answer)
    BY <1>1, <2>1, <2>3, AskedOne DEF OfItsBackend
  <2> QED
    BY <1>6, <2>2, <2>3 DEF Refresh
<1>7. CASE Report \/ NotYetDue \/ NoRefresh \/ Gate \/ Claims \/ ConfigLost \/ ReconcileFails
  BY <1>7 DEF Report, NotYetDue, NoRefresh, Gate, Claims, ConfigLost, ReconcileFails, AfterRefresh,
     GoesTo, OfItsBackend, Settled
<1> QED
  BY <1>2, <1>3, <1>4, <1>5, <1>6, <1>7
     DEF CatalogNext, DaemonStep, Disturbance, OffersShift, UpdateReads, UpdateWrites, OrderRefresh,
         catalogVars

(* Whatever was switched, lost, refreshed or restarted in between, the catalog  *)
(* a claim was let through by is of the backend it will run, except in the      *)
(* first minute after a start-up that could not build the capabilities: for any *)
(* models and any number of switches and faults.                                *)
THEOREM ClaimsUseOwnCatalog == CatalogSpec => []ClaimsWithOwnCatalog
<1>1. CatalogInit => CatalogTypeOK /\ OfItsBackend
  <2> SUFFICES ASSUME CatalogInit PROVE CatalogTypeOK /\ OfItsBackend
    OBVIOUS
  <2>1. Unselected \in Selection /\ [backend |-> "pi", model |-> NoModel, refresh |-> FALSE] \in Config
    BY DEF Unselected, Selection, Config, AgentType
  <2>2. offers["pi"] \in Catalog /\ {} \in Catalog
    BY DEF CatalogInit, AgentType, Catalog
  <2>3. offers \in [AgentType -> Catalog] /\ row \in Selection /\ reported \in Catalog
    BY <2>1, <2>2 DEF CatalogInit
  <2>4. update \in [due : BOOLEAN, agent : Selection] /\ wanted \in BOOLEAN
    BY <2>1 DEF CatalogInit
  <2>5. /\ step \in Steps /\ next \in Steps /\ config \in Config
        /\ catalog \in Catalog /\ askedOf \in AgentType /\ unasked \in BOOLEAN
    BY <2>1, <2>2 DEF CatalogInit, Steps, AgentType
  <2>6. updates \in 0 .. MaxUpdates /\ shifts \in 0 .. MaxShifts /\ troubles \in 0 .. MaxTroubles
    BY CatalogAssumption DEF CatalogInit
  <2>7. OfItsBackend
    BY DEF CatalogInit, OfItsBackend, Settled
  <2> QED
    BY <2>3, <2>4, <2>5, <2>6, <2>7 DEF CatalogTypeOK
<1>2. CatalogTypeOK /\ [CatalogNext]_catalogVars => CatalogTypeOK'
  BY CatalogTypes
<1>3. CatalogTypeOK /\ OfItsBackend /\ [CatalogNext]_catalogVars => OfItsBackend'
  BY StaysOfItsBackend
<1>4. OfItsBackend => ClaimsWithOwnCatalog
  BY DEF OfItsBackend, Settled, ClaimsWithOwnCatalog
<1> QED
  BY <1>1, <1>2, <1>3, <1>4, PTL DEF CatalogSpec
=============================================================================
