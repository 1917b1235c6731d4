------------------------------ MODULE ReviewSlot ------------------------------
(* The slot of one review lease (review_mcp.rs): the submit_review calls of    *)
(* the agent, which the MCP server handles in parallel, the renewal task that  *)
(* cancels the slot when its lease is refused, and the job that waits for a    *)
(* verdict next to the agent's run.                                            *)
(*                                                                             *)
(* The fields of SlotState are separate atomics and mutexes: every load, store *)
(* and locked section is a step of its own. The verdict's mutex is held from   *)
(* the second check of a submission to the store of `terminal`.                *)
EXTENDS Naturals, FiniteSets

CONSTANTS
    Call,        \* the submit_review calls the agent may make, one step each
    Valid,       \* those with arguments that validate
    MaxInvalid   \* MAX_INVALID_SUBMITS

None == "none"

ASSUME SlotAssumption ==
    None \notin Call /\ Valid \subseteq Call /\ MaxInvalid \in Nat \ {0}

VARIABLES
    call,       \* call[c]: where call c is, or how it was answered
    canceller,  \* where the renewal task is in cancel
    waiter,     \* where the job is in wait
    run,        \* the agent's run: under way, or ended and bound
    terminal, verdict, failure, invalid,  \* the fields of SlotState
    holder      \* the call that holds the mutex of verdict

slot == <<terminal, verdict, failure, invalid, holder>>
slotVars == <<call, canceller, waiter, run, slot>>

Answers == {"accepted", "closed", "correct it", "aborted", "expired"}
CallStates ==
    {"idle", "parse", "count", "fail", "shut", "lock", "store", "close", "tell"} \union Answers
ReviewOutcomes == {"verdict", "failed", "no verdict"}

SlotTypeOK ==
    /\ call \in [Call -> CallStates]
    /\ canceller \in {"idle", "fail", "tell", "done"}
    /\ waiter \in {"verdict?", "failure?", "gap", "asleep"} \union ReviewOutcomes
    /\ run \in {"running", "ended"}
    /\ terminal \in BOOLEAN
    /\ verdict \in Call \union {None} /\ holder \in Call \union {None}
    /\ failure \in {None, "budget", "cancelled"}
    /\ invalid \in Nat

SlotInit ==
    /\ call = [c \in Call |-> "idle"]
    /\ canceller = "idle" /\ waiter = "verdict?" /\ run = "running"
    /\ terminal = FALSE /\ verdict = None /\ failure = None /\ invalid = 0 /\ holder = None

Over == waiter \in ReviewOutcomes

Goes(c, state) == call' = [call EXCEPT ![c] = state]

(* changed.notify_waiters() wakes who sleeps and leaves nothing behind *)
Notified == IF waiter = "asleep" THEN "verdict?" ELSE waiter

-----------------------------------------------------------------------------
(* submit and invalid *)

(* The tool call: the slot must still be there, and open *)
Submit(c) ==
    /\ call[c] = "idle"
    /\ Goes(c, IF Over THEN "expired" ELSE IF terminal THEN "closed" ELSE "parse")
    /\ UNCHANGED <<canceller, waiter, run, slot>>

Parse(c) ==
    /\ call[c] = "parse"
    /\ Goes(c, IF c \in Valid THEN "lock" ELSE IF terminal THEN "closed" ELSE "count")
    /\ UNCHANGED <<canceller, waiter, run, slot>>

BudgetOverrun(n) == n > MaxInvalid  \* mutant: off by one
BudgetSpent(n) == n >= MaxInvalid

CountInvalid(c) ==
    /\ call[c] = "count"
    /\ invalid' = invalid + 1
    /\ Goes(c, IF BudgetSpent(invalid + 1) THEN "fail" ELSE "correct it")
    /\ UNCHANGED <<canceller, waiter, run, terminal, verdict, failure, holder>>

FailSlot(c) ==
    /\ call[c] = "fail" /\ Goes(c, "shut")
    /\ failure' = "budget"
    /\ UNCHANGED <<canceller, waiter, run, terminal, verdict, invalid, holder>>

ShutSlot(c) ==
    /\ call[c] = "shut" /\ Goes(c, "tell")
    /\ terminal' = TRUE
    /\ UNCHANGED <<canceller, waiter, run, verdict, failure, invalid, holder>>

TakenByFirstCheck == FALSE  \* mutant: the check made before parsing is not repeated
AlreadyTaken == terminal \/ verdict # None

LockVerdict(c) ==
    /\ call[c] = "lock" /\ holder = None
    /\ IF AlreadyTaken
       THEN Goes(c, "closed") /\ UNCHANGED holder
       ELSE Goes(c, "store") /\ holder' = c
    /\ UNCHANGED <<canceller, waiter, run, terminal, verdict, failure, invalid>>

StoreVerdict(c) ==
    /\ call[c] = "store" /\ Goes(c, "close")
    /\ verdict' = c
    /\ UNCHANGED <<canceller, waiter, run, terminal, failure, invalid, holder>>

CloseSlot(c) ==
    /\ call[c] = "close" /\ Goes(c, "tell")
    /\ terminal' = TRUE /\ holder' = None
    /\ UNCHANGED <<canceller, waiter, run, verdict, failure, invalid>>

Tell(c) ==
    /\ call[c] = "tell"
    /\ waiter' = Notified
    /\ Goes(c, IF c \in Valid THEN "accepted" ELSE "aborted")
    /\ UNCHANGED <<canceller, run, slot>>

-----------------------------------------------------------------------------
(* cancel, on a refused renewal or as the slot is dropped *)

Cancel ==
    /\ canceller = "idle"
    /\ canceller' = IF terminal THEN "done" ELSE "fail"
    /\ terminal' = TRUE
    /\ UNCHANGED <<call, waiter, run, verdict, failure, invalid, holder>>

CancelFails ==
    /\ canceller = "fail" /\ canceller' = "tell"
    /\ failure' = "cancelled"
    /\ UNCHANGED <<call, waiter, run, terminal, verdict, invalid, holder>>

CancelTells ==
    /\ canceller = "tell" /\ canceller' = "done"
    /\ waiter' = Notified
    /\ UNCHANGED <<call, run, slot>>

-----------------------------------------------------------------------------
(* The job: wait() next to the run; once the run ended, two more seconds *)

LookForVerdict ==
    /\ waiter = "verdict?" /\ holder = None
    /\ waiter' = IF verdict # None THEN "verdict" ELSE "failure?"
    /\ UNCHANGED <<call, canceller, run, slot>>

LookForFailure ==
    /\ waiter = "failure?"
    /\ waiter' = IF failure # None THEN "failed" ELSE "gap"
    /\ UNCHANGED <<call, canceller, run, slot>>

FallAsleep ==
    /\ waiter = "gap" /\ waiter' = "asleep"
    /\ UNCHANGED <<call, canceller, run, slot>>

RunEnds ==
    /\ waiter = "asleep" /\ run = "running"
    /\ run' = "ended" /\ waiter' = "verdict?"
    /\ UNCHANGED <<call, canceller, slot>>

NeverTimesOut == FALSE  \* mutant: slot.wait() after the run without the timeout
GraceOver == run = "ended" /\ waiter = "asleep"

GiveUp ==
    /\ GraceOver
    /\ waiter' = "no verdict"
    /\ UNCHANGED <<call, canceller, run, slot>>

-----------------------------------------------------------------------------
CallStep(c) ==
    \/ Submit(c) \/ Parse(c) \/ CountInvalid(c) \/ FailSlot(c) \/ ShutSlot(c)
    \/ LockVerdict(c) \/ StoreVerdict(c) \/ CloseSlot(c) \/ Tell(c)

WaiterStep == LookForVerdict \/ LookForFailure \/ FallAsleep \/ GiveUp

SlotNext ==
    \/ \E c \in Call : CallStep(c)
    \/ Cancel \/ CancelFails \/ CancelTells
    \/ WaiterStep \/ RunEnds

SlotSpec == SlotInit /\ [][SlotNext]_slotVars

(* A call that was received is answered, a started cancellation finishes, and  *)
(* the job is scheduled. The agent need not call, nor its run end              *)
SlotFairness ==
    /\ \A c \in Call : WF_slotVars(call[c] # "idle" /\ CallStep(c))
    /\ WF_slotVars(CancelFails) /\ WF_slotVars(CancelTells)
    /\ WF_slotVars(WaiterStep)

SlotFairSpec == SlotSpec /\ SlotFairness

(* What fairness promises: the job waits for the mutex only, and for its agent's *)
(* run; the call that holds the mutex waits for nothing.                        *)
StoresOrCloses == \E c \in Call : StoreVerdict(c) \/ CloseSlot(c)
MayGoOn ==
    \/ waiter = "verdict?" /\ holder = None
    \/ waiter \in {"failure?", "gap"}
    \/ waiter = "asleep" /\ run = "ended"
WaiterEnabled == MayGoOn => ENABLED <<WaiterStep>>_slotVars
HolderEnabled == holder # None => ENABLED <<StoresOrCloses>>_slotVars

-----------------------------------------------------------------------------
(* However submissions, cancellation and the fifth invalid call overlap, at    *)
(* most one submission is taken, and the verdict the job hands to the host is  *)
(* that one's (submit: the check repeated under the lock)                      *)
Taken(c) == c \in Valid /\ call[c] \in {"close", "tell", "accepted"}

OneVerdict ==
    /\ \A c, d \in Call : Taken(c) /\ Taken(d) => c = d
    /\ \A c \in Call : Taken(c) => verdict = c
    /\ waiter = "verdict" => verdict # None

(* The agent is asked to correct its arguments at most MaxInvalid - 1 times,   *)
(* also when invalid calls overlap                                             *)
BudgetHolds == Cardinality({c \in Call : call[c] = "correct it"}) < MaxInvalid

(* Once the agent's run has ended the review ends, with whatever verdict came  *)
(* (execute_review_assignment: the run next to wait, then the grace)           *)
EndedRunEndsReview == (run = "ended") ~> Over

(* What submit answers: "Review verdict accepted. The reviewer run will now    *)
(* stop." -- whatever the agent goes on to do                                  *)
AcceptedVerdictStopsRun == (\E c \in Call : call[c] = "accepted") ~> Over
=============================================================================
