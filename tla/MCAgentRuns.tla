----------------------------- MODULE MCAgentRuns ----------------------------
(* The three small machines around an agent's process share no state: one run  *)
(* checks them side by side. `part` says which of them a behaviour is about;   *)
(* the others rest in their initial states.                                    *)
EXTENDS PiWatchdog, ReviewSlot, OpenCodeBudget

CONSTANTS t1, t2, t3

VARIABLE part

(* Three parallel calls: two of one tool, and one without an id *)
MCTool == {t1, t2, t3}
MCToolName == [t \in MCTool |-> IF t = t3 THEN "read" ELSE "bash"]

MCInit ==
    /\ part \in {"pi", "slot", "opencode"}
    /\ Init /\ SlotInit /\ RunInit
    /\ part # "pi" => ~review

PiMoves == part = "pi" /\ UNCHANGED <<part, slotVars, runVars>>
SlotMoves == part = "slot" /\ UNCHANGED <<part, vars, runVars>>
OpenCodeMoves == part = "opencode" /\ UNCHANGED <<part, vars, slotVars>>

MCNext ==
    \/ PiMoves /\ Tick
    \/ PiMoves /\ TimesOut
    \/ PiMoves /\ TurnStarts
    \/ PiMoves /\ ModelSpeaks
    \/ PiMoves /\ Compact
    \/ PiMoves /\ Retry
    \/ PiMoves /\ Settle
    \/ \E t \in Tool : PiMoves /\ StartTool(t)
    \/ \E t \in Tool : PiMoves /\ UpdateTool(t)
    \/ \E t \in Tool : PiMoves /\ EndTool(t)
    \/ PiMoves /\ Chatter
    \/ \E success \in BOOLEAN : PiMoves /\ AnswerProbe(success)
    \/ PiMoves /\ FinalText
    \/ PiMoves /\ AskUser
    \/ PiMoves /\ Exit
    \/ \E c \in Call : SlotMoves /\ Submit(c)
    \/ \E c \in Call : SlotMoves /\ Parse(c)
    \/ \E c \in Call : SlotMoves /\ CountInvalid(c)
    \/ \E c \in Call : SlotMoves /\ FailSlot(c)
    \/ \E c \in Call : SlotMoves /\ ShutSlot(c)
    \/ \E c \in Call : SlotMoves /\ LockVerdict(c)
    \/ \E c \in Call : SlotMoves /\ StoreVerdict(c)
    \/ \E c \in Call : SlotMoves /\ CloseSlot(c)
    \/ \E c \in Call : SlotMoves /\ Tell(c)
    \/ SlotMoves /\ Cancel
    \/ SlotMoves /\ CancelFails
    \/ SlotMoves /\ CancelTells
    \/ SlotMoves /\ LookForVerdict
    \/ SlotMoves /\ LookForFailure
    \/ SlotMoves /\ FallAsleep
    \/ SlotMoves /\ GiveUp
    \/ SlotMoves /\ RunEnds
    \/ OpenCodeMoves /\ RunTick
    \/ OpenCodeMoves /\ NoLine
    \/ \E l \in Lane : OpenCodeMoves /\ ToolStarts(l)
    \/ OpenCodeMoves /\ ModelLine
    \/ \E l \in Lane : OpenCodeMoves /\ ToolCompletes(l)
    \/ \E l \in Lane : OpenCodeMoves /\ ToolFails(l)
    \/ OpenCodeMoves /\ ToolRepeated
    \/ OpenCodeMoves /\ RunExit

MCVars == <<part, vars, slotVars, runVars>>

(* The fairness of PiWatchdog and ReviewSlot, each in its own behaviours *)
MCSpec ==
    /\ MCInit /\ [][MCNext]_MCVars
    /\ WF_MCVars(PiMoves /\ Tick) /\ WF_MCVars(PiMoves /\ TimesOut)
    /\ \A c \in Call : WF_MCVars(SlotMoves /\ call[c] # "idle" /\ CallStep(c))
    /\ WF_MCVars(SlotMoves /\ CancelFails) /\ WF_MCVars(SlotMoves /\ CancelTells)
    /\ WF_MCVars(SlotMoves /\ WaiterStep)

-----------------------------------------------------------------------------
(* What must end ends, in whichever machine *)

(* A run that goes on for ever makes progress for ever, or writes chatter      *)
(* (run_rpc of runtime.rs)                                                     *)
PiHangIsCut == part = "pi" => HangIsCut

(* No tool call runs for ever (run_rpc of runtime.rs, parallel calls)          *)
PiHungToolIsCut == part = "pi" => HungToolIsCut

(* Neither a hung Pi nor a hung tool call of a live Pi keeps a run for ever,   *)
(* nor does a reviewer that ends without a verdict keep its review             *)
RunsEnd == PiHangIsCut /\ PiHungToolIsCut /\ EndedRunEndsReview
=============================================================================
