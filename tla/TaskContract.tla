----------------------------- MODULE TaskContract -----------------------------
(* What the host promises of its tasks, whatever leases, calls and sweeps go   *)
(* on behind them: the lanes a task moves through, and the gate. A task is     *)
(* merged only while its latest work stands approved; only an approval makes   *)
(* it so, and only the claim of the next attempt ends it.                      *)
CONSTANT Task

VARIABLES
    lane,       \* lane[t]: tasks.state
    approved    \* approved[t]: the latest work on t is finished and approved

vars == <<lane, approved>>

Lanes == {"queued", "assigned", "review", "merge_pending", "done",
          "blocked", "failed", "cancelled"}

Init ==
    /\ lane = [t \in Task |-> "queued"]
    /\ approved = [t \in Task |-> FALSE]

Moves(t, from, to) == lane[t] \in from /\ lane'[t] \in to
VerdictStands(t) == approved'[t] = approved[t]

Claim(t) ==
    /\ Moves(t, {"queued"}, {"assigned"})
    /\ approved'[t] => approved[t]
HandIn(t) == Moves(t, {"assigned"}, {"review"}) /\ VerdictStands(t)
GiveBack(t) == Moves(t, {"assigned"}, {"queued", "failed"}) /\ VerdictStands(t)
Approve(t) == Moves(t, {"review"}, {"merge_pending"}) /\ approved'[t]
SendBack(t) == Moves(t, {"review"}, {"queued", "blocked"}) /\ VerdictStands(t)
Merge(t) ==
    /\ Moves(t, {"merge_pending"}, {"done"})
    /\ approved[t]
    /\ VerdictStands(t)
Rereview(t) == Moves(t, {"merge_pending"}, {"review"}) /\ VerdictStands(t)
Retry(t) ==
    /\ Moves(t, {"review", "merge_pending", "failed", "blocked"}, {"queued"})
    /\ VerdictStands(t)
Delete(t) ==
    /\ Moves(t, {"queued", "review", "failed", "blocked"}, {"cancelled"})
    /\ VerdictStands(t)
Stays(t) == lane'[t] = lane[t] /\ VerdictStands(t)

TaskStep(t) ==
    \/ Claim(t) \/ HandIn(t) \/ GiveBack(t)
    \/ Approve(t) \/ SendBack(t)
    \/ Merge(t) \/ Rereview(t)
    \/ Retry(t) \/ Delete(t)

(* A pause takes a worker off all its tasks at once: several tasks may step    *)
Next ==
    /\ lane' \in [Task -> Lanes]
    /\ approved' \in [Task -> BOOLEAN]
    /\ \A t \in Task : TaskStep(t) \/ Stays(t)

Spec == Init /\ [][Next]_vars
===============================================================================
