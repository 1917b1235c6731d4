--------------------------- MODULE OpenCodeBudget ---------------------------
(* One headless OpenCode run (OpenCodeRuntime::run_with_limits of runtime.rs): *)
(* the active-time budget of the agent, from which the time of completed tools *)
(* is taken off, the stall window between two lines, and the limit of a tool.  *)
(* OpenCode is external: its tool calls may run side by side and while the     *)
(* model goes on; it writes a line when a call is over (and none when it       *)
(* starts), lines of other kinds at any time, and may name a call again.       *)
EXTENDS Naturals, FiniteSets

CONSTANTS
    Lane,       \* bound: the tool calls under way at one time, one in each lane
    Budget,     \* the active-time budget (opencode_timeout)
    Stall,      \* opencode_stall_window
    ToolLimit,  \* opencode_tool_hard_limit
    MaxWall     \* bound: the ticks a run takes

ASSUME RunAssumption ==
    /\ Budget \in Nat \ {0} /\ Stall \in Nat \ {0} /\ ToolLimit \in Nat \ {0}
    /\ MaxWall \in Nat

VARIABLES
    result,    \* "running", or why the run ended
    wall,      \* ticks since started_at
    idle,      \* ticks since last_progress
    credited,  \* credited_tool_runtime
    last,      \* ticks the last completed call took, 0 before there is one
    busy,      \* the lanes in which a call is under way
    age,       \* age[l]: the ticks l's call has run
    covered,   \* the ticks in which a call ran that has completed (history)
    model      \* ticks no call ran since two last ran side by side (history)

runVars == <<result, wall, idle, credited, last, busy, age, covered, model>>

LeastOf(i, j) == IF i <= j THEN i ELSE j

RunTypeOK ==
    /\ result \in {"running", "over budget", "stalled", "tool limit", "failed", "done"}
    /\ wall \in 0 .. MaxWall /\ idle \in 0 .. wall /\ credited \in 0 .. wall
    /\ last \in 0 .. wall /\ model \in 0 .. wall
    /\ busy \subseteq Lane /\ age \in [Lane -> 0 .. wall] /\ covered \subseteq 1 .. wall

RunInit ==
    /\ result = "running" /\ wall = 0 /\ idle = 0 /\ credited = 0 /\ last = 0
    /\ busy = {} /\ age = [l \in Lane |-> 0] /\ covered = {} /\ model = 0

RunTick ==
    /\ result = "running" /\ idle < Stall /\ wall < MaxWall
    /\ wall' = wall + 1 /\ idle' = idle + 1
    /\ age' = [l \in Lane |-> IF l \in busy THEN age[l] + 1 ELSE 0]
    /\ model' = IF busy = {} THEN model + 1 ELSE model
    /\ UNCHANGED <<result, credited, last, busy, covered>>

NoLine ==
    /\ result = "running" /\ idle = Stall
    /\ result' = "stalled"
    /\ UNCHANGED <<wall, idle, credited, last, busy, age, covered, model>>

(* A line was read; the budget is looked at as the loop begins again *)
BudgetOf(cred) == IF wall - cred >= Budget THEN "over budget" ELSE "running"

ToolStarts(l) ==
    /\ result = "running" /\ l \notin busy
    /\ busy' = busy \union {l}
    /\ model' = IF busy = {} THEN model ELSE 0
    /\ UNCHANGED <<result, wall, idle, credited, last, age, covered>>

(* A line of another kind, JSON or not *)
ModelLine ==
    /\ result = "running"
    /\ idle' = 0 /\ result' = BudgetOf(credited)
    /\ UNCHANGED <<wall, credited, last, busy, age, covered, model>>

NoCredit(ticks) == credited          \* mutant: the budget is wall time
Uncapped(ticks) == credited + ticks  \* mutant: calls side by side pay in advance
Credit(ticks) == LeastOf(credited + ticks, wall)

(* The ticks in which l's call has run *)
Ran(l) == wall - age[l] + 1 .. wall

(* The lane is left *)
LaneEnds(l) == busy' = busy \ {l} /\ age' = [age EXCEPT ![l] = 0] /\ idle' = 0

ToolCompletes(l) ==
    /\ result = "running" /\ l \in busy
    /\ LaneEnds(l) /\ last' = age[l]
    /\ IF age[l] > ToolLimit
       THEN result' = "tool limit" /\ UNCHANGED <<credited, covered>>
       ELSE /\ credited' = Credit(age[l])
            /\ covered' = covered \union Ran(l)
            /\ result' = BudgetOf(credited')
    /\ UNCHANGED <<wall, model>>

(* A call that ends in an error is no completed tool: its time stays charged *)
ToolFails(l) ==
    /\ result = "running" /\ l \in busy
    /\ LaneEnds(l) /\ result' = BudgetOf(credited)
    /\ UNCHANGED <<wall, credited, last, covered, model>>

(* The last completed call is named again: credited_tool_calls knows it *)
CreditAgain(ticks) == Credit(ticks)  \* mutant: every line is credited
Known(ticks) == credited
ToolRepeated ==
    /\ result = "running" /\ last > 0
    /\ idle' = 0 /\ credited' = Known(last) /\ result' = BudgetOf(credited')
    /\ UNCHANGED <<wall, last, busy, age, covered, model>>

(* The output ends: the exit status decides *)
RunExit ==
    /\ result = "running" /\ result' \in {"done", "failed"}
    /\ UNCHANGED <<wall, idle, credited, last, busy, age, covered, model>>

RunNext ==
    \/ RunTick \/ NoLine \/ ModelLine \/ ToolRepeated \/ RunExit
    \/ \E l \in Lane : ToolStarts(l) \/ ToolCompletes(l) \/ ToolFails(l)

RunSpec == RunInit /\ [][RunNext]_runVars

(* The budget is the agent's, and calls side by side buy it no time ahead. A   *)
(* run is cut as over budget only when for as long as the budget none of the   *)
(* calls ran that have completed: the time is the model's, of calls that       *)
(* failed and of calls still under way. And a run that goes on has let the     *)
(* model work alone, since calls last ran side by side, for less than the      *)
(* budget and a stall window (credited_tool_runtime in run_with_limits).       *)
BudgetIsTheAgents ==
    /\ result = "over budget" => wall - Cardinality(covered) >= Budget
    /\ result = "running" => model < Budget + Stall

(* Calls under way cost nothing either. It holds while the loop waits ("do not *)
(* let the agent active-time budget kill an in-flight tool while waiting for   *)
(* the next JSON event"), and not at the next line, of another call or of the  *)
(* model.                                                                      *)
ToolsUnderWayAreFree ==
    result = "over budget" =>
        wall - Cardinality(covered \union UNION {Ran(l) : l \in busy}) >= Budget
=============================================================================
