----------------------------- MODULE PiWatchdog -----------------------------
(* One Pi run (PiRuntime::run_rpc of runtime.rs): the lines Pi writes, the     *)
(* table of tool calls in flight, the liveness probes and the clocks that cut  *)
(* a run that hangs. A timer is a counter of ticks, a clock stops at the limit *)
(* it is compared with, and every line is read as it is written.               *)
(* Pi is external: it works on a prompt in turns, runs the tool calls of a     *)
(* turn in parallel, writes no message while one runs, and answers probes      *)
(* whenever it likes or never.                                                 *)
EXTENDS Naturals, FiniteSets

CONSTANTS
    Tool,           \* the tool calls Pi may make, one each
    ToolName,       \* ToolName[t]: the name of the tool call t runs
    NoId,           \* the calls whose events carry no tool-call id
    Timed,          \* those that request a timeout
    MaxActive,      \* MAX_ACTIVE_TOOLS
    TimedLimit, HardLimit,  \* the hard limit of a timed call, and of all calls
    ToolStall, ModelStall,
    ProbeInterval, ProbeGrace, MaxMissed, MaxInactive

ASSUME WatchdogAssumption ==
    /\ NoId \subseteq Tool /\ Timed \subseteq Tool /\ MaxActive \in Nat \ {0}
    /\ TimedLimit \in Nat \ {0} /\ HardLimit \in Nat \ {0} /\ TimedLimit <= HardLimit
    /\ ToolStall \in Nat \ {0} /\ ModelStall \in Nat \ {0}
    /\ ProbeInterval \in Nat \ {0} /\ ProbeGrace \in Nat \ {0}
    /\ MaxMissed \in Nat \ {0} /\ MaxInactive \in Nat \ {0}

VARIABLES
    pi,        \* what Pi is at
    tool,      \* tool[t]: whether call t is still to come, running or ended
    review,    \* the run is a review
    outcome,   \* "running", or why the run ended
    phase,     \* RunPhase
    table,     \* ActiveTools: age and idle time of the calls in flight
    wait,      \* ticks to the next probe or to the deadline of the last one
    awaiting,  \* probe_deadline is set
    missed, inactive,  \* missed_probes, inactive_probes
    progress,  \* ticks since last_meaningful_progress
    nudged, final,     \* reviewer_final_nudged, requested_final
    asked,     \* probes Pi has not answered
    silence    \* ticks since Pi's last line (history)

world == <<pi, tool, review>>
probes == <<wait, awaiting, missed>>
turns == <<nudged, final>>
vars == <<world, outcome, phase, table, probes, inactive, progress, turns, asked, silence>>

Phases == {"Starting", "ModelStreaming", "ModelWaiting", "ToolRunning", "Compacting",
           "ProviderRetry", "Finalizing"}
Outcomes == {"running", "unresponsive", "inactive", "model stall", "tool limit", "tool stall",
             "refused", "exited", "done"}

MaxOf(i, j) == IF i >= j THEN i ELSE j

TypeOK ==
    /\ pi \in {"idle", "model", "tools", "compacting", "retrying", "settled"}
    /\ tool \in [Tool -> {"to come", "running", "ended"}]
    /\ review \in BOOLEAN /\ outcome \in Outcomes /\ phase \in Phases
    /\ DOMAIN table \subseteq Tool
    /\ \A t \in DOMAIN table :
          table[t] \in [age : 0 .. HardLimit, idle : 0 .. ToolStall]
    /\ wait \in 0 .. MaxOf(ProbeInterval, ProbeGrace) /\ awaiting \in BOOLEAN
    /\ missed \in 0 .. MaxMissed /\ inactive \in 0 .. MaxInactive
    /\ progress \in 0 .. ModelStall
    /\ nudged \in BOOLEAN /\ final \in BOOLEAN
    /\ asked \in 0 .. MaxMissed /\ silence \in Nat

Init ==
    /\ pi = "idle" /\ tool = [t \in Tool |-> "to come"] /\ review \in BOOLEAN
    /\ outcome = "running" /\ phase = "Starting" /\ table = <<>>
    /\ wait = ProbeInterval /\ awaiting = FALSE /\ missed = 0 /\ inactive = 0 /\ progress = 0
    /\ nudged = FALSE /\ final = FALSE /\ asked = 0 /\ silence = 0

Running == {t \in Tool : tool[t] = "running"}

-----------------------------------------------------------------------------
(* The clocks *)

Limit(t) == IF t \in Timed THEN TimedLimit ELSE HardLimit

OverLimit(tab) == \E t \in DOMAIN tab : tab[t].age >= Limit(t)
Stalled(tab) == \E t \in DOMAIN tab \ Timed : tab[t].idle >= ToolStall

JudgedByStall(ph, tab, prog, inact) ==  \* mutant: no hard limit
    IF inact >= MaxInactive THEN "inactive"
    ELSE IF DOMAIN tab = {} /\ prog >= ModelStall THEN "model stall"
    ELSE IF ph = "ToolRunning" /\ Stalled(tab) THEN "tool stall"
    ELSE "running"

JudgedByAnswers(ph, tab, prog, inact) ==  \* mutant: what Pi says of itself is believed
    IF inact >= MaxInactive THEN "inactive"
    ELSE IF ph = "ToolRunning" /\ OverLimit(tab) THEN "tool limit"
    ELSE IF ph = "ToolRunning" /\ Stalled(tab) THEN "tool stall"
    ELSE "running"

(* What the checks behind a line decide *)
Judged(ph, tab, prog, inact) ==
    IF inact >= MaxInactive THEN "inactive"
    ELSE IF DOMAIN tab = {} /\ prog >= ModelStall THEN "model stall"
    ELSE IF ph = "ToolRunning" /\ OverLimit(tab) THEN "tool limit"
    ELSE IF ph = "ToolRunning" /\ Stalled(tab) THEN "tool stall"
    ELSE "running"

Aged(n, limit) == IF n < limit THEN n + 1 ELSE n

Tick ==
    /\ outcome = "running" /\ wait > 0
    /\ wait' = wait - 1
    /\ table' = [t \in DOMAIN table |->
                    [age |-> Aged(table[t].age, HardLimit),
                     idle |-> Aged(table[t].idle, ToolStall)]]
    /\ progress' = Aged(progress, ModelStall)
    /\ silence' = silence + 1
    /\ UNCHANGED <<world, outcome, phase, awaiting, missed, inactive, turns, asked>>

MissForgotten == missed  \* mutant: a missed probe is not counted
MissCounted == missed + 1

(* No line came in time: a missed probe, and the next one *)
TimesOut ==
    /\ outcome = "running" /\ wait = 0
    /\ missed' = IF awaiting THEN MissCounted ELSE missed
    /\ IF awaiting /\ missed' >= MaxMissed
       THEN /\ outcome' = "unresponsive" /\ awaiting' = FALSE
            /\ UNCHANGED <<wait, asked>>
       ELSE /\ awaiting' = TRUE /\ wait' = ProbeGrace
            /\ asked' = Aged(asked, MaxMissed)
            /\ UNCHANGED outcome
    /\ UNCHANGED <<world, phase, table, inactive, progress, turns, silence>>

-----------------------------------------------------------------------------
(* The table of tool calls *)

Stalest(keys) ==
    CHOOSE t \in keys : \A u \in keys : table[t].idle >= table[u].idle

Without(key) == [t \in DOMAIN table \ {key} |-> table[t]]

Started(t) ==
    LET kept == IF Cardinality(DOMAIN table) >= MaxActive /\ t \notin DOMAIN table
                THEN DOMAIN table \ {Stalest(DOMAIN table)}
                ELSE DOMAIN table
    IN [u \in kept \union {t} |-> IF u = t THEN [age |-> 0, idle |-> 0] ELSE table[u]]

(* The entry an event of call t goes to, if any: the id's, else the stalest    *)
(* one of the same name                                                        *)
RouteByName(t) == {u \in DOMAIN table : ToolName[u] = ToolName[t]}  \* mutant: the id is ignored
Candidates(t) ==
    IF t \in NoId THEN {u \in DOMAIN table : ToolName[u] = ToolName[t]}
    ELSE DOMAIN table \intersect {t}

Updated(t) ==
    IF Candidates(t) = {} THEN Started(t)
    ELSE [table EXCEPT ![Stalest(Candidates(t))].idle = 0]

Ended(t) == IF Candidates(t) = {} THEN table ELSE Without(Stalest(Candidates(t)))

-----------------------------------------------------------------------------
(* The lines of Pi *)

Line ==
    /\ outcome = "running"
    /\ wait' = ProbeInterval /\ awaiting' = FALSE /\ missed' = 0 /\ silence' = 0

(* A line of progress: the phase and the table it leaves *)
Progress(ph, tab) ==
    /\ Line
    /\ phase' = ph /\ table' = tab /\ inactive' = 0 /\ progress' = 0
    /\ outcome' = Judged(ph, tab, 0, 0)
    /\ UNCHANGED <<review, asked>>

(* Output that is no JSON resets the probe and is not looked at further *)
Chatter ==
    /\ Line
    /\ UNCHANGED <<world, outcome, phase, table, inactive, progress, turns, asked>>

TurnStarts ==
    /\ pi = "idle" /\ pi' = "model"
    /\ Progress("ModelStreaming", table)
    /\ UNCHANGED <<tool, turns>>

ModelSpeaks ==
    /\ pi = "model"
    /\ \E ph \in {"ModelStreaming", "ModelWaiting"} : Progress(ph, table)
    /\ UNCHANGED <<pi, tool, turns>>

StartTool(t) ==
    /\ pi \in {"model", "tools"} /\ pi' = "tools"
    /\ tool[t] = "to come" /\ tool' = [tool EXCEPT ![t] = "running"]
    /\ Progress("ToolRunning", Started(t))
    /\ UNCHANGED turns

UpdateTool(t) ==
    /\ tool[t] = "running"
    /\ Progress("ToolRunning", Updated(t))
    /\ UNCHANGED <<pi, tool, turns>>

EndTool(t) ==
    /\ tool[t] = "running" /\ tool' = [tool EXCEPT ![t] = "ended"]
    /\ pi' = IF Running = {t} THEN "model" ELSE pi
    /\ Progress(IF DOMAIN Ended(t) = {} THEN "ModelWaiting" ELSE "ToolRunning", Ended(t))
    /\ UNCHANGED turns

Compact ==
    /\ \/ pi = "model" /\ pi' = "compacting" /\ Progress("Compacting", table)
       \/ pi = "compacting" /\ pi' = "model" /\ Progress("ModelWaiting", table)
    /\ UNCHANGED <<tool, turns>>

Retry ==
    /\ \/ pi = "model" /\ pi' = "retrying" /\ Progress("ProviderRetry", table)
       \/ pi = "retrying" /\ pi' = "model" /\ Progress("ModelWaiting", table)
    /\ UNCHANGED <<tool, turns>>

(* agent_settled: a review that settles without a verdict is prompted once     *)
(* more; then the final text is asked for                                      *)
Settle ==
    /\ pi = "model"
    /\ Progress("Finalizing", table)
    /\ IF review /\ ~nudged
       THEN nudged' = TRUE /\ pi' = "idle" /\ UNCHANGED final
       ELSE final' = TRUE /\ pi' = "settled" /\ UNCHANGED nudged
    /\ UNCHANGED tool

(* The answer to a probe: whether Pi says that it is at work *)
AtWork ==
    \/ pi \in {"model", "tools", "compacting"} \/ DOMAIN table # {}
    \/ phase \in {"ToolRunning", "Compacting", "ProviderRetry"}

Inactivity(working) == IF working THEN 0 ELSE inactive + 1

AnswerProbe(success) ==
    /\ asked > 0 /\ asked' = asked - 1
    /\ Line
    /\ inactive' = Inactivity(success /\ AtWork)
    /\ outcome' = Judged(phase, table, progress, inactive')
    /\ UNCHANGED <<world, phase, table, progress, turns>>

(* The final text, or its failure; a line that asks for a user; a bridge that  *)
(* did not load. The checks of the clocks come first                           *)
Ends(line, as) ==
    /\ Line
    /\ outcome' = LET judged == Judged(phase, table, progress, inactive)
                  IN IF judged = "running" THEN as ELSE judged
    /\ UNCHANGED <<world, phase, table, inactive, progress, turns, asked>>

FinalText == pi = "settled" /\ \E as \in {"done", "refused"} : Ends("response", as)
AskUser == pi # "settled" /\ Ends("extension_ui_request", "refused")

Exit ==
    /\ outcome = "running"
    /\ outcome' = IF final THEN "done" ELSE "exited"
    /\ UNCHANGED <<world, phase, table, probes, inactive, progress, turns, asked, silence>>

-----------------------------------------------------------------------------
ToolLine(t) == StartTool(t) \/ UpdateTool(t) \/ EndTool(t)
AgentLine == TurnStarts \/ ModelSpeaks \/ Compact \/ Retry \/ Settle

Next ==
    \/ Tick \/ TimesOut
    \/ AgentLine \/ \E t \in Tool : ToolLine(t)
    \/ Chatter \/ \E success \in BOOLEAN : AnswerProbe(success)
    \/ FinalText \/ AskUser \/ Exit

Spec == Init /\ [][Next]_vars

(* Time passes and the timer of the loop fires; Pi owes nothing *)
FairSpec == Spec /\ WF_vars(Tick) /\ WF_vars(TimesOut)

-----------------------------------------------------------------------------
(* A run whose Pi is dead is given up: it never outlives the silence that the  *)
(* probe interval and the missed probes allow                                  *)
SilenceBounded == silence <= ProbeInterval + MaxMissed * ProbeGrace

(* No call is tracked that does not run, however parallel calls start, update, *)
(* end and are evicted: a run is not cut for a tool that ended long ago        *)
NoGhosts == DOMAIN table \subseteq Running

(* The watchdog cuts neither too late nor for a call that has long ended       *)
WatchdogIsExact == SilenceBounded /\ NoGhosts

(* A run that goes on for ever makes progress for ever, or writes chatter      *)
HangIsCut ==
    <>[](outcome = "running") =>
        []<><<AgentLine \/ Chatter \/ \E t \in Tool : ToolLine(t)>>_vars

(* No tool call runs for ever, whatever its siblings report meanwhile, as long *)
(* as no more calls run at once than the table holds                           *)
HungToolIsCut ==
    [](Cardinality(Running) <= MaxActive) =>
        \A t \in Tool :
            <>[](tool[t] = "running" /\ outcome = "running") => []<><<Chatter>>_vars
=============================================================================
