---------------------------- MODULE MCScheduling ----------------------------
EXTENDS Scheduling

CONSTANTS w1, w2, w3

MCSlots == [w \in Worker |-> 1]
MCRole == [w \in Worker |-> IF w = w3 THEN "reviewer" ELSE "worker"]
MCFaults == [l \in Limits |-> l]
MCFits == [w \in Worker |-> IF w = w1 THEN {1} ELSE Task]
=============================================================================
