--------------------------- MODULE MCWorkLifecycle ---------------------------
(* Instances of WorkLifecycle for TLC: one task, a worker a that implements and *)
(* a worker b that reviews.                                                     *)
EXTENDS WorkLifecycle, TLC

CONSTANTS a, b

MCInitialRole == (a :> "worker") @@ (b :> "reviewer")
MCOneSlot == (a :> 1) @@ (b :> 1)

MCLimits == {[retry |-> 1, failure |-> 2], [retry |-> 2, failure |-> 1]}
MCOneLimit == {[retry |-> 2, failure |-> 2]}

(* Pause and resume; a change of role, of an implementer to a reviewer *)
MCPauses ==
    {[paused |-> "yes", role |-> "unset"], [paused |-> "no", role |-> "unset"]}
MCRoleChange == {[paused |-> "unset", role |-> "reviewer"]}
MCNoRequests == {}

HandlersAlike == Permutations(Handler)
==============================================================================
