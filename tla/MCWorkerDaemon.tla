---------------------------- MODULE MCWorkerDaemon ----------------------------
(* An instance of WorkerDaemon for TLC: an implementation and a review session. *)
EXTENDS WorkerDaemon

CONSTANTS i, r

MCSession == {i, r}
MCReview == {r}
==============================================================================
