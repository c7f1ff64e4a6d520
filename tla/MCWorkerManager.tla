-------------------------- MODULE MCWorkerManager --------------------------
(***************************************************************************)
(* A daemon with two threads and three tasks: one that comes back while    *)
(* the second is counted down, and a third that is fetched after a lost    *)
(* update.  The proofs of DaemonProofs cover every other size.             *)
(***************************************************************************)
EXTENDS WorkerManager, TLC

CONSTANTS a, b, c

ThreeTasks == {a, b, c}
=============================================================================
