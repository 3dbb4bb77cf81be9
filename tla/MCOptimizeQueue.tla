--------------------------- MODULE MCOptimizeQueue ---------------------------
(* The TLC instance of OptimizeQueue: see MCOptimizeQueue.cfg.  It checks     *)
(* liveness, so it does not reduce by the permutations of users, callers and *)
(* jobs.                                                                      *)
EXTENDS OptimizeQueue

=============================================================================
