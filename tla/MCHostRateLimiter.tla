--------------------------- MODULE MCHostRateLimiter ---------------------------
(* A small instance of HostRateLimiter for TLC.  The tasks are alike.      *)
EXTENDS HostRateLimiter, TLC

TaskSymmetry == Permutations(Tasks)

===============================================================================
