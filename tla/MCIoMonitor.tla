---------------------------- MODULE MCIoMonitor ----------------------------
(* IoMonitor on a small instance.  Threads, numbers and paths are alike.   *)
EXTENDS IoMonitor, TLC

Symmetry ==
  Permutations(Threads) \cup Permutations(Fds) \cup Permutations(Files)
=============================================================================
