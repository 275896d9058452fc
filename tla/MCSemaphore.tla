---------------------------- MODULE MCSemaphore ----------------------------
(* Instances of Semaphore for TLC.                                         *)
EXTENDS Semaphore, TLC

Symmetry == Permutations(Coro) \cup Permutations(Fd)

=============================================================================
