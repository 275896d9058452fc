---------------------------- MODULE MCScheduler ----------------------------
(* Instances of Scheduler for TLC.                                         *)
EXTENDS Scheduler, TLC

Persistent == {-1}       \* waits without timeout
OneMs      == {1}        \* one-millisecond waits
Mixed      == {-1, 1}    \* waits with and without timeout
Timed      == {-1, 1, 2} \* waits with different timeouts

\* Coroutines are interchangeable in the safety runs.
Symmetry == Permutations(Coro) \cup Permutations(Fd)

=============================================================================
