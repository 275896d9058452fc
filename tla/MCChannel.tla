----------------------------- MODULE MCChannel -----------------------------
(* Instances of Channel for TLC. *)
EXTENDS Channel, TLC

\* The coroutines are interchangeable.
Symmetry == Permutations(Coro)

=============================================================================
