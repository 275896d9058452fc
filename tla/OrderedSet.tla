----------------------------- MODULE OrderedSet -----------------------------
(***************************************************************************)
(* What the scheduler's tree of sleeping coroutines promises: a set of     *)
(* keys that changes by one key at a time.                                 *)
(***************************************************************************)
EXTENDS Integers

CONSTANT Key

VARIABLE keys

Init == keys = {}

Insert(k) == keys' = keys \cup {k}

Remove(k) == k \in keys /\ keys' = keys \ {k}

Next == \E k \in Key : Insert(k) \/ Remove(k)

Spec == Init /\ [][Next]_keys

-----------------------------------------------------------------------------
(* The answers to questions about a set of keys, 0 for no key.             *)

Least(set) == IF set = {} THEN 0 ELSE CHOOSE k \in set : \A j \in set : k <= j

Greatest(set) == IF set = {} THEN 0 ELSE CHOOSE k \in set : \A j \in set : k >= j

=============================================================================
