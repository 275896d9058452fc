------------------------------ MODULE Sublist ------------------------------
(* The lists of suspended coroutines that publish-subscribe channels, wait *)
(* groups and pools keep: linked lists of nodes with an eventfd each.      *)
EXTENDS Integers, Sequences, Functions

\* The list without the first node of c, which the loops that free a node look
\* for from the head on.
Unlink(list, c) ==
  LET k == CHOOSE i \in DOMAIN list : list[i] = c /\ \A j \in 1..(i - 1) : list[j] # c
  IN  SubSeq(list, 1, k - 1) \o SubSeq(list, k + 1, Len(list))

=============================================================================
