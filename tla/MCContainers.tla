---------------------------- MODULE MCContainers ----------------------------
(* Instances of HTable and RBTree for TLC.  They share nothing: a behaviour *)
(* is one of either, while the other does not move.  The ids are small      *)
(* integers because their buckets depend on them.                            *)
EXTENDS HTable

CONSTANT TreeKey

VARIABLES component, tree

R == INSTANCE RBTree WITH Key <- TreeKey

Ids == {1, 2, 3, 5, 8, 9, 16}
Symmetry == Permutations(Data)

MCInit == Init /\ R!Init /\ component \in {"htable", "rbtree"}

MCNext ==
  \/ component = "htable" /\ Next /\ UNCHANGED <<component, tree>>
  \/ component = "rbtree" /\ R!Next /\ UNCHANGED <<component, vars>>

MCSpec == MCInit /\ [][MCNext]_<<component, vars, tree>>

-----------------------------------------------------------------------------
\* IsRedBlackTree of RBTree: linked, ordered and balanced.
IsRedBlackTree == R!IsRedBlackTree

\* AnswersAgree of RBTree: the searches and walks of sys_tree.h answer rightly.
AnswersAgree == R!AnswersAgree

\* IsOrderedSet of RBTree: RB_INSERT and RB_REMOVE implement OrderedSet.
IsOrderedSet == R!IsOrderedSet

=============================================================================
