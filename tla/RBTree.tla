------------------------------- MODULE RBTree -------------------------------
(***************************************************************************)
(* The red-black tree of sys_tree.h, which holds the sleeping coroutines   *)
(* by the time they wake.  A node is named by its key and 0 is the null    *)
(* pointer; a tree is a record of the root and the four fields of the      *)
(* nodes, so every assignment to a pointer or a colour is an update of the *)
(* record.  The code is written twice, once for each side: here a side is  *)
(* a parameter.  The fields of a node outside the tree are not read before *)
(* RB_SET assigns them; they are kept at their initial values.             *)
(***************************************************************************)
EXTENDS Integers, FiniteSets

CONSTANT Key   \* the keys of the nodes, positive numbers

NIL   == 0
BLACK == 0
RED   == 1

VARIABLE tree

Other(side) == IF side = "left" THEN "right" ELSE "left"

\* RB_INIT and the zeroed nodes.
Empty ==
  [root |-> NIL,
   left |-> [k \in Key |-> NIL], right |-> [k \in Key |-> NIL],
   parent |-> [k \in Key |-> NIL], color |-> [k \in Key |-> BLACK]]

IsRed(t, n) == n # NIL /\ t.color[n] = RED

Blacken(t, n) == IF n = NIL THEN t ELSE [t EXCEPT !.color[n] = BLACK]

\* RB_SET_BLACKRED.
BlackRed(t, black, red) == [t EXCEPT !.color[black] = BLACK, !.color[red] = RED]

\* RB_SET: a new red leaf.
Set(t, n, p) ==
  [t EXCEPT !.parent[n] = p, !.left[n] = NIL, !.right[n] = NIL, !.color[n] = RED]

\* The link to old, in its parent p or in the head, leads to new.
Relink(t, p, old, new) ==
  IF p = NIL THEN [t EXCEPT !.root = new]
  ELSE [t EXCEPT ![IF t.left[p] = old THEN "left" ELSE "right"][p] = new]

SetParent(t, n, p) == IF n = NIL THEN t ELSE [t EXCEPT !.parent[n] = p]

-----------------------------------------------------------------------------
\* RB_ROTATE_LEFT and RB_ROTATE_RIGHT: elm goes down on the side, its child of
\* the other side takes its place.
Rotate(t, elm, side) ==
  LET tmp == t[Other(side)][elm]
      t1  == SetParent([t EXCEPT ![Other(side)][elm] = t[side][tmp]], t[side][tmp], elm)
      t2  == Relink([t1 EXCEPT !.parent[tmp] = t.parent[elm]], t.parent[elm], elm, tmp)
  IN  [t2 EXCEPT ![side][tmp] = elm, !.parent[elm] = tmp]

\* The end of a pass of RB_INSERT_COLOR whose uncle is black: the tree, and the
\* node that elm is then.
InsertTurn(t, elm, parent, gparent, side) ==
  LET inner == t[Other(side)][parent] = elm
      t1    == IF inner THEN Rotate(t, parent, side) ELSE t
      top   == IF inner THEN elm ELSE parent
  IN  <<Rotate(BlackRed(t1, top, gparent), gparent, Other(side)),
        IF inner THEN parent ELSE elm>>

\* RB_INSERT_COLOR.
RECURSIVE InsertColor(_, _)
InsertColor(t, elm) ==
  LET parent  == t.parent[elm]
      gparent == t.parent[parent]
      side    == IF parent = t.left[gparent] THEN "left" ELSE "right"
      uncle   == t[Other(side)][gparent]
      turned  == InsertTurn(t, elm, parent, gparent, side)
  IN  IF ~IsRed(t, parent) THEN Blacken(t, t.root)
      ELSE IF IsRed(t, uncle)
      THEN InsertColor(BlackRed(Blacken(t, uncle), parent, gparent), gparent)
      ELSE InsertColor(turned[1], turned[2])

\* Where RB_INSERT, RB_FIND and RB_NFIND stop: the node with the key, or the
\* last one of the path.
RECURSIVE Descend(_, _, _)
Descend(t, k, n) ==
  LET next == IF k < n THEN t.left[n] ELSE t.right[n]
  IN  IF n = NIL \/ n = k \/ next = NIL THEN n ELSE Descend(t, k, next)

\* RB_INSERT; a key that is there is returned and nothing changes.
RB_INSERT(t, k) ==
  LET p  == Descend(t, k, t.root)
      t1 == Set(t, k, p)
  IN  IF p = k THEN t
      ELSE InsertColor(IF p = NIL THEN [t1 EXCEPT !.root = k]
                       ELSE [t1 EXCEPT ![IF k < p THEN "left" ELSE "right"][p] = k], k)

-----------------------------------------------------------------------------
\* Mutant of RemoveTurn: the new top does not take the parent's colour.
RemoveTurn_Colour(t, parent, sib, side) ==
  LET out == Other(side)
      t1  == IF IsRed(t, t[out][sib]) THEN t
             ELSE Rotate([Blacken(t, t[side][sib]) EXCEPT !.color[sib] = RED], sib, out)
      tmp == t1[out][parent]
      t2  == [t1 EXCEPT !.color[tmp] = BLACK, !.color[parent] = BLACK]
  IN  Rotate(Blacken(t2, t2[out][tmp]), parent, side)

\* The last pass of RB_REMOVE_COLOR: sib, the sibling of the short side, has a
\* red child.
RemoveTurn(t, parent, sib, side) ==
  LET out == Other(side)
      t1  == IF IsRed(t, t[out][sib]) THEN t
             ELSE Rotate([Blacken(t, t[side][sib]) EXCEPT !.color[sib] = RED], sib, out)
      tmp == t1[out][parent]
      t2  == [t1 EXCEPT !.color[tmp] = t1.color[parent], !.color[parent] = BLACK]
  IN  Rotate(Blacken(t2, t2[out][tmp]), parent, side)

\* RB_REMOVE_COLOR.
RECURSIVE RemoveColor(_, _, _)
RemoveColor(t, parent, elm) ==
  LET side == IF t.left[parent] = elm THEN "left" ELSE "right"
      red  == t[Other(side)][parent]
      t1   == IF t.color[red] = RED THEN Rotate(BlackRed(t, red, parent), parent, side)
              ELSE t
      tmp  == t1[Other(side)][parent]
      t2   == RemoveTurn(t1, parent, tmp, side)
  IN  IF IsRed(t, elm) \/ elm = t.root THEN Blacken(t, elm)
      ELSE IF ~IsRed(t1, t1.left[tmp]) /\ ~IsRed(t1, t1.right[tmp])
      THEN RemoveColor([t1 EXCEPT !.color[tmp] = RED], t1.parent[parent], parent)
      ELSE Blacken(t2, t2.root)

RECURSIVE Outermost(_, _, _)
Outermost(t, n, side) == IF t[side][n] = NIL THEN n ELSE Outermost(t, t[side][n], side)

\* Mutant of Replace: the link to old is left as it is.
Replace_NotLinked(t, old, elm) ==
  LET t1 == [t EXCEPT !.left[elm] = t.left[old], !.right[elm] = t.right[old],
                      !.parent[elm] = t.parent[old], !.color[elm] = t.color[old]]
  IN  SetParent(SetParent(t1, t.left[old], elm), t.right[old], elm)

\* The part of RB_REMOVE that puts elm in the place of old.
Replace(t, old, elm) ==
  LET t1 == [t EXCEPT !.left[elm] = t.left[old], !.right[elm] = t.right[old],
                      !.parent[elm] = t.parent[old], !.color[elm] = t.color[old]]
      t2 == Relink(t1, t.parent[old], old, elm)
  IN  SetParent(SetParent(t2, t.left[old], elm), t.right[old], elm)

\* RB_REMOVE: a node with two children is replaced by its successor.
RB_REMOVE(t, old) ==
  LET two    == t.left[old] # NIL /\ t.right[old] # NIL
      elm    == IF two THEN Outermost(t, t.right[old], "left") ELSE old
      child  == IF t.left[elm] = NIL THEN t.right[elm] ELSE t.left[elm]
      up     == t.parent[elm]
      t1     == Relink(SetParent(t, child, up), up, elm, child)
      t2     == IF two THEN Replace(t1, old, elm) ELSE t1
      parent == IF two /\ up = old THEN elm ELSE up
      t3     == IF t.color[elm] = BLACK THEN RemoveColor(t2, parent, child) ELSE t2
  IN  [Set(t3, old, NIL) EXCEPT !.color[old] = BLACK]

-----------------------------------------------------------------------------
(* Questions.                                                              *)

RB_FIND(t, k) == IF Descend(t, k, t.root) = k THEN k ELSE NIL

\* RB_NFIND: res is the last node at which the path went left.
RECURSIVE NFind(_, _, _, _)
NFind(t, k, n, res) ==
  IF n = NIL \/ n = k THEN (IF n = k THEN n ELSE res)
  ELSE IF k < n THEN NFind(t, k, t.left[n], n) ELSE NFind(t, k, t.right[n], res)

\* Up from n while it is the child of the side.
RECURSIVE Climb(_, _, _)
Climb(t, n, side) ==
  IF t.parent[n] # NIL /\ n = t[side][t.parent[n]] THEN Climb(t, t.parent[n], side) ELSE n

\* Mutant of Step: without a child on the side the answer is the parent.
Step_NoClimb(t, n, side) ==
  IF t[side][n] # NIL THEN Outermost(t, t[side][n], Other(side)) ELSE t.parent[n]

\* RB_NEXT with side "right", RB_PREV with side "left".
Step(t, n, side) ==
  IF t[side][n] # NIL THEN Outermost(t, t[side][n], Other(side))
  ELSE t.parent[Climb(t, n, side)]

\* RB_MIN with side "left", RB_MAX with side "right".
RB_MINMAX(t, side) == IF t.root = NIL THEN NIL ELSE Outermost(t, t.root, side)

-----------------------------------------------------------------------------
RECURSIVE Below(_, _)
Below(t, n) == IF n = NIL THEN {} ELSE {n} \cup Below(t, t.left[n]) \cup Below(t, t.right[n])

Keys == Below(tree, tree.root)

Init == tree = Empty

Insert(k) == tree' = RB_INSERT(tree, k)

\* The callers remove a node that is in the tree: its status says that it sleeps.
Remove(k) == k \in Keys /\ tree' = RB_REMOVE(tree, k)

Next == \E k \in Key : Insert(k) \/ Remove(k)

Spec == Init /\ [][Next]_tree

-----------------------------------------------------------------------------
(* Properties.                                                             *)

OS == INSTANCE OrderedSet WITH keys <- Keys

\* A node of the tree is the child that its parent has, on the side of its key,
\* after every rotation and after a node with two children gave its place to
\* its successor; RB_NEXT climbs these pointers.
WellLinked ==
  /\ tree.root # NIL => tree.parent[tree.root] = NIL
  /\ \A n \in Keys :
       /\ tree.left[n]  # NIL => tree.parent[tree.left[n]] = n
       /\ tree.right[n] # NIL => tree.parent[tree.right[n]] = n
       /\ \A j \in Below(tree, tree.left[n]) : j < n
       /\ \A j \in Below(tree, tree.right[n]) : j > n

RECURSIVE BlackHeights(_)
BlackHeights(n) ==
  IF n = NIL THEN {0}
  ELSE {h + 1 - tree.color[n] : h \in BlackHeights(tree.left[n])
                                        \cup BlackHeights(tree.right[n])}

\* The recolouring of RB_INSERT and RB_REMOVE keeps the tree balanced: the root
\* is black, no red node has a red child, and every path has as many black
\* nodes, so a lookup takes at most twice the logarithm of the sleepers.
Balanced ==
  /\ ~IsRed(tree, tree.root)
  /\ \A n \in Keys : IsRed(tree, n) =>
       ~IsRed(tree, tree.left[n]) /\ ~IsRed(tree, tree.right[n])
  /\ Cardinality(BlackHeights(tree.root)) = 1

\* What RB_INSERT and RB_REMOVE leave is a red-black search tree.
IsRedBlackTree == WellLinked /\ Balanced

\* RB_FIND, RB_NFIND, RB_MIN, RB_MAX, RB_NEXT and RB_PREV answer for the tree
\* what the set of its keys answers; RB_MIN is the sleeper that wakes first.
AnswersAgree ==
  /\ RB_MINMAX(tree, "left") = OS!Least(Keys)
  /\ RB_MINMAX(tree, "right") = OS!Greatest(Keys)
  /\ \A k \in Key :
       /\ RB_FIND(tree, k) = IF k \in Keys THEN k ELSE NIL
       /\ NFind(tree, k, tree.root, NIL) = OS!Least({j \in Keys : j >= k})
       /\ k \in Keys =>
            /\ Step(tree, k, "right") = OS!Least({j \in Keys : j > k})
            /\ Step(tree, k, "left") = OS!Greatest({j \in Keys : j < k})

\* RB_INSERT and RB_REMOVE implement a set: each changes the tree by the one
\* key, and none of the nodes that a rotation moves is lost.
IsOrderedSet == OS!Spec

=============================================================================
