------------------------------- MODULE HTable -------------------------------
(***************************************************************************)
(* dyco_htable.h: the hash table behind cid_co_map, fd_co_map and the wait *)
(* groups.  A bucket is an entry with a chain of further entries; an empty *)
(* one has id -1.  Nodes are values here: their allocation is left out.    *)
(***************************************************************************)
EXTENDS Integers, SequencesExt

CONSTANTS
  Id,         \* the ids used as keys: coroutine ids, targets, fds but 0
  Data,       \* what is stored with them
  NULL,
  MAXALPHA,   \* DYCO_HTABLE_MAXALPHA
  MAXWIDTH,   \* DYCO_HTABLE_MAXWITDH
  Widths      \* the widths tables are initialised with

ASSUME HTableConstants ==
  /\ Id \subseteq Nat \ {0} /\ NULL \notin Data
  /\ MAXALPHA \in Nat \ {0} /\ MAXWIDTH \in Nat
  /\ Widths \subseteq 1..MAXWIDTH

VARIABLES
  width, mask, count, table,   \* the fields of dyco_htable
  ret,                         \* the result of the last call
  freed                        \* what the last call passed to freecb, in order

vars == <<width, mask, count, table, ret, freed>>

\* htable_init leaves an empty bucket; calloc leaves zeroes.
EmptyBucket == [id |-> -1, data |-> NULL, next |-> <<>>]
ZeroBucket == [id |-> 0, data |-> NULL, next |-> <<>>]

Idx(id, m) == id % (m + 1)   \* id & m, for m + 1 a power of two

\* The entries a walk through bucket b visits.
Nodes(b) ==
  IF b.id = -1 THEN <<>> ELSE <<[id |-> b.id, data |-> b.data]>> \o b.next

\* The first entry of id in the chain of b, if there is one.
InChain(b, id) ==
  CHOOSE k \in DOMAIN b.next :
    b.next[k].id = id /\ \A j \in 1..(k - 1) : b.next[j].id # id

Holds(b, id) == b.id = id \/ \E k \in DOMAIN b.next : b.next[k].id = id

htable_contains(id) ==
  \E b \in {table[Idx(id, mask)]} : b.id # -1 /\ Holds(b, id)

htable_find(id) ==
  LET b == table[Idx(id, mask)]
  IN  IF ~htable_contains(id) THEN NULL
      ELSE IF b.id = id THEN b.data
      ELSE b.next[InChain(b, id)].data

Cleared == DOMAIN table = {}

-----------------------------------------------------------------------------
(* Helpers of the operations.                                              *)

\* A new entry fills an empty bucket, or follows the first one.
Linked(b, entry) ==
  IF b.id = -1 THEN [b EXCEPT !.id = entry.id, !.data = entry.data]
               ELSE [b EXCEPT !.next = <<entry>> \o @]

\* The entry of id in b gets other data.
Changed(b, id, data) ==
  IF b.id = id THEN [b EXCEPT !.data = data]
               ELSE [b EXCEPT !.next[InChain(b, id)].data = data]

\* Mutant of Unlinked: the chain is dropped with the first entry.
Unlinked_ChainLost(b, id) ==
  IF b.id = id THEN EmptyBucket
               ELSE [b EXCEPT !.next = RemoveAt(@, InChain(b, id))]

\* The entry of id taken out of b; the first of the chain replaces the bucket's.
Unlinked(b, id) ==
  IF b.id # id THEN [b EXCEPT !.next = RemoveAt(@, InChain(b, id))]
  ELSE IF b.next = <<>> THEN EmptyBucket
  ELSE [id |-> b.next[1].id, data |-> b.next[1].data, next |-> Tail(b.next)]

AllNodes(t, m) == FlattenSeq([i \in 1..(m + 1) |-> Nodes(t[i - 1])])

\* Mutant of Rehash: the index is computed with the old mask.
Rehash_OldMask(t, oldmask, newmask) ==
  LET fresh == [i \in 0..newmask |-> IF i = 0 THEN EmptyBucket ELSE ZeroBucket]
      Place(nt, e) == [nt EXCEPT ![Idx(e.id, oldmask)] = Linked(@, e)]
  IN  FoldLeft(Place, fresh, AllNodes(t, oldmask))

\* htable_resize.  The loop that should empty the new buckets writes the first
\* one each time; the others stay as calloc left them.
Rehash(t, oldmask, newmask) ==
  LET fresh == [i \in 0..newmask |-> IF i = 0 THEN EmptyBucket ELSE ZeroBucket]
      Place(nt, e) == [nt EXCEPT ![Idx(e.id, newmask)] = Linked(@, e)]
  IN  FoldLeft(Place, fresh, AllNodes(t, oldmask))

\* The test after ++count.
MustGrow == mask * MAXALPHA = count + 1

-----------------------------------------------------------------------------
(* Operations.                                                             *)

htable_init(w) ==
  /\ Cleared
  /\ width' = w
  /\ mask' = 2^w - 1
  /\ count' = 0
  /\ table' = [i \in 0..(2^w - 1) |-> EmptyBucket]
  /\ ret' = 0
  /\ freed' = <<>>

Init ==
  \E w \in Widths :
    /\ width = w /\ mask = 2^w - 1 /\ count = 0
    /\ table = [i \in 0..(2^w - 1) |-> EmptyBucket]
    /\ ret = 0 /\ freed = <<>>

\* htable_insert of an id that a walk finds.
Overwrite(id, data) ==
  /\ ~Cleared /\ htable_contains(id)
  /\ table' = [table EXCEPT ![Idx(id, mask)] = Changed(@, id, data)]
  /\ ret' = 0
  /\ freed' = <<>>
  /\ UNCHANGED <<width, mask, count>>

\* htable_insert of another id; a table that cannot grow keeps the entry.
Insert(id, data) ==
  LET t == [table EXCEPT ![Idx(id, mask)] =
                            Linked(@, [id |-> id, data |-> data])]
      newmask == 2 * (mask + 1) - 1
  IN  /\ ~Cleared /\ ~htable_contains(id)
      /\ count' = count + 1
      /\ freed' = <<>>
      /\ \/ /\ ~MustGrow
            /\ table' = t /\ ret' = 1
            /\ UNCHANGED <<width, mask>>
         \/ /\ MustGrow /\ width < MAXWIDTH
            /\ table' = Rehash(t, mask, newmask)
            /\ width' = width + 1 /\ mask' = newmask /\ ret' = 1
         \/ /\ MustGrow /\ width >= MAXWIDTH
            /\ table' = t /\ ret' = -1
            /\ UNCHANGED <<width, mask>>

\* htable_delete and htable_delete_with_freecb (callback), which passes on what
\* it finds unless that is NULL.
Delete(id, callback) ==
  /\ ~Cleared /\ htable_contains(id)
  /\ freed' = IF callback /\ htable_find(id) # NULL THEN <<htable_find(id)>>
              ELSE <<>>
  /\ table' = [table EXCEPT ![Idx(id, mask)] = Unlinked(@, id)]
  /\ count' = count - 1
  /\ ret' = 0
  /\ UNCHANGED <<width, mask>>

DeleteNot(id) ==
  /\ ~Cleared /\ ~htable_contains(id)
  /\ ret' = -1
  /\ freed' = <<>>
  /\ UNCHANGED <<width, mask, count, table>>

\* Mutant of Clear: the callback skips the first entries of the buckets.
Clear_ChainsOnly(callback) ==
  /\ ~Cleared
  /\ freed' = IF ~callback THEN <<>>
              ELSE FlattenSeq([i \in 1..(mask + 1) |->
                     [k \in DOMAIN table[i - 1].next |->
                        table[i - 1].next[k].data]])
  /\ table' = <<>>
  /\ width' = 0 /\ mask' = 0 /\ count' = 0
  /\ ret' = 0

\* htable_clear and htable_clear_with_freecb (callback), which passes on what
\* every node holds, NULL included.
Clear(callback) ==
  /\ ~Cleared
  /\ freed' = IF ~callback THEN <<>>
              ELSE LET all == AllNodes(table, mask)
                   IN  [k \in DOMAIN all |-> all[k].data]
  /\ table' = <<>>
  /\ width' = 0 /\ mask' = 0 /\ count' = 0
  /\ ret' = 0

Next ==
  \/ \E id \in Id, data \in Data : Overwrite(id, data) \/ Insert(id, data)
  \/ \E id \in Id : DeleteNot(id) \/ \E cb \in BOOLEAN : Delete(id, cb)
  \/ \E cb \in BOOLEAN : Clear(cb)
  \/ \E w \in Widths : htable_init(w)

Spec == Init /\ [][Next]_vars

-----------------------------------------------------------------------------
(* Properties.                                                             *)

\* The fields keep their ranges; mask follows width, and an empty bucket has no
\* chain, which a walk would never reach.
TypeOK ==
  /\ width \in 0..MAXWIDTH
  /\ mask = 2^width - 1
  /\ count \in Nat
  /\ ~Cleared => DOMAIN table = 0..mask
  /\ \A i \in DOMAIN table : table[i].id = -1 => table[i] = EmptyBucket
  /\ ret \in {-1, 0, 1}
  /\ freed \in Seq(Data \cup {NULL})

\* Every entry is in the bucket htable_find looks in, and no id is stored twice
\* (the entries of id 0 that calloc leaves count for nothing): neither a
\* deletion that pulls an entry into the bucket nor htable_resize misplaces one.
WellPlaced ==
  \A i \in DOMAIN table :
    LET nodes == Nodes(table[i])
        real == {k \in DOMAIN nodes : nodes[k].id # 0}
    IN  /\ \A k \in real : Idx(nodes[k].id, mask) = i
        /\ \A j, k \in real : nodes[j].id = nodes[k].id => j = k

\* HTABLE_SIZE is the number of ids the table contains.
CountAgrees ==
  ~Cleared => count = Cardinality({id \in Id : htable_contains(id)})

\* htable_insert grows the table when the count equals the limit, not when it
\* exceeds it: the count never steps over the limit of a table that can grow.
LoadBounded == (~Cleared /\ width < MAXWIDTH) => count < mask * MAXALPHA

\* Buckets, chains, the mask and the count agree after every collision,
\* deletion and growth.
TableAgrees == TypeOK /\ WellPlaced /\ CountAgrees /\ LoadBounded

\* htable_clear_with_freecb passes every stored datum to the callback as often
\* as it is stored.
ClearFreesEach ==
  [][\A d \in Data : (Cleared' /\ Clear(TRUE)) =>
       Cardinality({k \in DOMAIN freed' : freed'[k] = d})
         = Cardinality({id \in Id : htable_contains(id) /\ htable_find(id) = d})]_vars

\* What htable_contains and htable_find show is a finite map: whatever the
\* collisions, deletions and growth, an operation changes its own id only.
Map == INSTANCE FiniteMap WITH
         Key <- Id, Value <- Data, open <- ~Cleared,
         map <- IF Cleared THEN <<>>
                ELSE [id \in {i \in Id : htable_contains(i)} |-> htable_find(id)]
IsFiniteMap == Map!Spec

=============================================================================
