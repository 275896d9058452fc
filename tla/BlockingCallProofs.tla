------------------------- MODULE BlockingCallProofs -------------------------
(***************************************************************************)
(* Proofs about the calls that suspend the coroutine instead of the        *)
(* thread.  Coropool, for every set of clients and every size: the free    *)
(* list backs what is available, the list of waiters is right, no wakeup   *)
(* is lost, and the pool is never overlent.  Socket, for all lengths and   *)
(* buffers: messages arrive whole, and results are justified.              *)
(***************************************************************************)
EXTENDS MCBlockingCalls, QueueLemmas

\* The clients are finitely many, and sizes are numbers.
PoolConstants == IsFiniteSet(Client) /\ Sizes \subseteq Nat /\ Symmetric \subseteq BOOLEAN

-----------------------------------------------------------------------------
(* Coropool: the inductive invariant, and what the parts of the actions do. *)

PoolInv == TypeOK /\ FreeBacked /\ NodesAgree /\ NoLostWakeup

\* cp_obtain takes a coroutine exactly when one is available, and never finds
\* the free list empty.
LEMMA TakeEffect ==
  ASSUME TypeOK, FreeBacked, ended = "no", Take
  PROVE  /\ isasymmetric' = isasymmetric /\ totalsize' = totalsize /\ ended' = "no"
         /\ freelist' \in Seq(BOOLEAN) /\ activenum' \in Nat
         /\ Len(freelist') >= totalsize - activenum'
         /\ \/ totalsize - activenum <= 0 /\ activenum' = activenum
            \/ totalsize - activenum > 0 /\ activenum' = activenum + 1
  <1>1. totalsize \in Nat /\ activenum \in Nat /\ freelist \in Seq(BOOLEAN) /\ Len(freelist) \in Nat
    BY DEF TypeOK
  <1>2. Len(freelist) >= totalsize - activenum
    BY Zenon DEF FreeBacked, dyco_coropool_available
  <1>3. CASE totalsize - activenum <= 0
    BY <1>1, <1>2, <1>3, Zenon DEF Take, pool, dyco_coropool_available
  <1>4. CASE totalsize - activenum > 0
    <2>1. freelist # <<>>
      BY <1>1, <1>2, <1>4
    <2>2. /\ freelist' = Tail(freelist) /\ activenum' = activenum + 1
          /\ isasymmetric' = isasymmetric /\ totalsize' = totalsize /\ ended' = ended
      BY <1>1, <1>4, <2>1 DEF Take, dyco_coropool_available
    <2>3. Tail(freelist) \in Seq(BOOLEAN) /\ Len(Tail(freelist)) = Len(freelist) - 1
      BY <1>1, <2>1
    <2>. QED BY <1>1, <1>2, <1>4, <2>2, <2>3, SMTT(60)
  <1>. QED BY <1>1, <1>3, <1>4

\* cp_notify(k) with waiters left over has notified exactly k more of them.
LEMMA NotifyEffect ==
  ASSUME PoolConstants, TypeOK, NodesAgree, NEW k \in Nat, cp_notify(k), waiting' = waiting
  PROVE  /\ sublist' \in Seq(Client)
         /\ notified' \subseteq waiting
         /\ NodesAgree'
         /\ sublist' # <<>> =>
              sublist # <<>> /\ Cardinality(notified') = Cardinality(notified) + k
  <1> DEFINE m == IF k < Len(sublist) THEN k ELSE Len(sublist)
             f == Range(SubSeq(sublist, 1, m))
  <1>a. sublist \in Seq(Client)
    BY Zenon DEF TypeOK
  <1>1. sublist \in Seq(Client) /\ Len(sublist) \in Nat /\ m \in 0..Len(sublist)
    BY <1>a
  <1>2. /\ notified' = notified \cup f
        /\ sublist' = SubSeq(sublist, m + 1, Len(sublist))
    BY Zenon DEF cp_notify
  <1>3. IsInjective(sublist) /\ Range(sublist) = waiting \ notified
    BY Zenon DEF NodesAgree
  <1> HIDE DEF m
  <1>4. /\ sublist' \in Seq(Client) /\ Len(sublist') = Len(sublist) - m
        /\ IsInjective(sublist')
        /\ f \subseteq Range(sublist) /\ Range(sublist') = Range(sublist) \ f
        /\ IsFiniteSet(f) /\ Cardinality(f) = m
    BY <1>1, <1>2, <1>3, SplitOnce
  <1> HIDE DEF f
  <1>5. notified' \subseteq waiting
    BY <1>2, <1>3, <1>4, Zenon DEF TypeOK
  <1>6. NodesAgree'
    BY <1>2, <1>3, <1>4, Zenon DEF NodesAgree
  <1>7. ASSUME sublist' # <<>>
        PROVE  sublist # <<>> /\ Cardinality(notified') = Cardinality(notified) + k
    <2>1. Len(sublist') > 0
      BY <1>4, <1>7
    <2>2. m = k /\ Len(sublist) > 0
      BY <1>1, <1>4, <2>1 DEF m
    <2>3. IsFiniteSet(notified)
      BY FS_Subset, Zenon DEF TypeOK, PoolConstants
    <2>4. notified \cap f = {}
      BY <1>3, <1>4, Zenon
    <2>5. Cardinality(notified) \in Nat /\ Cardinality({}) = 0
      BY <2>3, FS_CardinalityType, FS_EmptySet, Zenon
    <2>6. Cardinality(notified \cup f) = Cardinality(notified) + Cardinality(f) - Cardinality(notified \cap f)
      BY <1>4, <2>3, FS_Union, Zenon
    <2>a. Cardinality(f) = k /\ Cardinality(notified \cap f) = 0
      BY <1>4, <2>2, <2>4, <2>5, Zenon
    <2>b. Cardinality(notified \cup f) = Cardinality(notified) + k
      BY <2>5, <2>6, <2>a
    <2>7. Cardinality(notified') = Cardinality(notified) + k
      BY <1>2, <2>b, Zenon
    <2>8. sublist # <<>>
      BY <1>a, <2>2
    <2>. QED BY <2>7, <2>8, Zenon
  <1>. QED BY <1>4, <1>5, <1>6, <1>7, Zenon

\* Freeing n coroutines of the list leaves the others, or ends the process.
LEMMA FreeEffect ==
  ASSUME TypeOK, NEW n \in Int, NEW after \in {"no", "destroyed"}, FreeFirst(n, after)
  PROVE  /\ freelist' \in Seq(BOOLEAN)
         /\ ended' \in {"no", "destroyed", "null"}
         /\ ended' = "no" => after = "no"
         /\ ended' = "no" => Len(freelist') = (IF n > 0 THEN Len(freelist) - n ELSE Len(freelist))
  <1>a. freelist \in Seq(BOOLEAN)
    BY Zenon DEF TypeOK
  <1>1. freelist \in Seq(BOOLEAN) /\ Len(freelist) \in Nat
    BY <1>a
  <1>2. CASE n > Len(freelist) \/ (isasymmetric /\ \E i \in 1..n : ~freelist[i])
    <2>1. freelist' = freelist /\ ended' = "null"
      BY <1>2, Zenon DEF FreeFirst
    <2>. QED BY <1>1, <2>1, Zenon
  <1>3. CASE ~(n > Len(freelist) \/ (isasymmetric /\ \E i \in 1..n : ~freelist[i]))
    <2>1. /\ freelist' = IF n > 0 THEN SubSeq(freelist, n + 1, Len(freelist)) ELSE freelist
          /\ ended' = after
      BY <1>3, Zenon DEF FreeFirst
    <2>2. n > 0 => ~(n > Len(freelist))
      BY <1>3, Zenon
    <2>3. n > 0 => n \in 0..Len(freelist)
      BY <1>1, <2>2
    <2>4. n > 0 => /\ SubSeq(freelist, n + 1, Len(freelist)) \in Seq(BOOLEAN)
                   /\ Len(SubSeq(freelist, n + 1, Len(freelist))) = Len(freelist) - n
      BY <1>1, <2>3
    <2>. QED BY <1>1, <2>1, <2>4, Zenon
  <1>. QED BY <1>2, <1>3, Zenon

\* A client that leaves cp_wait leaves the list, if its node is still there.
LEMMA LeaveEffect ==
  ASSUME PoolConstants, TypeOK, NodesAgree, NEW c \in waiting,
         waiting' = waiting \ {c}, timed' = timed \ {c}, notified' = notified \ {c},
         sublist' = IF c \in notified THEN sublist ELSE Unlink(sublist, c)
  PROVE  /\ sublist' \in Seq(Client)
         /\ waiting' \subseteq Client /\ timed' \subseteq waiting' /\ notified' \subseteq waiting'
         /\ NodesAgree'
         /\ sublist' # <<>> => sublist # <<>>
         /\ Cardinality(notified) \in Nat /\ Cardinality(notified') \in Nat
         /\ Cardinality(notified') >= Cardinality(notified) - (IF c \in notified THEN 1 ELSE 0)
  <1>1. /\ sublist \in Seq(Client) /\ waiting \subseteq Client
        /\ timed \subseteq waiting /\ notified \subseteq waiting
    BY Zenon DEF TypeOK
  <1>2. IsInjective(sublist) /\ Range(sublist) = waiting \ notified
    BY Zenon DEF NodesAgree
  <1>3. IsFiniteSet(notified) /\ Cardinality(notified) \in Nat
    BY <1>1, FS_Subset, FS_CardinalityType, Zenon DEF PoolConstants
  <1>4. CASE c \in notified
    <2>1. Cardinality(notified') = Cardinality(notified) - 1 /\ IsFiniteSet(notified')
      BY <1>3, <1>4, FS_RemoveElement, Zenon
    <2>2. Cardinality(notified') \in Nat
      BY <2>1, FS_CardinalityType, Zenon
    <2>3. sublist' = sublist /\ waiting' \ notified' = waiting \ notified
      BY <1>4, Zenon
    <2>4. NodesAgree'
      BY <1>2, <2>3, Zenon DEF NodesAgree
    <2>. QED BY <1>1, <1>3, <1>4, <2>1, <2>2, <2>3, <2>4, SMTT(60)
  <1>5. CASE c \notin notified
    <2>1. c \in Range(sublist) /\ notified' = notified /\ sublist' = Unlink(sublist, c)
      BY <1>2, <1>5, Zenon
    <2>2. /\ sublist' \in Seq(Client) /\ IsInjective(sublist')
          /\ Range(sublist') = Range(sublist) \ {c} /\ sublist # <<>>
      BY <1>1, <1>2, <2>1, UnlinkOnce, SMTT(60)
    <2>3. NodesAgree'
      BY <1>2, <2>1, <2>2, Zenon DEF NodesAgree
    <2>4. Cardinality(notified') = Cardinality(notified)
      BY <2>1, Zenon
    <2>5. /\ waiting' \subseteq Client /\ timed' \subseteq waiting'
          /\ notified' \subseteq waiting'
      BY <1>1, <1>5, <2>1, Zenon
    <2>6. Cardinality(notified') >= Cardinality(notified) - 0
      BY <1>3, <2>4
    <2>. QED BY <1>3, <1>5, <2>2, <2>3, <2>4, <2>5, <2>6, Zenon
  <1>. QED BY <1>4, <1>5, Zenon

-----------------------------------------------------------------------------
(* The invariant is inductive.                                             *)

LEMMA PoolInit == ASSUME PoolConstants, Init PROVE PoolInv
  <1>1. isasymmetric \in BOOLEAN
    BY Zenon DEF Init
  <1>2. totalsize \in Nat /\ activenum = 0
    BY Zenon DEF Init, PoolConstants
  <1>3. freelist \in Seq(BOOLEAN) /\ Len(freelist) = totalsize
    BY <1>2 DEF Init
  <1>4. sublist = <<>> /\ waiting = {} /\ timed = {} /\ notified = {} /\ ended = "no"
    BY Zenon DEF Init
  <1>5. TypeOK
    BY <1>1, <1>2, <1>3, <1>4, SMTT(60) DEF TypeOK
  <1>6. FreeBacked
    BY <1>2, <1>3 DEF FreeBacked, dyco_coropool_available
  <1>7. NodesAgree
    BY <1>4 DEF NodesAgree, IsInjective, Range
  <1>8. NoLostWakeup
    BY <1>4, Zenon DEF NoLostWakeup
  <1>. QED BY <1>5, <1>6, <1>7, <1>8, Zenon DEF PoolInv

\* cp_obtain that does not wait.
LEMMA ObtainNowKeeps ==
  ASSUME PoolConstants, PoolInv, NEW c \in Client, ObtainNow(c) PROVE PoolInv'
  <1>1. TypeOK /\ FreeBacked /\ NodesAgree /\ NoLostWakeup
    BY Zenon DEF PoolInv
  <1>2. Take /\ ended = "no"
    BY Zenon DEF ObtainNow, Running
  <1>3. sublist' = sublist /\ waiting' = waiting /\ timed' = timed /\ notified' = notified
    BY Zenon DEF ObtainNow, wait
  <1>4. /\ isasymmetric' = isasymmetric /\ totalsize' = totalsize /\ ended' = "no"
        /\ freelist' \in Seq(BOOLEAN) /\ activenum' \in Nat
        /\ Len(freelist') >= totalsize - activenum'
        /\ \/ totalsize - activenum <= 0 /\ activenum' = activenum
           \/ totalsize - activenum > 0 /\ activenum' = activenum + 1
    BY <1>1, <1>2, TakeEffect, Zenon
  <1>5. TypeOK'
    BY <1>1, <1>3, <1>4, Zenon DEF TypeOK
  <1>6. FreeBacked'
    BY <1>4, Zenon DEF FreeBacked, dyco_coropool_available
  <1>7. NodesAgree'
    BY <1>1, <1>3, Zenon DEF NodesAgree
  <1>8. NoLostWakeup'
    <2>1. totalsize \in Nat /\ activenum \in Nat
      BY <1>1, Zenon DEF TypeOK
    <2>2. ASSUME sublist # <<>> PROVE totalsize' - activenum' <= Cardinality(notified)
      <3>1. totalsize - activenum <= Cardinality(notified)
        BY <1>1, <1>2, <2>2, Zenon DEF NoLostWakeup, dyco_coropool_available
      <3>2. Cardinality(notified) \in Nat
        BY <1>1, FS_Subset, FS_CardinalityType, Zenon DEF TypeOK, PoolConstants
      <3>. QED BY <1>4, <2>1, <3>1, <3>2
    <2>. QED BY <1>3, <2>2, Zenon DEF NoLostWakeup, dyco_coropool_available
  <1>. QED BY <1>5, <1>6, <1>7, <1>8, Zenon DEF PoolInv

\* cp_wait up to the yield: nothing is available.
LEMMA ObtainBlockKeeps ==
  ASSUME PoolConstants, PoolInv, NEW c \in Client, NEW hasTimeout \in BOOLEAN,
         ObtainBlock(c, hasTimeout)
  PROVE  PoolInv'
  <1>1. TypeOK /\ FreeBacked /\ NodesAgree
    BY Zenon DEF PoolInv
  <1>2. /\ c \notin waiting /\ totalsize - activenum <= 0
        /\ sublist' = Append(sublist, c) /\ waiting' = waiting \cup {c}
        /\ timed' \in {timed, timed \cup {c}} /\ notified' = notified
    BY Zenon DEF ObtainBlock, Running, dyco_coropool_available
  <1>3. /\ isasymmetric' = isasymmetric /\ totalsize' = totalsize /\ activenum' = activenum
        /\ freelist' = freelist /\ ended' = ended
    BY Zenon DEF ObtainBlock, pool
  <1>4. /\ sublist \in Seq(Client) /\ waiting \subseteq Client
        /\ timed \subseteq waiting /\ notified \subseteq waiting
    BY <1>1, Zenon DEF TypeOK
  <1>5. IsInjective(sublist) /\ Range(sublist) = waiting \ notified
    BY <1>1, Zenon DEF NodesAgree
  <1>7. IsInjective(sublist') /\ Range(sublist') = Range(sublist) \cup {c}
    BY <1>2, <1>4, <1>5, AppendOnce
  <1>8. NodesAgree'
    BY <1>2, <1>4, <1>5, <1>7, Zenon DEF NodesAgree
  <1>9. /\ sublist' \in Seq(Client) /\ waiting' \subseteq Client
        /\ timed' \subseteq waiting' /\ notified' \subseteq waiting'
    BY <1>2, <1>4
  <1>10. TypeOK'
    BY <1>1, <1>3, <1>9, Zenon DEF TypeOK
  <1>11. FreeBacked'
    BY <1>1, <1>3, Zenon DEF FreeBacked, dyco_coropool_available
  <1>12. Cardinality(notified) \in Nat /\ totalsize \in Nat /\ activenum \in Nat
    BY <1>1, FS_Subset, FS_CardinalityType, Zenon DEF TypeOK, PoolConstants
  <1>13. NoLostWakeup'
    BY <1>2, <1>3, <1>12 DEF NoLostWakeup, dyco_coropool_available
  <1>. QED BY <1>8, <1>10, <1>11, <1>13, Zenon DEF PoolInv

\* cp_wait from the yield on, and what follows it.
LEMMA ObtainEndKeeps ==
  ASSUME PoolConstants, PoolInv, NEW c \in Client, ObtainEnd(c) PROVE PoolInv'
  <1>1. TypeOK /\ FreeBacked /\ NodesAgree /\ NoLostWakeup
    BY DEF PoolInv
  <1>2. /\ c \in waiting
        /\ waiting' = waiting \ {c} /\ timed' = timed \ {c} /\ notified' = notified \ {c}
        /\ sublist' = IF c \in notified THEN sublist ELSE Unlink(sublist, c)
    BY Zenon DEF ObtainEnd
  <1>3. /\ sublist' \in Seq(Client)
        /\ waiting' \subseteq Client /\ timed' \subseteq waiting' /\ notified' \subseteq waiting'
        /\ NodesAgree'
        /\ sublist' # <<>> => sublist # <<>>
        /\ Cardinality(notified) \in Nat /\ Cardinality(notified') \in Nat
        /\ Cardinality(notified') >= Cardinality(notified) - (IF c \in notified THEN 1 ELSE 0)
    BY <1>1, <1>2, LeaveEffect, Zenon
  <1>4. CASE ended = "destroyed"
    <2>1. /\ isasymmetric' = isasymmetric /\ totalsize' = totalsize /\ activenum' = activenum
          /\ freelist' = freelist /\ ended' = "freed memory"
      BY <1>4, Zenon DEF ObtainEnd, pool
    <2>2. TypeOK'
      BY <1>1, <1>3, <2>1, Zenon DEF TypeOK
    <2>. QED BY <1>3, <2>1, <2>2, Zenon DEF PoolInv, FreeBacked, NoLostWakeup
  <1>5. CASE ended = "no"
    <2>1. Take
      BY <1>5, Zenon DEF ObtainEnd
    <2>2. /\ isasymmetric' = isasymmetric /\ totalsize' = totalsize /\ ended' = "no"
          /\ freelist' \in Seq(BOOLEAN) /\ activenum' \in Nat
          /\ Len(freelist') >= totalsize - activenum'
          /\ \/ totalsize - activenum <= 0 /\ activenum' = activenum
             \/ totalsize - activenum > 0 /\ activenum' = activenum + 1
      BY <1>1, <1>5, <2>1, TakeEffect, Zenon
    <2>3. TypeOK'
      BY <1>1, <1>3, <2>2, Zenon DEF TypeOK
    <2>4. FreeBacked'
      BY <2>2, SMTT(60) DEF FreeBacked, dyco_coropool_available
    <2>5. totalsize \in Nat /\ activenum \in Nat
      BY <1>1 DEF TypeOK
    <2>6. ASSUME sublist' # <<>> PROVE totalsize' - activenum' <= Cardinality(notified')
      <3>1. totalsize - activenum <= Cardinality(notified)
        BY <1>1, <1>3, <1>5, <2>6, Zenon DEF NoLostWakeup, dyco_coropool_available
      <3>2. Cardinality(notified') >= Cardinality(notified) - 1
        BY <1>3
      <3>. QED BY <1>3, <2>2, <2>5, <3>1, <3>2, SMTT(60)
    <2>7. NoLostWakeup'
      BY <2>6, Zenon DEF NoLostWakeup, dyco_coropool_available
    <2>. QED BY <1>3, <2>3, <2>4, <2>7, Zenon DEF PoolInv
  <1>6. ended \in {"no", "destroyed"}
    BY Zenon DEF ObtainEnd
  <1>. QED BY <1>4, <1>5, <1>6, Zenon

\* k more coroutines are available and in the free list, and cp_notify(k) tells
\* the waiters.
LEMMA AddKeeps ==
  ASSUME PoolConstants, PoolInv, ended = "no", NEW k \in Nat, cp_notify(k),
         waiting' = waiting, timed' = timed, ended' = ended, isasymmetric' = isasymmetric,
         totalsize' \in Nat, activenum' \in Nat,
         totalsize' - activenum' = totalsize - activenum + k,
         freelist' \in Seq(BOOLEAN), Len(freelist') = Len(freelist) + k
  PROVE  PoolInv'
  <1>1. TypeOK /\ FreeBacked /\ NodesAgree /\ NoLostWakeup
    BY Zenon DEF PoolInv
  <1>2. /\ sublist' \in Seq(Client)
        /\ notified' \subseteq waiting
        /\ NodesAgree'
        /\ sublist' # <<>> =>
             sublist # <<>> /\ Cardinality(notified') = Cardinality(notified) + k
    BY <1>1, NotifyEffect, Zenon
  <1>3. TypeOK'
    BY <1>1, <1>2, Zenon DEF TypeOK
  <1>4. totalsize \in Nat /\ activenum \in Nat /\ Len(freelist) \in Nat
    BY <1>1 DEF TypeOK
  <1>5. FreeBacked'
    <2>1. Len(freelist) >= totalsize - activenum
      BY <1>1, Zenon DEF FreeBacked, dyco_coropool_available
    <2>a. Len(freelist) + k >= totalsize - activenum + k
      BY <1>4, <2>1
    <2>2. Len(freelist') >= totalsize' - activenum'
      BY <2>a, Zenon
    <2>. QED BY <2>2, Zenon DEF FreeBacked, dyco_coropool_available
  <1>6. NoLostWakeup'
    <2>1. ASSUME sublist' # <<>> PROVE totalsize' - activenum' <= Cardinality(notified')
      <3>1. totalsize - activenum <= Cardinality(notified)
        BY <1>1, <1>2, <2>1, Zenon DEF NoLostWakeup, dyco_coropool_available
      <3>2. Cardinality(notified) \in Nat
        BY <1>1, FS_Subset, FS_CardinalityType, Zenon DEF TypeOK, PoolConstants
      <3>3. totalsize - activenum + k <= Cardinality(notified) + k
        BY <1>4, <3>1, <3>2
      <3>. QED BY <1>2, <2>1, <3>3, Zenon
    <2>. QED BY <2>1, Zenon DEF NoLostWakeup, dyco_coropool_available
  <1>. QED BY <1>2, <1>3, <1>5, <1>6, Zenon DEF PoolInv

LEMMA ReturnKeeps == ASSUME PoolConstants, PoolInv, Return PROVE PoolInv'
  <1>1. TypeOK
    BY Zenon DEF PoolInv
  <1>2. /\ ended = "no" /\ activenum > 0 /\ activenum' = activenum - 1
        /\ freelist' = <<TRUE>> \o freelist /\ cp_notify(1)
        /\ isasymmetric' = isasymmetric /\ totalsize' = totalsize
        /\ waiting' = waiting /\ timed' = timed /\ ended' = ended
    BY Zenon DEF Return
  <1>3. totalsize \in Nat /\ activenum \in Nat /\ freelist \in Seq(BOOLEAN)
    BY <1>1, Zenon DEF TypeOK
  <1>4. freelist' \in Seq(BOOLEAN) /\ Len(freelist') = Len(freelist) + 1
    <2>1. <<TRUE>> \in Seq(BOOLEAN) /\ Len(<<TRUE>>) = 1
      OBVIOUS
    <2>2. /\ <<TRUE>> \o freelist \in Seq(BOOLEAN)
          /\ Len(<<TRUE>> \o freelist) = Len(<<TRUE>>) + Len(freelist)
      BY <1>3, <2>1, ConcatElements, Zenon
    <2>3. Len(freelist) \in Nat
      BY <1>3
    <2>. QED BY <1>2, <2>1, <2>2, <2>3
  <1>5. activenum' \in Nat /\ totalsize' - activenum' = totalsize - activenum + 1
    BY <1>2, <1>3
  <1>. QED BY <1>2, <1>3, <1>4, <1>5, AddKeeps, Zenon

LEMMA GrowKeeps == ASSUME PoolConstants, PoolInv, NEW n \in Sizes, Grow(n) PROVE PoolInv'
  <1> DEFINE k   == n - totalsize
             new == [i \in 1..k |-> FALSE]
  <1>1. TypeOK
    BY Zenon DEF PoolInv
  <1>2. /\ ended = "no" /\ n > totalsize /\ totalsize' = n /\ activenum' = activenum
        /\ freelist' = new \o freelist /\ cp_notify(k)
        /\ isasymmetric' = isasymmetric
        /\ waiting' = waiting /\ timed' = timed /\ ended' = ended
    BY Zenon DEF Grow, Running
  <1>3. totalsize \in Nat /\ activenum \in Nat /\ freelist \in Seq(BOOLEAN) /\ n \in Nat
    BY <1>1, Zenon DEF TypeOK, PoolConstants
  <1>4. k \in Nat
    BY <1>2, <1>3
  <1> HIDE DEF k
  <1>5. new \in Seq(BOOLEAN) /\ Len(new) = k
    BY <1>4
  <1> HIDE DEF new
  <1>6. /\ new \o freelist \in Seq(BOOLEAN)
        /\ Len(new \o freelist) = Len(new) + Len(freelist)
    BY <1>3, <1>5, ConcatElements, Zenon
  <1>7. freelist' \in Seq(BOOLEAN) /\ Len(freelist') = Len(freelist) + k
    <2>1. Len(freelist) \in Nat
      BY <1>3
    <2>. QED BY <1>2, <1>4, <1>5, <1>6, <2>1
  <1>8. totalsize' \in Nat /\ activenum' \in Nat /\ totalsize' - activenum' = totalsize - activenum + k
    BY <1>2, <1>3 DEF k
  <1>. QED BY <1>2, <1>4, <1>7, <1>8, AddKeeps, Zenon

\* cp_resize to a smaller size and cp_destroy: at most as many coroutines leave
\* the free list as are no longer available.
LEMMA RemoveKeeps ==
  ASSUME PoolConstants, PoolInv, ended = "no",
         NEW n \in Int, NEW after \in {"no", "destroyed"}, FreeFirst(n, after),
         isasymmetric' = isasymmetric, activenum' = activenum, UNCHANGED wait,
         totalsize' \in Nat, totalsize' <= totalsize,
         after = "no" => (n <= 0 \/ totalsize' - activenum <= 0 \/ totalsize' + n <= totalsize),
         after = "no" => (n <= 0 \/ n <= totalsize - activenum)
  PROVE  PoolInv'
  <1>1. TypeOK /\ FreeBacked /\ NodesAgree /\ NoLostWakeup
    BY Zenon DEF PoolInv
  <1>2. /\ freelist' \in Seq(BOOLEAN)
        /\ ended' \in {"no", "destroyed", "null"}
        /\ ended' = "no" => after = "no"
        /\ ended' = "no" => Len(freelist') = (IF n > 0 THEN Len(freelist) - n ELSE Len(freelist))
    BY <1>1, FreeEffect, Zenon
  <1>3. sublist' = sublist /\ waiting' = waiting /\ timed' = timed /\ notified' = notified
    BY Zenon DEF wait
  <1>4. TypeOK'
    BY <1>1, <1>2, <1>3, Zenon DEF TypeOK
  <1>5. totalsize \in Nat /\ activenum \in Nat /\ Len(freelist) \in Nat
    BY <1>1 DEF TypeOK
  <1>6. FreeBacked'
    <2>1. ASSUME ended' = "no" PROVE Len(freelist') >= totalsize' - activenum
      <3>1. Len(freelist) >= totalsize - activenum
        BY <1>1, Zenon DEF FreeBacked, dyco_coropool_available
      <3>2. Len(freelist') = (IF n > 0 THEN Len(freelist) - n ELSE Len(freelist))
        BY <1>2, <2>1, Zenon
      <3>3. /\ n <= 0 \/ totalsize' - activenum <= 0 \/ totalsize' + n <= totalsize
            /\ n <= 0 \/ n <= totalsize - activenum
        BY <1>2, <2>1, Zenon
      <3>4. CASE n <= 0
        <4>1. Len(freelist) >= totalsize' - activenum /\ ~(n > 0)
          BY <1>5, <3>1, <3>4, SMTT(60)
        <4>. QED BY <3>2, <4>1, Zenon
      <3>5. CASE n > 0
        <4>a. n <= totalsize - activenum /\ (totalsize' - activenum <= 0 \/ totalsize' + n <= totalsize)
          BY <3>3, <3>5
        <4>b. \A l, t, u, a \in Nat :
                l >= t - a /\ n <= t - a /\ (u - a <= 0 \/ u + n <= t) => l - n >= u - a
          OBVIOUS
        <4>1. Len(freelist) - n >= totalsize' - activenum
          BY <1>5, <3>1, <4>a, <4>b, Zenon
        <4>. QED BY <3>2, <3>5, <4>1, Zenon
      <3>. QED BY <3>4, <3>5
    <2>. QED BY <2>1, Zenon DEF FreeBacked, dyco_coropool_available
  <1>7. NodesAgree'
    BY <1>1, <1>3, Zenon DEF NodesAgree
  <1>8. NoLostWakeup'
    <2>1. ASSUME sublist # <<>> PROVE totalsize' - activenum <= Cardinality(notified)
      <3>1. totalsize - activenum <= Cardinality(notified)
        BY <1>1, <2>1, Zenon DEF NoLostWakeup, dyco_coropool_available
      <3>2. Cardinality(notified) \in Nat
        BY <1>1, FS_Subset, FS_CardinalityType, Zenon DEF TypeOK, PoolConstants
      <3>. QED BY <1>5, <3>1, <3>2
    <2>. QED BY <1>3, <2>1, Zenon DEF NoLostWakeup, dyco_coropool_available
  <1>. QED BY <1>4, <1>6, <1>7, <1>8, Zenon DEF PoolInv

LEMMA ShrinkKeeps == ASSUME PoolConstants, PoolInv, NEW n \in Sizes, Shrink(n) PROVE PoolInv'
  <1> DEFINE k == IF n >= activenum THEN totalsize - n ELSE dyco_coropool_available
  <1>1. /\ ended = "no" /\ n < totalsize /\ FreeFirst(k, "no") /\ totalsize' = n
        /\ isasymmetric' = isasymmetric /\ activenum' = activenum /\ UNCHANGED wait
    BY Zenon DEF Shrink, Running
  <1>2. totalsize \in Nat /\ activenum \in Nat /\ n \in Nat
    BY Zenon DEF PoolInv, TypeOK, PoolConstants
  <1>3. k \in Int
    BY <1>2 DEF dyco_coropool_available
  <1>4. /\ k <= 0 \/ n - activenum <= 0 \/ n + k <= totalsize
        /\ k <= 0 \/ k <= totalsize - activenum
    BY <1>1, <1>2 DEF dyco_coropool_available
  <1> HIDE DEF k
  <1>. QED BY <1>1, <1>2, <1>3, <1>4, RemoveKeeps, SMTT(60)

LEMMA DestroyKeeps ==
  ASSUME PoolConstants, PoolInv, NEW c \in Client, Destroy(c) PROVE PoolInv'
  <1>1. /\ ended = "no" /\ FreeFirst(totalsize, "destroyed") /\ totalsize' = totalsize
        /\ isasymmetric' = isasymmetric /\ activenum' = activenum /\ UNCHANGED wait
    BY Zenon DEF Destroy, Running
  <1>2. totalsize \in Nat
    BY Zenon DEF PoolInv, TypeOK
  <1>3. totalsize \in Int /\ totalsize' \in Nat /\ totalsize' <= totalsize
    BY <1>1, <1>2
  <1>. QED BY <1>1, <1>3, RemoveKeeps, Zenon

LEMMA PoolStep == ASSUME PoolConstants, PoolInv, [Next]_vars PROVE PoolInv'
  <1>1. ASSUME NEW c \in Client, ObtainNow(c) PROVE PoolInv'
    BY <1>1, ObtainNowKeeps, Zenon
  <1>2. ASSUME NEW c \in Client, ObtainEnd(c) PROVE PoolInv'
    BY <1>2, ObtainEndKeeps, Zenon
  <1>3. ASSUME NEW c \in Client, Destroy(c) PROVE PoolInv'
    BY <1>3, DestroyKeeps
  <1>4. ASSUME NEW c \in Client, NEW hasTimeout \in BOOLEAN, ObtainBlock(c, hasTimeout) PROVE PoolInv'
    BY <1>4, ObtainBlockKeeps, Zenon
  <1>5. CASE Return
    BY <1>5, ReturnKeeps, Zenon
  <1>6. ASSUME NEW n \in Sizes, Grow(n) PROVE PoolInv'
    BY <1>6, GrowKeeps
  <1>7. ASSUME NEW n \in Sizes, Shrink(n) PROVE PoolInv'
    BY <1>7, ShrinkKeeps
  <1>8. CASE UNCHANGED vars
    BY <1>8, Zenon DEF vars, pool, wait, PoolInv, TypeOK, FreeBacked, NodesAgree, NoLostWakeup,
                dyco_coropool_available
  <1>. QED BY <1>1, <1>2, <1>3, <1>4, <1>5, <1>6, <1>7, <1>8, Zenon DEF Next

\* The invariant holds in every reachable state.
LEMMA PoolInvariant == ASSUME PoolConstants PROVE Spec => []PoolInv
  <1>1. Init => PoolInv
    BY PoolInit, Zenon
  <1>2. PoolInv /\ [Next]_vars => PoolInv'
    BY PoolStep, Zenon
  <1>. QED BY <1>1, <1>2, PTL DEF Spec

\* For every set of clients and all sizes: what cp_obtain computes as available
\* is in the free list, so it never dereferences a null SLIST_FIRST, and the list
\* of cp_wait has the nodes of exactly the suspended clients that have not been
\* notified, once each.
THEOREM PoolAgreesAlways == ASSUME PoolConstants PROVE Spec => []PoolAgrees
  <1>1. PoolInv => PoolAgrees
    BY Zenon DEF PoolInv, PoolAgrees
  <1>. QED BY <1>1, PoolInvariant, PTL

\* For every set of clients and all sizes: while a client waits that has not
\* been notified, no more is available than what others were notified of.
THEOREM NoLostWakeupAlways == ASSUME PoolConstants PROVE Spec => []NoLostWakeup
  <1>1. PoolInv => NoLostWakeup
    BY Zenon DEF PoolInv
  <1>. QED BY <1>1, PoolInvariant, PTL

\* For every set of clients and all sizes: a step of cp_obtain that lends a
\* coroutine leaves at most totalsize of them lent.
THEOREM NeverOverlentAlways == ASSUME PoolConstants PROVE Spec => NeverOverlent
  <1>1. ASSUME PoolInv, [Next]_vars, activenum' > activenum PROVE activenum' <= totalsize
    <2>0. totalsize \in Nat /\ activenum \in Nat /\ TypeOK /\ FreeBacked
      BY <1>1, Zenon DEF PoolInv, TypeOK
    <2>1. CASE Take /\ ended = "no"
      <3>1. \/ totalsize - activenum <= 0 /\ activenum' = activenum
            \/ totalsize - activenum > 0 /\ activenum' = activenum + 1
        BY <2>0, <2>1, TakeEffect, Zenon
      <3>. QED BY <1>1, <2>0, <3>1
    <2>2. CASE Return
      BY <1>1, <2>0, <2>2 DEF Return
    <2>3. CASE activenum' = activenum
      BY <1>1, <2>0, <2>3
    <2>4. ASSUME NEW c \in Client, ObtainNow(c) PROVE Take /\ ended = "no"
      BY <2>4, Zenon DEF ObtainNow, Running
    <2>5. ASSUME NEW c \in Client, ObtainEnd(c) PROVE (Take /\ ended = "no") \/ activenum' = activenum
      BY <2>5, Zenon DEF ObtainEnd, pool
    <2>6. ASSUME NEW c \in Client, NEW hasTimeout \in BOOLEAN, ObtainBlock(c, hasTimeout)
          PROVE  activenum' = activenum
      BY <2>6, Zenon DEF ObtainBlock, pool
    <2>7. ASSUME NEW c \in Client, Destroy(c) PROVE activenum' = activenum
      BY <2>7, Zenon DEF Destroy
    <2>8. ASSUME NEW n \in Sizes, Grow(n) \/ Shrink(n) PROVE activenum' = activenum
      BY <2>8, Zenon DEF Grow, Shrink
    <2>9. CASE UNCHANGED vars
      BY <2>9, <2>3, Zenon DEF vars, pool
    <2>. QED BY <1>1, <2>1, <2>2, <2>3, <2>4, <2>5, <2>6, <2>7, <2>8, <2>9, Zenon DEF Next
  <1>2. PoolInv /\ [Next]_vars => [activenum' > activenum => activenum' <= totalsize]_vars
    BY <1>1, Zenon
  <1>. QED BY <1>2, PoolInvariant, PTL DEF Spec, NeverOverlent

-----------------------------------------------------------------------------
(* Socket: the inductive invariant.                                       *)

\* Who waits: one coroutine at a time on each socket; one that was woken from
\* accept or send has no registration left, and these two have no timeout.
Waiting ==
  /\ pc \in [Coro -> {"run", "accept", "connect", "send", "recv"}]
  /\ reg \in [{"listen", "stream"} -> Coro \cup {None}]
  /\ woken \cup k_timed \cup expired \subseteq {c \in Coro : pc[c] # "run"}
  /\ exited = FALSE
  /\ \A fd \in {"listen", "stream"} :
       reg[fd] # None => pc[reg[fd]] # "run" /\ K!SocketOf(pc[reg[fd]]) = fd
  /\ \A c, d \in Coro :
       pc[c] # "run" /\ pc[d] # "run" /\ K!SocketOf(pc[c]) = K!SocketOf(pc[d]) => c = d
  /\ \A c \in woken : pc[c] \in {"accept", "send"} => reg[K!SocketOf(pc[c])] = None
  /\ \A c \in k_timed : pc[c] \in {"connect", "recv"}

\* The bytes the peer has not read end with a whole message, or with what the
\* suspended dyco_send has sent.
Streaming ==
  /\ conn \in {"fresh", "connecting", "refused", "established", "eof", "reset"}
  /\ backlog \in 0..MaxBacklog /\ in \in 0..MaxBacklog
  /\ out \in Seq(Nat \X Lengths) /\ Len(out) <= SendBuffer
  /\ len \in [Coro -> Nat] /\ sent \in [Coro -> Nat]
  /\ K!WholeMessages
  /\ conn = "reset" => out = <<>>
  /\ \A c \in Coro : pc[c] = "send" => len[c] \in Lengths /\ sent[c] < len[c]
  /\ out # <<>> =>
       /\ (\A c \in Coro : pc[c] # "send") => out[Len(out)][1] = out[Len(out)][2]
       /\ \A c \in Coro : pc[c] = "send" =>
            IF sent[c] = 0 THEN out[Len(out)][1] = out[Len(out)][2]
                           ELSE out[Len(out)] = <<sent[c], len[c]>>

\* Who was woken from recv by an event will get something.
Received == \A c \in woken \ expired : pc[c] = "recv" => in > 0 \/ conn \in {"eof", "reset"}

\* The inductive invariant of Socket.
SockInv == Waiting /\ Streaming /\ Received

\* The environment rule under which the results below hold.
SockRule ==
  /\ OneCaller
  /\ SendBuffer \in Nat /\ MaxBacklog \in Nat /\ Lengths \subseteq Nat \ {0} /\ None \notin Coro

-----------------------------------------------------------------------------
(* Socket: waiting.                                                        *)

\* The smaller of two numbers.
LEMMA SmallerOf ==
  ASSUME NEW a \in Int, NEW b \in Int
  PROVE  K!Min({a, b}) = IF a <= b THEN a ELSE b
  <1> DEFINE m == IF a <= b THEN a ELSE b
  <1>1. m \in {a, b} /\ \A y \in {a, b} : m <= y
    OBVIOUS
  <1>2. \A x \in {a, b} : (\A y \in {a, b} : x <= y) => x = m
    OBVIOUS
  <1> HIDE DEF m
  <1>3. (CHOOSE x \in {a, b} : \A y \in {a, b} : x <= y) = m
    BY <1>1, <1>2, Zenon
  <1> QED  BY <1>3, Zenon DEF K!Min, m

\* Whoever starts a call or goes around its loop is alone on the socket, which
\* is not registered.
LEMMA Alone ==
  ASSUME Waiting, SockRule, NEW c \in Coro, NEW call \in {"accept", "connect", "send", "recv"},
         \/ K!Calls(c, call)
         \/ K!Resumes(c, call) /\ call \in {"accept", "send"}
  PROVE  /\ \A d \in Coro \ {c} : pc[d] # "run" => K!SocketOf(pc[d]) # K!SocketOf(call)
         /\ reg[K!SocketOf(call)] = None
         /\ pc[c] \in {"run", call}
  <1>1. pc[c] = "run" \/ (pc[c] = call /\ c \in woken /\ call \in {"accept", "send"})
    BY Zenon DEF K!Calls, K!Resumes
  <1>2. \A d \in Coro \ {c} : pc[d] # "run" => K!SocketOf(pc[d]) # K!SocketOf(call)
    <2>1. CASE K!Calls(c, call)
      BY <2>1, Zenon DEF K!Calls, SockRule
    <2>2. CASE K!Resumes(c, call)
      BY <2>2, Zenon DEF K!Resumes, Waiting
    <2> QED  BY <2>1, <2>2, Zenon
  <1>3. K!SocketOf(call) \in {"listen", "stream"}
    BY Zenon DEF K!SocketOf
  <1>4. ASSUME reg[K!SocketOf(call)] # None  PROVE FALSE
    <2>1. PICK d \in Coro : d = reg[K!SocketOf(call)]
      BY <1>3, <1>4 DEF Waiting
    <2>2. pc[d] # "run" /\ K!SocketOf(pc[d]) = K!SocketOf(call)
      BY <1>3, <1>4, <2>1, Zenon DEF Waiting
    <2>3. d = c
      BY <1>2, <2>2, Zenon
    <2> QED  BY <1>1, <1>4, <2>2, <2>3, ZenonT(60) DEF Waiting
  <1> QED  BY <1>1, <1>2, <1>4, Zenon

\* waitev up to the yield.
LEMMA SuspendEffect ==
  ASSUME Waiting, SockRule, NEW c \in Coro, NEW call \in {"accept", "connect", "send", "recv"},
         NEW h \in BOOLEAN, K!Suspend(c, call, h), h => call \in {"connect", "recv"},
         \A d \in Coro \ {c} : pc[d] # "run" => K!SocketOf(pc[d]) # K!SocketOf(call),
         reg[K!SocketOf(call)] = None, pc[c] \in {"run", call}
  PROVE  Waiting' /\ pc'[c] = call /\ (\A d \in Coro \ {c} : pc'[d] = pc[d])
  <1>1. /\ exited' = FALSE
        /\ reg' = [reg EXCEPT ![K!SocketOf(call)] = c]
        /\ pc' = [pc EXCEPT ![c] = call]
        /\ k_timed' = IF h THEN k_timed \cup {c} ELSE k_timed \ {c}
        /\ woken' = woken \ {c} /\ expired' = expired \ {c}
    BY Zenon DEF K!Suspend
  <1>2. K!SocketOf(call) \in {"listen", "stream"}
    BY Zenon DEF K!SocketOf
  <1>3. /\ pc' \in [Coro -> {"run", "accept", "connect", "send", "recv"}]
        /\ pc'[c] = call /\ \A d \in Coro \ {c} : pc'[d] = pc[d]
    BY <1>1, Zenon DEF Waiting
  <1>4. /\ reg' \in [{"listen", "stream"} -> Coro \cup {None}]
        /\ reg'[K!SocketOf(call)] = c
        /\ \A fd \in {"listen", "stream"} \ {K!SocketOf(call)} : reg'[fd] = reg[fd]
    BY <1>1, <1>2, Zenon DEF Waiting
  <1>5. (woken \cup k_timed \cup expired \subseteq {d \in Coro : pc[d] # "run"})'
    BY <1>1, <1>3 DEF Waiting
  <1>6. \A fd \in {"listen", "stream"} :
          reg'[fd] # None => pc'[reg'[fd]] # "run" /\ K!SocketOf(pc'[reg'[fd]]) = fd
    <2> SUFFICES ASSUME NEW fd \in {"listen", "stream"}, reg'[fd] # None
                 PROVE  pc'[reg'[fd]] # "run" /\ K!SocketOf(pc'[reg'[fd]]) = fd
      BY Zenon
    <2>1. CASE fd = K!SocketOf(call)
      BY <1>3, <1>4, <2>1, Zenon
    <2>2. CASE fd # K!SocketOf(call)
      <3>1. reg'[fd] = reg[fd] /\ reg[fd] \in Coro
        BY <1>4, <2>2 DEF Waiting
      <3>2. pc[reg[fd]] # "run" /\ K!SocketOf(pc[reg[fd]]) = fd
        BY <3>1, Zenon DEF Waiting
      <3>3. reg[fd] # c
        BY <2>2, <3>2, Zenon
      <3> QED  BY <1>3, <3>1, <3>2, <3>3, Zenon
    <2> QED  BY <2>1, <2>2, Zenon
  <1>7. \A d, e \in Coro :
          pc'[d] # "run" /\ pc'[e] # "run" /\ K!SocketOf(pc'[d]) = K!SocketOf(pc'[e]) => d = e
    BY <1>3 DEF Waiting
  <1>8. \A d \in woken' : pc'[d] \in {"accept", "send"} => reg'[K!SocketOf(pc'[d])] = None
    <2> SUFFICES ASSUME NEW d \in woken', pc'[d] \in {"accept", "send"}
                 PROVE  reg'[K!SocketOf(pc'[d])] = None
      BY Zenon
    <2>1. d \in woken /\ d \in Coro \ {c} /\ pc'[d] = pc[d]
      BY <1>1, <1>3, Zenon DEF Waiting
    <2>2. K!SocketOf(pc[d]) # K!SocketOf(call) /\ K!SocketOf(pc[d]) \in {"listen", "stream"}
      BY <2>1, Zenon DEF K!SocketOf
    <2>3. reg[K!SocketOf(pc[d])] = None
      BY <2>1, Zenon DEF Waiting
    <2> QED  BY <1>4, <2>1, <2>2, <2>3, Zenon
  <1>9. \A d \in k_timed' : pc'[d] \in {"connect", "recv"}
    BY <1>1, <1>3, Zenon DEF Waiting
  <1> QED  BY <1>1, <1>3, <1>4, <1>5, <1>6, <1>7, <1>8, <1>9, Zenon DEF Waiting

\* waitev from the yield on, and the return of the call.
LEMMA ReturnEffect ==
  ASSUME Waiting, SockRule, NEW c \in Coro, NEW call, NEW asked, NEW value,
         K!Return(c, call, asked, value)
  PROVE  Waiting' /\ pc'[c] = "run" /\ (\A d \in Coro \ {c} : pc'[d] = pc[d])
  <1>1. /\ reg' = [fd \in DOMAIN reg |-> IF reg[fd] = c THEN None ELSE reg[fd]]
        /\ pc' = [pc EXCEPT ![c] = "run"] /\ exited' = exited
        /\ k_timed' = k_timed \ {c} /\ woken' = woken \ {c} /\ expired' = expired \ {c}
    BY Zenon DEF K!Return
  <1>2. /\ pc' \in [Coro -> {"run", "accept", "connect", "send", "recv"}]
        /\ pc'[c] = "run" /\ \A d \in Coro \ {c} : pc'[d] = pc[d]
    BY <1>1, Zenon DEF Waiting
  <1>3. /\ reg' \in [{"listen", "stream"} -> Coro \cup {None}]
        /\ \A fd \in {"listen", "stream"} : reg'[fd] = IF reg[fd] = c THEN None ELSE reg[fd]
    BY <1>1, Zenon DEF Waiting
  <1>4. (woken \cup k_timed \cup expired \subseteq {d \in Coro : pc[d] # "run"})'
    BY <1>1, <1>2 DEF Waiting
  <1>5. \A fd \in {"listen", "stream"} :
          reg'[fd] # None => pc'[reg'[fd]] # "run" /\ K!SocketOf(pc'[reg'[fd]]) = fd
    BY <1>2, <1>3 DEF Waiting
  <1>6. \A d, e \in Coro :
          pc'[d] # "run" /\ pc'[e] # "run" /\ K!SocketOf(pc'[d]) = K!SocketOf(pc'[e]) => d = e
    BY <1>2, ZenonT(60) DEF Waiting
  <1>7. \A d \in woken' : pc'[d] \in {"accept", "send"} => reg'[K!SocketOf(pc'[d])] = None
    <2> SUFFICES ASSUME NEW d \in woken', pc'[d] \in {"accept", "send"}
                 PROVE  reg'[K!SocketOf(pc'[d])] = None
      BY Zenon
    <2>1. d \in woken /\ d \in Coro \ {c} /\ pc'[d] = pc[d]
      BY <1>1, <1>2, Zenon DEF Waiting
    <2>2. K!SocketOf(pc[d]) \in {"listen", "stream"}
      BY Zenon DEF K!SocketOf
    <2>3. reg[K!SocketOf(pc[d])] = None
      BY <2>1, Zenon DEF Waiting
    <2> QED  BY <1>3, <2>1, <2>2, <2>3, Zenon
  <1>8. \A d \in k_timed' : pc'[d] \in {"connect", "recv"}
    BY <1>1, <1>2, Zenon DEF Waiting
  <1> QED  BY <1>1, <1>2, <1>3, <1>4, <1>5, <1>6, <1>7, <1>8, Zenon DEF Waiting

-----------------------------------------------------------------------------
(* Socket: the stream.                                                     *)

\* What a coroutine that sends nothing leaves of Streaming.
LEMMA StreamUntouched ==
  ASSUME Streaming, UNCHANGED <<out, len, sent>>,
         conn' \in {"fresh", "connecting", "refused", "established", "eof", "reset"},
         conn' = "reset" => conn = "reset",
         backlog' \in 0..MaxBacklog, in' \in 0..MaxBacklog,
         \A d \in Coro : pc'[d] = "send" <=> pc[d] = "send"
  PROVE  Streaming'
  BY Zenon DEF Streaming, K!WholeMessages

\* What a call leaves of Received, when nothing is taken from someone else.
LEMMA ReceivedKept ==
  ASSUME Received, Waiting, NEW c \in Coro, woken' = woken \ {c}, expired' = expired \ {c},
         \A d \in Coro \ {c} : pc'[d] = pc[d],
         conn \in {"eof", "reset"} => conn' = conn,
         \/ in' = in
         \/ \A d \in Coro \ {c} : pc[d] # "recv"
  PROVE  Received'
  BY DEF Received, Waiting

\* The bytes of a message from one place to another.
LEMMA Piece ==
  ASSUME NEW n \in Nat, n \in Lengths, NEW before \in Nat, NEW k \in Nat
  PROVE  LET p == [i \in 1..k |-> <<before + i, n>>]
         IN  /\ p \in Seq(Nat \X Lengths) /\ Len(p) = k
             /\ \A i \in 1..k : p[i] = <<before + i, n>>
  <1> DEFINE p == [i \in 1..k |-> <<before + i, n>>]
  <1>1. \A i \in 1..k : p[i] = <<before + i, n>> /\ <<before + i, n>> \in Nat \X Lengths
    OBVIOUS
  <1>2. p \in [1..k -> Nat \X Lengths]
    BY <1>1, Zenon
  <1> HIDE DEF p
  <1>3. p \in Seq(Nat \X Lengths) /\ Len(p) = k
    BY <1>2
  <1> QED  BY <1>1, <1>3, Zenon DEF p

\* Byte b may come after byte a, and every byte of s after the one before it.
Follows(a, b) == b = IF a[1] < a[2] THEN <<a[1] + 1, a[2]>> ELSE <<1, b[2]>>
Whole(s) == \A i \in 1..Len(s) - 1 : Follows(s[i], s[i + 1])

\* A message of n bytes, of which so many are sent, can go on after the last byte of s.
GoesOn(s, n, before) ==
  s # <<>> => IF before = 0 THEN s[Len(s)][1] = s[Len(s)][2] ELSE s[Len(s)] = <<before, n>>

\* p are the next bytes of such a message.
IsPiece(p, n, before) ==
  /\ p \in Seq(Nat \X Lengths) /\ before + Len(p) <= n
  /\ \A i \in 1..Len(p) : p[i] = <<before + i, n>>

\* The next byte of a message follows.
LEMMA NextFollows ==
  ASSUME NEW n \in Nat, NEW before \in Nat, before < n,
         NEW s \in Seq(Nat \X Lengths), SockRule, s # <<>>, GoesOn(s, n, before)
  PROVE  Follows(s[Len(s)], <<before + 1, n>>)
  <1>1. Len(s) \in 1..Len(s)
    OBVIOUS
  <1>2. PICK x \in Nat, y \in Lengths : s[Len(s)] = <<x, y>>
    BY <1>1
  <1>3. y \in Nat
    BY Zenon DEF SockRule
  <1>4. IF before = 0 THEN x = y ELSE x = before /\ y = n
    BY <1>2 DEF GoesOn
  <1>5. Follows(<<x, y>>, <<before + 1, n>>)
    BY <1>3, <1>4 DEF Follows
  <1> QED  BY <1>2, <1>5, Zenon

\* Appending the next bytes of a message keeps the messages whole.
LEMMA WholeAppend ==
  ASSUME NEW n \in Nat, NEW before \in Nat, SockRule, NEW s \in Seq(Nat \X Lengths), NEW p,
         IsPiece(p, n, before), Whole(s), GoesOn(s, n, before)
  PROVE  /\ s \o p \in Seq(Nat \X Lengths) /\ Len(s \o p) = Len(s) + Len(p)
         /\ Len(p) = 0 => s \o p = s
         /\ Len(p) > 0 => s \o p # <<>> /\ (s \o p)[Len(s \o p)] = <<before + Len(p), n>>
         /\ Whole(s \o p)
  <1>k. PICK k \in Nat : Len(p) = k
    BY DEF IsPiece
  <1>p. /\ p \in Seq(Nat \X Lengths) /\ before + k <= n
        /\ \A i \in 1..k : p[i] = <<before + i, n>>
    BY <1>k, Zenon DEF IsPiece
  <1> DEFINE t == s \o p
  <1>0. /\ t \in Seq(Nat \X Lengths) /\ Len(t) = Len(s) + Len(p)
        /\ \A i \in 1..(Len(s) + Len(p)) : t[i] = IF i <= Len(s) THEN s[i] ELSE p[i - Len(s)]
    BY <1>p, ConcatElements, Zenon
  <1>1. Len(t) = Len(s) + k /\ Len(s) \in Nat
    <2>1. Len(s) \in Nat
      OBVIOUS
    <2> QED  BY <1>0, <1>k, <2>1, Zenon
  <1>3. k = 0 => t = s
    <2>1. k = 0 => p = <<>>
      BY <1>k, <1>p
    <2> QED  BY <2>1
  <1> HIDE DEF t
  <1>2. /\ \A i \in 1..Len(s) : t[i] = s[i]
        /\ \A i \in 1..k : t[Len(s) + i] = p[i]
    <2>1. /\ \A i \in 1..Len(s) : i \in 1..(Len(s) + k) /\ i <= Len(s)
          /\ \A i \in 1..k : /\ Len(s) + i \in 1..(Len(s) + k) /\ ~(Len(s) + i <= Len(s))
                             /\ (Len(s) + i) - Len(s) = i
      BY <1>1
    <2>2. \A i \in 1..(Len(s) + k) : t[i] = IF i <= Len(s) THEN s[i] ELSE p[i - Len(s)]
      BY <1>0, <1>k, Zenon
    <2> QED  BY <2>1, <2>2, Zenon
  <1>4. \A i \in 1..k : t[Len(s) + i] = <<before + i, n>>
    BY <1>2, <1>p, Zenon
  <1>5. k > 0 => t # <<>> /\ t[Len(t)] = <<before + k, n>>
    BY <1>1, <1>4
  <1>6. ASSUME NEW i \in 1..Len(t) - 1  PROVE Follows(t[i], t[i + 1])
    <2>1. CASE i < Len(s)
      <3>1. i \in 1..Len(s) - 1 /\ i \in 1..Len(s) /\ i + 1 \in 1..Len(s)
        BY <1>1, <2>1
      <3>2. t[i] = s[i] /\ t[i + 1] = s[i + 1]
        BY <1>2, <3>1, Zenon
      <3> QED  BY <3>1, <3>2, Zenon DEF Whole
    <2>2. CASE i = Len(s)
      <3>1. Len(s) \in 1..Len(s) /\ 1 \in 1..k
        BY <1>1, <2>2
      <3>2. t[i] = s[Len(s)] /\ t[i + 1] = <<before + 1, n>> /\ s # <<>> /\ before < n
        BY <1>2, <1>4, <1>p, <2>2, <3>1, SMTT(60)
      <3> QED  BY <3>2, NextFollows, Zenon
    <2>3. CASE i > Len(s)
      <3>1. PICK j \in 1..k : i = Len(s) + j
        <4>1. i - Len(s) \in 1..k /\ i = Len(s) + (i - Len(s))
          BY <1>1, <2>3
        <4> QED  BY <4>1, Zenon
      <3>2. j + 1 \in 1..k /\ i + 1 = Len(s) + (j + 1)
        BY <1>1, <3>1
      <3>3. t[i] = <<before + j, n>>
        BY <1>4, <3>1, Zenon
      <3>4. t[i + 1] = <<before + (j + 1), n>>
        BY <1>4, <3>2, Zenon
      <3>5. before + j < n /\ before + (j + 1) = before + j + 1
        BY <1>p, <3>2
      <3> QED  BY <3>3, <3>4, <3>5 DEF Follows
    <2> QED  BY <1>1, <2>1, <2>2, <2>3, SMTT(60)
  <1> QED  BY <1>k, <1>0, <1>1, <1>3, <1>5, <1>6, Zenon DEF Whole, t

\* send_f and what dyco_send does after it.
LEMMA TrySendKeeps ==
  ASSUME SockInv, SockRule, NEW c \in Coro, NEW n \in Lengths, NEW before \in Nat, before < n,
         K!TrySend(c, n, before),
         \A d \in Coro \ {c} : pc[d] # "run" => K!SocketOf(pc[d]) # "stream",
         reg["stream"] = None, pc[c] \in {"run", "send"},
         GoesOn(out, n, before)
  PROVE  SockInv'
  <1>1. Waiting /\ Streaming /\ Received
    BY Zenon DEF SockInv
  <1>2. n \in Nat /\ SendBuffer \in Nat /\ Len(out) \in Nat /\ Len(out) <= SendBuffer
    BY <1>1 DEF SockRule, Streaming
  <1>3. \A d \in Coro \ {c} : pc[d] \notin {"send", "recv"}
    BY Zenon DEF K!SocketOf
  <1>4. PICK k \in Nat : /\ k = K!Min({n - before, SendBuffer - Len(out)})
                         /\ before + k <= n /\ Len(out) + k <= SendBuffer
    <2>1. n - before \in Nat /\ SendBuffer - Len(out) \in Nat
      BY <1>2
    <2>2. K!Min({n - before, SendBuffer - Len(out)})
            = IF n - before <= SendBuffer - Len(out) THEN n - before ELSE SendBuffer - Len(out)
      BY <2>1, SmallerOf
    <2> QED  BY <1>2, <2>1, <2>2, SMTT(60)
  <1>5. UNCHANGED <<conn, backlog, in>>
    BY Zenon DEF K!TrySend
  <1>6. CASE conn = "reset"
    <2>1. K!SendFails(c, n, before) /\ K!Kept(c, 0, 0) /\ out' = out
      BY <1>6, Zenon DEF K!TrySend
    <2>2. PICK v : K!Return(c, "send", n, v)
      BY <2>1, Zenon DEF K!SendFails
    <2>3. Waiting' /\ pc'[c] = "run" /\ (\A d \in Coro \ {c} : pc'[d] = pc[d])
      BY <1>1, <2>2, ReturnEffect, Zenon
    <2>4. Received'
      <3>1. woken' = woken \ {c} /\ expired' = expired \ {c}
        BY <2>2, Zenon DEF K!Return
      <3> QED  BY <1>1, <1>3, <1>5, <2>3, <3>1, ReceivedKept, Zenon
    <2>5. len' \in [Coro -> Nat] /\ sent' \in [Coro -> Nat]
      BY <1>1, <2>1, Zenon DEF K!Kept, Streaming
    <2>6. \A d \in Coro : pc'[d] # "send"
      BY <1>3, <2>3, Zenon
    <2>7. Streaming'
      BY <1>1, <1>5, <1>6, <2>1, <2>5, <2>6, Zenon DEF Streaming, K!WholeMessages
    <2> QED  BY <2>3, <2>4, <2>7, Zenon DEF SockInv
  <1>7. CASE conn # "reset"
    <2> DEFINE p == [i \in 1..k |-> <<before + i, n>>]
    <2>1. /\ out' = out \o p
          /\ IF before + k = n
             THEN K!Return(c, "send", n, n) /\ K!Kept(c, 0, 0)
             ELSE K!Suspend(c, "send", FALSE) /\ K!Kept(c, n, before + k)
      BY <1>4, <1>7, Zenon DEF K!TrySend
    <2>2. p \in Seq(Nat \X Lengths) /\ Len(p) = k /\ \A i \in 1..k : p[i] = <<before + i, n>>
      BY <1>2, Piece
    <2> HIDE DEF p
    <2>3. Whole(out) /\ out \in Seq(Nat \X Lengths)
      BY <1>1, Zenon DEF Streaming, K!WholeMessages, Whole, Follows
    <2>4. /\ out' \in Seq(Nat \X Lengths) /\ Len(out') = Len(out) + k
          /\ k = 0 => out' = out
          /\ k > 0 => out' # <<>> /\ out'[Len(out')] = <<before + k, n>>
          /\ Whole(out')
      <3>1. out' = out \o p
        BY <2>1, Zenon
      <3>2. n \in Nat /\ Len(p) = k
        BY <1>2, <2>2, Zenon
      <3>4. IsPiece(p, n, before)
        BY <1>4, <2>2, Zenon DEF IsPiece
      <3>3. /\ out \o p \in Seq(Nat \X Lengths) /\ Len(out \o p) = Len(out) + Len(p)
            /\ Len(p) = 0 => out \o p = out
            /\ Len(p) > 0 => out \o p # <<>> /\ (out \o p)[Len(out \o p)] = <<before + Len(p), n>>
            /\ Whole(out \o p)
        BY <2>3, <3>2, <3>4, WholeAppend, Zenon
      <3> QED  BY <3>1, <3>2, <3>3, Zenon
    <2>5. K!WholeMessages'
      BY <2>4, Zenon DEF K!WholeMessages, Whole, Follows
    <2>6. Len(out') <= SendBuffer
      BY <1>4, <2>4, Zenon
    <2>7. CASE before + k = n
      <3>1. K!Return(c, "send", n, n) /\ K!Kept(c, 0, 0)
        BY <2>1, <2>7, Zenon
      <3>2. Waiting' /\ pc'[c] = "run" /\ (\A d \in Coro \ {c} : pc'[d] = pc[d])
        BY <1>1, <3>1, ReturnEffect, Zenon
      <3>3. Received'
        <4>1. woken' = woken \ {c} /\ expired' = expired \ {c}
          BY <3>1, Zenon DEF K!Return
        <4> QED  BY <1>1, <1>3, <1>5, <3>2, <4>1, ReceivedKept, SMTT(60)
      <3>4. len' \in [Coro -> Nat] /\ sent' \in [Coro -> Nat]
        BY <1>1, <3>1, Zenon DEF K!Kept, Streaming
      <3>5. \A d \in Coro : pc'[d] # "send"
        BY <1>3, <3>2
      <3>6. out'[Len(out')][1] = out'[Len(out')][2]
        <4>1. k > 0
          BY <1>2, <1>4, <2>7
        <4> QED  BY <2>4, <2>7, <4>1, SMTT(60)
      <3>7. Streaming'
        BY <1>1, <1>5, <1>7, <2>4, <2>5, <2>6, <3>4, <3>5, <3>6, Zenon DEF Streaming
      <3> QED  BY <3>2, <3>3, <3>7 DEF SockInv
    <2>8. CASE before + k # n
      <3>1. K!Suspend(c, "send", FALSE) /\ K!Kept(c, n, before + k)
        BY <2>1, <2>8, Zenon
      <3>2. Waiting' /\ pc'[c] = "send" /\ (\A d \in Coro \ {c} : pc'[d] = pc[d])
        <4>1. K!SocketOf("send") = "stream"
          BY Zenon DEF K!SocketOf
        <4> QED  BY <1>1, <3>1, <4>1, SuspendEffect, Zenon
      <3>3. Received'
        <4>1. woken' = woken \ {c} /\ expired' = expired \ {c}
          BY <3>1, Zenon DEF K!Suspend
        <4> QED  BY <1>1, <1>3, <1>5, <3>2, <4>1, ReceivedKept, Zenon
      <3>4. /\ len' \in [Coro -> Nat] /\ sent' \in [Coro -> Nat]
            /\ len'[c] = n /\ sent'[c] = before + k
        <4>1. before + k \in Nat
          BY <1>4
        <4>2. len \in [Coro -> Nat] /\ sent \in [Coro -> Nat]
          BY <1>1, Zenon DEF Streaming
        <4> QED  BY <1>2, <3>1, <4>1, <4>2, Zenon DEF K!Kept
      <3>5. \A d \in Coro : pc'[d] = "send" <=> d = c
        BY <1>3, <3>2, Zenon
      <3>6. sent'[c] < len'[c] /\ len'[c] \in Lengths
        BY <1>2, <1>4, <2>8, <3>4, SMTT(60)
      <3>7. out' # <<>> => IF sent'[c] = 0 THEN out'[Len(out')][1] = out'[Len(out')][2]
                                           ELSE out'[Len(out')] = <<sent'[c], len'[c]>>
        <4>1. CASE k = 0
          <5>1. out' = out /\ sent'[c] = before /\ len'[c] = n
            BY <2>4, <3>4, <4>1
          <5> QED  BY <5>1, Zenon DEF GoesOn
        <4>2. CASE k > 0
          <5>1. sent'[c] = before + k /\ len'[c] = n /\ sent'[c] # 0
            BY <3>4, <4>2
          <5>2. out'[Len(out')] = <<sent'[c], len'[c]>>
            BY <2>4, <4>2, <5>1, Zenon
          <5> QED  BY <5>1, <5>2, Zenon
        <4> QED  BY <1>4, <4>1, <4>2
      <3>8. Streaming'
        BY <1>1, <1>5, <1>7, <2>4, <2>5, <2>6, <3>4, <3>5, <3>6, <3>7, Zenon DEF Streaming
      <3> QED  BY <3>2, <3>3, <3>8, Zenon DEF SockInv
    <2> QED  BY <2>7, <2>8, Zenon
  <1> QED  BY <1>6, <1>7, Zenon

\* recv_f and the return of dyco_recv.
LEMMA TryRecvKeeps ==
  ASSUME SockInv, SockRule, NEW c \in Coro, NEW n \in Lengths, K!TryRecv(c, n),
         \A d \in Coro \ {c} : pc[d] # "run" => K!SocketOf(pc[d]) # "stream", pc[c] # "send"
  PROVE  SockInv'
  <1>1. Waiting /\ Streaming /\ Received
    BY Zenon DEF SockInv
  <1>2. in' \in 0..MaxBacklog
    <2>1. n \in Nat /\ in \in Nat /\ in <= MaxBacklog /\ MaxBacklog \in Nat
      BY <1>1 DEF SockRule, Streaming
    <2>2. K!Min({n, in}) = IF n <= in THEN n ELSE in
      BY <2>1, SmallerOf
    <2>3. in' = in - K!Min({n, in})
      BY Zenon DEF K!TryRecv
    <2> QED  BY <2>1, <2>2, <2>3, SMTT(60)
  <1>3. PICK v : K!Return(c, "recv", n, v)
    BY Zenon DEF K!TryRecv
  <1>4. UNCHANGED <<conn, backlog, out, len, sent>>
    BY Zenon DEF K!TryRecv
  <1>5. Waiting' /\ pc'[c] = "run" /\ (\A d \in Coro \ {c} : pc'[d] = pc[d])
    BY <1>1, <1>3, ReturnEffect, Zenon
  <1>6. Received'
    <2>1. woken' = woken \ {c} /\ expired' = expired \ {c}
      BY <1>3, Zenon DEF K!Return
    <2>2. \A d \in Coro \ {c} : pc[d] # "recv"
      BY Zenon DEF K!SocketOf
    <2> QED  BY <1>1, <1>4, <1>5, <2>1, <2>2, ReceivedKept, Zenon
  <1>7. Streaming'
    BY <1>1, <1>2, <1>4, <1>5, StreamUntouched, Zenon DEF Streaming
  <1> QED  BY <1>5, <1>6, <1>7, Zenon DEF SockInv

\* A call that waits without sending.
LEMMA WaitKeeps ==
  ASSUME SockInv, SockRule, NEW c \in Coro, NEW call \in {"accept", "connect", "recv"},
         NEW h \in BOOLEAN, K!Suspend(c, call, h), h => call \in {"connect", "recv"},
         \/ K!Calls(c, call)
         \/ K!Resumes(c, call) /\ call \in {"accept", "send"},
         conn' \in {"fresh", "connecting", "refused", "established", "eof", "reset"},
         conn' = conn \/ (conn = "fresh" /\ conn' = "connecting"),
         UNCHANGED <<backlog, out, in, len, sent>>
  PROVE  SockInv'
  <1>1. Waiting /\ Streaming /\ Received
    BY Zenon DEF SockInv
  <1>2. /\ \A d \in Coro \ {c} : pc[d] # "run" => K!SocketOf(pc[d]) # K!SocketOf(call)
        /\ reg[K!SocketOf(call)] = None
        /\ pc[c] \in {"run", call}
    BY <1>1, Alone, Zenon
  <1>3. Waiting' /\ pc'[c] = call /\ (\A d \in Coro \ {c} : pc'[d] = pc[d])
    BY <1>1, <1>2, SuspendEffect, Zenon
  <1>4. Received'
    <2>1. woken' = woken \ {c} /\ expired' = expired \ {c}
      BY Zenon DEF K!Suspend
    <2>2. conn \in {"eof", "reset"} => conn' = conn
      BY Zenon
    <2> QED  BY <1>1, <1>3, <2>1, <2>2, ReceivedKept, Zenon
  <1>5. Streaming'
    <2>1. \A d \in Coro : pc'[d] = "send" <=> pc[d] = "send"
      BY <1>2, <1>3, Zenon
    <2>2. conn' = "reset" => conn = "reset"
      BY Zenon
    <2> QED  BY <1>1, <2>1, <2>2, StreamUntouched, Zenon DEF Streaming
  <1> QED  BY <1>3, <1>4, <1>5, Zenon DEF SockInv

\* A call that returns without having sent or received.
LEMMA EndKeeps ==
  ASSUME SockInv, SockRule, NEW c \in Coro, NEW call, NEW asked, NEW value,
         K!Return(c, call, asked, value), pc[c] # "send",
         backlog' \in 0..MaxBacklog, UNCHANGED <<conn, out, in, len, sent>>
  PROVE  SockInv'
  <1>1. Waiting /\ Streaming /\ Received
    BY Zenon DEF SockInv
  <1>2. Waiting' /\ pc'[c] = "run" /\ (\A d \in Coro \ {c} : pc'[d] = pc[d])
    BY <1>1, ReturnEffect, Zenon
  <1>3. Received'
    <2>1. woken' = woken \ {c} /\ expired' = expired \ {c}
      BY Zenon DEF K!Return
    <2> QED  BY <1>1, <1>2, <2>1, ReceivedKept, Zenon
  <1>4. Streaming'
    <2>1. \A d \in Coro : pc'[d] = "send" <=> pc[d] = "send"
      BY <1>2, Zenon
    <2> QED  BY <1>1, <2>1, StreamUntouched, Zenon DEF Streaming
  <1> QED  BY <1>2, <1>3, <1>4, Zenon DEF SockInv

\* accept_f and what dyco_accept does after it.
LEMMA TryAcceptKeeps ==
  ASSUME SockInv, SockRule, NEW c \in Coro, K!TryAccept(c),
         K!Calls(c, "accept") \/ K!Resumes(c, "accept")
  PROVE  SockInv'
  <1>1. UNCHANGED <<conn, out, in, len, sent>>
    BY Zenon DEF K!TryAccept
  <1>2. conn \in {"fresh", "connecting", "refused", "established", "eof", "reset"} /\ backlog \in 0..MaxBacklog
    BY Zenon DEF SockInv, Streaming
  <1>3. CASE backlog > 0
    <2>1. PICK v : backlog' \in {backlog, backlog - 1} /\ K!Return(c, "accept", 0, v)
      BY <1>3 DEF K!TryAccept
    <2>2. backlog' \in 0..MaxBacklog
      BY <1>2, <1>3, <2>1, SMTT(60) DEF SockRule
    <2>3. pc[c] # "send"
      BY Zenon DEF K!Calls, K!Resumes
    <2> QED  BY <1>1, <2>1, <2>2, <2>3, EndKeeps, Zenon
  <1>4. CASE ~(backlog > 0)
    <2>1. K!Suspend(c, "accept", FALSE) /\ backlog' = backlog
      BY <1>4, Zenon DEF K!TryAccept
    <2>2. conn' \in {"fresh", "connecting", "refused", "established", "eof", "reset"} /\ conn' = conn
      BY <1>1, <1>2, Zenon
    <2>3. conn' = conn \/ (conn = "fresh" /\ conn' = "connecting")
      BY <2>2, Zenon
    <2>4. UNCHANGED <<backlog, out, in, len, sent>>
      BY <1>1, <2>1, Zenon
    <2> QED  BY <2>1, <2>2, <2>3, <2>4, WaitKeeps, Zenon
  <1> QED  BY <1>3, <1>4, Zenon

\* The peer.
LEMMA PeerKeeps ==
  ASSUME SockInv, SockRule, K!Peer
  PROVE  SockInv'
  <1>1. Waiting /\ Streaming /\ Received
    BY Zenon DEF SockInv
  <1>2. UNCHANGED <<reg, pc, woken, k_timed, expired, len, sent, exited>>
    BY Zenon DEF K!Peer, K!ConnectAnswer, K!Incoming, K!PeerRead, K!PeerWrite, K!PeerClose, K!PeerReset, K!waits
  <1>3. Waiting'
    BY <1>1, <1>2, Zenon DEF Waiting
  <1>4. backlog \in 0..MaxBacklog /\ in \in 0..MaxBacklog /\ MaxBacklog \in Nat
    BY <1>1, Zenon DEF Streaming, SockRule
  <1>5. ASSUME NEW answer \in {"established", "refused"}, K!ConnectAnswer(answer)
        PROVE  SockInv'
    <2>1. UNCHANGED <<backlog, out, in>> /\ conn' = answer /\ conn = "connecting"
      BY <1>5, Zenon DEF K!ConnectAnswer
    <2>2. Received'
      BY <1>1, <1>2, <2>1, Zenon DEF Received
    <2> QED  BY <1>1, <1>2, <1>3, <1>4, <2>1, <2>2, StreamUntouched, Zenon DEF SockInv
  <1>6. CASE K!Incoming \/ K!PeerWrite
    <2>1. UNCHANGED <<conn, out>> /\ backlog' \in 0..MaxBacklog /\ in' \in 0..MaxBacklog /\ in' >= in
      BY <1>4, <1>6 DEF K!Incoming, K!PeerWrite
    <2>2. Received'
      BY <1>1, <1>2, <1>4, <2>1, SMTT(60) DEF Received
    <2> QED  BY <1>1, <1>2, <1>3, <2>1, <2>2, StreamUntouched, ZenonT(60) DEF SockInv, Streaming
  <1>7. CASE K!PeerRead
    <2>1. UNCHANGED <<conn, backlog, in>> /\ out # <<>> /\ out' = Tail(out)
      BY <1>7, Zenon DEF K!PeerRead
    <2>2. Received'
      BY <1>1, <1>2, <2>1, Zenon DEF Received
    <2>3. /\ out' \in Seq(Nat \X Lengths) /\ Len(out') = Len(out) - 1 /\ Len(out) \in Nat \ {0}
          /\ \A i \in 1..Len(out) - 1 : out'[i] = out[i + 1]
      <3>1. out \in Seq(Nat \X Lengths)
        BY <1>1, Zenon DEF Streaming
      <3> QED  BY <2>1, <3>1
    <2>4. Whole(out')
      <3> SUFFICES ASSUME NEW i \in 1..Len(out') - 1  PROVE Follows(out'[i], out'[i + 1])
        BY Zenon DEF Whole
      <3>1. i \in 1..Len(out) - 1 /\ i + 1 \in 1..Len(out) - 1
        BY <2>3
      <3>2. out'[i] = out[i + 1] /\ out'[i + 1] = out[(i + 1) + 1]
        BY <2>3, <3>1, Zenon
      <3>3. Whole(out)
        BY <1>1, Zenon DEF Streaming, K!WholeMessages, Whole, Follows
      <3> QED  BY <3>1, <3>2, <3>3, Zenon DEF Whole
    <2>5. out' # <<>> => out'[Len(out')] = out[Len(out)]
      <3>1. out' # <<>> => Len(out') > 0
        BY <2>3
      <3> QED  BY <2>3, <3>1
    <2>6. K!WholeMessages'
      BY <2>4, Zenon DEF K!WholeMessages, Whole, Follows
    <2>7. out = <<>> => out' = <<>>
      BY <2>1, Zenon
    <2>8. Len(out') <= SendBuffer
      BY <1>1, <2>3 DEF Streaming, SockRule
    <2>9. out' # <<>> =>
            /\ (\A c \in Coro : pc[c] # "send") => out'[Len(out')][1] = out'[Len(out')][2]
            /\ \A c \in Coro : pc[c] = "send" =>
                 IF sent[c] = 0 THEN out'[Len(out')][1] = out'[Len(out')][2]
                                ELSE out'[Len(out')] = <<sent[c], len[c]>>
      BY <1>1, <2>1, <2>5, Zenon DEF Streaming
    <2>10. Streaming'
      BY <1>1, <1>2, <2>1, <2>3, <2>6, <2>7, <2>8, <2>9, Zenon DEF Streaming
    <2> QED  BY <1>3, <2>2, <2>10, Zenon DEF SockInv
  <1>8. CASE K!PeerClose
    <2>1. conn' = "eof" /\ UNCHANGED <<backlog, out, in>>
      BY <1>8, Zenon DEF K!PeerClose
    <2>2. Received'
      BY <2>1, Zenon DEF Received
    <2> QED  BY <1>1, <1>2, <1>3, <1>4, <2>1, <2>2, StreamUntouched, Zenon DEF SockInv
  <1>9. CASE K!PeerReset
    <2>1. conn' = "reset" /\ out' = <<>> /\ in' = 0 /\ backlog' = backlog
      BY <1>9, Zenon DEF K!PeerReset
    <2>2. Received'
      BY <2>1, Zenon DEF Received
    <2>3. out' \in Seq(Nat \X Lengths) /\ Len(out') = 0
      BY <2>1
    <2>4. K!WholeMessages'
      BY <2>3, SMTT(60) DEF K!WholeMessages
    <2>5. Streaming'
      BY <1>1, <1>2, <1>4, <2>1, <2>3, <2>4, SMTT(60) DEF Streaming, SockRule
    <2> QED  BY <1>3, <2>2, <2>5, SMTT(60) DEF SockInv
  <1> QED  BY <1>5, <1>6, <1>7, <1>8, <1>9, Zenon DEF K!Peer

\* The scheduler: an event or a timeout.
LEMMA WakeKeeps ==
  ASSUME SockInv, SockRule,
         \/ \E fd \in {"listen", "stream"} : K!EventWakes(fd)
         \/ \E c \in Coro : K!TimerWakes(c)
  PROVE  SockInv'
  <1>1. Waiting /\ Streaming /\ Received
    BY Zenon DEF SockInv
  <1>2. UNCHANGED <<conn, backlog, out, in, pc, k_timed, len, sent, exited>>
    BY Zenon DEF K!EventWakes, K!TimerWakes
  <1>3. Streaming'
    BY <1>1, <1>2, StreamUntouched, Zenon DEF Streaming
  <1>4. ASSUME NEW fd \in {"listen", "stream"}, K!EventWakes(fd)
        PROVE  SockInv'
    <2>1. PICK d \in Coro : d = reg[fd] /\ pc[d] # "run" /\ K!SocketOf(pc[d]) = fd
      BY <1>1, <1>4, Zenon DEF K!EventWakes, Waiting
    <2>2. /\ woken' = woken \cup {d} /\ reg' = [reg EXCEPT ![fd] = None] /\ expired' = expired
          /\ K!Ready(pc[d])
      BY <1>4, <2>1, Zenon DEF K!EventWakes
    <2>3. Received'
      <3>1. pc[d] = "recv" => in > 0 \/ conn \in {"eof", "reset"}
        BY <2>2, Zenon DEF K!Ready
      <3> QED  BY <1>1, <1>2, <2>2, <3>1, Zenon DEF Received
    <2>4. /\ reg' \in [{"listen", "stream"} -> Coro \cup {None}] /\ reg'[fd] = None
          /\ \A e \in {"listen", "stream"} \ {fd} : reg'[e] = reg[e]
      BY <1>1, <2>2, Zenon DEF Waiting
    <2>5. \A c \in woken' : pc'[c] \in {"accept", "send"} => reg'[K!SocketOf(pc'[c])] = None
      <3> SUFFICES ASSUME NEW c \in woken', pc[c] \in {"accept", "send"}
                   PROVE  reg'[K!SocketOf(pc[c])] = None
        BY <1>2, Zenon
      <3>1. CASE K!SocketOf(pc[c]) = fd
        BY <2>4, <3>1, Zenon
      <3>2. CASE K!SocketOf(pc[c]) # fd
        <4>1. c \in woken
          BY <2>1, <2>2, <3>2, Zenon
        <4>2. reg[K!SocketOf(pc[c])] = None
          BY <1>1, <4>1, Zenon DEF Waiting
        <4>3. K!SocketOf(pc[c]) \in {"listen", "stream"}
          BY Zenon DEF K!SocketOf
        <4> QED  BY <2>4, <3>2, <4>2, <4>3, Zenon
      <3> QED  BY <3>1, <3>2, Zenon
    <2>6. \A e \in {"listen", "stream"} :
            reg'[e] # None => pc'[reg'[e]] # "run" /\ K!SocketOf(pc'[reg'[e]]) = e
      BY <1>1, <1>2, <2>4, SMTT(60) DEF Waiting
    <2>7. (woken \cup k_timed \cup expired \subseteq {c \in Coro : pc[c] # "run"})'
      BY <1>1, <1>2, <2>1, <2>2, SMTT(60) DEF Waiting
    <2>8. Waiting'
      BY <1>1, <1>2, <2>4, <2>5, <2>6, <2>7, Zenon DEF Waiting
    <2> QED  BY <1>3, <2>3, <2>8, Zenon DEF SockInv
  <1>5. ASSUME NEW c \in Coro, K!TimerWakes(c)
        PROVE  SockInv'
    <2>1. /\ c \in k_timed /\ woken' = woken \cup {c} /\ expired' = expired \cup {c} /\ reg' = reg
      BY <1>5, Zenon DEF K!TimerWakes
    <2>2. Received'
      BY <1>1, <1>2, <2>1, Zenon DEF Received
    <2>3. pc[c] \in {"connect", "recv"}
      BY <1>1, <2>1, Zenon DEF Waiting
    <2>4. Waiting'
      BY <1>1, <1>2, <2>1, <2>3, Zenon DEF Waiting
    <2> QED  BY <1>3, <2>2, <2>4, Zenon DEF SockInv
  <1> QED  BY <1>4, <1>5, Zenon

\* A dyco_send, from its start or after a wait.
LEMMA SendKeeps ==
  ASSUME SockInv, SockRule, NEW c \in Coro,
         K!SendEnd(c) \/ \E n \in Lengths : K!dyco_send(c, n)
  PROVE  SockInv'
  <1>1. Waiting /\ Streaming
    BY Zenon DEF SockInv
  <1>2. K!SocketOf("send") = "stream"
    BY Zenon DEF K!SocketOf
  <1>3. /\ \A d \in Coro \ {c} : pc[d] # "run" => K!SocketOf(pc[d]) # "stream"
        /\ reg["stream"] = None
        /\ pc[c] \in {"run", "send"}
    <2>1. K!Calls(c, "send") \/ K!Resumes(c, "send")
      BY Zenon DEF K!SendEnd, K!dyco_send
    <2> QED  BY <1>1, <1>2, <2>1, Alone, Zenon
  <1>4. CASE K!SendEnd(c)
    <2>1. pc[c] = "send" /\ K!TrySend(c, len[c], sent[c])
      BY <1>4, Zenon DEF K!SendEnd, K!Resumes
    <2>2. len[c] \in Lengths /\ sent[c] \in Nat /\ sent[c] < len[c] /\ GoesOn(out, len[c], sent[c])
      BY <1>1, <2>1, Zenon DEF Streaming, GoesOn
    <2> QED  BY <1>3, <2>1, <2>2, TrySendKeeps, Zenon
  <1>5. ASSUME NEW n \in Lengths, K!dyco_send(c, n)
        PROVE  SockInv'
    <2>1. pc[c] = "run" /\ K!TrySend(c, n, 0)
      BY <1>5, Zenon DEF K!dyco_send, K!Calls
    <2>2. \A d \in Coro : pc[d] # "send"
      BY <1>2, <1>3, <2>1, Zenon
    <2>3. GoesOn(out, n, 0)
      BY <1>1, <2>2, Zenon DEF Streaming, GoesOn
    <2>4. 0 < n /\ 0 \in Nat
      BY DEF SockRule
    <2> QED  BY <1>3, <2>1, <2>3, <2>4, TrySendKeeps, Zenon
  <1> QED  BY <1>4, <1>5, Zenon

\* A dyco_recv, from its start or after a wait.
LEMMA RecvKeeps ==
  ASSUME SockInv, SockRule, NEW c \in Coro, NEW n \in Lengths, K!RecvEnd(c, n) \/ K!dyco_recv(c, n)
  PROVE  SockInv'
  <1>1. K!SocketOf("recv") = "stream"
    BY Zenon DEF K!SocketOf
  <1>2. CASE K!RecvEnd(c, n)
    <2>1. pc[c] = "recv" /\ K!TryRecv(c, n)
      BY <1>2, Zenon DEF K!RecvEnd, K!Resumes
    <2>2. \A d \in Coro \ {c} : pc[d] # "run" => K!SocketOf(pc[d]) # "stream"
      BY <1>1, <2>1, Zenon DEF SockInv, Waiting
    <2> QED  BY <2>1, <2>2, TryRecvKeeps, Zenon
  <1>3. CASE K!dyco_recv(c, n)
    <2>1. K!Calls(c, "recv")
      BY <1>3, Zenon DEF K!dyco_recv
    <2>2. CASE K!Ready("recv")
      <3>1. K!TryRecv(c, n)
        BY <1>3, <2>2, Zenon DEF K!dyco_recv
      <3>2. pc[c] # "send" /\ \A d \in Coro \ {c} : pc[d] # "run" => K!SocketOf(pc[d]) # "stream"
        BY <1>1, <2>1, Zenon DEF K!Calls, SockRule
      <3> QED  BY <3>1, <3>2, TryRecvKeeps, Zenon
    <2>3. CASE ~K!Ready("recv")
      <3>1. K!Suspend(c, "recv", TRUE) /\ UNCHANGED <<conn, backlog, out, in, len, sent>>
        BY <1>3, <2>3, Zenon DEF K!dyco_recv
      <3>2. conn' \in {"fresh", "connecting", "refused", "established", "eof", "reset"} /\ conn' = conn
        BY <3>1, Zenon DEF SockInv, Streaming
      <3>3. conn' = conn \/ (conn = "fresh" /\ conn' = "connecting")
        BY <3>2, Zenon
      <3>4. UNCHANGED <<backlog, out, in, len, sent>>
        BY <3>1, Zenon
      <3> QED  BY <2>1, <3>1, <3>2, <3>3, <3>4, WaitKeeps, Zenon
    <2> QED  BY <2>2, <2>3, Zenon
  <1> QED  BY <1>2, <1>3, Zenon

\* dyco_connect, its start and its end.
LEMMA ConnectKeeps ==
  ASSUME SockInv, SockRule, NEW c \in Coro, K!ConnectEnd(c) \/ K!dyco_connect(c)
  PROVE  SockInv'
  <1>1. CASE K!ConnectEnd(c)
    <2>1. PICK v : K!Return(c, "connect", 0, v)
      BY <1>1, Zenon DEF K!ConnectEnd
    <2>2. pc[c] # "send" /\ UNCHANGED <<conn, backlog, out, in, len, sent>>
      BY <1>1, Zenon DEF K!ConnectEnd, K!Resumes
    <2>3. backlog' \in 0..MaxBacklog
      BY <2>2, Zenon DEF SockInv, Streaming
    <2> QED  BY <2>1, <2>2, <2>3, EndKeeps, Zenon
  <1>2. CASE K!dyco_connect(c)
    <2>1. /\ K!Calls(c, "connect") /\ K!Suspend(c, "connect", TRUE)
          /\ conn = "fresh" /\ conn' = "connecting"
          /\ UNCHANGED <<backlog, out, in, len, sent>>
      BY <1>2, Zenon DEF K!dyco_connect
    <2> QED  BY <2>1, WaitKeeps, Zenon
  <1> QED  BY <1>1, <1>2, Zenon

LEMMA SockInvStep ==
  ASSUME SockInv, SockRule, [K!Next]_(K!vars)
  PROVE  SockInv'
  <1>1. CASE UNCHANGED K!vars
    <2>1. UNCHANGED <<conn, backlog, out, in, reg, pc, woken, k_timed, expired, len, sent, exited>>
      BY <1>1, Zenon DEF K!vars, K!waits
    <2>2. Waiting'
      BY <2>1, Zenon DEF SockInv, Waiting
    <2>3. Streaming'
      BY <2>1, StreamUntouched, Zenon DEF SockInv, Streaming
    <2>4. Received'
      BY <2>1, Zenon DEF SockInv, Received
    <2> QED  BY <2>2, <2>3, <2>4, Zenon DEF SockInv
  <1>2. CASE K!Peer
    BY <1>2, PeerKeeps, Zenon
  <1>3. CASE \E fd \in {"listen", "stream"} : K!EventWakes(fd)
    BY <1>3, WakeKeeps, Zenon
  <1>4. ASSUME NEW c \in Coro,
               \/ K!TimerWakes(c) \/ K!AcceptEnd(c) \/ K!ConnectEnd(c) \/ K!SendEnd(c)
               \/ K!accept(c) \/ K!connect(c)
               \/ \E n \in Lengths : \/ K!send(c, n) \/ K!sendto(c, n) \/ K!recv(c, n)
                                     \/ K!recvfrom(c, n) \/ K!RecvEnd(c, n)
        PROVE  SockInv'
    <2>1. CASE K!TimerWakes(c)
      BY <2>1, WakeKeeps, Zenon
    <2>2. CASE K!AcceptEnd(c) \/ K!accept(c)
      BY <2>2, TryAcceptKeeps, Zenon DEF K!AcceptEnd, K!accept, K!dyco_accept
    <2>3. CASE K!ConnectEnd(c) \/ K!connect(c)
      BY <2>3, ConnectKeeps, Zenon DEF K!connect
    <2>4. CASE K!SendEnd(c) \/ \E n \in Lengths : K!send(c, n) \/ K!sendto(c, n)
      BY <2>4, SendKeeps, Zenon DEF K!send, K!sendto, K!dyco_sendto
    <2>5. ASSUME NEW n \in Lengths, K!recv(c, n) \/ K!recvfrom(c, n) \/ K!RecvEnd(c, n)
          PROVE  SockInv'
      BY <2>5, RecvKeeps, Zenon DEF K!recv, K!recvfrom, K!dyco_recvfrom
    <2> QED  BY <1>4, <2>1, <2>2, <2>3, <2>4, <2>5, Zenon
  <1> QED  BY <1>1, <1>2, <1>3, <1>4, Zenon DEF K!Next

LEMMA SockInvInit ==
  ASSUME SockRule, K!Init
  PROVE  SockInv
  <1>1. Waiting
    BY Zenon DEF K!Init, Waiting, SockRule
  <1>2. out \in Seq(Nat \X Lengths) /\ Len(out) = 0
    BY DEF K!Init
  <1>3. Streaming
    BY <1>2 DEF K!Init, Streaming, SockRule, K!WholeMessages
  <1>4. Received
    BY Zenon DEF K!Init, Received
  <1> QED  BY <1>1, <1>3, <1>4, Zenon DEF SockInv

LEMMA SockInvGives ==
  ASSUME SockInv
  PROVE  StreamAgrees
  <1>1. \A fd \in DOMAIN reg : reg[fd] = None \/ K!SocketOf(pc[reg[fd]]) = fd
    <2>1. DOMAIN reg = {"listen", "stream"}
      BY Zenon DEF SockInv, Waiting
    <2> QED  BY <2>1, Zenon DEF SockInv, Waiting
  <1>2. K!TypeOK
    <2>1. exited \in BOOLEAN
      BY Zenon DEF SockInv, Waiting
    <2> QED  BY <1>1, <2>1, Zenon DEF SockInv, Waiting, Streaming, K!TypeOK
  <1> QED  BY <1>2, Zenon DEF SockInv, Waiting, Streaming, StreamAgrees, K!StreamAgrees, K!NeverExits

\* When one coroutine at a time uses a socket, whatever the sizes of the
\* buffers and the messages: what the peer reads are whole messages in order,
\* however often dyco_send waits, and no call registers a socket that is
\* registered already, so that DYCO_MUST in waitev never ends the process.
THEOREM StreamAgreesAlways ==
  ASSUME OneCaller
  PROVE  K!Spec => []StreamAgrees
  <1>1. SockRule
    BY SocketConstants, Zenon DEF SockRule, SocketConstants
  <1>2. K!Init => SockInv
    BY <1>1, SockInvInit, Zenon
  <1>3. SockInv /\ [K!Next]_(K!vars) => SockInv'
    BY <1>1, SockInvStep, Zenon
  <1>4. SockInv => StreamAgrees
    BY SockInvGives, Zenon
  <1> QED  BY <1>2, <1>3, <1>4, PTL DEF K!Spec

\* What a call that returned tells about its result.
Justified(who, call, asked, value) ==
  /\ call = "send" => value = asked \/ conn = "reset"
  /\ call = "recv" => value > 0 \/ conn = "reset" \/ (value = 0 /\ conn = "eof" /\ in = 0)
                      \/ (value = -1 /\ who \in expired)
  /\ call = "connect" => value = -1 \/ conn \in {"established", "eof"}

\* Every step that sets ret is a return, with a result that is justified.
LEMMA ReturnsJustified ==
  ASSUME SockInv, SockRule, K!Next, ret' # ret
  PROVE  \E who, call, asked, value : ret' = <<who, call, asked, value>> /\ Justified(who, call, asked, value)
  <1>1. ASSUME NEW c \in Coro, NEW n, NEW before, K!TrySend(c, n, before)
        PROVE  \E v : ret' = <<c, "send", n, v>> /\ (v = n \/ conn = "reset")
    <2>1. \E v : K!Return(c, "send", n, v) /\ (v = n \/ conn = "reset")
      BY <1>1, Zenon DEF K!TrySend, K!SendFails
    <2> QED  BY <2>1, Zenon DEF K!Return
  <1>2. ASSUME NEW c \in Coro, NEW n \in Lengths, K!TryRecv(c, n),
               in > 0 \/ c \in expired \/ conn \in {"eof", "reset"}
        PROVE  \E v : ret' = <<c, "recv", n, v>> /\ Justified(c, "recv", n, v)
    <2>1. PICK v \in IF in > 0 THEN {K!Min({n, in})} ELSE K!NothingReceived :
               K!Return(c, "recv", n, v)
      BY <1>2, Zenon DEF K!TryRecv
    <2>2. CASE in > 0
      <3>1. n \in Nat /\ n > 0 /\ in \in Nat
        BY DEF SockRule, SockInv, Streaming
      <3>2. v = K!Min({n, in}) /\ K!Min({n, in}) = IF n <= in THEN n ELSE in
        BY <2>1, <2>2, <3>1, SmallerOf, SMTT(60)
      <3>3. v > 0
        BY <2>2, <3>1, <3>2, Zenon
      <3> QED  BY <2>1, <3>3, ZenonT(60) DEF K!Return, Justified
    <2>3. CASE ~(in > 0)
      <3>1. in = 0
        BY <2>3 DEF SockInv, Streaming, SockRule
      <3>2. v \in K!NothingReceived
        BY <2>1, <2>3, Zenon
      <3>3. \/ conn = "reset"
            \/ v = 0 /\ conn = "eof"
            \/ v = -1 /\ c \in expired
        BY <1>2, <2>3, <3>2, SMTT(60) DEF K!NothingReceived
      <3>4. Justified(c, "recv", n, v)
        BY <3>1, <3>3, Zenon DEF Justified
      <3> QED  BY <2>1, <3>4, Zenon DEF K!Return
    <2> QED  BY <2>2, <2>3, Zenon
  <1>3. ASSUME NEW c \in Coro, K!TryAccept(c)
        PROVE  \E v : ret' = <<c, "accept", 0, v>>
    BY <1>3, Zenon DEF K!TryAccept, K!Return
  <1>4. PICK c \in Coro :
           \/ K!AcceptEnd(c) \/ K!ConnectEnd(c) \/ K!SendEnd(c) \/ K!accept(c)
           \/ \E n \in Lengths : \/ K!send(c, n) \/ K!sendto(c, n) \/ K!recv(c, n)
                                 \/ K!recvfrom(c, n) \/ K!RecvEnd(c, n)
    <2>1. ~K!Peer
      BY Zenon DEF K!Peer, K!ConnectAnswer, K!Incoming, K!PeerRead, K!PeerWrite, K!PeerClose, K!PeerReset
    <2>2. \A fd \in {"listen", "stream"} : ~K!EventWakes(fd)
      BY Zenon DEF K!EventWakes
    <2>3. \A c \in Coro : ~K!TimerWakes(c) /\ ~K!connect(c)
      BY Zenon DEF K!TimerWakes, K!connect, K!dyco_connect
    <2> QED  BY <2>1, <2>2, <2>3, Zenon DEF K!Next
  <1>5. CASE K!AcceptEnd(c) \/ K!accept(c)
    BY <1>3, <1>5, SMTT(60) DEF K!AcceptEnd, K!accept, K!dyco_accept, Justified
  <1>6. CASE K!ConnectEnd(c)
    BY <1>6, Zenon DEF K!ConnectEnd, K!Return, Justified
  <1>7. CASE K!SendEnd(c) \/ \E n \in Lengths : K!send(c, n) \/ K!sendto(c, n)
    <2>1. \E n, before : K!TrySend(c, n, before)
      BY <1>7, Zenon DEF K!SendEnd, K!send, K!sendto, K!dyco_sendto, K!dyco_send
    <2> QED  BY <1>1, <2>1, SMTT(60) DEF Justified
  <1>8. ASSUME NEW n \in Lengths, K!recv(c, n) \/ K!recvfrom(c, n) \/ K!RecvEnd(c, n)
        PROVE  \E v : ret' = <<c, "recv", n, v>> /\ Justified(c, "recv", n, v)
    <2>1. K!TryRecv(c, n)
      BY <1>8, Zenon DEF K!recv, K!recvfrom, K!dyco_recvfrom, K!dyco_recv, K!RecvEnd
    <2>2. in > 0 \/ c \in expired \/ conn \in {"eof", "reset"}
      <3>1. CASE K!RecvEnd(c, n)
        BY <3>1, Zenon DEF K!RecvEnd, K!Resumes, SockInv, Received
      <3>2. CASE K!recv(c, n) \/ K!recvfrom(c, n)
        BY <3>2, Zenon DEF K!recv, K!recvfrom, K!dyco_recvfrom, K!dyco_recv, K!Ready
      <3> QED  BY <1>8, <3>1, <3>2, Zenon
    <2> QED  BY <1>2, <2>1, <2>2, Zenon
  <1> QED  BY <1>4, <1>5, <1>6, <1>7, <1>8, Zenon

\* Under the same rule a dyco_send returns less than its length only after a
\* reset, a dyco_recv fails only after its timeout or a reset and tells the end
\* only when nothing is left to receive, and a dyco_connect succeeds only when
\* the connection is established.
THEOREM ResultsJustifiedAlways ==
  ASSUME OneCaller
  PROVE  K!Spec => ResultsJustified
  <1>1. SockRule
    BY SocketConstants, SMTT(60) DEF SockRule, SocketConstants
  <1>2. K!Init => SockInv
    BY <1>1, SockInvInit, SMTT(60)
  <1>3. SockInv /\ [K!Next]_(K!vars) => SockInv'
    BY <1>1, SockInvStep, SMTT(60)
  <1>4. SockInv /\ [K!Next]_(K!vars) =>
          [ret' # ret =>
             LET c == ret'[1]
                 v == ret'[4]
             IN  /\ ret'[2] = "send" => v = ret'[3] \/ conn = "reset"
                 /\ ret'[2] = "recv" => v > 0 \/ conn = "reset" \/ (v = 0 /\ conn = "eof" /\ in = 0)
                                        \/ (v = -1 /\ c \in expired)
                 /\ ret'[2] = "connect" => v = -1 \/ conn \in {"established", "eof"}]_(K!vars)
    <2> SUFFICES ASSUME SockInv, K!Next, ret' # ret
                 PROVE  Justified(ret'[1], ret'[2], ret'[3], ret'[4])
      BY Zenon DEF Justified
    <2>1. PICK who, call, asked, value :
             ret' = <<who, call, asked, value>> /\ Justified(who, call, asked, value)
      BY <1>1, ReturnsJustified, Zenon
    <2>2. ret'[1] = who /\ ret'[2] = call /\ ret'[3] = asked /\ ret'[4] = value
      BY <2>1, Zenon
    <2> QED  BY <2>1, <2>2, Zenon
  <1> QED  BY <1>2, <1>3, <1>4, PTL DEF K!Spec, ResultsJustified, K!ResultsJustified

=============================================================================
