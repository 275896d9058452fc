------------------------------ MODULE Coropool ------------------------------
(***************************************************************************)
(* dyco_coropool.c.  A pool lends coroutines: obtain takes one from the    *)
(* free list, or waits for one on an eventfd; a coroutine that ends is     *)
(* returned and the first waiter is notified.  Clients are coroutines that *)
(* call obtain, resize and destroy; a waiting client stands for its        *)
(* eventfd and its node.  The pooled coroutines are alike except that one  *)
(* that was never obtained has no scheduler: the free list is a sequence   *)
(* of the answers to "was it obtained before".                             *)
(***************************************************************************)
EXTENDS FiniteSets, Sublist

CONSTANTS
  Client,         \* the coroutines that use the pool
  Sizes,          \* the sizes it is created with and resized to
  Symmetric,      \* environment: the kinds of pool, a set of Booleans
  QuietDestroy,   \* environment: nobody waits for a pool that is destroyed
  MaxFree         \* bound: the pool does not grow past this many free coroutines

VARIABLES
  isasymmetric, totalsize, activenum, freelist, sublist,
  waiting,     \* the clients suspended in cp_wait
  timed,       \* those of them whose wait has a timeout
  notified,    \* those whose eventfd has been written
  ended        \* how the pool ended: "no", "destroyed", or the process died

pool == <<isasymmetric, totalsize, activenum, freelist>>
wait == <<sublist, waiting, timed, notified>>
vars == <<pool, wait, ended>>

dyco_coropool_available == totalsize - activenum

\* cp_create: every coroutine is new.
Init ==
  /\ isasymmetric \in {~s : s \in Symmetric}
  /\ totalsize \in Sizes \ {0}
  /\ freelist = [i \in 1..totalsize |-> FALSE]
  /\ activenum = 0
  /\ sublist = <<>> /\ waiting = {} /\ timed = {} /\ notified = {}
  /\ ended = "no"

Running(c) == c \notin waiting /\ ended = "no"

-----------------------------------------------------------------------------
(* cp_obtain.                                                              *)

\* Mutant of Take: a waiter does not look again.
Take_Unchecked ==
  IF freelist = <<>> THEN ended' = "null" /\ UNCHANGED pool
  ELSE /\ freelist' = Tail(freelist)
       /\ activenum' = activenum + 1
       /\ UNCHANGED <<isasymmetric, totalsize, ended>>

\* What follows cp_wait: with none available its answer is returned; else the
\* first coroutine is taken, and dereferenced even if there is none.
Take ==
  IF dyco_coropool_available <= 0 THEN UNCHANGED <<pool, ended>>
  ELSE IF freelist = <<>> THEN ended' = "null" /\ UNCHANGED pool
  ELSE /\ freelist' = Tail(freelist)
       /\ activenum' = activenum + 1
       /\ UNCHANGED <<isasymmetric, totalsize, ended>>

\* With timeout 0, or one available, it does not wait.
ObtainNow(c) ==
  /\ Running(c)
  /\ Take
  /\ UNCHANGED wait

\* Mutant of ObtainBlock: the node goes to the front.
ObtainBlock_Front(c, hasTimeout) ==
  /\ Running(c)
  /\ dyco_coropool_available <= 0
  /\ sublist' = <<c>> \o sublist
  /\ waiting' = waiting \cup {c}
  /\ timed' = IF hasTimeout THEN timed \cup {c} ELSE timed
  /\ UNCHANGED <<pool, notified, ended>>

\* cp_wait up to the yield.
ObtainBlock(c, hasTimeout) ==
  /\ Running(c)
  /\ dyco_coropool_available <= 0
  /\ sublist' = Append(sublist, c)
  /\ waiting' = waiting \cup {c}
  /\ timed' = IF hasTimeout THEN timed \cup {c} ELSE timed
  /\ UNCHANGED <<pool, notified, ended>>

\* Mutant of ObtainEnd: the node of a wait that timed out stays.
ObtainEnd_NodeKept(c) ==
  /\ c \in waiting /\ ended = "no"
  /\ c \in notified \/ c \in timed
  /\ waiting' = waiting \ {c} /\ timed' = timed \ {c} /\ notified' = notified \ {c}
  /\ UNCHANGED sublist
  /\ Take

\* From the yield on: a wait that timed out takes its node from the list, one
\* that was notified has none there any more.  Either reads the pool again, so
\* it may find the coroutine gone, and reads freed memory after a destroy.
ObtainEnd(c) ==
  /\ c \in waiting /\ ended \in {"no", "destroyed"}
  /\ c \in notified \/ c \in timed
  /\ waiting' = waiting \ {c} /\ timed' = timed \ {c} /\ notified' = notified \ {c}
  /\ sublist' = IF c \in notified THEN sublist ELSE Unlink(sublist, c)
  /\ IF ended = "destroyed" THEN ended' = "freed memory" /\ UNCHANGED pool
                            ELSE Take

-----------------------------------------------------------------------------
\* The first n waiters, or all, are notified; their nodes leave the list.
cp_notify(n) ==
  LET m == IF n < Len(sublist) THEN n ELSE Len(sublist)
  IN  /\ notified' = notified \cup Range(SubSeq(sublist, 1, m))
      /\ sublist' = SubSeq(sublist, m + 1, Len(sublist))

\* Mutant of Return: a waiter is notified only when the pool was exhausted.
Return_OnlyFirst ==
  /\ ended = "no" /\ activenum > 0
  /\ activenum' = activenum - 1
  /\ freelist' = <<TRUE>> \o freelist
  /\ cp_notify(IF dyco_coropool_available = 0 THEN 1 ELSE 0)
  /\ UNCHANGED <<isasymmetric, totalsize, waiting, timed, ended>>

\* cp_return of an active coroutine: by resume when a symmetric one has ended,
\* by dyco_asymcpool_return for an asymmetric one.
Return ==
  /\ ended = "no" /\ activenum > 0
  /\ activenum' = activenum - 1
  /\ freelist' = <<TRUE>> \o freelist
  /\ cp_notify(1)
  /\ UNCHANGED <<isasymmetric, totalsize, waiting, timed, ended>>

\* cp_resize to a larger size: one waiter is notified for each new coroutine.
Grow(n) ==
  /\ \E c \in Client : Running(c)
  /\ n > totalsize
  /\ Len(freelist) + n - totalsize <= MaxFree
  /\ freelist' = [i \in 1..(n - totalsize) |-> FALSE] \o freelist
  /\ cp_notify(n - totalsize)
  /\ totalsize' = n
  /\ UNCHANGED <<isasymmetric, activenum, waiting, timed, ended>>

\* The first n coroutines leave the list.  The test of isasymmetric is the wrong
\* way round.  Those of a symmetric pool go to dyco_asymcoro_free, which does
\* not find them in cid_co_map and returns (its assert is compiled out): they
\* are never freed.  Those of an asymmetric one go to freecoro, which follows
\* co->sched, null in a coroutine that was never obtained.
FreeFirst(n, after) ==
  IF n > Len(freelist) \/ (isasymmetric /\ \E i \in 1..n : ~freelist[i])
  THEN ended' = "null" /\ UNCHANGED freelist
  ELSE /\ freelist' = IF n > 0 THEN SubSeq(freelist, n + 1, Len(freelist)) ELSE freelist
       /\ ended' = after

\* cp_resize to a smaller size.
Shrink(n) ==
  /\ \E c \in Client : Running(c)
  /\ n < totalsize
  /\ FreeFirst(IF n >= activenum THEN totalsize - n ELSE dyco_coropool_available, "no")
  /\ totalsize' = n
  /\ UNCHANGED <<isasymmetric, activenum, wait>>

\* cp_destroy: with active coroutines it returns -1, else it frees totalsize
\* coroutines and the pool.
Destroy(c) ==
  /\ Running(c)
  /\ activenum = 0
  /\ QuietDestroy => waiting = {}
  /\ FreeFirst(totalsize, "destroyed")
  /\ UNCHANGED <<isasymmetric, totalsize, activenum, wait>>

Next ==
  \/ \E c \in Client :
       \/ ObtainNow(c) \/ ObtainEnd(c) \/ Destroy(c)
       \/ \E hasTimeout \in BOOLEAN : ObtainBlock(c, hasTimeout)
  \/ Return
  \/ \E n \in Sizes : Grow(n) \/ Shrink(n)

Spec == Init /\ [][Next]_vars

\* The scheduler resumes a client whose eventfd is readable, and the functions
\* that pooled coroutines run end.
Fairness == WF_vars(Return) /\ \A c \in Client : WF_vars(c \in notified /\ ObtainEnd(c))

FairSpec == Spec /\ Fairness

-----------------------------------------------------------------------------
(* Properties.                                                             *)

\* The variables have their types.
TypeOK ==
  /\ isasymmetric \in BOOLEAN
  /\ totalsize \in Nat /\ activenum \in Nat
  /\ freelist \in Seq(BOOLEAN) /\ sublist \in Seq(Client)
  /\ waiting \subseteq Client /\ timed \subseteq waiting /\ notified \subseteq waiting
  /\ ended \in {"no", "destroyed", "freed memory", "null"}

\* What cp_obtain computes as available is in the free list, although the two
\* are kept apart and a resize below the active coroutines makes the former
\* negative: SLIST_FIRST is never null in cp_obtain.
FreeBacked == ended = "no" => Len(freelist) >= dyco_coropool_available

\* The list has the nodes of exactly the suspended clients that have not been
\* notified, once each, also after a timeout: cp_notify never writes a closed
\* eventfd and no node is freed twice.
NodesAgree == IsInjective(sublist) /\ Range(sublist) = waiting \ notified

\* The two counters, the free list and the list of nodes agree with who waits.
PoolAgrees == TypeOK /\ FreeBacked /\ NodesAgree

\* Nobody waits in vain: while a client waits that has not been notified, no
\* more coroutines are available than clients have been notified and have not
\* run yet, whatever returns, resizes, timeouts and other calls of obtain
\* happened in between.
NoLostWakeup ==
  (ended = "no" /\ sublist # <<>>) => dyco_coropool_available <= Cardinality(notified)

\* cp_obtain never lends more coroutines than the pool has: a client that was
\* notified looks again, because another one may have taken the coroutine or
\* resized the pool before it ran.
NeverOverlent == [][activenum' > activenum => activenum' <= totalsize]_vars

\* Every client that waits without timeout returns from obtain once the
\* functions of the pooled coroutines end: the list is a queue.
WaitersServed ==
  \A c \in Client : (c \in waiting \ timed) ~> (c \notin waiting \/ ended # "no")

=============================================================================
