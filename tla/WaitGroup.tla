----------------------------- MODULE WaitGroup -----------------------------
(***************************************************************************)
(* dyco_waitgroup.c.  Coroutines join with add, report with done, and wait *)
(* until a number of members, or all of them, have reported.  A wait has   *)
(* an eventfd of its own from its call to its return, so the coroutine     *)
(* stands for its eventfd, and a subscriber list is a sequence of          *)
(* coroutines.  WaitBlock is the call up to the yield and WaitEnd what     *)
(* follows it; the scheduler resumes a coroutine whose eventfd is readable *)
(* or whose timer has expired.                                             *)
(***************************************************************************)
EXTENDS FiniteSets, Sublist

CONSTANTS
  Coro,     \* the coroutines
  Target,   \* the positive targets they wait for
  ReportOnce  \* environment: a member calls done at most once

ALL  == 0    \* target <= 0: until all members have reported
NONE == -1   \* not waiting

ASSUME WaitGroupConstants ==
  /\ IsFiniteSet(Coro)
  /\ Target \subseteq Nat \ {0}
  /\ ReportOnce \in BOOLEAN

VARIABLES
  cid_set, tot_size, finished, final_sublist, target_sublist_map,
  goal,      \* what each suspended coroutine waits for
  timed,     \* the suspended coroutines whose wait has a timeout
  count,     \* the counters of their eventfds
  ret,       \* the result of the last wait that returned
  reported   \* history: the members that have called done

group == <<cid_set, tot_size, finished, final_sublist, target_sublist_map>>
vars  == <<group, goal, timed, count, ret, reported>>

Init ==
  /\ cid_set = {} /\ tot_size = 0 /\ finished = 0
  /\ final_sublist = <<>>
  /\ target_sublist_map = [t \in Target |-> <<>>]
  /\ goal = [c \in Coro |-> NONE]
  /\ timed = {}
  /\ count = [c \in Coro |-> 0]
  /\ ret = 0
  /\ reported = {}

Running(c) == goal[c] = NONE

-----------------------------------------------------------------------------
\* dyco_waitgroup_add of an id that is not in the set, by any coroutine that
\* runs; another id changes nothing.
Add(c) ==
  /\ \E d \in Coro : Running(d)
  /\ c \notin cid_set
  /\ cid_set' = cid_set \cup {c}
  /\ tot_size' = tot_size + 1
  /\ UNCHANGED <<finished, final_sublist, target_sublist_map, goal, timed, count,
                 ret, reported>>

\* wg_notify of every subscriber in the list: eventfd_write adds to the counter.
wg_notify(counts, list, n) ==
  [c \in Coro |-> counts[c] + IF c \in Range(list) THEN n ELSE 0]

\* htable_find in target_sublist_map.
Subscribers(n) == IF n \in Target THEN target_sublist_map[n] ELSE <<>>

\* Mutant of Done: the final list is notified before the last member reports.
Done_Early(c) ==
  LET n == finished + 1
      once == wg_notify(count, Subscribers(n), n)
  IN  /\ Running(c)
      /\ c \in cid_set
      /\ ReportOnce => c \notin reported
      /\ finished' = n
      /\ count' = IF n + 1 >= tot_size THEN wg_notify(once, final_sublist, n)
                                       ELSE once
      /\ reported' = reported \cup {c}
      /\ UNCHANGED <<cid_set, tot_size, final_sublist, target_sublist_map, goal,
                     timed, ret>>

\* Mutant of Done: only the subscribers of the target are notified.
Done_NotFinal(c) ==
  LET n == finished + 1
  IN  /\ Running(c)
      /\ c \in cid_set
      /\ ReportOnce => c \notin reported
      /\ finished' = n
      /\ count' = wg_notify(count, Subscribers(n), n)
      /\ reported' = reported \cup {c}
      /\ UNCHANGED <<cid_set, tot_size, final_sublist, target_sublist_map, goal,
                     timed, ret>>

\* dyco_waitgroup_done by a member; anyone else gets 0.
Done(c) ==
  LET n == finished + 1
      once == wg_notify(count, Subscribers(n), n)
  IN  /\ Running(c)
      /\ c \in cid_set
      /\ ReportOnce => c \notin reported
      /\ finished' = n
      /\ count' = IF n = tot_size THEN wg_notify(once, final_sublist, n) ELSE once
      /\ reported' = reported \cup {c}
      /\ UNCHANGED <<cid_set, tot_size, final_sublist, target_sublist_map, goal,
                     timed, ret>>

-----------------------------------------------------------------------------
(* dyco_waitgroup_wait.                                                    *)

\* With timeout 0 it only reads the number.
WaitPoll(c) ==
  /\ Running(c)
  /\ ret' = finished
  /\ UNCHANGED <<group, goal, timed, count, reported>>

Reached(t) == IF t = ALL THEN finished = tot_size ELSE finished >= t

WaitNow(c, t) ==
  /\ Running(c)
  /\ Reached(t)
  /\ ret' = IF t = ALL THEN finished ELSE t
  /\ UNCHANGED <<group, goal, timed, count, reported>>

\* A new node follows the first one of the final list, and goes to the front of
\* a target's list.
Subscribe(c, t) ==
  IF t = ALL
  THEN /\ final_sublist' = IF final_sublist = <<>> THEN <<c>>
                           ELSE <<Head(final_sublist), c>> \o Tail(final_sublist)
       /\ UNCHANGED target_sublist_map
  ELSE /\ target_sublist_map' = [target_sublist_map EXCEPT ![t] = <<c>> \o @]
       /\ UNCHANGED final_sublist

\* Mutant of Unsubscribe: the node of a target's list stays.
Unsubscribe_TargetKept(c, t) ==
  IF t = ALL
  THEN /\ final_sublist' = Unlink(final_sublist, c)
       /\ UNCHANGED target_sublist_map
  ELSE UNCHANGED <<final_sublist, target_sublist_map>>

Unsubscribe(c, t) ==
  IF t = ALL
  THEN /\ final_sublist' = Unlink(final_sublist, c)
       /\ UNCHANGED target_sublist_map
  ELSE /\ target_sublist_map' = [target_sublist_map EXCEPT ![t] = Unlink(@, c)]
       /\ UNCHANGED final_sublist

WaitBlock(c, t, hasTimeout) ==
  /\ Running(c)
  /\ ~Reached(t)
  /\ Subscribe(c, t)
  /\ goal' = [goal EXCEPT ![c] = t]
  /\ timed' = IF hasTimeout THEN timed \cup {c} ELSE timed
  /\ UNCHANGED <<cid_set, tot_size, finished, count, ret, reported>>

\* eventfd_read fails after a timeout without a notification.
WaitEnd(c) ==
  /\ ~Running(c)
  /\ count[c] > 0 \/ c \in timed
  /\ ret' = IF count[c] > 0 THEN count[c] ELSE -1
  /\ Unsubscribe(c, goal[c])
  /\ goal' = [goal EXCEPT ![c] = NONE]
  /\ timed' = timed \ {c}
  /\ count' = [count EXCEPT ![c] = 0]
  /\ UNCHANGED <<cid_set, tot_size, finished, reported>>

-----------------------------------------------------------------------------
\* dyco_waitgroup_destroy, and the creation of the next group: with a null
\* pointer no call in between changes anything.  wgsublist_free frees the nodes
\* that waiters will look for, so the program destroys a group in which nobody
\* waits.
Destroy(c) ==
  /\ \A d \in Coro : Running(d)
  /\ cid_set' = {} /\ tot_size' = 0 /\ finished' = 0
  /\ final_sublist' = <<>>
  /\ target_sublist_map' = [t \in Target |-> <<>>]
  /\ reported' = {}
  /\ UNCHANGED <<goal, timed, count, ret>>

Next ==
  \E c \in Coro :
    \/ Destroy(c)
    \/ Add(c) \/ Done(c) \/ WaitPoll(c) \/ WaitEnd(c)
    \/ \E t \in Target \cup {ALL} :
         WaitNow(c, t) \/ \E hasTimeout \in BOOLEAN : WaitBlock(c, t, hasTimeout)

Spec == Init /\ [][Next]_vars

\* The scheduler resumes a coroutine whose eventfd is readable.
Fairness == \A c \in Coro : WF_vars(count[c] > 0 /\ WaitEnd(c))

FairSpec == Spec /\ Fairness

-----------------------------------------------------------------------------
(* Properties.                                                             *)

\* The variables have their types; tot_size is the size of cid_set.
TypeOK ==
  /\ cid_set \subseteq Coro /\ tot_size = Cardinality(cid_set)
  /\ finished \in Nat
  /\ final_sublist \in Seq(Coro)
  /\ target_sublist_map \in [Target -> Seq(Coro)]
  /\ goal \in [Coro -> Target \cup {ALL, NONE}]
  /\ timed \subseteq Coro
  /\ count \in [Coro -> Nat]
  /\ ret \in Int
  /\ reported \subseteq cid_set

\* A subscriber list holds the nodes of exactly the coroutines suspended for
\* it, once each: no node outlives its eventfd, also after a timeout, so
\* wg_notify never writes a closed one.
ListsAgree ==
  /\ TypeOK
  /\ IsInjective(final_sublist) /\ Range(final_sublist) = {c \in Coro : goal[c] = ALL}
  /\ \A t \in Target :
       /\ IsInjective(target_sublist_map[t])
       /\ Range(target_sublist_map[t]) = {c \in Coro : goal[c] = t}

\* dyco_waitgroup_done notifies a waiter only when what it waits for has
\* happened: as many members as its target have reported, or every member.
NotifiedInTime ==
  [][\A c \in Coro : count'[c] > count[c] =>
       IF goal[c] = ALL THEN reported' = cid_set
                        ELSE Cardinality(reported') = goal[c]]_vars

\* A coroutine returns once what it waits for has happened.
WaitersReleased ==
  \A c \in Coro : \A t \in Target \cup {ALL} :
    (goal[c] = t /\ Reached(t)) ~> Running(c)

=============================================================================
