-------------------------- MODULE WaitGroupProofs --------------------------
(***************************************************************************)
(* Proofs about WaitGroup: the subscriber lists agree with who waits, and  *)
(* when members report once, done notifies in time.                        *)
(***************************************************************************)
EXTENDS WaitGroup, QueueLemmas

\* The coroutines that wait for t.
Waiters(t) == {c \in Coro : goal[c] = t}

\* A list has the nodes of the coroutines of S, once each.
Holds(list, S) == list \in Seq(Coro) /\ IsInjective(list) /\ Range(list) = S

\* When members report once, finished counts those that have.
Counted == ReportOnce => finished = Cardinality(reported)

\* The inductive invariant.
GroupInv == ListsAgree /\ Counted

LEMMA CoroCard ==
  ASSUME NEW T \in SUBSET Coro
  PROVE  IsFiniteSet(T) /\ Cardinality(T) \in Nat
  BY WaitGroupConstants, FS_Subset, FS_CardinalityType

LEMMA ListsHold ==
  ListsAgree <=> /\ TypeOK /\ Holds(final_sublist, Waiters(ALL))
                 /\ \A t \in Target : Holds(target_sublist_map[t], Waiters(t))
  BY DEF ListsAgree, Holds, Waiters, TypeOK

LEMMA EmptyHolds == Holds(<<>>, {})
  BY DEF Holds, IsInjective, Range

LEMMA GroupInit == Init => GroupInv
  <1> SUFFICES ASSUME Init PROVE GroupInv
    OBVIOUS
  <1> USE DEF Init
  <1>1. Cardinality({}) = 0
    BY FS_EmptySet
  <1>2. TypeOK
    BY <1>1 DEF TypeOK, ALL, NONE
  <1>3. \A t \in Target \cup {ALL} : Waiters(t) = {}
    BY WaitGroupConstants DEF ALL, NONE, Waiters
  <1>4. ListsAgree
    BY <1>2, <1>3, EmptyHolds, ListsHold, Zenon
  <1>. QED BY <1>1, <1>4 DEF GroupInv, Counted

\* A member joins.
LEMMA AddKeeps == ASSUME GroupInv, NEW c \in Coro, Add(c) PROVE GroupInv'
  <1> USE DEF GroupInv, Add
  <1>1. /\ cid_set \in SUBSET Coro /\ IsFiniteSet(cid_set)
        /\ tot_size = Cardinality(cid_set) /\ Cardinality(cid_set) \in Nat
    BY CoroCard DEF ListsAgree, TypeOK
  <1>2. Cardinality(cid_set \cup {c}) = Cardinality(cid_set) + 1
    BY <1>1, FS_AddElement
  <1>3. TypeOK'
    BY <1>1, <1>2 DEF ListsAgree, TypeOK
  <1>. QED BY <1>3 DEF ListsAgree, Counted

\* What done does to the counters and to the history.
LEMMA DoneEffect ==
  ASSUME GroupInv, NEW c \in Coro, Done(c)
  PROVE  /\ reported' = reported \cup {c} /\ reported' \in SUBSET cid_set
         /\ finished' = finished + 1 /\ finished \in Nat
         /\ ReportOnce => Cardinality(reported') = finished'
         /\ count' \in [Coro -> Nat]
         /\ \A d \in Coro : count'[d] # count[d] =>
              \/ goal[d] \in Target /\ goal[d] = finished'
              \/ goal[d] = ALL /\ finished' = tot_size
  <1> DEFINE n == finished + 1
             once == wg_notify(count, Subscribers(n), n)
  <1>1. /\ count \in [Coro -> Nat] /\ finished \in Nat /\ c \in cid_set
        /\ reported \in SUBSET Coro /\ reported \in SUBSET cid_set /\ finished' = n
        /\ reported' = reported \cup {c}
        /\ ReportOnce => c \notin reported
    BY DEF GroupInv, ListsAgree, TypeOK, Done
  <1>2. ReportOnce => Cardinality(reported') = n
    BY <1>1, CoroCard, FS_AddElement DEF GroupInv, Counted
  <1>3. /\ once \in [Coro -> Nat]
        /\ \A d \in Coro : once[d] # count[d] => goal[d] \in Target /\ goal[d] = n
    <2>1. \A d \in Coro : d \in Range(Subscribers(n)) => goal[d] \in Target /\ goal[d] = n
      <3>1. CASE n \in Target
        BY <3>1 DEF Subscribers, GroupInv, ListsAgree
      <3>2. CASE n \notin Target
        BY <3>2 DEF Subscribers, Range
      <3>. QED BY <3>1, <3>2
    <2>. QED BY <1>1, <2>1 DEF wg_notify
  <1>4. count' = IF n = tot_size THEN wg_notify(once, final_sublist, n) ELSE once
    BY DEF Done
  <1> HIDE DEF once
  <1>5. CASE n = tot_size
    <2>1. \A d \in Coro : d \in Range(final_sublist) => goal[d] = ALL
      BY DEF GroupInv, ListsAgree
    <2>2. count' = [d \in Coro |-> once[d] + IF d \in Range(final_sublist) THEN n ELSE 0]
      BY <1>4, <1>5 DEF wg_notify
    <2>3. count' \in [Coro -> Nat]
      BY <1>1, <1>3, <2>2
    <2>4. \A d \in Coro : count'[d] # count[d] =>
            \/ goal[d] \in Target /\ goal[d] = n
            \/ goal[d] = ALL /\ n = tot_size
      BY <1>3, <1>5, <2>1, <2>2
    <2>. QED BY <1>1, <1>2, <2>3, <2>4
  <1>6. CASE n # tot_size
    BY <1>1, <1>2, <1>3, <1>4, <1>6
  <1>. QED BY <1>5, <1>6

LEMMA DoneKeeps == ASSUME GroupInv, NEW c \in Coro, Done(c) PROVE GroupInv'
  <1>1. UNCHANGED <<cid_set, tot_size, final_sublist, target_sublist_map, goal, timed, ret>>
    BY DEF Done
  <1>2. TypeOK'
    BY <1>1, DoneEffect DEF GroupInv, ListsAgree, TypeOK
  <1>. QED BY <1>1, <1>2, DoneEffect DEF GroupInv, ListsAgree, Counted

\* A coroutine joins a list.
LEMMA WaitBlockKeeps ==
  ASSUME GroupInv, NEW c \in Coro, NEW t \in Target \cup {ALL}, NEW h \in BOOLEAN,
         WaitBlock(c, t, h)
  PROVE  GroupInv'
  <1>1. /\ goal \in [Coro -> Target \cup {ALL, NONE}] /\ goal[c] = NONE
        /\ goal' = [goal EXCEPT ![c] = t] /\ Subscribe(c, t)
        /\ UNCHANGED <<cid_set, tot_size, finished, count, ret, reported>>
        /\ timed' \subseteq Coro
        /\ Holds(final_sublist, Waiters(ALL)) /\ target_sublist_map \in [Target -> Seq(Coro)]
        /\ \A u \in Target : Holds(target_sublist_map[u], Waiters(u))
    BY ListsHold DEF GroupInv, ListsAgree, TypeOK, WaitBlock, Running
  <1>2. NONE \notin Target \cup {ALL} /\ ALL \notin Target
    BY WaitGroupConstants DEF ALL, NONE
  <1>3. /\ Waiters(t)' = Waiters(t) \cup {c} /\ c \notin Waiters(t)
        /\ \A u \in (Target \cup {ALL}) \ {t} : Waiters(u)' = Waiters(u)
    BY <1>1, <1>2 DEF Waiters
  <1>4. CASE t = ALL
    <2>1. /\ target_sublist_map' = target_sublist_map
          /\ final_sublist' = IF final_sublist = <<>> THEN <<c>>
                              ELSE <<Head(final_sublist), c>> \o Tail(final_sublist)
      BY <1>1, <1>4 DEF Subscribe
    <2>2. Holds(final_sublist', Waiters(ALL)')
      <3>1. CASE final_sublist = <<>>
        <4>1. Waiters(ALL) = {}
          BY <1>1, <3>1 DEF Holds, Range
        <4>2. Holds(<<c>>, {c})
          BY DEF Holds, IsInjective, Range
        <4>. QED BY <1>3, <1>4, <2>1, <3>1, <4>1, <4>2, Zenon
      <3>2. CASE final_sublist # <<>>
        <4>1. \A S : Holds(final_sublist, S) /\ c \notin S =>
                Holds(<<Head(final_sublist), c>> \o Tail(final_sublist), S \cup {c})
          BY <3>2, InsertOnce DEF Holds
        <4>. QED BY <1>1, <1>3, <1>4, <2>1, <3>2, <4>1, Zenon
      <3>. QED BY <3>1, <3>2
    <2>3. \A u \in Target : Holds(target_sublist_map'[u], Waiters(u)')
      BY <1>1, <1>2, <1>3, <1>4, <2>1
    <2>4. TypeOK'
      BY <1>1, <2>1, <2>2 DEF GroupInv, ListsAgree, TypeOK, Holds
    <2>5. ListsAgree'
      BY <2>2, <2>3, <2>4 DEF ListsAgree, Holds, Waiters
    <2>. QED BY <1>1, <2>5 DEF GroupInv, Counted
  <1>5. CASE t \in Target
    <2>1. /\ final_sublist' = final_sublist
          /\ target_sublist_map' = [target_sublist_map EXCEPT ![t] = <<c>> \o @]
      BY <1>1, <1>2, <1>5 DEF Subscribe
    <2>2. Holds(<<c>> \o target_sublist_map[t], Waiters(t)')
      BY <1>1, <1>3, <1>5, PushOnce DEF Holds
    <2>3. \A u \in Target : Holds(target_sublist_map'[u], Waiters(u)')
      BY <1>1, <1>3, <1>5, <2>1, <2>2, Zenon
    <2>4. TypeOK'
      BY <1>1, <1>5, <2>1, <2>2 DEF GroupInv, ListsAgree, TypeOK, Holds
    <2>5. ListsAgree'
      BY <1>1, <1>2, <1>3, <1>5, <2>1, <2>3, <2>4, SMTT(60) DEF ListsAgree, Holds, Waiters
    <2>. QED BY <1>1, <2>5 DEF GroupInv, Counted
  <1>. QED BY <1>4, <1>5

\* A coroutine leaves its list, notified or timed out.
LEMMA WaitEndKeeps == ASSUME GroupInv, NEW c \in Coro, WaitEnd(c) PROVE GroupInv'
  <1>0. PICK t : t = goal[c]
    OBVIOUS
  <1>1. /\ goal \in [Coro -> Target \cup {ALL, NONE}] /\ t # NONE
        /\ goal' = [goal EXCEPT ![c] = NONE] /\ Unsubscribe(c, t)
        /\ UNCHANGED <<cid_set, tot_size, finished, reported>>
        /\ count \in [Coro -> Nat] /\ count' = [count EXCEPT ![c] = 0]
        /\ timed' \subseteq Coro /\ ret' \in Int
        /\ Holds(final_sublist, Waiters(ALL)) /\ target_sublist_map \in [Target -> Seq(Coro)]
        /\ \A u \in Target : Holds(target_sublist_map[u], Waiters(u))
    BY <1>0, ListsHold DEF GroupInv, ListsAgree, TypeOK, WaitEnd, Running
  <1>2. NONE \notin Target \cup {ALL} /\ ALL \notin Target
    BY WaitGroupConstants DEF ALL, NONE
  <1>3. /\ t \in Target \cup {ALL} /\ c \in Waiters(t) /\ Waiters(t)' = Waiters(t) \ {c}
        /\ \A u \in (Target \cup {ALL}) \ {t} : Waiters(u)' = Waiters(u)
    BY <1>0, <1>1, <1>2 DEF Waiters
  <1>4. CASE t = ALL
    <2>1. target_sublist_map' = target_sublist_map /\ final_sublist' = Unlink(final_sublist, c)
      BY <1>1, <1>4 DEF Unsubscribe
    <2>2. Holds(final_sublist', Waiters(ALL)')
      <3>1. \A S : Holds(final_sublist, S) /\ c \in S => Holds(Unlink(final_sublist, c), S \ {c})
        BY UnlinkOnce DEF Holds
      <3>. QED BY <1>1, <1>3, <1>4, <2>1, <3>1
    <2>3. \A u \in Target : Holds(target_sublist_map'[u], Waiters(u)')
      BY <1>1, <1>2, <1>3, <1>4, <2>1, ZenonT(60)
    <2>4. TypeOK'
      BY <1>1, <2>1, <2>2 DEF GroupInv, ListsAgree, TypeOK, Holds
    <2>5. ListsAgree'
      BY <2>2, <2>3, <2>4 DEF ListsAgree, Holds, Waiters
    <2>. QED BY <1>1, <2>5 DEF GroupInv, Counted
  <1>5. CASE t \in Target
    <2>1. /\ final_sublist' = final_sublist
          /\ target_sublist_map' = [target_sublist_map EXCEPT ![t] = Unlink(@, c)]
      BY <1>1, <1>2, <1>5 DEF Unsubscribe
    <2>2. Holds(Unlink(target_sublist_map[t], c), Waiters(t)')
      BY <1>1, <1>3, <1>5, UnlinkOnce DEF Holds
    <2>3. \A u \in Target : Holds(target_sublist_map'[u], Waiters(u)')
      BY <1>1, <1>3, <1>5, <2>1, <2>2, Zenon
    <2>4. TypeOK'
      BY <1>1, <1>5, <2>1, <2>2 DEF GroupInv, ListsAgree, TypeOK, Holds
    <2>5. ListsAgree'
      BY <1>1, <1>2, <1>3, <1>5, <2>1, <2>3, <2>4 DEF ListsAgree, Holds, Waiters
    <2>. QED BY <1>1, <2>5 DEF GroupInv, Counted
  <1>. QED BY <1>3, <1>4, <1>5

LEMMA DestroyKeeps == ASSUME GroupInv, NEW c \in Coro, Destroy(c) PROVE GroupInv'
  <1> USE DEF Destroy
  <1>1. Cardinality({}) = 0
    BY FS_EmptySet
  <1>2. TypeOK'
    BY <1>1 DEF GroupInv, ListsAgree, TypeOK
  <1>3. \A t \in Target \cup {ALL} : Waiters(t)' = {}
    BY WaitGroupConstants DEF Running, ALL, NONE, Waiters
  <1>4. ListsAgree'
    BY <1>2, <1>3, EmptyHolds DEF ListsAgree, Holds, Waiters
  <1>. QED BY <1>1, <1>4 DEF GroupInv, Counted

LEMMA GroupStep == GroupInv /\ [Next]_vars => GroupInv'
  <1> SUFFICES ASSUME GroupInv, [Next]_vars PROVE GroupInv'
    OBVIOUS
  <1>1. ASSUME NEW c \in Coro, Destroy(c) \/ Add(c) \/ Done(c) \/ WaitEnd(c) PROVE GroupInv'
    BY <1>1, DestroyKeeps, AddKeeps, DoneKeeps, WaitEndKeeps
  <1>2. ASSUME NEW c \in Coro, NEW t \in Target \cup {ALL}, NEW h \in BOOLEAN,
               WaitBlock(c, t, h)
        PROVE  GroupInv'
    BY <1>2, WaitBlockKeeps
  <1>3. ASSUME NEW c \in Coro, NEW t \in Target \cup {ALL}, WaitPoll(c) \/ WaitNow(c, t)
        PROVE  GroupInv'
    <2>1. ret' \in Int
      BY <1>3, WaitGroupConstants DEF WaitPoll, WaitNow, GroupInv, ListsAgree, TypeOK, ALL
    <2>. QED BY <1>3, <2>1 DEF WaitPoll, WaitNow, group, GroupInv, ListsAgree, TypeOK, Counted
  <1>4. CASE UNCHANGED vars
    BY <1>4 DEF vars, group, GroupInv, ListsAgree, TypeOK, Counted
  <1>. QED BY <1>1, <1>2, <1>3, <1>4 DEF Next

LEMMA GroupSafe == Spec => []GroupInv
  BY GroupInit, GroupStep, PTL DEF Spec

\* The subscriber lists of dyco_waitgroup.c hold exactly the suspended
\* coroutines, also after timeouts: wg_notify never writes a closed eventfd.
THEOREM ListsAgreeAlways == Spec => []ListsAgree
  <1>1. GroupInv => ListsAgree
    BY DEF GroupInv
  <1>. QED BY <1>1, GroupSafe, PTL

\* When every member reports at most once, dyco_waitgroup_done notifies a waiter
\* exactly when its number of members, or all of them, have reported.
THEOREM NotifiedInTimeAlways == ASSUME ReportOnce PROVE Spec => NotifiedInTime
  <1> DEFINE InTime == \A c \in Coro : count'[c] > count[c] =>
                         IF goal[c] = ALL THEN reported' = cid_set
                                          ELSE Cardinality(reported') = goal[c]
  <1>1. GroupInv /\ [Next]_vars => [InTime]_vars
    <2> SUFFICES ASSUME GroupInv, [Next]_vars PROVE [InTime]_vars
      OBVIOUS
    <2>0. count \in [Coro -> Nat]
      BY DEF GroupInv, ListsAgree, TypeOK
    <2>1. ASSUME NEW c \in Coro, Done(c) PROVE InTime
      <3> SUFFICES ASSUME NEW d \in Coro, count'[d] > count[d]
                   PROVE  IF goal[d] = ALL THEN reported' = cid_set
                                           ELSE Cardinality(reported') = goal[d]
        OBVIOUS
      <3>1. /\ Cardinality(reported') = finished' /\ reported' \in SUBSET cid_set
            /\ count' \in [Coro -> Nat]
            /\ \/ goal[d] \in Target /\ goal[d] = finished'
               \/ goal[d] = ALL /\ finished' = tot_size
        BY <2>0, <2>1, DoneEffect
      <3>2. CASE goal[d] \in Target
        <4>1. goal[d] # ALL /\ goal[d] = finished'
          BY <3>1, <3>2, WaitGroupConstants DEF ALL
        <4>. QED BY <3>1, <4>1
      <3>3. CASE goal[d] = ALL
        <4>1. finished' = tot_size
          BY <3>1, <3>3, WaitGroupConstants DEF ALL
        <4>2. IsFiniteSet(cid_set) /\ Cardinality(cid_set) = Cardinality(reported')
          BY <3>1, <4>1, CoroCard DEF GroupInv, ListsAgree, TypeOK
        <4>3. reported' = cid_set
          BY <3>1, <4>2, FS_Subset
        <4>. QED BY <3>3, <4>3
      <3>. QED BY <3>1, <3>2, <3>3
    <2>2. ASSUME NEW c \in Coro, WaitEnd(c) PROVE InTime
      BY <2>0, <2>2 DEF WaitEnd
    <2>3. CASE UNCHANGED count
      BY <2>0, <2>3
    <2>. QED BY <2>1, <2>2, <2>3
             DEF Next, Destroy, Add, WaitPoll, WaitNow, WaitBlock, vars
  <1>. QED BY <1>1, GroupSafe, PTL DEF Spec, NotifiedInTime

=============================================================================
