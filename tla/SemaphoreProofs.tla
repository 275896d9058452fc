-------------------------- MODULE SemaphoreProofs --------------------------
(***************************************************************************)
(* Proofs about Semaphore when no wait has a timeout: tokens are conserved, *)
(* no wakeup is lost, no notification fails, and the code implements       *)
(* CountingSemaphore.                                                      *)
(***************************************************************************)
EXTENDS Semaphore, QueueLemmas

\* Who waits, for what, and what is queued.
QueueInv ==
  /\ \A c \in Coro : notifyfd[c] # NULL => notifyfd[c] \in open
  /\ \A c, d \in Coro :
       (notifyfd[c] # NULL /\ notifyfd[c] = notifyfd[d]) => c = d
  /\ IsInjective(wqueue)
  /\ \A fd \in Range(wqueue) : count[fd] = 0 /\ \E c \in Coro : notifyfd[c] = fd
  /\ alive => \A c \in Coro :
       notifyfd[c] # NULL =>
         \/ count[notifyfd[c]] = 1
         \/ count[notifyfd[c]] = 0 /\ notifyfd[c] \in Range(wqueue)
  /\ ~alive => wqueue = <<>>
  /\ wqueue # <<>> => semval = 0

\* The inductive invariant.
SemInv == TypeOK /\ timed = {} /\ ~exited /\ QueueInv /\ Conservation

LEMMA NotifiedFinite ==
  IsFiniteSet(Notified(1)) /\ Cardinality(Notified(1)) \in Nat
  <1>1. Notified(1) \in SUBSET Coro
    BY DEF Notified
  <1>. QED BY <1>1, FS_Subset, FS_CardinalityType, SemaphoreConstants

LEMMA SemInit == Init => SemInv
  <1> SUFFICES ASSUME Init PROVE SemInv
    OBVIOUS
  <1> USE SemaphoreConstants
  <1>a. alive \in BOOLEAN /\ exited \in BOOLEAN /\ ~exited
    BY Zenon DEF Init
  <1>b. /\ semval = InitVal /\ wqueue = <<>> /\ timed = {} /\ open = {}
        /\ notifyfd = [c \in Coro |-> NULL]
        /\ count = [fd \in Fd |-> 0]
        /\ ret = [c \in Coro |-> 0]
        /\ granted = 0 /\ posted = 0
    BY DEF Init
  <1>1. TypeOK
    BY <1>a, <1>b DEF TypeOK
  <1>2. Range(wqueue) = {} /\ IsInjective(wqueue)
    BY DEF Init, Range, IsInjective
  <1>3. QueueInv
    BY <1>2 DEF Init, QueueInv
  <1>4. Notified(1) = {}
    BY DEF Init, Notified
  <1>5. Cardinality(Notified(1)) = 0
    BY <1>4, FS_EmptySet
  <1>6. InitVal \in Nat /\ InitVal + posted = semval + granted + 0
    BY <1>b
  <1>7. Conservation
    BY <1>5, <1>6 DEF Conservation
  <1>. QED BY <1>a, <1>b, <1>1, <1>3, <1>7 DEF SemInv

\* A wait that does not suspend its caller.
LEMMA WaitNowStep ==
  ASSUME SemInv, NEW c \in Coro, WaitNow(c) \/ WaitNot(c)
  PROVE  SemInv' /\ Notified(1)' = Notified(1)
  <1> USE SemaphoreConstants
  <1>1. Notified(1)' = Notified(1)
    BY DEF WaitNow, WaitNot, Notified
  <1>2. TypeOK' /\ timed' = {} /\ ~exited'
    BY DEF SemInv, TypeOK, WaitNow, WaitNot
  <1>3. QueueInv'
    BY DEF SemInv, QueueInv, WaitNow, WaitNot
  <1>4. semval \in Nat /\ granted \in Nat /\ posted' = posted
        /\ semval' + granted' = semval + granted
    BY DEF SemInv, TypeOK, WaitNow, WaitNot
  <1>5. semval' \in Nat /\ granted' \in Nat
    BY <1>2 DEF TypeOK
  <1>6. Conservation'
    BY <1>1, <1>4, <1>5, NotifiedFinite, Zenon DEF SemInv, Conservation
  <1>. QED BY <1>1, <1>2, <1>3, <1>6 DEF SemInv

\* A wait that suspends its caller.
LEMMA WaitBlockStep ==
  ASSUME SemInv, NEW c \in Coro, NEW fd \in Fd, WaitBlock(c, fd, FALSE)
  PROVE  SemInv' /\ Notified(1)' = Notified(1)
  <1> USE SemaphoreConstants
  <1>0. TypeOK /\ QueueInv /\ timed = {} /\ ~exited /\ Conservation
    BY DEF SemInv
  <1>1. /\ notifyfd[c] = NULL /\ alive /\ semval = 0 /\ fd \notin open
        /\ open' = open \cup {fd}
        /\ count' = [count EXCEPT ![fd] = 0]
        /\ wqueue' = Append(wqueue, fd)
        /\ notifyfd' = [notifyfd EXCEPT ![c] = fd]
        /\ UNCHANGED <<alive, semval, ret, exited, granted, posted, timed>>
    BY DEF WaitBlock, Running
  <1>2. \A d \in Coro : notifyfd[d] # fd
    BY <1>0, <1>1 DEF QueueInv
  <1>3. /\ notifyfd'[c] = fd /\ count'[fd] = 0
        /\ \A d \in Coro \ {c} : notifyfd'[d] = notifyfd[d]
        /\ \A g \in Fd \ {fd} : count'[g] = count[g]
    BY <1>0, <1>1 DEF TypeOK
  <1>4. Notified(1)' = Notified(1)
    <2>1. \A d \in Coro \ {c} : d \in Notified(1)' <=> d \in Notified(1)
      BY <1>0, <1>2, <1>3 DEF Notified, TypeOK
    <2>2. c \notin Notified(1)' /\ c \notin Notified(1)
      BY <1>1, <1>3 DEF Notified
    <2>3. Notified(1) \subseteq Coro /\ Notified(1)' \subseteq Coro
      BY DEF Notified
    <2>. QED BY <2>1, <2>2, <2>3
  <1>5. TypeOK'
    BY <1>0, <1>1 DEF TypeOK
  <1>6. fd \notin Range(wqueue)
    BY <1>0, <1>2 DEF QueueInv
  <1>7. IsInjective(wqueue') /\ Range(wqueue') = Range(wqueue) \cup {fd}
    BY <1>0, <1>1, <1>6, AppendOnce, SMTT(60) DEF QueueInv, TypeOK
  <1>8. QueueInv'
    <2>1. \A d \in Coro : notifyfd'[d] # NULL => notifyfd'[d] \in open'
      BY <1>0, <1>1, <1>3 DEF QueueInv
    <2>2. \A d, e \in Coro :
            (notifyfd'[d] # NULL /\ notifyfd'[d] = notifyfd'[e]) => d = e
      BY <1>0, <1>2, <1>3 DEF QueueInv
    <2>3. \A g \in Range(wqueue') :
            count'[g] = 0 /\ \E d \in Coro : notifyfd'[d] = g
      <3> SUFFICES ASSUME NEW g \in Range(wqueue')
                   PROVE  count'[g] = 0 /\ \E d \in Coro : notifyfd'[d] = g
        OBVIOUS
      <3>1. CASE g = fd BY <1>3, <3>1
      <3>2. CASE g # fd
        <4>1. g \in Range(wqueue) BY <1>7, <3>2
        <4>2. PICK d \in Coro : notifyfd[d] = g
          BY <1>0, <4>1 DEF QueueInv
        <4>3. g \in Fd
          BY <1>0, <4>1 DEF TypeOK, Range
        <4>4. d # c BY <1>1, <4>2, <4>3, SMTT(60)
        <4>. QED BY <1>0, <1>3, <3>2, <4>1, <4>2, <4>3, <4>4, SMTT(60) DEF QueueInv
      <3>. QED BY <3>1, <3>2
    <2>4. \A d \in Coro :
            notifyfd'[d] # NULL =>
              \/ count'[notifyfd'[d]] = 1
              \/ count'[notifyfd'[d]] = 0 /\ notifyfd'[d] \in Range(wqueue')
      BY <1>0, <1>1, <1>2, <1>3, <1>7, SMTT(60) DEF QueueInv, TypeOK
    <2>. QED BY <1>1, <1>7, <2>1, <2>2, <2>3, <2>4, SMTT(60) DEF QueueInv
  <1>9. Conservation'
    BY <1>0, <1>1, <1>4 DEF Conservation
  <1>. QED BY <1>0, <1>1, <1>4, <1>5, <1>8, <1>9 DEF SemInv

\* The return of a suspended wait.
LEMMA WaitEndStep ==
  ASSUME SemInv, NEW c \in Coro, WaitEnd(c)
  PROVE  /\ SemInv'
         /\ count[notifyfd[c]] = 1 => /\ c \in Notified(1)
                                      /\ Notified(1)' = Notified(1) \ {c}
         /\ count[notifyfd[c]] # 1 => Notified(1)' = Notified(1)
  <1> USE SemaphoreConstants
  <1> DEFINE fd == notifyfd[c]
  <1>0. TypeOK /\ QueueInv /\ timed = {} /\ ~exited /\ Conservation
    BY DEF SemInv
  <1>1. /\ fd \in Fd /\ count[fd] > 0
        /\ notifyfd' = [notifyfd EXCEPT ![c] = NULL]
        /\ open' = open \ {fd}
        /\ count' = [count EXCEPT ![fd] = 0]
        /\ UNCHANGED <<alive, semval, wqueue, exited, posted>>
        /\ timed' = {}
        /\ granted' = IF count[fd] = 1 THEN granted + 1 ELSE granted
        /\ ret' = [ret EXCEPT ![c] = IF count[fd] = 1 THEN 0 ELSE -1]
    BY <1>0 DEF WaitEnd, TypeOK
  <1>2. \A d \in Coro \ {c} : notifyfd[d] # fd
    BY <1>0, <1>1 DEF QueueInv
  <1>3. /\ notifyfd'[c] = NULL
        /\ \A d \in Coro \ {c} : notifyfd'[d] = notifyfd[d]
        /\ \A g \in Fd \ {fd} : count'[g] = count[g]
    BY <1>0, <1>1 DEF TypeOK
  <1>4. Notified(1)' = Notified(1) \ {c}
    <2>1. \A d \in Coro \ {c} : d \in Notified(1)' <=> d \in Notified(1)
      BY <1>0, <1>2, <1>3 DEF Notified, TypeOK
    <2>2. c \notin Notified(1)'
      BY <1>3 DEF Notified
    <2>3. Notified(1) \subseteq Coro /\ Notified(1)' \subseteq Coro
      BY DEF Notified
    <2>. QED BY <2>1, <2>2, <2>3
  <1>5. c \in Notified(1) <=> count[fd] = 1
    BY <1>1 DEF Notified
  <1>6. TypeOK'
    BY <1>0, <1>1 DEF TypeOK
  <1>7. fd \notin Range(wqueue)
    BY <1>0, <1>1, SMTT(60) DEF QueueInv
  <1>8. QueueInv'
    <2>1. \A g \in Range(wqueue) :
            count'[g] = 0 /\ \E d \in Coro : notifyfd'[d] = g
      <3> SUFFICES ASSUME NEW g \in Range(wqueue)
                   PROVE  count'[g] = 0 /\ \E d \in Coro : notifyfd'[d] = g
        OBVIOUS
      <3>1. PICK d \in Coro : notifyfd[d] = g
        BY <1>0 DEF QueueInv
      <3>2. g \in Fd /\ g # fd
        BY <1>0, <1>7 DEF TypeOK, Range
      <3>3. d # c BY <3>1, <3>2
      <3>. QED BY <1>0, <1>3, <3>1, <3>2, <3>3 DEF QueueInv
    <2>2. \A d \in Coro : notifyfd'[d] # NULL => notifyfd'[d] \in open'
      BY <1>0, <1>1, <1>2, <1>3, SMTT(60) DEF QueueInv
    <2>3. alive => \A d \in Coro :
            notifyfd'[d] # NULL =>
              \/ count'[notifyfd'[d]] = 1
              \/ count'[notifyfd'[d]] = 0 /\ notifyfd'[d] \in Range(wqueue)
      BY <1>0, <1>2, <1>3, SMTT(60) DEF QueueInv, TypeOK
    <2>4. \A d, e \in Coro :
            (notifyfd'[d] # NULL /\ notifyfd'[d] = notifyfd'[e]) => d = e
      BY <1>0, <1>3 DEF QueueInv
    <2>. QED BY <1>0, <1>1, <2>1, <2>2, <2>3, <2>4, SMTT(60) DEF QueueInv
  <1>9. Conservation'
    <2>1. CASE count[fd] = 1
      <3>1. Cardinality(Notified(1))' = Cardinality(Notified(1)) - 1
        BY <1>4, <1>5, <2>1, FS_RemoveElement, NotifiedFinite, SMTT(60)
      <3>2. granted' = granted + 1 BY <1>1, <2>1
      <3>. QED BY <1>0, <1>1, <3>1, <3>2, NotifiedFinite, SMTT(60) DEF Conservation, TypeOK
    <2>2. CASE count[fd] # 1
      <3>1. Notified(1)' = Notified(1) /\ granted' = granted
        BY <1>1, <1>4, <1>5, <2>2, SMTT(60)
      <3>. QED BY <1>0, <1>1, <3>1 DEF Conservation
    <2>. QED BY <2>1, <2>2
  <1>. QED BY <1>0, <1>1, <1>4, <1>5, <1>6, <1>8, <1>9, SMTT(60) DEF SemInv

LEMMA SignalFreeStep ==
  ASSUME SemInv, SignalFree
  PROVE  SemInv' /\ Notified(1)' = Notified(1)
  <1> USE SemaphoreConstants
  <1>1. Notified(1)' = Notified(1)
    BY DEF SignalFree, Notified
  <1>2. TypeOK' /\ timed' = {} /\ ~exited'
    BY DEF SemInv, TypeOK, SignalFree
  <1>3. QueueInv'
    BY DEF SemInv, QueueInv, SignalFree
  <1>4. /\ semval \in Nat /\ granted \in Nat /\ posted \in Nat
        /\ semval' = semval + 1 /\ posted' = posted + 1 /\ granted' = granted
    BY DEF SemInv, TypeOK, SignalFree
  <1>5. Conservation'
    BY <1>1, <1>4, NotifiedFinite DEF SemInv, Conservation
  <1>. QED BY <1>1, <1>2, <1>3, <1>5 DEF SemInv

\* A signal is handed to the first waiter.
LEMMA SignalWakeStep ==
  ASSUME SemInv, NEW c \in Coro, SignalWake(c)
  PROVE  /\ SemInv'
         /\ \E d \in Coro : d \notin Notified(1) /\ Notified(1)' = Notified(1) \cup {d}
         /\ posted' = posted + 1
         /\ UNCHANGED <<semval, granted, notifyfd>>
  <1> USE SemaphoreConstants
  <1> DEFINE fd == Head(wqueue)
  <1>0. TypeOK /\ QueueInv /\ timed = {} /\ ~exited /\ Conservation
    BY DEF SemInv
  <1>1. /\ fd \in Fd /\ fd \in Range(wqueue)
        /\ wqueue' = Tail(wqueue) /\ wqueue' \in Seq(Fd)
        /\ IsInjective(wqueue') /\ Range(wqueue') = Range(wqueue) \ {fd}
    BY <1>0, PopOnce DEF SignalWake, TypeOK, QueueInv
  <1>2. PICK d \in Coro : notifyfd[d] = fd
    BY <1>0, <1>1 DEF QueueInv
  <1>3. fd \in open /\ count[fd] = 0
    BY <1>0, <1>1, <1>2 DEF QueueInv
  <1>4. /\ count' = [count EXCEPT ![fd] = 1]
        /\ posted' = posted + 1
        /\ UNCHANGED <<exited, alive, semval, notifyfd, timed, open, ret, granted>>
        /\ alive /\ semval = 0
    BY <1>0, <1>3 DEF SignalWake, QueueInv, TypeOK
  <1> HIDE DEF fd
  <1>5. count'[fd] = 1 /\ \A g \in Fd \ {fd} : count'[g] = count[g]
    BY <1>0, <1>1, <1>4 DEF TypeOK
  <1>6. \A e \in Coro \ {d} : notifyfd[e] # fd
    BY <1>0, <1>1, <1>2 DEF QueueInv
  <1>7. d \notin Notified(1) /\ Notified(1)' = Notified(1) \cup {d}
    <2>1. \A e \in Coro \ {d} : e \in Notified(1)' <=> e \in Notified(1)
      BY <1>0, <1>4, <1>5, <1>6, SMTT(60) DEF Notified, TypeOK
    <2>2. d \in Notified(1)' /\ d \notin Notified(1)
      BY <1>1, <1>2, <1>3, <1>4, <1>5 DEF Notified
    <2>3. Notified(1) \subseteq Coro /\ Notified(1)' \subseteq Coro
      BY DEF Notified
    <2>. QED BY <2>1, <2>2, <2>3
  <1>8. TypeOK'
    BY <1>0, <1>1, <1>4 DEF TypeOK
  <1>9. QueueInv'
    <2>1. \A g \in Range(wqueue') :
            count'[g] = 0 /\ \E e \in Coro : notifyfd'[e] = g
      <3>1. \A g \in Range(wqueue) : g \in Fd
        BY <1>0 DEF TypeOK, Range
      <3>. QED BY <1>0, <1>1, <1>4, <1>5, <3>1 DEF QueueInv
    <2>2. \A e \in Coro :
            notifyfd'[e] # NULL =>
              \/ count'[notifyfd'[e]] = 1
              \/ count'[notifyfd'[e]] = 0 /\ notifyfd'[e] \in Range(wqueue')
      BY <1>0, <1>1, <1>4, <1>5 DEF QueueInv, TypeOK
    <2>. QED BY <1>0, <1>1, <1>4, <2>1, <2>2, SMTT(60) DEF QueueInv
  <1>10. Conservation'
    <2>1. Cardinality(Notified(1))' = Cardinality(Notified(1)) + 1
      BY <1>7, FS_AddElement, NotifiedFinite
    <2>2. /\ InitVal \in Nat /\ posted \in Nat /\ semval \in Nat /\ granted \in Nat
          /\ InitVal + posted = semval + granted + Cardinality(Notified(1))
      BY <1>0 DEF Conservation, TypeOK
    <2>3. InitVal + (posted + 1)
            = semval + granted + (Cardinality(Notified(1)) + 1)
      BY <2>2, NotifiedFinite
    <2>. QED BY <1>4, <2>1, <2>3 DEF Conservation
  <1>. QED BY <1>0, <1>2, <1>4, <1>7, <1>8, <1>9, <1>10, SMTT(60) DEF SemInv

\* Destruction notifies every waiter with a count that is not 1.
LEMMA DestroyStep ==
  ASSUME SemInv, Destroy
  PROVE  SemInv' /\ Notified(1)' = Notified(1)
  <1> USE SemaphoreConstants
  <1>0. TypeOK /\ QueueInv /\ timed = {} /\ ~exited /\ Conservation
    BY DEF SemInv
  <1>1. Range(wqueue) \subseteq open
    BY <1>0 DEF QueueInv, TypeOK, Range
  <1>2. /\ wqueue' = <<>> /\ alive' = FALSE
        /\ UNCHANGED <<semval, notifyfd, timed, open, ret, granted, posted>>
        /\ \A g \in Fd : count'[g] = IF g \in Range(wqueue) THEN 64 ELSE count[g]
        /\ DOMAIN count' = Fd
        /\ count' = [fd \in Fd |-> IF fd \in Range(wqueue) /\ fd \in open
                                    THEN count[fd] + 64 ELSE count[fd]]
    BY <1>0, <1>1 DEF Destroy, QueueInv, TypeOK
  <1>3. ~exited' /\ exited' \in BOOLEAN /\ alive' \in BOOLEAN
    BY <1>1, Zenon DEF Destroy
  <1>4. Notified(1)' = Notified(1)
    <2>1. \A d \in Coro : d \in Notified(1)' <=> d \in Notified(1)
      BY <1>0, <1>2 DEF Notified, TypeOK, QueueInv
    <2>2. Notified(1) \subseteq Coro /\ Notified(1)' \subseteq Coro
      BY DEF Notified
    <2>. QED BY <2>1, <2>2
  <1>5. TypeOK'
    <2>1. count' \in [Fd -> Nat]
      BY <1>0, <1>2 DEF TypeOK
    <2>. QED BY <1>0, <1>2, <1>3, <2>1 DEF TypeOK
  <1>6. Range(wqueue') = {} /\ IsInjective(wqueue')
    BY <1>2 DEF Range, IsInjective
  <1>7. QueueInv'
    BY <1>0, <1>2, <1>6 DEF QueueInv
  <1>8. Conservation'
    BY <1>0, <1>2, <1>4 DEF Conservation
  <1>. QED BY <1>0, <1>2, <1>3, <1>4, <1>5, <1>7, <1>8 DEF SemInv

LEMMA SemStep == ~Timeouts /\ SemInv /\ [Next]_vars => SemInv'
  <1> SUFFICES ASSUME ~Timeouts, SemInv, [Next]_vars PROVE SemInv'
    OBVIOUS
  <1>1. ASSUME NEW c \in Coro, WaitNow(c) \/ WaitNot(c) PROVE SemInv'
    BY <1>1, WaitNowStep
  <1>2. ASSUME NEW c \in Coro, NEW fd \in Fd, WaitBlock(c, fd, FALSE) PROVE SemInv'
    BY <1>2, WaitBlockStep, Zenon
  <1>3. ASSUME NEW c \in Coro, WaitEnd(c) PROVE SemInv'
    BY <1>3, WaitEndStep
  <1>4. ASSUME NEW c \in Coro, SignalWake(c) PROVE SemInv'
    BY <1>4, SignalWakeStep
  <1>5. CASE SignalFree BY <1>5, SignalFreeStep
  <1>6. CASE Destroy BY <1>6, DestroyStep, SMTT(60)
  <1>7. CASE UNCHANGED vars
    <2>1. Notified(1)' = Notified(1)
      BY <1>7 DEF vars, Notified
    <2>. QED BY <1>7, <2>1 DEF vars, SemInv, TypeOK, QueueInv, Conservation
  <1>. QED BY <1>1, <1>2, <1>3, <1>4, <1>5, <1>6, <1>7, Zenon DEF Next

LEMMA SemSafe == ASSUME ~Timeouts PROVE Spec => []SemInv
  <1>1. SemInv /\ [Next]_vars => SemInv'
    BY SemStep
  <1>. QED BY <1>1, SemInit, PTL DEF Spec

\* Tokens are conserved by waits, signals and the destruction, for any number
\* of coroutines.
THEOREM ConservationAlways == ASSUME ~Timeouts PROVE Spec => []Conservation
  <1>1. SemInv => Conservation BY DEF SemInv
  <1>. QED BY <1>1, SemSafe, PTL

\* A coroutine waits un-notified only while the value is 0, and is queued.
THEOREM NoLostWakeupAlways == ASSUME ~Timeouts PROVE Spec => []NoLostWakeup
  <1>1. SemInv => NoLostWakeup
    <2> SUFFICES ASSUME SemInv, NEW c \in Coro, notifyfd[c] # NULL,
                        count[notifyfd[c]] = 0, alive
                 PROVE  semval = 0 /\ notifyfd[c] \in Range(wqueue)
      BY DEF NoLostWakeup
    <2>1. notifyfd[c] \in Range(wqueue)
      BY DEF SemInv, QueueInv
    <2>2. wqueue # <<>>
      BY <2>1 DEF Range
    <2>. QED BY <2>1, <2>2 DEF SemInv, QueueInv
  <1>. QED BY <1>1, SemSafe, PTL

\* sem_notify never meets a closed eventfd.
THEOREM NotifyNeverFailsAlways == ASSUME ~Timeouts PROVE Spec => []NotifyNeverFails
  <1>1. SemInv => NotifyNeverFails BY DEF SemInv, NotifyNeverFails
  <1>. QED BY <1>1, SemSafe, PTL

\* Every step is one of a counting semaphore or invisible.
LEMMA CountingStep ==
  ASSUME ~Timeouts, SemInv, [Next]_vars PROVE [Counting!Next]_(Counting!vars)
  <1> USE SemaphoreConstants
  <1> DEFINE N == Cardinality(Notified(1))
             A == {c \in Coro : notifyfd[c] # NULL}
  <1>0. /\ TypeOK /\ semval \in Nat /\ N \in Nat /\ IsFiniteSet(Notified(1))
        /\ timed = {}
    BY NotifiedFinite DEF SemInv, TypeOK
  <1>1. ASSUME NEW c \in Coro, WaitNow(c) PROVE Counting!Grant(c)
    <2>1. Notified(1)' = Notified(1)
      BY <1>1, WaitNowStep
    <2>2. /\ semval > 0 /\ semval' = semval - 1 /\ granted' = granted + 1
          /\ notifyfd[c] = NULL /\ UNCHANGED <<notifyfd, posted>>
      BY <1>1 DEF WaitNow, Running
    <2>3. semval + N > 0 /\ (semval + N)' = semval + N - 1
      BY <1>0, <2>1, <2>2
    <2>4. A' = A \ {c}
      BY <2>2
    <2>. QED BY <1>0, <2>1, <2>2, <2>4 DEF Counting!Grant
  <1>2. ASSUME NEW c \in Coro, WaitNot(c) PROVE UNCHANGED Counting!vars
    <2>1. Notified(1)' = Notified(1)
      BY <1>2, WaitNowStep
    <2>. QED BY <1>2, <2>1 DEF WaitNot, Counting!vars
  <1>3. ASSUME NEW c \in Coro, NEW fd \in Fd, WaitBlock(c, fd, FALSE)
        PROVE  Counting!Ask(c)
    <2>1. Notified(1)' = Notified(1)
      BY <1>3, WaitBlockStep, Zenon
    <2>2. /\ notifyfd[c] = NULL /\ notifyfd' = [notifyfd EXCEPT ![c] = fd]
          /\ UNCHANGED <<semval, granted, posted>>
      BY <1>3 DEF WaitBlock, Running
    <2>3. c \notin A /\ A' = A \cup {c}
      BY <1>0, <2>2 DEF TypeOK
    <2>. QED BY <2>1, <2>2, <2>3 DEF Counting!Ask
  <1>4. ASSUME NEW c \in Coro, WaitEnd(c) PROVE Counting!Grant(c) \/ Counting!GiveUp(c)
    <2>1. /\ notifyfd[c] # NULL /\ notifyfd' = [notifyfd EXCEPT ![c] = NULL]
          /\ UNCHANGED <<semval, posted>>
      BY <1>4 DEF WaitEnd
    <2>2. c \in A /\ A' = A \ {c}
      BY <1>0, <2>1 DEF TypeOK
    <2>3. CASE count[notifyfd[c]] = 1
      <3>1. c \in Notified(1) /\ Notified(1)' = Notified(1) \ {c}
        BY <1>4, <2>3, WaitEndStep
      <3>2. N' = N - 1 /\ N' \in Nat
        BY <1>0, <3>1, FS_RemoveElement, FS_CardinalityType
      <3>3. granted' = granted + 1
        BY <1>4, <2>3 DEF WaitEnd
      <3>4. semval + N > 0 /\ (semval + N)' = semval + N - 1
        BY <1>0, <2>1, <3>2
      <3>. QED BY <1>0, <2>1, <2>2, <3>2, <3>3 DEF Counting!Grant
    <2>4. CASE count[notifyfd[c]] # 1
      <3>1. Notified(1)' = Notified(1)
        BY <1>4, <2>4, WaitEndStep
      <3>2. granted' = granted
        BY <1>4, <2>4 DEF WaitEnd
      <3>. QED BY <2>1, <2>2, <3>1, <3>2 DEF Counting!GiveUp
    <2>. QED BY <2>3, <2>4
  <1>5. ASSUME NEW c \in Coro, SignalWake(c) PROVE Counting!Post
    <2>1. PICK d \in Coro :
            d \notin Notified(1) /\ Notified(1)' = Notified(1) \cup {d}
      BY <1>5, SignalWakeStep
    <2>2. N' = N + 1
      BY <1>0, <2>1, FS_AddElement
    <2>3. posted' = posted + 1 /\ UNCHANGED <<semval, granted, notifyfd>>
      BY <1>5, SignalWakeStep
    <2>4. (semval + N)' = semval + N + 1
      BY <1>0, <2>2, <2>3
    <2>. QED BY <2>3, <2>4 DEF Counting!Post
  <1>6. CASE SignalFree
    <2>1. Notified(1)' = Notified(1)
      BY <1>6, SignalFreeStep
    <2>2. /\ semval' = semval + 1 /\ posted' = posted + 1
          /\ UNCHANGED <<granted, notifyfd>>
      BY <1>6 DEF SignalFree
    <2>3. (semval + N)' = semval + N + 1
      BY <1>0, <2>1, <2>2
    <2>4. Counting!Post
      BY <2>2, <2>3 DEF Counting!Post
    <2>. QED BY <2>4 DEF Counting!Next
  <1>7. CASE Destroy
    <2>1. Notified(1)' = Notified(1)
      BY <1>7, DestroyStep
    <2>. QED BY <1>7, <2>1 DEF Destroy, Counting!vars
  <1>8. CASE UNCHANGED vars
    <2>1. Notified(1)' = Notified(1)
      BY <1>8 DEF vars, Notified
    <2>. QED BY <1>8, <2>1 DEF vars, Counting!vars
  <1>. QED BY <1>1, <1>2, <1>3, <1>4, <1>5, <1>6, <1>7, <1>8, Zenon DEF Next, Counting!Next

\* dyco_semaphore.c implements a counting semaphore.
THEOREM Implements == ASSUME ~Timeouts PROVE Spec => IsCountingSemaphore
  <1>1. Init => Counting!Init
    <2> SUFFICES ASSUME Init PROVE Counting!Init
      OBVIOUS
    <2>1. Notified(1) = {} /\ {c \in Coro : notifyfd[c] # NULL} = {}
      BY DEF Init, Notified
    <2>2. Cardinality(Notified(1)) = 0
      BY <2>1, FS_EmptySet
    <2>3. semval + Cardinality(Notified(1)) = InitVal
      <3>1. semval = InitVal BY DEF Init
      <3>2. InitVal \in Nat BY SemaphoreConstants
      <3>. QED BY <2>2, <3>1, <3>2
    <2>. QED BY <2>1, <2>3 DEF Init, Counting!Init
  <1>2. SemInv /\ [Next]_vars => [Counting!Next]_(Counting!vars)
    BY CountingStep
  <1>. QED BY <1>1, <1>2, SemSafe, PTL DEF Spec, IsCountingSemaphore, Counting!Spec

=============================================================================
