-------------------------- MODULE SchedulerProofs --------------------------
(***************************************************************************)
(* Proofs about the scheduling core, for every value of the constants: its *)
(* types, and, when waits are timely (TimelyWaits below), its safety       *)
(* properties, which follow from the inductive invariant SafeInv.          *)
(***************************************************************************)
EXTENDS Scheduler, QueueLemmas

\* The product of two naturals is a natural.
LEMMA ProductNat == \A a, b \in Nat : a * b \in Nat
  OBVIOUS

\* A deadline is a natural.
LEMMA DeadlineNat == \A n, a, b \in Nat : n + a * b \in Nat
  <1>1. \A n, m \in Nat : n + m \in Nat OBVIOUS
  <1>. QED BY <1>1, ProductNat, Zenon

\* TypeOK is not inductive: a loop stays within its limit because a coroutine
\* is only resumed below it.
TypeInv ==
  /\ TypeOK
  /\ (curr_thread # NULL /\ phase = "urgent") => idx < MAXEXEC
  /\ (curr_thread # NULL /\ phase = "ready") => idx < MAXWAIT

LEMMA InitType == Init => TypeInv
  BY SchedulerConstants DEF Init, TypeInv, TypeOK, Usec, Phases

LEMMA InsertReadyType ==
  ASSUME TypeOK, NEW c \in Coro, InsertReady(c)
  PROVE  urgent_ready' \in Seq(Coro) /\ ready' \in Seq(Coro)
  BY DEF TypeOK, InsertReady

LEMMA SchedSleepType ==
  ASSUME TypeOK, NEW c \in Coro, NEW msecs \in Int, SchedSleep(c, msecs)
  PROVE  /\ sleeping' \subseteq Coro
         /\ asleep' \subseteq Coro
         /\ sleep_usecs' \in [Coro -> Usec]
  BY ZenonT(60) DEF TypeOK, SchedSleep

LEMMA ResumeType ==
  ASSUME TypeOK, NEW c \in Coro, Resume(c), phase \in {"urgent", "ready"}
  PROVE  /\ curr_thread' = c
         /\ sleeping' \subseteq Coro
         /\ asleep' \subseteq Coro
         /\ sleep_usecs' \in [Coro -> Usec]
         /\ fd_co_map' \in [Fd -> Coro \cup {NULL}]
         /\ interest' \subseteq Fd
         /\ waiting' \subseteq Coro
         /\ wait_fd' \in [Coro -> Fd \cup {NULL}]
         /\ due' \in [Coro -> Nat]
         /\ phase' \in {phase, "exitDel"}
  <1>1. CASE wait_fd[c] = NULL
    BY <1>1, Zenon DEF TypeOK, Resume, timerVars
  <1>2. CASE wait_fd[c] # NULL
    BY <1>2, ZenonT(60) DEF TypeOK, Resume, CancelSleep, CancelWait
  <1>. QED BY <1>1, <1>2, Zenon

LEMMA StepType == TypeInv /\ [Next]_vars => TypeInv'
  <1> SUFFICES ASSUME TypeInv, [Next]_vars PROVE TypeInv'
    BY Zenon
  <1> USE SchedulerConstants
  <1>t. TypeOK BY Zenon DEF TypeInv
  <1>1. CASE LoopTest
    BY <1>t, <1>1, Zenon
       DEF LoopTest, TypeInv, TypeOK, Phases, queueVars, timerVars, waitVars,
           coVars, envVars
  <1>2. CASE ExpireDone
    <2>1. LastOf(urgent_ready) \in Coro \cup {NULL}
      BY <1>t DEF TypeOK, LastOf
    <2>. QED BY <1>t, <1>2, <2>1
       DEF ExpireDone, TypeInv, TypeOK, Phases, queueVars, timerVars,
           waitVars, coVars, envVars
  <1>3. CASE RunUrgent
    <2>1. Head(urgent_ready) \in Coro /\ Tail(urgent_ready) \in Seq(Coro)
      BY <1>t, <1>3 DEF TypeOK, RunUrgent
    <2>2. phase \in {"urgent", "ready"} /\ idx < MAXEXEC /\ Resume(Head(urgent_ready))
      BY <1>3, Zenon DEF RunUrgent
    <2>. QED BY <1>t, <1>3, <2>1, <2>2, ResumeType, Zenon
       DEF RunUrgent, TypeInv, TypeOK, Phases, coVars, envVars
  <1>4. CASE UrgentDone
    <2>1. LastOf(ready) \in Coro \cup {NULL}
      BY <1>t DEF TypeOK, LastOf
    <2>. QED BY <1>t, <1>4, <2>1
       DEF UrgentDone, TypeInv, TypeOK, Phases, queueVars, timerVars,
           waitVars, coVars, envVars
  <1>5. CASE RunReady
    <2>1. Head(ready) \in Coro /\ Tail(ready) \in Seq(Coro)
      BY <1>t, <1>5 DEF TypeOK, RunReady
    <2>2. phase \in {"urgent", "ready"} /\ idx < MAXWAIT /\ Resume(Head(ready))
      BY <1>5, Zenon DEF RunReady
    <2>. QED BY <1>t, <1>5, <2>1, <2>2, ResumeType, Zenon
       DEF RunReady, TypeInv, TypeOK, Phases, coVars, envVars
  <1>6. CASE ReadyDone
    BY <1>t, <1>6, Zenon
       DEF ReadyDone, TypeInv, TypeOK, Phases, queueVars, timerVars, waitVars,
           coVars, envVars
  <1>7. CASE Poll
    BY <1>t, <1>7, Zenon
       DEF Poll, TypeInv, TypeOK, Phases, queueVars, timerVars, waitVars,
           coVars, envVars
  <1>8. ASSUME NEW c \in Coro, Expire(c) PROVE TypeInv'
    <2>1. urgent_ready' \in Seq(Coro) /\ ready' \in Seq(Coro)
      BY <1>t, <1>8, InsertReadyType, Zenon DEF Expire
    <2>. QED BY <1>t, <1>8, <2>1, Zenon
       DEF Expire, TypeInv, TypeOK, loopVars, waitVars, coVars, envVars
  <1>9. ASSUME NEW fd \in Fd, Dispatch(fd) PROVE TypeInv'
    <2>1. CASE fd_co_map[fd] = NULL
      BY <1>t, <1>9, <2>1, Zenon
         DEF Dispatch, TypeInv, TypeOK, Phases, queueVars, timerVars, coVars,
             envVars
    <2>2. CASE fd_co_map[fd] # NULL
      <3>1. fd_co_map[fd] \in Coro BY <1>t, <2>2, Zenon DEF TypeOK
      <3>2. urgent_ready' \in Seq(Coro) /\ ready' \in Seq(Coro)
        BY <1>t, <1>9, <2>2, <3>1, InsertReadyType, Zenon DEF Dispatch
      <3>. QED BY <1>t, <1>9, <2>2, <3>1, <3>2, ZenonT(60)
         DEF Dispatch, CancelWait, TypeInv, TypeOK, Phases, timerVars, coVars,
             envVars
    <2>. QED BY <2>1, <2>2, Zenon
  <1>10. ASSUME NEW c \in Coro, Yields(c) PROVE TypeInv'
    <2>1. curr_thread = c /\ phase \in {"urgent", "ready"}
      BY <1>t, <1>10, Zenon DEF Yields, Looping, TypeOK
    <2>2. ASSUME Return(c)
          PROVE  /\ curr_thread' = NULL /\ idx' \in Nat
                 /\ phase = "urgent" => idx' <= MAXEXEC
                 /\ phase = "ready" => idx' <= MAXWAIT
                 /\ UNCHANGED <<phase, status, last_co_ready, eventlist>>
      BY <1>t, <2>1, <2>2 DEF Return, TypeInv, TypeOK
    <2>3. CASE SleepZero(c)
      BY <1>t, <2>1, <2>2, <2>3, InsertReadyType, Zenon
         DEF SleepZero, TypeInv, TypeOK, timerVars, waitVars, coVars, envVars
    <2>4. ASSUME NEW msecs \in SleepTimes, Sleep(c, msecs) PROVE TypeInv'
      <3>1. AsInt(msecs) \in Int BY DEF AsInt
      <3>3. due' \in [Coro -> Nat]
        <4>1. now \in Nat /\ msecs \in Nat /\ UsecPerMs \in Nat
          BY <1>t DEF TypeOK, Usec
        <4>2. now + msecs * UsecPerMs \in Nat BY ONLY <4>1, DeadlineNat, Zenon
        <4>. QED BY <1>t, <2>4, <4>2, Zenon DEF Sleep, TypeOK
      <3>4. /\ sleeping' \subseteq Coro
            /\ asleep' \subseteq Coro
            /\ sleep_usecs' \in [Coro -> Usec]
        BY <1>t, <2>4, <3>1, SchedSleepType, Zenon DEF Sleep
      <3>. QED BY <1>t, <2>1, <2>2, <2>4, <3>3, <3>4, Zenon
         DEF Sleep, TypeInv, TypeOK, queueVars, waitVars, coVars, envVars
    <2>5. ASSUME NEW fd \in Fd, NEW timeout \in WaitTimeouts, WaitEv(c, fd, timeout)
          PROVE  TypeInv'
      <3>2. due' \in [Coro -> Nat]
        <4>1. now \in Nat /\ UsecPerMs \in Nat /\ (timeout > 0 => timeout \in Nat)
          BY <1>t DEF TypeOK, Usec
        <4>2. timeout > 0 => now + timeout * UsecPerMs \in Nat
          BY ONLY <4>1, DeadlineNat, Zenon
        <4>. QED BY <1>t, <2>5, <4>2, Zenon DEF WaitEv, TypeOK
      <3>3. /\ sleeping' \subseteq Coro
            /\ asleep' \subseteq Coro
            /\ sleep_usecs' \in [Coro -> Usec]
        BY <1>t, <2>5, SchedSleepType, Zenon DEF WaitEv
      <3>. QED BY <1>t, <2>1, <2>2, <2>5, <3>2, <3>3, Zenon
         DEF WaitEv, TypeInv, TypeOK, queueVars, coVars, envVars
    <2>6. CASE Exit(c) \/ Abort(c)
      BY <1>t, <2>1, <2>2, <2>6, SMTT(60)
         DEF Exit, Abort, FreeCoro, CancelSleep, TypeInv, TypeOK, queueVars,
             waitVars, envVars
    <2>7. CASE Stop(c)
      BY <1>t, <2>1, <2>7, InsertReadyType, Zenon
         DEF Stop, TypeInv, TypeOK, Phases, timerVars, waitVars, coVars,
             envVars
    <2>8. CASE SchedAbort(c)
      <3>1. Cardinality(live) \in Int
        BY <1>t, FS_Subset, FS_CardinalityType DEF TypeOK
      <3>. QED BY <1>t, <2>1, <2>8, <3>1, SMTT(60)
         DEF SchedAbort, TypeInv, TypeOK, Phases, queueVars, timerVars,
             waitVars, envVars
    <2>. QED BY <1>10, <2>3, <2>4, <2>5, <2>6, <2>7, <2>8, Zenon DEF Yields
  <1>11. CASE Run
    BY <1>t, <1>11, Zenon
       DEF Run, TypeInv, TypeOK, Phases, queueVars, timerVars, waitVars,
           coVars, envVars
  <1>12. ASSUME NEW c \in Coro, Create(c) PROVE TypeInv'
    BY <1>t, <1>12, SMTT(60) DEF Create, NewCoro, TypeInv, TypeOK, Usec, envVars
  <1>13. ASSUME NEW c \in Coro, CreateUrgent(c) PROVE TypeInv'
    BY <1>t, <1>13, SMTT(60) DEF CreateUrgent, NewCoro, TypeInv, TypeOK, Usec, envVars
  <1>14. ASSUME NEW c \in Coro, SetUrgent(c) \/ UnsetUrgent(c) PROVE TypeInv'
    BY <1>t, <1>14, SMTT(60)
       DEF SetUrgent, UnsetUrgent, TypeInv, TypeOK, loopVars, queueVars,
           timerVars, waitVars, envVars
  <1>15. ASSUME NEW c \in Coro, RunNested(c) PROVE TypeInv'
    BY <1>t, <1>15, Zenon
       DEF RunNested, TypeInv, TypeOK, Phases, queueVars, timerVars, waitVars,
           coVars, envVars
  <1>16. ASSUME NEW c \in Coro, NEW fd \in Fd, WaitEvTaken(c, fd) PROVE TypeInv'
    BY <1>t, <1>16, Zenon
       DEF WaitEvTaken, TypeInv, TypeOK, Phases, queueVars, timerVars,
           waitVars, coVars, envVars
  <1>17. ASSUME NEW c \in Coro, NEW fd \in Fd, Consume(c, fd) PROVE TypeInv'
    BY <1>t, <1>17, ZenonT(60)
       DEF Consume, TypeInv, TypeOK, loopVars, queueVars, timerVars, waitVars,
           coVars
  <1>18. CASE Tick
    BY <1>t, <1>18, SMTT(60)
       DEF Tick, TypeInv, TypeOK, Usec, loopVars, queueVars, timerVars,
           waitVars, coVars
  <1>19. ASSUME NEW fd \in Fd, FdReady(fd) PROVE TypeInv'
    BY <1>t, <1>19, ZenonT(60)
       DEF FdReady, TypeInv, TypeOK, loopVars, queueVars, timerVars, waitVars,
           coVars
  <1>20. CASE UNCHANGED vars
    BY <1>t, <1>20
       DEF vars, TypeInv, TypeOK, loopVars, queueVars, timerVars, waitVars,
           coVars, envVars
  <1>. QED
    BY <1>1, <1>2, <1>3, <1>4, <1>5, <1>6, <1>7, <1>8, <1>9, <1>10, <1>11,
       <1>12, <1>13, <1>14, <1>15, <1>16, <1>17, <1>18, <1>19, <1>20, Zenon
    DEF Next, Loop, Call

\* Every reachable state of the scheduler is well typed, for all constants.
THEOREM TypeCorrect == Spec => []TypeOK
  <1>1. TypeInv => TypeOK BY Zenon DEF TypeInv
  <1>. QED BY <1>1, InitType, StepType, PTL DEF Spec

-----------------------------------------------------------------------------
(* Timely waits: the event and the timeout of one wait do not both happen  *)
(* before the waiting coroutine runs, or no wait has a timeout at all; no   *)
(* deadline repeats another coroutine's old one; and no time is so long     *)
(* that msecs or msecs * 1000u wraps.                                       *)

TimelyWaits ==
  /\ Punctual \/ \A t \in WaitTimeouts : t <= 0
  /\ FreshKeys
  /\ \A msecs \in SleepTimes :
       msecs < UintMod \div 2 /\ msecs * UsecPerMs < UintMod
  /\ \A t \in WaitTimeouts : t > 0 => t * UsecPerMs < UintMod

\* A suspended coroutine is queued, in the timer tree, or (as its registration)
\* in fd_co_map, and the running one is nowhere.  Only a timed wait is in two
\* places: in the tree and in the map until its event or its timeout, then in a
\* queue and in the other of the two.
Placed ==
  /\ live = Queued \cup sleeping \cup waiting \cup ({curr_thread} \ {NULL})
  /\ Queued \cap sleeping \cap waiting = {}
  /\ \A c \in Queued \cap sleeping : wait_fd[c] # NULL
  /\ curr_thread \notin Queued \cup sleeping \cup waiting

\* Keys of live coroutines differ unless they never slept.
KeysAgree ==
  /\ asleep = sleeping
  /\ \A c \in sleeping : sleep_usecs[c] > 0
  /\ \A c, d \in live :
       (c # d /\ sleep_usecs[c] = sleep_usecs[d]) => sleep_usecs[c] = 0

\* What due says about each place.
DueAgree ==
  /\ \A c \in sleeping : due[c] # 0 /\ due[c] <= sleep_usecs[c]
  /\ \A c \in Queued : wait_fd[c] = NULL \/ c \in waiting => due[c] <= now
  /\ curr_thread # NULL => wait_fd[curr_thread] = NULL /\ due[curr_thread] = 0

\* The timer of a wait whose event has come does not expire any more, and no
\* event comes to a wait whose timer has expired.
InTime ==
  /\ \A c \in sleeping : c \in Queued \/ wait_fd[c] \in fdready => sleep_usecs[c] > now
  /\ \A c \in Queued \cap waiting : wait_fd[c] \notin fdready /\ due[c] # 0
  /\ eventlist \subseteq fdready
  /\ eventlist # {} => phase = "dispatch"
  /\ \A c \in live : wait_fd[c] # NULL /\ due[c] # 0 => Punctual

\* The inductive invariant.
SafeInv ==
  /\ TypeInv
  /\ phase # "exitDel"
  /\ phase # "main" => status = "RUNNING"
  /\ status = "DONE" => live = {}
  /\ coro_count = Cardinality(live)
  /\ QueuedOnce
  /\ WaitsAgree
  /\ status # "ABORTED" => Placed /\ KeysAgree /\ DueAgree /\ InTime

LEMMA InsertReadyOnce ==
  ASSUME TypeOK, QueuedOnce, NEW c \in Coro, c \notin Queued, InsertReady(c)
  PROVE  QueuedOnce' /\ Queued' = Queued \cup {c}
  <1>0. c \notin Range(urgent_ready) /\ c \notin Range(ready)
    BY Zenon DEF Queued
  <1>1. CASE c \in urgent
    <2>1. urgent_ready' = Append(urgent_ready, c) /\ ready' = ready
      BY <1>1, Zenon DEF InsertReady
    <2>2. /\ IsInjective(urgent_ready')
          /\ Range(urgent_ready') = Range(urgent_ready) \cup {c}
      BY <1>0, <2>1, AppendOnce DEF TypeOK, QueuedOnce
    <2>. QED BY <1>0, <2>1, <2>2, Zenon DEF QueuedOnce, Queued
  <1>2. CASE c \notin urgent
    <2>1. ready' = Append(ready, c) /\ urgent_ready' = urgent_ready
      BY <1>2, Zenon DEF InsertReady
    <2>2. /\ IsInjective(ready')
          /\ Range(ready') = Range(ready) \cup {c}
      BY <1>0, <2>1, AppendOnce DEF TypeOK, QueuedOnce
    <2>. QED BY <1>0, <2>1, <2>2, Zenon DEF QueuedOnce, Queued
  <1>. QED BY <1>1, <1>2, Zenon

LEMMA PopReadyOnce ==
  ASSUME TypeOK, QueuedOnce
  PROVE  /\ (ready # <<>> /\ ready' = Tail(ready) /\ urgent_ready' = urgent_ready)
              => /\ Head(ready) \in Coro \cap Queued
                 /\ QueuedOnce'
                 /\ Queued' = Queued \ {Head(ready)}
         /\ (urgent_ready # <<>> /\ urgent_ready' = Tail(urgent_ready) /\ ready' = ready)
              => /\ Head(urgent_ready) \in Coro \cap Queued
                 /\ QueuedOnce'
                 /\ Queued' = Queued \ {Head(urgent_ready)}
  <1>1. ASSUME ready # <<>>, ready' = Tail(ready), urgent_ready' = urgent_ready
        PROVE  /\ Head(ready) \in Coro \cap Queued
               /\ QueuedOnce'
               /\ Queued' = Queued \ {Head(ready)}
    <2>1. /\ Head(ready) \in Coro /\ Head(ready) \in Range(ready)
          /\ IsInjective(ready') /\ Range(ready') = Range(ready) \ {Head(ready)}
      BY <1>1, PopOnce, Zenon DEF TypeOK, QueuedOnce
    <2>. QED BY <1>1, <2>1, Zenon DEF QueuedOnce, Queued
  <1>2. ASSUME urgent_ready # <<>>, urgent_ready' = Tail(urgent_ready), ready' = ready
        PROVE  /\ Head(urgent_ready) \in Coro \cap Queued
               /\ QueuedOnce'
               /\ Queued' = Queued \ {Head(urgent_ready)}
    <2>1. /\ Head(urgent_ready) \in Coro
          /\ Head(urgent_ready) \in Range(urgent_ready)
          /\ IsInjective(urgent_ready')
          /\ Range(urgent_ready') = Range(urgent_ready) \ {Head(urgent_ready)}
      BY <1>2, PopOnce, Zenon DEF TypeOK, QueuedOnce
    <2>. QED BY <1>2, <2>1, Zenon DEF QueuedOnce, Queued
  <1>. QED BY <1>1, <1>2, Zenon

\* Under TimelyWaits the deadline of a sleep is the one asked for.
LEMMA SleepExact ==
  ASSUME TimelyWaits, NEW msecs \in SleepTimes
  PROVE  /\ AsInt(msecs) = msecs /\ msecs > 0 /\ msecs \in Int
         /\ Usecs(msecs) = msecs * UsecPerMs
         /\ Usecs(msecs) \in Nat \ {0}
  <1>1. msecs \in Nat \ {0} /\ UsecPerMs \in Nat \ {0} /\ UintMod \in Nat \ {0}
    BY SchedulerConstants, Zenon
  <1>2. AsInt(msecs) = msecs
    BY <1>1 DEF TimelyWaits, AsInt
  <1>3. \A a, b \in Nat \ {0} : a * b \in Nat \ {0}
    OBVIOUS
  <1>4. msecs * UsecPerMs \in Nat \ {0}
    BY ONLY <1>1, <1>3, Zenon
  <1>5. \A x, m \in Nat \ {0} : x < m => x % m = x
    OBVIOUS
  <1>6. msecs * UsecPerMs < UintMod
    BY Zenon DEF TimelyWaits
  <1>7. (msecs * UsecPerMs) % UintMod = msecs * UsecPerMs
    BY ONLY <1>1, <1>4, <1>5, <1>6, Zenon
  <1>. QED BY <1>1, <1>2, <1>4, <1>7 DEF Usecs

\* So is that of a timed wait.
LEMMA WaitExact ==
  ASSUME TimelyWaits, NEW timeout \in WaitTimeouts, timeout > 0
  PROVE  /\ Usecs(timeout) = timeout * UsecPerMs
         /\ Usecs(timeout) \in Nat \ {0}
  <1>1. timeout \in Nat \ {0} /\ UsecPerMs \in Nat \ {0} /\ UintMod \in Nat \ {0}
    <2>1. timeout \in Int
      BY SchedulerConstants, Zenon
    <2>. QED BY <2>1, SchedulerConstants
  <1>2. timeout * UsecPerMs < UintMod
    BY Zenon DEF TimelyWaits
  <1>3. \A a, b \in Nat \ {0} : a * b \in Nat \ {0}
    OBVIOUS
  <1>4. timeout * UsecPerMs \in Nat \ {0}
    BY ONLY <1>1, <1>3, Zenon
  <1>5. \A x, m \in Nat \ {0} : x < m => x % m = x
    OBVIOUS
  <1>6. (timeout * UsecPerMs) % UintMod = timeout * UsecPerMs
    BY ONLY <1>1, <1>2, <1>4, <1>5, Zenon
  <1>. QED BY <1>4, <1>6, Zenon DEF Usecs

\* schedule_sched_sleep removes nobody else's timer.
LEMMA SchedSleepSafe ==
  ASSUME TypeOK, Placed, KeysAgree, TimelyWaits,
         NEW c \in Coro, curr_thread = c, NEW msecs \in Int,
         SchedSleep(c, msecs)
  PROVE  /\ msecs <= 0 => /\ sleeping' = sleeping
                          /\ UNCHANGED <<asleep, sleep_usecs>>
         /\ msecs > 0 =>
              /\ sleeping' = sleeping \cup {c}
              /\ asleep' = asleep \cup {c}
              /\ \E k \in Usec :
                   /\ sleep_usecs' = [sleep_usecs EXCEPT ![c] = k]
                   /\ k >= now + Usecs(msecs)
                   /\ \A d \in live \ {c} : sleep_usecs[d] # k
  <1> DEFINE tree == {d \in sleeping : sleep_usecs[d] # sleep_usecs[c]}
  <1>1. c \in live /\ c \notin sleeping
    BY SchedulerConstants, Zenon DEF Placed, TypeOK
  <1>2. sleeping \subseteq live
    BY Zenon DEF Placed
  <1>3. tree = sleeping
    BY <1>1, <1>2 DEF KeysAgree
  <1>4. msecs <= 0 \/ msecs > 0
    OBVIOUS
  <1>5. CASE msecs <= 0
    BY <1>3, <1>5 DEF SchedSleep
  <1>6. CASE msecs > 0
    <2>1. PICK k \in Usec :
            /\ IsFreeKey(k, now + Usecs(msecs), tree)
            /\ FreshKeys => \A d \in live \ {c} : sleep_usecs[d] # k
            /\ sleep_usecs' = [sleep_usecs EXCEPT ![c] = k]
      <3>1. ~(msecs <= 0)
        BY <1>6
      <3>. QED BY <3>1, Zenon DEF SchedSleep
    <2>2. k >= now + Usecs(msecs)
      BY <2>1, Zenon DEF IsFreeKey
    <2>3. \A d \in live \ {c} : sleep_usecs[d] # k
      BY <2>1, Zenon DEF TimelyWaits
    <2>4. sleeping' = sleeping \cup {c} /\ asleep' = asleep \cup {c}
      BY <1>3, <1>6 DEF SchedSleep
    <2>5. ~(msecs <= 0) BY <1>6
    <2>6. \E j \in Usec :
            /\ sleep_usecs' = [sleep_usecs EXCEPT ![c] = j]
            /\ j >= now + Usecs(msecs)
            /\ \A d \in live \ {c} : sleep_usecs[d] # j
      BY <2>1, <2>2, <2>3, Zenon
    <2>. QED BY <2>4, <2>5, <2>6, Zenon
  <1>. QED BY <1>4, <1>5, <1>6, Zenon

LEMMA InitSafe == Init => SafeInv
  <1> SUFFICES ASSUME Init PROVE SafeInv
    BY Zenon
  <1> USE SchedulerConstants
  <1>1. TypeInv BY InitType, Zenon
  <1>2. Range(urgent_ready) = {} /\ Range(ready) = {} /\ Queued = {}
    BY DEF Init, Range, Queued
  <1>3. QueuedOnce
    BY <1>2 DEF Init, QueuedOnce, IsInjective
  <1>4. coro_count = Cardinality(live)
    BY FS_EmptySet, Zenon DEF Init
  <1>5. WaitsAgree
    BY Zenon DEF Init, WaitsAgree
  <1>6. Placed /\ KeysAgree /\ DueAgree /\ InTime
    BY <1>2, Zenon DEF Init, Placed, KeysAgree, DueAgree, InTime
  <1>. QED BY <1>1, <1>3, <1>4, <1>5, <1>6, Zenon DEF SafeInv, Init

\* Steps that move no coroutine.
LEMMA QuietSafe ==
  ASSUME SafeInv, TypeInv',
         UNCHANGED <<curr_thread, queueVars, timerVars, waitVars, live,
                     coro_count, due>>,
         now' >= now,
         phase' # "exitDel",
         phase' # "main" => status' = "RUNNING",
         status' = "DONE" => live = {},
         status' = "ABORTED" <=> status = "ABORTED",
         status # "ABORTED" => InTime'
  PROVE  SafeInv'
  <1> USE DEF queueVars, timerVars, waitVars
  <1>1. QueuedOnce' /\ Queued' = Queued
    BY Zenon DEF SafeInv, QueuedOnce, Queued
  <1>2. WaitsAgree'
    BY Zenon DEF SafeInv, WaitsAgree
  <1>3. ASSUME status' # "ABORTED" PROVE Placed' /\ KeysAgree' /\ DueAgree' /\ InTime'
    <2>1. Placed' /\ KeysAgree'
      BY <1>1, <1>3, Zenon DEF SafeInv, Placed, KeysAgree
    <2>2. Queued \subseteq Coro
      BY <1>3, Zenon DEF SafeInv, Placed, TypeInv, TypeOK
    <2>3. \A c \in Queued : wait_fd[c] = NULL \/ c \in waiting => due[c] <= now'
      <3> SUFFICES ASSUME NEW c \in Queued, wait_fd[c] = NULL \/ c \in waiting
                   PROVE  due[c] <= now'
        BY Zenon
      <3>1. due[c] <= now BY <1>3, Zenon DEF SafeInv, DueAgree
      <3>2. due[c] \in Nat /\ now \in Nat /\ now' \in Nat
        BY <2>2, SchedulerConstants DEF SafeInv, TypeInv, TypeOK, Usec
      <3>. QED BY <3>1, <3>2
    <2>4. DueAgree'
      BY <1>1, <1>3, <2>3, Zenon DEF SafeInv, DueAgree
    <2>. QED BY <1>3, <2>1, <2>4, Zenon
  <1>. QED BY <1>1, <1>2, <1>3, Zenon DEF SafeInv

\* Most of them change neither the clock nor what is readable.
LEMMA SameTime ==
  ASSUME InTime, UNCHANGED <<queueVars, sleeping, sleep_usecs, waiting, wait_fd, live, due,
                             now, fdready, eventlist>>,
         eventlist # {} => phase' = "dispatch"
  PROVE  InTime'
  <1>1. Queued' = Queued
    BY Zenon DEF queueVars, Queued
  <1>. QED BY <1>1, Zenon DEF InTime

\* Resuming a coroutine cancels what is left of its wait: the timer if its event
\* has come, the registration if its timer has expired.
LEMMA ResumeSafe ==
  ASSUME SafeInv, TypeInv', status = "RUNNING",
         phase \in {"urgent", "ready"}, curr_thread = NULL,
         NEW c \in Coro, c \in Queued, Resume(c),
         QueuedOnce', Queued' = Queued \ {c},
         UNCHANGED <<status, live, coro_count, now, fdready, eventlist>>
  PROVE  SafeInv'
  <1> USE SchedulerConstants
  <1>1. Placed /\ KeysAgree /\ DueAgree /\ InTime /\ WaitsAgree /\ TypeOK
    BY Zenon DEF SafeInv, TypeInv
  <1>2. /\ c \in live
        /\ c \in waiting => wait_fd[c] \in Fd /\ wait_fd[c] \in interest
        /\ c \in sleeping => wait_fd[c] # NULL
        /\ asleep = sleeping
    <2>1. c \in live /\ asleep = sleeping /\ (c \in sleeping => wait_fd[c] # NULL)
      BY <1>1, Zenon DEF Placed, KeysAgree
    <2>2. ASSUME c \in waiting PROVE wait_fd[c] \in Fd /\ wait_fd[c] \in interest
      <3>1. wait_fd[c] \in Fd
        BY <1>1, <2>2 DEF WaitsAgree, TypeOK
      <3>2. fd_co_map[wait_fd[c]] = c
        BY <1>1, <2>2, <3>1, Zenon DEF WaitsAgree
      <3>3. c # NULL
        BY Zenon
      <3>. QED BY <1>1, <3>1, <3>2, <3>3, Zenon DEF WaitsAgree
    <2>. QED BY <2>1, <2>2, Zenon
  <1>3. /\ UNCHANGED <<phase, sleep_usecs>>
        /\ sleeping' = sleeping \ {c} /\ asleep' = sleeping'
        /\ waiting' = waiting \ {c}
        /\ fd_co_map' = IF c \in waiting THEN [fd_co_map EXCEPT ![wait_fd[c]] = NULL]
                                         ELSE fd_co_map
        /\ interest' = IF c \in waiting THEN interest \ {wait_fd[c]} ELSE interest
        /\ curr_thread' = c
        /\ wait_fd' = [wait_fd EXCEPT ![c] = NULL]
        /\ due' = [due EXCEPT ![c] = 0]
    <2>1. CASE wait_fd[c] = NULL
      <3>1. c \notin waiting /\ c \notin sleeping
        BY <1>2, <2>1, Zenon
      <3>2. UNCHANGED <<phase, sleeping, sleep_usecs, asleep, fd_co_map, interest, waiting>>
        BY <2>1, Zenon DEF Resume, timerVars
      <3>3. sleeping \ {c} = sleeping /\ waiting \ {c} = waiting
        BY <3>1, Zenon
      <3>. QED BY <1>2, <3>1, <3>2, <3>3, Zenon DEF Resume
    <2>2. CASE wait_fd[c] # NULL
      <3>1. CancelSleep(c) /\ CancelWait(c, wait_fd[c], phase)
        BY <2>2, Zenon DEF Resume
      <3>2. sleep_usecs' = sleep_usecs /\ sleeping' = sleeping \ {c} /\ asleep' = sleeping'
        <4>1. c \notin sleeping => sleeping \ {c} = sleeping
          BY Zenon
        <4>. QED BY <1>2, <3>1, <4>1, Zenon DEF CancelSleep
      <3>3. CASE c \in waiting
        BY <1>2, <3>1, <3>2, <3>3, Zenon DEF CancelWait, Resume
      <3>4. CASE c \notin waiting
        <4>1. waiting \ {c} = waiting
          BY <3>4, Zenon
        <4>. QED BY <1>2, <3>1, <3>2, <3>4, <4>1, Zenon DEF CancelWait, Resume
      <3>. QED BY <3>3, <3>4, Zenon
    <2>. QED BY <2>1, <2>2, Zenon
  <1>4. /\ \A d \in Coro : wait_fd'[d] = IF d = c THEN NULL ELSE wait_fd[d]
        /\ \A d \in Coro : due'[d] = IF d = c THEN 0 ELSE due[d]
    BY <1>1, <1>3, Zenon DEF TypeOK
  <1>5. WaitsAgree'
    <2>1. CASE c \in waiting
      <3> DEFINE fd == wait_fd[c]
      <3>1. fd \in Fd /\ fd \in interest /\ fd_co_map[fd] = c
        BY <1>1, <1>2, <2>1, Zenon DEF WaitsAgree
      <3>2. \A e \in Fd : fd_co_map'[e] = IF e = fd THEN NULL ELSE fd_co_map[e]
        BY <1>1, <1>3, <2>1, <3>1, Zenon DEF TypeOK
      <3>3. interest' = interest \ {fd} /\ waiting' = waiting \ {c}
        BY <1>3, <2>1, Zenon
      <3> HIDE DEF fd
      <3>4. \A e \in Fd : e \in interest' <=> fd_co_map'[e] # NULL
        BY <1>1, <3>1, <3>2, <3>3, Zenon DEF WaitsAgree
      <3>5. \A e \in Fd, d \in Coro : fd_co_map'[e] = d <=> (d \in waiting' /\ wait_fd'[d] = e)
        BY <1>1, <1>4, <3>1, <3>2, <3>3 DEF WaitsAgree
      <3>6. \A d \in waiting' : wait_fd'[d] # NULL
        BY <1>1, <1>4, <3>3, Zenon DEF WaitsAgree, TypeOK
      <3>. QED BY <3>4, <3>5, <3>6, Zenon DEF WaitsAgree
    <2>2. CASE c \notin waiting
      BY <1>1, <1>3, <1>4, <2>2 DEF WaitsAgree, TypeOK
    <2>. QED BY <2>1, <2>2, Zenon
  <1>6. Queued \subseteq Coro /\ sleeping \subseteq Coro /\ waiting \subseteq Coro /\ live \subseteq Coro
    BY <1>1, Zenon DEF TypeOK, Placed
  <1>7. Placed'
    <2>1. c # NULL
      BY Zenon
    <2>2. \A d \in Queued' \cap sleeping' : wait_fd'[d] # NULL
      BY <1>1, <1>3, <1>4, <1>6, Zenon DEF Placed
    <2>3. live' = Queued' \cup sleeping' \cup waiting' \cup ({curr_thread'} \ {NULL})
      BY <1>1, <1>2, <1>3, <2>1 DEF Placed
    <2>4. Queued' \cap sleeping' \cap waiting' = {} /\ curr_thread' \notin Queued' \cup sleeping' \cup waiting'
      BY <1>1, <1>3, Zenon DEF Placed
    <2>. QED BY <2>2, <2>3, <2>4, Zenon DEF Placed
  <1>8. KeysAgree'
    BY <1>1, <1>3, Zenon DEF KeysAgree
  <1>a. /\ \A d \in Queued' : d \in Queued /\ wait_fd'[d] = wait_fd[d] /\ due'[d] = due[d]
        /\ \A d \in sleeping' : /\ d \in sleeping /\ wait_fd'[d] = wait_fd[d] /\ due'[d] = due[d]
                                /\ sleep_usecs'[d] = sleep_usecs[d]
        /\ \A d \in waiting' : d \in waiting
    BY <1>3, <1>4, <1>6, Zenon
  <1>9. DueAgree'
    <2>1. \A d \in sleeping' : due'[d] # 0 /\ due'[d] <= sleep_usecs'[d]
      BY <1>1, <1>a, Zenon DEF DueAgree
    <2>2. ASSUME NEW d \in Queued', wait_fd'[d] = NULL \/ d \in waiting' PROVE due'[d] <= now'
      <3>1. d \in Queued /\ due'[d] = due[d] /\ (wait_fd[d] = NULL \/ d \in waiting) /\ now' = now
        BY <1>a, <2>2, Zenon
      <3>. QED BY <1>1, <3>1, Zenon DEF DueAgree
    <2>. QED BY <1>3, <1>4, <2>1, <2>2, Zenon DEF DueAgree
  <1>10. InTime'
    <2>1. ASSUME NEW d \in sleeping', d \in Queued' \/ wait_fd'[d] \in fdready'
          PROVE  sleep_usecs'[d] > now'
      <3>1. /\ d \in sleeping /\ sleep_usecs'[d] = sleep_usecs[d] /\ now' = now
            /\ (d \in Queued \/ wait_fd[d] \in fdready)
        BY <1>a, <2>1, Zenon
      <3>. QED BY <1>1, <3>1, Zenon DEF InTime
    <2>2. \A d \in Queued' \cap waiting' : wait_fd'[d] \notin fdready' /\ due'[d] # 0
      BY <1>1, <1>a, Zenon DEF InTime
    <2>3. \A d \in live' : wait_fd'[d] # NULL /\ due'[d] # 0 => Punctual
      BY <1>1, <1>4, <1>6, Zenon DEF InTime
    <2>. QED BY <1>1, <1>3, <2>1, <2>2, <2>3, Zenon DEF InTime
  <1>. QED BY <1>3, <1>5, <1>7, <1>8, <1>9, <1>10, Zenon DEF SafeInv

\* The loop ends as DONE only when nobody is left.
LEMMA LoopTestSafe ==
  ASSUME SafeInv, LoopTest, TypeInv' PROVE SafeInv'
  <1> USE SchedulerConstants
  <1>1. status = "RUNNING" /\ TypeOK /\ WaitsAgree /\ Placed /\ InTime
    BY Zenon DEF SafeInv, TypeInv, LoopTest
  <1>2. ASSUME IsDone PROVE live = {}
    <2>1. curr_thread = NULL
      BY <1>1, Zenon DEF TypeOK, LoopTest
    <2>2. Queued = {}
      BY <1>2 DEF IsDone, Queued, Range
    <2>3. waiting = {}
      <3> SUFFICES ASSUME NEW c \in waiting PROVE FALSE
        BY Zenon
      <3>1. c \in Coro /\ wait_fd[c] \in Fd
        BY <1>1 DEF TypeOK, WaitsAgree
      <3>2. fd_co_map[wait_fd[c]] = c
        BY <1>1, <3>1, Zenon DEF WaitsAgree
      <3>. QED BY <1>2, <3>1, <3>2, Zenon DEF IsDone
    <2>. QED BY <1>1, <1>2, <2>1, <2>2, <2>3, Zenon DEF Placed, IsDone
  <1>3. /\ UNCHANGED <<curr_thread, queueVars, timerVars, waitVars, live,
                      coro_count, due>>
        /\ now' = now
    BY Zenon DEF LoopTest, coVars, envVars
  <1>4. now' >= now /\ InTime'
    <2>1. now' >= now
      BY <1>1, <1>3 DEF TypeOK, Usec
    <2>2. eventlist = {}
      BY <1>1, Zenon DEF InTime, LoopTest
    <2>3. InTime'
      BY <1>1, <2>2, SameTime, Zenon DEF LoopTest, timerVars, waitVars, coVars, envVars
    <2>. QED BY <2>1, <2>3, Zenon
  <1>5. CASE IsDone
    <2>1. phase' = "main" /\ status' = "DONE"
      BY <1>5, Zenon DEF LoopTest
    <2>. QED BY <1>1, <1>2, <1>3, <1>4, <1>5, <2>1, QuietSafe, Zenon
  <1>6. CASE ~IsDone
    <2>1. phase' = "expire" /\ status' = status
      BY <1>6, Zenon DEF LoopTest
    <2>. QED BY <1>1, <1>3, <1>4, <2>1, QuietSafe, Zenon
  <1>. QED BY <1>5, <1>6, Zenon

\* The other steps of the loop, the calls and the environment steps that move
\* no coroutine.
Still ==
  \/ ExpireDone \/ UrgentDone \/ ReadyDone \/ Poll \/ Run \/ Tick
  \/ \E c \in Coro : SetUrgent(c) \/ UnsetUrgent(c) \/ (Looping /\ RunNested(c))
  \/ \E c \in Coro, fd \in Fd :
       Looping /\ (WaitEvTaken(c, fd) \/ Consume(c, fd))
  \/ \E fd \in Fd : FdReady(fd)
  \/ UNCHANGED vars

\* They keep events and timers apart: the clock waits for a coroutine whose
\* event has come, and no event comes to one whose timer has expired.
LEMMA StillInTime == ASSUME SafeInv, status # "ABORTED", Still PROVE InTime'
  <1> USE SchedulerConstants
  <1> USE DEF loopVars, queueVars, timerVars, waitVars, coVars, envVars
  <1>0. /\ TypeOK /\ Placed /\ DueAgree /\ InTime
        /\ \A c \in waiting : wait_fd[c] # NULL
        /\ curr_thread # NULL /\ Looping => eventlist = {}
        /\ phase # "dispatch" => eventlist = {}
    <2>1. TypeOK /\ Placed /\ DueAgree /\ InTime /\ WaitsAgree
      BY Zenon DEF SafeInv, TypeInv
    <2>2. curr_thread # NULL /\ Looping => phase # "dispatch"
      BY <2>1, Zenon DEF TypeOK, Looping
    <2>. QED BY <2>1, <2>2, Zenon DEF InTime, WaitsAgree
  <1>1. CASE \/ ExpireDone \/ UrgentDone \/ ReadyDone \/ Run
             \/ \E c \in Coro : Looping /\ RunNested(c)
             \/ \E c \in Coro, fd \in Fd : Looping /\ WaitEvTaken(c, fd)
    <2>1. eventlist = {}
      BY <1>0, <1>1, Zenon DEF ExpireDone, UrgentDone, ReadyDone, Run, RunNested, WaitEvTaken
    <2>2. UNCHANGED <<queueVars, sleeping, sleep_usecs, waiting, wait_fd, live, due,
                      now, fdready, eventlist>>
      BY <1>1, Zenon DEF ExpireDone, UrgentDone, ReadyDone, Run, RunNested, WaitEvTaken
    <2>. QED BY <1>0, <2>1, <2>2, SameTime, Zenon
  <1>2. CASE (\E c \in Coro : SetUrgent(c) \/ UnsetUrgent(c)) \/ UNCHANGED vars
    <2>1. UNCHANGED <<phase, queueVars, sleeping, sleep_usecs, waiting, wait_fd, live, due,
                      now, fdready, eventlist>>
      BY <1>2, Zenon DEF SetUrgent, UnsetUrgent, vars
    <2>. QED BY <1>0, <2>1, SameTime, Zenon
  <1> USE DEF InTime
  <1>3. CASE Poll
    <2>1. /\ UNCHANGED <<urgent_ready, ready, sleeping, sleep_usecs, waiting, wait_fd, live, due,
                         now, fdready>>
          /\ eventlist' \subseteq fdready /\ (eventlist' # {} => phase' = "dispatch")
      BY <1>3, Zenon DEF Poll
    <2>2. Queued' = Queued
      BY <2>1, Zenon DEF Queued
    <2>. QED BY <1>0, <2>1, <2>2, Zenon
  <1>4. CASE Tick
    <2>1. /\ UNCHANGED <<phase, urgent_ready, ready, sleeping, sleep_usecs, waiting, wait_fd, live,
                         due, fdready, eventlist>>
          /\ now' = now + 1
          /\ Punctual => \A c \in sleeping :
               (c \in Queued \/ wait_fd[c] \in fdready) => sleep_usecs[c] > now + 1
      BY <1>4, Zenon DEF Tick
    <2>2. Queued' = Queued
      BY <2>1, Zenon DEF Queued
    <2>3. ASSUME NEW c \in sleeping, c \in Queued \/ wait_fd[c] \in fdready
          PROVE  sleep_usecs[c] > now + 1
      <3>1. c \in live /\ due[c] # 0
        BY <1>0, Zenon DEF Placed, DueAgree
      <3>2. wait_fd[c] # NULL
        BY <1>0, <2>3 DEF Placed, TypeOK
      <3>. QED BY <1>0, <2>1, <2>3, <3>1, <3>2, Zenon
    <2>. QED BY <1>0, <2>1, <2>2, <2>3, Zenon
  <1>5. ASSUME NEW fd \in Fd, FdReady(fd) PROVE InTime'
    <2>1. /\ UNCHANGED <<phase, urgent_ready, ready, sleeping, sleep_usecs, waiting, wait_fd, live,
                         due, now, eventlist>>
          /\ fdready' = fdready \cup {fd}
          /\ Punctual => \A c \in live :
               (wait_fd[c] = fd /\ due[c] # 0) => c \in sleeping /\ sleep_usecs[c] > now
      BY <1>5, ZenonT(60) DEF FdReady
    <2>2. Queued' = Queued
      BY <2>1, Zenon DEF Queued
    <2>3. \A c \in live : wait_fd[c] = fd /\ due[c] # 0 => c \in sleeping /\ sleep_usecs[c] > now
      <3>1. fd # NULL
        BY Zenon
      <3>. QED BY <1>0, <2>1, <3>1, Zenon
    <2>4. ASSUME NEW c \in sleeping, c \in Queued \/ wait_fd[c] \in fdready'
          PROVE  sleep_usecs[c] > now
      <3>1. c \in live /\ due[c] # 0
        BY <1>0, Zenon DEF Placed, DueAgree
      <3>. QED BY <1>0, <2>1, <2>3, <2>4, <3>1, Zenon
    <2>5. ASSUME NEW c \in Queued \cap waiting PROVE wait_fd[c] \notin fdready' /\ due[c] # 0
      <3>1. c \in live /\ c \notin sleeping
        BY <1>0, Zenon DEF Placed
      <3>2. wait_fd[c] \notin fdready /\ due[c] # 0
        BY <1>0, Zenon
      <3>. QED BY <2>1, <2>3, <3>1, <3>2, Zenon
    <2>. QED BY <1>0, <2>1, <2>2, <2>4, <2>5, Zenon
  <1>6. ASSUME NEW c \in Coro, NEW fd \in Fd, Looping, Consume(c, fd) PROVE InTime'
    <2>1. /\ UNCHANGED <<phase, urgent_ready, ready, sleeping, sleep_usecs, waiting, wait_fd, live,
                         due, now, eventlist>>
          /\ fdready' = fdready \ {fd} /\ curr_thread # NULL
      BY <1>6, Zenon DEF Consume
    <2>2. Queued' = Queued
      BY <2>1, Zenon DEF Queued
    <2>3. eventlist = {}
      BY <1>0, <1>6, <2>1, Zenon
    <2>. QED BY <1>0, <2>1, <2>2, <2>3, Zenon
  <1>. QED BY <1>1, <1>2, <1>3, <1>4, <1>5, <1>6, ZenonT(60) DEF Still

\* They preserve the invariant.
LEMMA StillSafe == ASSUME SafeInv, TypeInv', Still PROVE SafeInv'
  <1> USE SchedulerConstants
  <1> USE DEF loopVars, coVars, envVars
  <1>0. now \in Int /\ phase # "exitDel" /\ (phase # "main" => status = "RUNNING")
        /\ (status = "DONE" => live = {})
    BY DEF SafeInv, TypeInv, TypeOK, Usec
  <1>a. status # "ABORTED" => InTime'
    BY StillInTime, Zenon
  <1> DEFINE Quiet ==
        /\ UNCHANGED <<curr_thread, queueVars, timerVars, waitVars, live,
                       coro_count, due>>
        /\ now' >= now
        /\ phase' # "exitDel"
        /\ phase' # "main" => status' = "RUNNING"
        /\ status' = "DONE" => live = {}
        /\ status' = "ABORTED" <=> status = "ABORTED"
  <1>1. CASE ExpireDone \/ UrgentDone \/ ReadyDone
    <2>. Quiet BY <1>0, <1>1 DEF ExpireDone, UrgentDone, ReadyDone
    <2>. QED BY <1>a, QuietSafe, Zenon
  <1>2. CASE Poll
    <2>. Quiet BY <1>0, <1>2 DEF Poll
    <2>. QED BY <1>a, QuietSafe
  <1>3. CASE Run
    <2>. Quiet BY <1>0, <1>3 DEF Run
    <2>. QED BY <1>a, QuietSafe
  <1>4. CASE Tick
    <2>. Quiet BY <1>0, <1>4 DEF Tick
    <2>. QED BY <1>a, QuietSafe
  <1>5. ASSUME NEW c \in Coro, SetUrgent(c) \/ UnsetUrgent(c) PROVE SafeInv'
    <2>. Quiet BY <1>0, <1>5 DEF SetUrgent, UnsetUrgent
    <2>. QED BY <1>a, QuietSafe, Zenon
  <1>6. ASSUME NEW c \in Coro, Looping, RunNested(c) PROVE SafeInv'
    <2>. Quiet BY <1>0, <1>6 DEF RunNested, Looping
    <2>. QED BY <1>a, QuietSafe
  <1>7. ASSUME NEW c \in Coro, NEW fd \in Fd, Looping,
               WaitEvTaken(c, fd) \/ Consume(c, fd)
        PROVE  SafeInv'
    <2>. Quiet BY <1>0, <1>7 DEF WaitEvTaken, Consume, Looping
    <2>. QED BY <1>a, QuietSafe, Zenon
  <1>8. ASSUME NEW fd \in Fd, FdReady(fd) PROVE SafeInv'
    <2>. UNCHANGED <<loopVars, curr_thread, queueVars, timerVars, waitVars,
                     coVars, now, due>>
      BY <1>8, ZenonT(60) DEF FdReady
    <2>. Quiet BY <1>0, SMTT(60)
    <2>. QED BY <1>a, QuietSafe, Zenon
  <1>9. CASE UNCHANGED vars
    <2>. Quiet BY <1>0, <1>9 DEF vars
    <2>. QED BY <1>a, QuietSafe
  <1>. QED BY <1>1, <1>2, <1>3, <1>4, <1>5, <1>6, <1>7, <1>8, <1>9, ZenonT(60) DEF Still

-----------------------------------------------------------------------------
(* The steps that move a coroutine, and the properties.                    *)

\* Phases B and C.
LEMMA RunSafe ==
  ASSUME SafeInv, TypeInv', RunUrgent \/ RunReady PROVE SafeInv'
  <1> USE DEF coVars, envVars
  <1>0. TypeOK /\ QueuedOnce /\ status = "RUNNING"
    BY Zenon DEF SafeInv, TypeInv, RunUrgent, RunReady
  <1>1. CASE RunUrgent
    <2> DEFINE c == Head(urgent_ready)
    <2>1. c \in Coro \cap Queued /\ QueuedOnce' /\ Queued' = Queued \ {c}
      BY <1>0, <1>1, PopReadyOnce, Zenon DEF RunUrgent
    <2>2. /\ phase = "urgent" /\ curr_thread = NULL /\ Resume(c)
          /\ UNCHANGED <<status, live, coro_count, now, fdready, eventlist>>
      BY <1>1, Zenon DEF RunUrgent
    <2> HIDE DEF c
    <2>. QED BY <1>0, <2>1, <2>2, ResumeSafe, Zenon
  <1>2. CASE RunReady
    <2> DEFINE c == Head(ready)
    <2>1. c \in Coro \cap Queued /\ QueuedOnce' /\ Queued' = Queued \ {c}
      BY <1>0, <1>2, PopReadyOnce, Zenon DEF RunReady
    <2>2. /\ phase = "ready" /\ curr_thread = NULL /\ Resume(c)
          /\ UNCHANGED <<status, live, coro_count, now, fdready, eventlist>>
      BY <1>2, Zenon DEF RunReady
    <2> HIDE DEF c
    <2>. QED BY <1>0, <2>1, <2>2, ResumeSafe, Zenon
  <1>. QED BY <1>1, <1>2, Zenon

\* Phase A: whose timer expires is not queued, as its event has not come.
LEMMA ExpireSafe ==
  ASSUME SafeInv, TypeInv', NEW c \in Coro, Expire(c) PROVE SafeInv'
  <1> USE SchedulerConstants
  <1> USE DEF loopVars, waitVars, coVars, envVars
  <1>1. /\ status = "RUNNING" /\ phase = "expire" /\ curr_thread = NULL
        /\ TypeOK /\ QueuedOnce /\ WaitsAgree
        /\ Placed /\ KeysAgree /\ DueAgree /\ InTime
    BY Zenon DEF SafeInv, TypeInv, TypeOK, Expire
  <1>2. /\ c \in sleeping /\ sleep_usecs[c] <= now /\ c \notin Queued
        /\ wait_fd[c] \notin fdready /\ due[c] # 0
    <2>1. c \in sleeping /\ sleep_usecs[c] <= now
      BY Zenon DEF Expire, IsExpired
    <2>2. ~(sleep_usecs[c] > now)
      BY <1>1, <2>1 DEF TypeOK, Usec
    <2>. QED BY <1>1, <2>1, <2>2, Zenon DEF InTime, DueAgree
  <1>3. QueuedOnce' /\ Queued' = Queued \cup {c}
    BY <1>1, <1>2, InsertReadyOnce, Zenon DEF Expire
  <1>4. /\ UNCHANGED <<phase, status, curr_thread, sleep_usecs, fd_co_map,
                       interest, waiting, wait_fd, live, coro_count, now, due,
                       fdready, eventlist>>
        /\ sleeping' = sleeping \ {c}
        /\ asleep' = asleep \ {c}
    BY Zenon DEF Expire
  <1>5. WaitsAgree'
    BY <1>1, <1>4, Zenon DEF WaitsAgree
  <1>6. Placed'
    BY <1>1, <1>2, <1>3, <1>4, Zenon DEF Placed
  <1>7. KeysAgree'
    BY <1>1, <1>4, ZenonT(60) DEF KeysAgree
  <1>8. due[c] <= now
    <2>1. due[c] <= sleep_usecs[c] BY <1>1, <1>2, Zenon DEF DueAgree
    <2>2. due[c] \in Nat /\ sleep_usecs[c] \in Nat /\ now \in Nat
      BY <1>1 DEF TypeOK, Usec
    <2>. QED BY <1>2, <2>1, <2>2
  <1>9. DueAgree'
    BY <1>1, <1>3, <1>4, <1>8, Zenon DEF DueAgree
  <1>10. InTime'
    BY <1>1, <1>2, <1>3, <1>4, Zenon DEF InTime
  <1>. QED BY <1>1, <1>3, <1>4, <1>5, <1>6, <1>7, <1>9, <1>10, Zenon DEF SafeInv

\* Phase D: who gets an event is not queued, as its timer has not expired.
LEMMA DispatchSafe ==
  ASSUME SafeInv, TypeInv', NEW fd \in Fd, Dispatch(fd) PROVE SafeInv'
  <1> USE SchedulerConstants
  <1> USE DEF queueVars, timerVars, coVars, envVars
  <1>1. /\ status = "RUNNING" /\ phase = "dispatch" /\ curr_thread = NULL
        /\ TypeOK /\ QueuedOnce /\ WaitsAgree
        /\ Placed /\ KeysAgree /\ DueAgree /\ InTime
    BY Zenon DEF SafeInv, TypeInv, TypeOK, Dispatch
  <1>2. /\ fd \in fdready /\ eventlist' = eventlist \ {fd} /\ eventlist' \subseteq fdready
        /\ UNCHANGED <<status, curr_thread, sleeping, sleep_usecs, asleep,
                       wait_fd, live, coro_count, now, due, fdready>>
    BY <1>1, Zenon DEF Dispatch, InTime
  <1>3. CASE fd_co_map[fd] = NULL
    <2>1. /\ UNCHANGED <<queueVars, waitVars>>
          /\ phase' = IF eventlist = {fd} THEN "top" ELSE "dispatch"
      BY <1>2, <1>3, ZenonT(60) DEF Dispatch, waitVars
    <2>2. now' >= now BY <1>1, <1>2 DEF TypeOK, Usec
    <2>3. eventlist' # {} => phase' = "dispatch"
      BY <1>2, <2>1, Zenon
    <2>4. Queued' = Queued
      BY <2>1, Zenon DEF Queued
    <2>5. InTime'
      BY <1>1, <1>2, <2>1, <2>3, <2>4, Zenon DEF InTime, waitVars
    <2>6. phase' \in {"top", "dispatch"}
      BY <2>1, Zenon
    <2>. QED BY <1>1, <1>2, <2>1, <2>2, <2>5, <2>6, QuietSafe, Zenon
  <1>4. CASE fd_co_map[fd] # NULL
    <2> DEFINE c == fd_co_map[fd]
    <2>1. c \in Coro
      BY <1>1, <1>4, Zenon DEF TypeOK
    <2>2. c \in waiting /\ wait_fd[c] = fd /\ fd \in interest
      BY <1>1, <1>4, <2>1, Zenon DEF WaitsAgree
    <2>3. c \notin Queued /\ InsertReady(c)
      BY <1>1, <1>2, <1>4, <2>2, Zenon DEF InTime, Dispatch
    <2>4. /\ phase' = IF eventlist = {fd} THEN "top" ELSE "dispatch"
          /\ fd_co_map' = [fd_co_map EXCEPT ![fd] = NULL]
          /\ interest' = interest \ {fd}
          /\ waiting' = waiting \ {c}
      BY <1>4, <2>2, Zenon DEF Dispatch, CancelWait
    <2> HIDE DEF c
    <2>5. QueuedOnce' /\ Queued' = Queued \cup {c}
      BY <1>1, <2>1, <2>3, InsertReadyOnce, ZenonT(60)
    <2>6. WaitsAgree'
      BY <1>1, <1>2, <2>1, <2>2, <2>4, SMTT(60) DEF WaitsAgree, TypeOK
    <2>7. Placed'
      <3>1. fd # NULL
        BY Zenon
      <3>. QED BY <1>1, <1>2, <2>2, <2>4, <2>5, <3>1, Zenon DEF Placed
    <2>8. KeysAgree'
      BY <1>1, <1>2, Zenon DEF KeysAgree
    <2>9. DueAgree'
      <3>1. fd # NULL
        BY Zenon
      <3>. QED BY <1>1, <1>2, <2>2, <2>4, <2>5, <3>1, ZenonT(60) DEF DueAgree
    <2>10. InTime'
      <3>1. \A d \in sleeping' : d \in Queued' \/ wait_fd'[d] \in fdready' => sleep_usecs'[d] > now'
        BY <1>1, <1>2, <2>2, <2>5, Zenon DEF InTime
      <3>2. \A d \in Queued' \cap waiting' : wait_fd'[d] \notin fdready' /\ due'[d] # 0
        BY <1>1, <1>2, <2>4, <2>5, Zenon DEF InTime
      <3>3. eventlist' # {} => phase' = "dispatch"
        BY <1>2, <2>4, Zenon
      <3>4. \A d \in live' : wait_fd'[d] # NULL /\ due'[d] # 0 => Punctual
        BY <1>1, <1>2, Zenon DEF InTime
      <3>. QED BY <1>2, <3>1, <3>2, <3>3, <3>4, Zenon DEF InTime
    <2>11. phase' \in {"top", "dispatch"}
      BY <2>4, Zenon
    <2>. QED BY <1>1, <1>2, <2>5, <2>6, <2>7, <2>8, <2>9, <2>10, <2>11, ZenonT(60) DEF SafeInv
  <1>. QED BY <1>3, <1>4, Zenon

\* A set of live coroutines is finite, so its cardinality counts.
LEMMA LiveFinite == ASSUME TypeOK PROVE IsFiniteSet(live)
  BY FS_Subset, SchedulerConstants, Zenon DEF TypeOK

LEMMA CreateSafe ==
  ASSUME SafeInv, TypeInv', NEW c \in Coro, Create(c) \/ CreateUrgent(c)
  PROVE  SafeInv'
  <1> USE SchedulerConstants
  <1> USE DEF coVars, envVars
  <1>1. NewCoro(c) /\ Caller /\ c \notin live
    BY Zenon DEF Create, CreateUrgent, NewCoro
  <1>2. /\ status # "ABORTED" /\ phase # "exitDel"
        /\ TypeOK /\ QueuedOnce /\ WaitsAgree
        /\ Placed /\ KeysAgree /\ DueAgree /\ InTime
    BY <1>1, Zenon DEF SafeInv, TypeInv, Caller, Looping
  <1>3. c \notin Queued /\ c \notin sleeping /\ c \notin waiting /\ curr_thread # c
    BY <1>2, <1>1, Zenon DEF Placed
  <1>4. QueuedOnce' /\ Queued' = Queued \cup {c}
    <2>0. c \notin Range(urgent_ready) /\ c \notin Range(ready)
      BY <1>3, Zenon DEF Queued
    <2>1. CASE Create(c)
      <3>1. ready' = Append(ready, c) /\ urgent_ready' = urgent_ready
        BY <2>1, Zenon DEF Create
      <3>2. IsInjective(ready') /\ Range(ready') = Range(ready) \cup {c}
        BY <1>2, <2>0, <3>1, AppendOnce, SMTT(60) DEF TypeOK, QueuedOnce
      <3>. QED BY <1>2, <2>0, <3>1, <3>2, Zenon DEF QueuedOnce, Queued
    <2>2. CASE CreateUrgent(c)
      <3>1. urgent_ready' = Append(urgent_ready, c) /\ ready' = ready
        BY <2>2, Zenon DEF CreateUrgent
      <3>2. /\ IsInjective(urgent_ready')
            /\ Range(urgent_ready') = Range(urgent_ready) \cup {c}
        BY <1>2, <2>0, <3>1, AppendOnce, SMTT(60) DEF TypeOK, QueuedOnce
      <3>. QED BY <1>2, <2>0, <3>1, <3>2, Zenon DEF QueuedOnce, Queued
    <2>. QED BY <2>1, <2>2, Zenon
  <1>5. /\ UNCHANGED <<phase, curr_thread, sleeping, asleep, fd_co_map,
                       interest, waiting, now>>
        /\ live' = live \cup {c}
        /\ coro_count' = coro_count + 1
        /\ status' = IF status = "DONE" THEN "READY" ELSE status
        /\ sleep_usecs' = [sleep_usecs EXCEPT ![c] = 0]
        /\ wait_fd' = [wait_fd EXCEPT ![c] = NULL]
        /\ due' = [due EXCEPT ![c] = 0]
    BY <1>1, Zenon DEF NewCoro
  <1>6. WaitsAgree'
    BY <1>2, <1>3, <1>5, SMTT(60) DEF WaitsAgree, TypeOK
  <1>7. Placed'
    BY <1>2, <1>3, <1>4, <1>5, SMTT(60) DEF Placed, TypeOK
  <1>8. KeysAgree'
    BY <1>2, <1>3, <1>5, SMTT(60) DEF KeysAgree, TypeOK
  <1>a. /\ Queued \subseteq Coro /\ sleeping \subseteq Coro /\ waiting \subseteq Coro /\ live \subseteq Coro
        /\ \A d \in Coro : wait_fd'[d] = IF d = c THEN NULL ELSE wait_fd[d]
        /\ \A d \in Coro : due'[d] = IF d = c THEN 0 ELSE due[d]
        /\ \A d \in Coro : sleep_usecs'[d] = IF d = c THEN 0 ELSE sleep_usecs[d]
    BY <1>2, <1>5, Zenon DEF TypeOK, Placed
  <1>9. DueAgree' /\ InTime'
    <2>1. \A d \in sleeping' : due'[d] # 0 /\ due'[d] <= sleep_usecs'[d]
      BY <1>2, <1>3, <1>5, <1>a, ZenonT(60) DEF DueAgree
    <2>2. 0 <= now
      BY <1>2 DEF TypeOK, Usec
    <2>3. \A d \in Queued' : wait_fd'[d] = NULL \/ d \in waiting' => due'[d] <= now'
      <3> SUFFICES ASSUME NEW d \in Queued', wait_fd'[d] = NULL \/ d \in waiting' PROVE due'[d] <= now'
        BY Zenon
      <3>1. d \in Coro /\ now' = now /\ (d = c \/ (d # c /\ d \in Queued))
        BY <1>4, <1>5, <1>a, Zenon
      <3>2. CASE d = c
        BY <1>a, <2>2, <3>1, <3>2, Zenon
      <3>3. CASE d # c /\ d \in Queued
        <4>1. wait_fd'[d] = wait_fd[d] /\ due'[d] = due[d] /\ waiting' = waiting
          BY <1>5, <1>a, <3>1, <3>3, Zenon
        <4>2. wait_fd[d] = NULL \/ d \in waiting
          BY <4>1, Zenon
        <4>3. due[d] <= now
          BY <1>2, <3>3, <4>2, Zenon DEF DueAgree
        <4>. QED BY <3>1, <4>1, <4>3, Zenon
      <3>. QED BY <3>1, <3>2, <3>3, Zenon
    <2>4. curr_thread' # NULL => wait_fd'[curr_thread'] = NULL /\ due'[curr_thread'] = 0
      BY <1>2, <1>3, <1>5, <1>a, ZenonT(60) DEF DueAgree, TypeOK
    <2>5. \A d \in sleeping' : d \in Queued' \/ wait_fd'[d] \in fdready' => sleep_usecs'[d] > now'
      <3> SUFFICES ASSUME NEW d \in sleeping', d \in Queued' \/ wait_fd'[d] \in fdready'
                   PROVE  sleep_usecs'[d] > now'
        BY Zenon
      <3>1. d \in Coro /\ d \in sleeping /\ d # c /\ now' = now /\ fdready' = fdready
        BY <1>1, <1>2, <1>3, <1>5, <1>a, Zenon DEF NewCoro
      <3>2. sleep_usecs'[d] = sleep_usecs[d] /\ wait_fd'[d] = wait_fd[d]
        BY <1>a, <3>1, ZenonT(60)
      <3>3. d \in Queued \/ wait_fd[d] \in fdready
        BY <1>4, <3>1, <3>2, SMTT(60)
      <3>. QED BY <1>2, <3>1, <3>2, <3>3, Zenon DEF InTime
    <2>6. \A d \in Queued' \cap waiting' : wait_fd'[d] \notin fdready' /\ due'[d] # 0
      BY <1>1, <1>2, <1>3, <1>4, <1>5, <1>a, ZenonT(60) DEF InTime, NewCoro
    <2>7. \A d \in live' : wait_fd'[d] # NULL /\ due'[d] # 0 => Punctual
      BY <1>2, <1>5, <1>a, Zenon DEF InTime
    <2>8. UNCHANGED <<eventlist, fdready, phase>>
      BY <1>1, Zenon DEF NewCoro
    <2>9. DueAgree'
      BY <2>1, <2>3, <2>4, Zenon DEF DueAgree
    <2>. QED BY <1>2, <2>5, <2>6, <2>7, <2>8, <2>9, Zenon DEF InTime
  <1>10. coro_count' = Cardinality(live)'
    BY <1>1, <1>2, <1>5, LiveFinite, FS_AddElement, ZenonT(60) DEF SafeInv
  <1>11. /\ phase' # "exitDel"
         /\ phase' # "main" => status' = "RUNNING"
         /\ status' = "DONE" => live' = {}
    BY <1>2, <1>5, Zenon DEF SafeInv
  <1>. QED BY <1>4, <1>6, <1>7, <1>8, <1>9, <1>10, <1>11, Zenon DEF SafeInv

\* sleep(0) and stop queue the caller again.
LEMMA RequeueSafe ==
  ASSUME SafeInv, TypeInv', Looping, NEW c \in Coro, curr_thread = c,
         InsertReady(c), curr_thread' = NULL,
         \/ UNCHANGED <<phase, status>>
         \/ phase' = "main" /\ status' = "STOPPED",
         UNCHANGED <<timerVars, waitVars, live, coro_count, now, due, fdready, eventlist>>
  PROVE  SafeInv'
  <1> USE SchedulerConstants
  <1> USE DEF timerVars, waitVars
  <1>1. /\ status = "RUNNING" /\ TypeOK /\ QueuedOnce /\ WaitsAgree
        /\ Placed /\ KeysAgree /\ DueAgree /\ InTime
    BY Zenon DEF SafeInv, TypeInv, Looping
  <1>2. /\ c \notin Queued /\ c \notin sleeping /\ c \notin waiting /\ due[c] = 0 /\ c # NULL
        /\ eventlist = {}
    <2>1. phase # "dispatch"
      BY <1>1, Zenon DEF TypeOK, Looping
    <2>. QED BY <1>1, <2>1, Zenon DEF Placed, DueAgree, InTime
  <1>3. QueuedOnce' /\ Queued' = Queued \cup {c}
    BY <1>1, <1>2, InsertReadyOnce, Zenon
  <1>4. WaitsAgree'
    BY <1>1, Zenon DEF WaitsAgree
  <1>5. Placed'
    BY <1>1, <1>2, <1>3 DEF Placed, TypeOK
  <1>6. KeysAgree'
    BY <1>1, Zenon DEF KeysAgree
  <1>7. DueAgree'
    <2>1. 0 <= now
      BY <1>1 DEF TypeOK, Usec
    <2>. QED BY <1>1, <1>2, <1>3, <2>1, ZenonT(60) DEF DueAgree
  <1>8. InTime'
    BY <1>1, <1>2, <1>3, Zenon DEF InTime
  <1>. QED BY <1>1, <1>3, <1>4, <1>5, <1>6, <1>7, <1>8, Zenon DEF SafeInv

\* A timer is set: the keys stay different, and that of the caller is not before
\* the deadline it has asked for.
LEMMA TimerSafe ==
  ASSUME TimelyWaits, TypeOK, Placed, KeysAgree, DueAgree,
         NEW c \in Coro, curr_thread = c, NEW msecs \in Int, msecs > 0,
         SchedSleep(c, msecs), Usecs(msecs) \in Nat \ {0}, live' = live,
         due' = [due EXCEPT ![c] = now + Usecs(msecs)]
  PROVE  /\ KeysAgree' /\ sleeping' = sleeping \cup {c}
         /\ \A d \in sleeping' : due'[d] # 0 /\ due'[d] <= sleep_usecs'[d]
         /\ \A d \in Coro : d # c => due'[d] = due[d] /\ sleep_usecs'[d] = sleep_usecs[d]
         /\ due'[c] # 0 /\ now < sleep_usecs'[c]
  <1> USE SchedulerConstants
  <1>1. sleeping' = sleeping \cup {c} /\ asleep' = asleep \cup {c}
    BY SchedSleepSafe, Zenon
  <1>2. PICK k \in Usec :
          /\ sleep_usecs' = [sleep_usecs EXCEPT ![c] = k]
          /\ k >= now + Usecs(msecs)
          /\ \A d \in live \ {c} : sleep_usecs[d] # k
    BY SchedSleepSafe, Zenon
  <1>3. k \in Nat /\ now \in Nat /\ k > 0 /\ now < k /\ now + Usecs(msecs) # 0 /\ now + Usecs(msecs) <= k
    BY <1>2 DEF TypeOK, Usec
  <1>4. /\ sleep_usecs'[c] = k /\ due'[c] = now + Usecs(msecs)
        /\ \A d \in Coro : d # c => due'[d] = due[d] /\ sleep_usecs'[d] = sleep_usecs[d]
    BY <1>2, Zenon DEF TypeOK
  <1>5. c \in live /\ live \subseteq Coro /\ sleeping \subseteq Coro
    BY Zenon DEF Placed, TypeOK
  <1>6. KeysAgree'
    <2>1. asleep' = sleeping'
      BY <1>1, Zenon DEF KeysAgree
    <2>2. \A d \in sleeping' : sleep_usecs'[d] > 0
      BY <1>1, <1>3, <1>4, <1>5, Zenon DEF KeysAgree
    <2>3. \A a, b \in live' : (a # b /\ sleep_usecs'[a] = sleep_usecs'[b]) => sleep_usecs'[a] = 0
      <3> SUFFICES ASSUME NEW a \in live, NEW b \in live, a # b, sleep_usecs'[a] = sleep_usecs'[b]
                   PROVE  sleep_usecs'[a] = 0
        BY Zenon
      <3>1. a # c /\ b # c
        BY <1>2, <1>4, <1>5, Zenon
      <3>. QED BY <1>4, <1>5, <3>1, Zenon DEF KeysAgree
    <2>. QED BY <2>1, <2>2, <2>3, Zenon DEF KeysAgree
  <1>7. \A d \in sleeping' : due'[d] # 0 /\ due'[d] <= sleep_usecs'[d]
    BY <1>1, <1>3, <1>4, <1>5, Zenon DEF DueAgree
  <1>. QED BY <1>1, <1>3, <1>4, <1>6, <1>7, Zenon

LEMMA SleepSafe ==
  ASSUME TimelyWaits, SafeInv, TypeInv', Looping,
         NEW c \in Coro, curr_thread = c, NEW msecs \in SleepTimes,
         Sleep(c, msecs)
  PROVE  SafeInv'
  <1> USE SchedulerConstants
  <1> USE DEF queueVars, waitVars, coVars, envVars
  <1>1. /\ status = "RUNNING" /\ phase # "exitDel" /\ phase # "dispatch"
        /\ TypeOK /\ QueuedOnce /\ WaitsAgree
        /\ Placed /\ KeysAgree /\ DueAgree /\ InTime
    BY Zenon DEF SafeInv, TypeInv, TypeOK, Looping
  <1>2. SchedSleep(c, msecs) /\ msecs > 0 /\ msecs \in Int /\ Usecs(msecs) \in Nat \ {0}
    BY SleepExact, Zenon DEF Sleep
  <1>3. /\ UNCHANGED <<phase, status, urgent_ready, ready, fd_co_map, interest,
                       waiting, wait_fd, live, coro_count, now, fdready, eventlist>>
        /\ curr_thread' = NULL
    BY Zenon DEF Sleep, Return
  <1>4. due' = [due EXCEPT ![c] = now + Usecs(msecs)]
    BY SleepExact, ZenonT(60) DEF Sleep
  <1>5. /\ KeysAgree' /\ sleeping' = sleeping \cup {c}
        /\ \A d \in sleeping' : due'[d] # 0 /\ due'[d] <= sleep_usecs'[d]
        /\ \A d \in Coro : d # c => due'[d] = due[d] /\ sleep_usecs'[d] = sleep_usecs[d]
    BY <1>1, <1>2, <1>3, <1>4, TimerSafe, Zenon
  <1>6. QueuedOnce' /\ Queued' = Queued
    BY <1>1, <1>3, Zenon DEF QueuedOnce, Queued
  <1>7. /\ c \notin Queued /\ c \notin waiting /\ c \notin sleeping /\ c \in live /\ wait_fd[c] = NULL
        /\ Queued \subseteq Coro /\ sleeping \subseteq Coro
    BY <1>1, Zenon DEF Placed, DueAgree, TypeOK
  <1>8. WaitsAgree'
    BY <1>1, <1>3, Zenon DEF WaitsAgree
  <1>9. Placed'
    <2>1. live' = Queued' \cup sleeping' \cup waiting' \cup ({curr_thread'} \ {NULL})
      BY <1>1, <1>3, <1>5, <1>6, <1>7, Zenon DEF Placed
    <2>2. NULL \notin Queued' \cup sleeping' \cup waiting'
      BY <1>1, <1>3, <1>5, <1>6, <1>7, ZenonT(60) DEF TypeOK
    <2>3. Queued' \cap sleeping' \cap waiting' = {} /\ \A d \in Queued' \cap sleeping' : wait_fd'[d] # NULL
      BY <1>1, <1>3, <1>5, <1>6, <1>7, Zenon DEF Placed
    <2>. QED BY <1>3, <2>1, <2>2, <2>3, ZenonT(60) DEF Placed
  <1>10. DueAgree'
    <2>1. \A d \in Queued' : wait_fd'[d] = NULL \/ d \in waiting' => due'[d] <= now'
      BY <1>1, <1>3, <1>5, <1>6, <1>7, Zenon DEF DueAgree
    <2>. QED BY <1>3, <1>5, <2>1, Zenon DEF DueAgree
  <1>11. InTime'
    <2>1. \A d \in sleeping' : d \in Queued' \/ wait_fd'[d] \in fdready' => sleep_usecs'[d] > now'
      BY <1>1, <1>3, <1>5, <1>6, <1>7, ZenonT(60) DEF InTime, TypeOK
    <2>2. \A d \in Queued' \cap waiting' : wait_fd'[d] \notin fdready' /\ due'[d] # 0
      BY <1>1, <1>3, <1>5, <1>6, <1>7, Zenon DEF InTime
    <2>3. \A d \in live' : wait_fd'[d] # NULL /\ due'[d] # 0 => Punctual
      BY <1>1, <1>3, <1>5, <1>7, ZenonT(60) DEF InTime, TypeOK
    <2>. QED BY <1>1, <1>3, <2>1, <2>2, <2>3, Zenon DEF InTime
  <1>. QED BY <1>1, <1>3, <1>5, <1>6, <1>8, <1>9, <1>10, <1>11, ZenonT(60) DEF SafeInv

LEMMA WaitEvSafe ==
  ASSUME TimelyWaits, SafeInv, TypeInv', Looping,
         NEW c \in Coro, curr_thread = c, NEW fd \in Fd,
         NEW timeout \in WaitTimeouts, WaitEv(c, fd, timeout)
  PROVE  SafeInv'
  <1> USE SchedulerConstants
  <1> USE DEF queueVars, coVars, envVars
  <1>1. /\ status = "RUNNING" /\ phase # "exitDel" /\ phase # "dispatch"
        /\ TypeOK /\ QueuedOnce /\ WaitsAgree
        /\ Placed /\ KeysAgree /\ DueAgree /\ InTime
    BY Zenon DEF SafeInv, TypeInv, TypeOK, Looping
  <1>2. timeout \in Int /\ (timeout > 0 \/ timeout <= 0) /\ (timeout <= 0 => ~(timeout > 0))
    BY SMT
  <1>3. /\ UNCHANGED <<phase, status, urgent_ready, ready, live, coro_count, now, fdready, eventlist>>
        /\ curr_thread' = NULL
        /\ fd \notin interest /\ fd \notin fdready
        /\ interest' = interest \cup {fd}
        /\ fd_co_map' = [fd_co_map EXCEPT ![fd] = c]
        /\ waiting' = waiting \cup {c}
        /\ wait_fd' = [wait_fd EXCEPT ![c] = fd]
        /\ SchedSleep(c, timeout)
    BY Zenon DEF WaitEv, Return
  <1>4. /\ c \notin waiting /\ c \notin Queued /\ c \notin sleeping /\ c \in live
        /\ Queued \subseteq Coro /\ sleeping \subseteq Coro /\ waiting \subseteq Coro /\ live \subseteq Coro
    BY <1>1, Zenon DEF Placed, TypeOK
  \* The timer, if there is one.
  <1>5. /\ KeysAgree' /\ sleeping \subseteq sleeping' /\ sleeping' \subseteq sleeping \cup {c}
        /\ \A d \in sleeping' : due'[d] # 0 /\ due'[d] <= sleep_usecs'[d]
        /\ \A d \in Coro : d # c => due'[d] = due[d] /\ sleep_usecs'[d] = sleep_usecs[d]
        /\ due'[c] # 0 => Punctual
    <2>1. CASE timeout > 0
      <3>1. Usecs(timeout) = timeout * UsecPerMs /\ Usecs(timeout) \in Nat \ {0}
        BY <2>1, WaitExact, Zenon
      <3>2. due' = [due EXCEPT ![c] = now + Usecs(timeout)]
        BY <2>1, <3>1, Zenon DEF WaitEv
      <3>3. /\ KeysAgree' /\ sleeping' = sleeping \cup {c}
            /\ \A d \in sleeping' : due'[d] # 0 /\ due'[d] <= sleep_usecs'[d]
            /\ \A d \in Coro : d # c => due'[d] = due[d] /\ sleep_usecs'[d] = sleep_usecs[d]
        BY <1>1, <1>2, <1>3, <2>1, <3>1, <3>2, TimerSafe, ZenonT(60)
      <3>4. ~(timeout <= 0)
        BY <1>2, <2>1
      <3>5. Punctual
        BY <3>4, Zenon DEF TimelyWaits
      <3>. QED BY <3>3, <3>5, Zenon
    <2>2. CASE timeout <= 0
      <3>1. due' = [due EXCEPT ![c] = 0]
        BY <1>2, <2>2, Zenon DEF WaitEv
      <3>2. UNCHANGED <<sleeping, asleep, sleep_usecs>>
        BY <1>1, <1>2, <1>3, <2>2, SchedSleepSafe, ZenonT(60)
      <3>3. due'[c] = 0 /\ \A d \in Coro : d # c => due'[d] = due[d]
        BY <1>1, <3>1, Zenon DEF TypeOK
      <3>4. KeysAgree'
        BY <1>1, <1>3, <3>2, Zenon DEF KeysAgree
      <3>. QED BY <1>1, <1>4, <3>2, <3>3, <3>4, Zenon DEF DueAgree
    <2>. QED BY <1>2, <2>1, <2>2, Zenon
  <1>6. QueuedOnce' /\ Queued' = Queued
    BY <1>1, <1>3, Zenon DEF QueuedOnce, Queued
  <1>7. wait_fd'[c] = fd /\ \A d \in Coro : d # c => wait_fd'[d] = wait_fd[d]
    BY <1>1, <1>3, ZenonT(60) DEF TypeOK
  <1>8. WaitsAgree'
    BY <1>1, <1>3, <1>4, SMTT(60) DEF WaitsAgree, TypeOK
  <1>9. Placed'
    <2>1. live' = Queued' \cup sleeping' \cup waiting' \cup ({curr_thread'} \ {NULL})
      BY <1>1, <1>3, <1>4, <1>5, <1>6, SMTT(60) DEF Placed
    <2>2. NULL \notin Queued' \cup sleeping' \cup waiting'
      BY <1>1, <1>3, <1>4, <1>5, <1>6, Zenon DEF TypeOK
    <2>3. Queued' \cap sleeping' \cap waiting' = {}
      BY <1>1, <1>3, <1>4, <1>5, <1>6, Zenon DEF Placed
    <2>4. \A d \in Queued' \cap sleeping' : wait_fd'[d] # NULL
      BY <1>1, <1>4, <1>5, <1>6, <1>7, Zenon DEF Placed
    <2>. QED BY <1>3, <2>1, <2>2, <2>3, <2>4, ZenonT(60) DEF Placed
  <1>10. DueAgree'
    <2>1. \A d \in Queued' : wait_fd'[d] = NULL \/ d \in waiting' => due'[d] <= now'
      BY <1>1, <1>3, <1>4, <1>5, <1>6, <1>7, Zenon DEF DueAgree
    <2>. QED BY <1>3, <1>5, <2>1, Zenon DEF DueAgree
  <1>11. InTime'
    <2>1. \A d \in sleeping' : d \in Queued' \/ wait_fd'[d] \in fdready' => sleep_usecs'[d] > now'
      <3> SUFFICES ASSUME NEW d \in sleeping', d \in Queued' \/ wait_fd'[d] \in fdready'
                   PROVE  sleep_usecs'[d] > now'
        BY Zenon
      <3>1. d # c
        <4>1. c \notin Queued'
          BY <1>4, <1>6, Zenon
        <4>2. fd \notin fdready'
          BY <1>3, Zenon
        <4>. QED BY <1>7, <4>1, <4>2, Zenon
      <3>2. d \in sleeping /\ d \in Coro
        BY <1>4, <1>5, <3>1, Zenon
      <3>3. sleep_usecs'[d] = sleep_usecs[d] /\ wait_fd'[d] = wait_fd[d]
        BY <1>5, <1>7, <3>1, <3>2, Zenon
      <3>4. now' = now /\ fdready' = fdready /\ Queued' = Queued
        BY <1>3, <1>6, Zenon
      <3>5. d \in Queued \/ wait_fd[d] \in fdready
        BY <3>3, <3>4, Zenon
      <3>6. sleep_usecs[d] > now
        BY <1>1, <3>2, <3>5, Zenon DEF InTime
      <3>. QED BY <3>3, <3>4, <3>6, Zenon
    <2>2. \A d \in Queued' \cap waiting' : wait_fd'[d] \notin fdready' /\ due'[d] # 0
      <3> SUFFICES ASSUME NEW d \in Queued' \cap waiting'
                   PROVE  wait_fd'[d] \notin fdready' /\ due'[d] # 0
        BY Zenon
      <3>1. d # c /\ d \in Coro /\ d \in Queued \cap waiting
        BY <1>3, <1>4, <1>6, Zenon
      <3>2. wait_fd'[d] = wait_fd[d] /\ due'[d] = due[d] /\ fdready' = fdready
        BY <1>3, <1>5, <1>7, <3>1, Zenon
      <3>. QED BY <1>1, <3>1, <3>2, Zenon DEF InTime
    <2>3. \A d \in live' : wait_fd'[d] # NULL /\ due'[d] # 0 => Punctual
      BY <1>1, <1>3, <1>4, <1>5, <1>7, Zenon DEF InTime
    <2>. QED BY <1>1, <1>3, <2>1, <2>2, <2>3, Zenon DEF InTime
  <1>. QED BY <1>1, <1>3, <1>5, <1>6, <1>8, <1>9, <1>10, <1>11, ZenonT(60) DEF SafeInv

\* A coroutine that ends.
LEMMA EndSafe ==
  ASSUME SafeInv, TypeInv', Looping, NEW c \in Coro, curr_thread = c,
         Exit(c) \/ Abort(c)
  PROVE  SafeInv'
  <1> USE SchedulerConstants
  <1> USE DEF queueVars, waitVars, envVars
  <1>1. /\ status = "RUNNING" /\ phase # "exitDel"
        /\ TypeOK /\ QueuedOnce /\ WaitsAgree
        /\ Placed /\ KeysAgree /\ DueAgree /\ InTime
    BY Zenon DEF SafeInv, TypeInv, Looping
  <1>2. /\ c \in live /\ c \notin Queued /\ c \notin sleeping /\ c \notin waiting
        /\ c \notin asleep
    BY <1>1, Zenon DEF Placed, KeysAgree
  <1>3. /\ UNCHANGED <<phase, status, urgent_ready, ready, fd_co_map, interest,
                       waiting, wait_fd, now, due, sleeping, asleep,
                       sleep_usecs, fdready, eventlist>>
        /\ curr_thread' = NULL
        /\ live' = live \ {c}
        /\ coro_count' = coro_count - 1
    BY <1>2, ZenonT(60) DEF Exit, Abort, FreeCoro, CancelSleep, Return
  <1>4. QueuedOnce' /\ Queued' = Queued
    BY <1>1, <1>3, Zenon DEF QueuedOnce, Queued
  <1>5. WaitsAgree'
    BY <1>1, <1>3, ZenonT(60) DEF WaitsAgree
  <1>6. Placed'
    BY <1>1, <1>2, <1>3, <1>4 DEF Placed, TypeOK
  <1>7. KeysAgree' /\ DueAgree' /\ InTime'
    <2>1. KeysAgree'
      BY <1>1, <1>3, Zenon DEF KeysAgree
    <2>2. DueAgree'
      BY <1>1, <1>3, <1>4, Zenon DEF DueAgree
    <2>3. InTime'
      BY <1>1, <1>3, <1>4, Zenon DEF InTime
    <2>. QED BY <2>1, <2>2, <2>3, Zenon
  <1>8. coro_count' = Cardinality(live)'
    BY <1>1, <1>2, <1>3, LiveFinite, FS_RemoveElement, ZenonT(60) DEF SafeInv
  <1>. QED BY <1>1, <1>3, <1>4, <1>5, <1>6, <1>7, <1>8, ZenonT(60) DEF SafeInv

LEMMA SchedAbortSafe ==
  ASSUME SafeInv, TypeInv', NEW c \in Coro, SchedAbort(c) PROVE SafeInv'
  <1>1. QueuedOnce /\ TypeOK /\ coro_count = Cardinality(live)
    BY Zenon DEF SafeInv, TypeInv
  <1>2. /\ live' = {} /\ coro_count' = coro_count - Cardinality(live)
        /\ status' = "ABORTED" /\ phase' = "main"
        /\ UNCHANGED <<urgent_ready, ready>>
    BY Zenon DEF SchedAbort, queueVars
  <1>3. QueuedOnce'
    BY <1>1, <1>2, Zenon DEF QueuedOnce
  <1>4. WaitsAgree'
    BY <1>2, Zenon DEF WaitsAgree
  <1>5. coro_count' = Cardinality(live)'
    BY <1>1, <1>2, LiveFinite, FS_CardinalityType, FS_EmptySet, SMTT(60)
  <1>. QED BY <1>2, <1>3, <1>4, <1>5, Zenon DEF SafeInv

LEMMA StepSafe == TimelyWaits /\ SafeInv /\ [Next]_vars => SafeInv'
  <1> SUFFICES ASSUME TimelyWaits, SafeInv, [Next]_vars PROVE SafeInv'
    BY Zenon
  <1>t. TypeInv'
    BY StepType, Zenon DEF SafeInv
  <1>1. CASE LoopTest BY <1>t, <1>1, LoopTestSafe, Zenon
  <1>2. CASE RunUrgent \/ RunReady BY <1>t, <1>2, RunSafe, Zenon
  <1>3. ASSUME NEW c \in Coro, Expire(c) PROVE SafeInv'
    BY <1>t, <1>3, ExpireSafe, Zenon
  <1>4. ASSUME NEW fd \in Fd, Dispatch(fd) PROVE SafeInv'
    BY <1>t, <1>4, DispatchSafe, Zenon
  <1>5. ASSUME NEW c \in Coro, Create(c) \/ CreateUrgent(c) PROVE SafeInv'
    BY <1>t, <1>5, CreateSafe, Zenon
  <1>6. ASSUME NEW c \in Coro, Yields(c) PROVE SafeInv'
    <2>0. curr_thread = c /\ Looping
      BY <1>6, Zenon DEF Yields
    <2>1. CASE SleepZero(c)
      BY <1>t, <2>0, <2>1, RequeueSafe, Zenon DEF SleepZero, Return, coVars, envVars
    <2>2. ASSUME NEW msecs \in SleepTimes, Sleep(c, msecs) PROVE SafeInv'
      BY <1>t, <2>0, <2>2, SleepSafe, Zenon
    <2>3. ASSUME NEW fd \in Fd, NEW timeout \in WaitTimeouts,
                 WaitEv(c, fd, timeout)
          PROVE  SafeInv'
      BY <1>t, <2>0, <2>3, WaitEvSafe, Zenon
    <2>4. CASE Exit(c) \/ Abort(c)
      BY <1>t, <2>0, <2>4, EndSafe, Zenon
    <2>5. CASE Stop(c)
      BY <1>t, <2>0, <2>5, RequeueSafe, Zenon DEF Stop, coVars, envVars
    <2>6. CASE SchedAbort(c)
      BY <1>t, <2>6, SchedAbortSafe
    <2>. QED BY <1>6, <2>1, <2>2, <2>3, <2>4, <2>5, <2>6, Zenon DEF Yields
  <1>7. CASE Still
    BY <1>t, <1>7, StillSafe, Zenon
  <1>. QED
    BY <1>1, <1>2, <1>3, <1>4, <1>5, <1>6, <1>7, ZenonT(60) DEF Next, Loop, Call, Still

LEMMA Safe == ASSUME TimelyWaits PROVE Spec => []SafeInv
  <1>1. SafeInv /\ [Next]_vars => SafeInv'
    BY StepSafe, Zenon
  <1>. QED BY <1>1, InitSafe, PTL DEF Spec

\* What SafeInv says in the terms of the properties.
LEMMA SafeImplies ==
  ASSUME SafeInv
  PROVE  /\ WaitsAgree /\ DelNeverFails /\ QueuedOnce /\ NoneLost
         /\ NoDangling /\ TimersAgree /\ DoneMeansDone
  <1> USE SchedulerConstants
  <1>1. WaitsAgree /\ DelNeverFails /\ QueuedOnce /\ DoneMeansDone /\ TypeOK
    BY Zenon DEF SafeInv, DelNeverFails, DoneMeansDone, TypeInv
  <1>2. ASSUME status # "ABORTED"
        PROVE  Placed /\ KeysAgree /\ waiting = Range(fd_co_map) \ {NULL}
    <2>1. Placed /\ KeysAgree
      BY <1>2, Zenon DEF SafeInv
    <2>2. ASSUME NEW c \in waiting PROVE c \in Range(fd_co_map) \ {NULL}
      <3>1. c \in Coro /\ wait_fd[c] \in Fd /\ DOMAIN fd_co_map = Fd
        BY <1>1, <1>2, <2>2 DEF TypeOK, WaitsAgree
      <3>2. fd_co_map[wait_fd[c]] = c
        BY <1>1, <1>2, <2>2, <3>1, Zenon DEF WaitsAgree
      <3>. QED BY <3>1, <3>2, Zenon DEF Range
    <2>3. ASSUME NEW c \in Range(fd_co_map), c # NULL PROVE c \in waiting
      <3>1. PICK fd \in Fd : c = fd_co_map[fd]
        BY <1>1, Zenon DEF TypeOK, Range
      <3>2. c \in Coro
        BY <1>1, <2>3, <3>1, Zenon DEF TypeOK
      <3>. QED BY <1>1, <1>2, <3>1, <3>2, Zenon DEF WaitsAgree
    <2>. QED BY <2>1, <2>2, <2>3, Zenon
  <1>3. NoneLost /\ NoDangling
    <2>1. status = "ABORTED" => curr_thread = NULL
      BY <1>1 DEF SafeInv, TypeOK
    <2>2. status # "ABORTED" =>
            /\ live \subseteq Queued \cup sleeping \cup Range(fd_co_map) \cup {curr_thread}
            /\ Queued \cup sleeping \cup (Range(fd_co_map) \ {NULL}) \subseteq live
            /\ curr_thread \in live \cup {NULL}
      BY <1>2, Zenon DEF Placed
    <2>. QED BY <2>1, <2>2, Zenon DEF NoneLost, NoDangling
  <1>4. TimersAgree
    <2> SUFFICES ASSUME status # "ABORTED", NEW c \in sleeping, NEW d \in sleeping,
                        sleep_usecs[c] = sleep_usecs[d], c # d
                 PROVE  FALSE
      BY <1>2, Zenon DEF TimersAgree, KeysAgree
    <2>1. c \in live /\ d \in live
      BY <1>2, Zenon DEF Placed
    <2>2. sleep_usecs[c] = 0 /\ sleep_usecs[c] > 0
      BY <1>2, <2>1, Zenon DEF KeysAgree
    <2>. QED BY <2>2
  <1>. QED BY <1>1, <1>3, <1>4, Zenon

\* With timely waits, every safety property of the scheduler holds for
\* every number of coroutines and fds and all limits: what the runs check on
\* small instances.
THEOREM WaitsAgreeAlways == ASSUME TimelyWaits PROVE Spec => []WaitsAgree
  <1>1. SafeInv => WaitsAgree BY SafeImplies, Zenon
  <1>. QED BY <1>1, Safe, PTL

\* schedule_cancel_wait never ends the process.
THEOREM DelNeverFailsAlways ==
  ASSUME TimelyWaits PROVE Spec => []DelNeverFails
  <1>1. SafeInv => DelNeverFails BY SafeImplies, Zenon
  <1>. QED BY <1>1, Safe, PTL

\* TAILQ_INSERT_TAIL is never applied to a linked coroutine.
THEOREM QueuedOnceAlways == ASSUME TimelyWaits PROVE Spec => []QueuedOnce
  <1>1. SafeInv => QueuedOnce BY SafeImplies, Zenon
  <1>. QED BY <1>1, Safe, PTL

\* The scheduler forgets no suspended coroutine.
THEOREM NoneLostAlways == ASSUME TimelyWaits PROVE Spec => []NoneLost
  <1>1. SafeInv => NoneLost BY SafeImplies, Zenon
  <1>. QED BY <1>1, Safe, PTL

\* The scheduler keeps no pointer to a freed coroutine.
THEOREM NoDanglingAlways == ASSUME TimelyWaits PROVE Spec => []NoDangling
  <1>1. SafeInv => NoDangling BY SafeImplies, Zenon
  <1>. QED BY <1>1, Safe, PTL

\* The SLEEPING flags and the timer tree agree, and its keys are unique.
THEOREM TimersAgreeAlways == ASSUME TimelyWaits PROVE Spec => []TimersAgree
  <1>1. SafeInv => TimersAgree BY SafeImplies, Zenon
  <1>. QED BY <1>1, Safe, PTL

\* dyco_schedule_run returns 0 only when every coroutine has ended.
THEOREM DoneMeansDoneAlways ==
  ASSUME TimelyWaits PROVE Spec => []DoneMeansDone
  <1>1. SafeInv => DoneMeansDone BY SafeImplies, Zenon
  <1>. QED BY <1>1, Safe, PTL

\* Queues, timers, registrations, flags and counter agree: all of the above.
THEOREM StructuresAgreeAlways ==
  ASSUME TimelyWaits PROVE Spec => []StructuresAgree
  <1>1. SafeInv => TypeOK BY Zenon DEF SafeInv, TypeInv
  <1>2. SafeInv => StructuresAgree BY <1>1, SafeImplies, Zenon DEF StructuresAgree
  <1>. QED BY <1>2, Safe, PTL

\* Only RunUrgent and RunReady give the thread to a coroutine, and they resume
\* a queued one.
LEMMA ResumesQueued ==
  ASSUME SafeInv, Next, NEW c \in Coro, curr_thread' = c, curr_thread # c
  PROVE  status = "RUNNING" /\ c \in Queued
  <1> USE SchedulerConstants
  <1>0. ready \in Seq(Coro) /\ urgent_ready \in Seq(Coro) /\ QueuedOnce
    BY Zenon DEF SafeInv, TypeInv, TypeOK
  <1>1. CASE RunUrgent
    <2>1. Head(urgent_ready) \in Queued
      BY <1>0, <1>1, PopOnce, Zenon DEF RunUrgent, Queued, QueuedOnce
    <2>. QED BY <1>1, <2>1, Zenon DEF RunUrgent, Resume, SafeInv
  <1>2. CASE RunReady
    <2>1. Head(ready) \in Queued
      BY <1>0, <1>2, PopOnce, Zenon DEF RunReady, Queued, QueuedOnce
    <2>. QED BY <1>2, <2>1, Zenon DEF RunReady, Resume, SafeInv
  <1>3. CASE Loop /\ ~RunUrgent /\ ~RunReady
    BY <1>3, ZenonT(60) DEF Loop, LoopTest, ExpireDone, UrgentDone, ReadyDone,
                            Poll, Expire, Dispatch
  <1>4. CASE \E d \in Coro : Yields(d)
    <2>1. PICK d \in Coro : Yields(d) BY <1>4, Zenon
    <2>2. CASE SleepZero(d) \/ \E msecs \in SleepTimes : Sleep(d, msecs)
      BY <2>2, Zenon DEF SleepZero, Sleep, Return
    <2>3. CASE \E fd \in Fd, timeout \in WaitTimeouts : WaitEv(d, fd, timeout)
      BY <2>3, Zenon DEF WaitEv, Return
    <2>4. CASE Exit(d) \/ Abort(d)
      BY <2>4, Zenon DEF Exit, Abort, Return
    <2>5. CASE Stop(d) \/ SchedAbort(d)
      BY <2>5, Zenon DEF Stop, SchedAbort
    <2>. QED BY <2>1, <2>2, <2>3, <2>4, <2>5, Zenon DEF Yields
  <1>5. CASE Call
    BY <1>5, Zenon DEF Call, Run, Create, CreateUrgent, NewCoro, SetUrgent, UnsetUrgent,
                RunNested, WaitEvTaken, Consume
  <1>6. CASE Tick \/ \E fd \in Fd : FdReady(fd)
    BY <1>6, ZenonT(60) DEF Tick, FdReady
  <1>. QED BY <1>1, <1>2, <1>3, <1>4, <1>5, <1>6, ZenonT(60) DEF Next

\* With timely waits no coroutine is resumed early: not before its sleep is
\* over, and not in waitev before its event or its timeout.
THEOREM WakeJustifiedAlways == ASSUME TimelyWaits PROVE Spec => WakeJustified
  <1>1. ASSUME SafeInv, Next, NEW c \in Coro, curr_thread' = c, curr_thread # c
        PROVE  \/ wait_fd[c] = NULL /\ due[c] = 0
               \/ wait_fd[c] # NULL /\ c \notin waiting
               \/ due[c] # 0 /\ due[c] <= now
    <2>1. DueAgree /\ InTime /\ c \in Queued
      BY <1>1, ResumesQueued, Zenon DEF SafeInv
    <2>. QED BY <2>1, Zenon DEF DueAgree, InTime
  <1>2. SafeInv /\ [Next]_vars =>
          [\A c \in Coro :
             (curr_thread' = c /\ curr_thread # c) =>
               \/ wait_fd[c] = NULL /\ due[c] = 0
               \/ wait_fd[c] # NULL /\ c \notin waiting
               \/ due[c] # 0 /\ due[c] <= now]_vars
    BY <1>1, Zenon
  <1>. QED BY <1>2, Safe, PTL DEF Spec, WakeJustified

=============================================================================
