----------------------------- MODULE Semaphore -----------------------------
(***************************************************************************)
(* dyco_semaphore.c: a counting semaphore for the coroutines of one        *)
(* scheduler.  A coroutine that has to wait creates an eventfd, queues a   *)
(* node that holds its number, and suspends itself until the eventfd has   *)
(* been written or its timeout has passed.                                 *)
(*                                                                         *)
(* Coroutines are not preempted, so a call is one step up to the point     *)
(* where it suspends the caller, and one step from there to its return.    *)
(* The scheduler is seen through what it promises (Scheduler): it resumes  *)
(* a waiting coroutine after its fd has become readable or its time is up. *)
(***************************************************************************)
EXTENDS Integers, Sequences, FiniteSets, Functions

CONSTANTS
  Coro,           \* coroutines
  Fd,             \* file descriptor numbers
  NULL,
  InitVal,        \* value of dyco_semaphore_create
  SEM_VALUE_MAX,  \* DYCO_SEM_VALUE_MAX
  Timeouts,       \* are waits with a timeout > 0 made?
  MaxPosts        \* bound on the number of successful signals

ASSUME SemaphoreConstants ==
  /\ IsFiniteSet(Coro)
  /\ NULL \notin Coro \cup Fd
  /\ SEM_VALUE_MAX \in Nat /\ InitVal \in 0..SEM_VALUE_MAX
  /\ Timeouts \in BOOLEAN
  /\ MaxPosts \in Nat

VARIABLES
  alive,     \* the semaphore has not been destroyed
  semval,    \* sem->semval
  wqueue,    \* sem->wqueue: the fds of the queued nodes
  notifyfd,  \* the eventfd a suspended coroutine waits for, or NULL
  timed,     \* suspended coroutines with a timer
  open,      \* open eventfds
  count,     \* counter of each eventfd
  ret,       \* what the last wait of each coroutine returned
  exited,    \* DYCO_MUST has ended the process
  granted,   \* history: number of waits that returned 0
  posted     \* history: number of signals that returned 0

vars == <<alive, semval, wqueue, notifyfd, timed, open, count, ret, exited,
          granted, posted>>

\* A coroutine that is not suspended in dyco_semaphore_wait.
Running(c) == notifyfd[c] = NULL /\ ~exited

\* Suspended coroutines whose eventfd holds n.
Notified(n) == {c \in Coro : notifyfd[c] # NULL /\ count[notifyfd[c]] = n}

-----------------------------------------------------------------------------
\* dyco_semaphore_create
Init ==
  /\ alive = TRUE /\ semval = InitVal /\ wqueue = <<>>
  /\ notifyfd = [c \in Coro |-> NULL] /\ timed = {}
  /\ open = {} /\ count = [fd \in Fd |-> 0]
  /\ ret = [c \in Coro |-> 0]
  /\ exited = FALSE /\ granted = 0 /\ posted = 0

\* dyco_semaphore_wait on a positive value
WaitNow(c) ==
  /\ Running(c) /\ alive
  /\ semval > 0
  /\ semval' = semval - 1
  /\ ret' = [ret EXCEPT ![c] = 0]
  /\ granted' = granted + 1
  /\ UNCHANGED <<alive, wqueue, notifyfd, timed, open, count, exited, posted>>

\* dyco_semaphore_wait that may not suspend its caller: with timeout 0
WaitNot(c) ==
  /\ Running(c) /\ alive
  /\ semval = 0
  /\ ret' = [ret EXCEPT ![c] = -1]
  /\ UNCHANGED <<alive, semval, wqueue, notifyfd, timed, open, count, exited,
                 granted, posted>>

\* dyco_semaphore_wait up to its yield
WaitBlock(c, fd, hasTimer) ==
  /\ Running(c) /\ alive
  /\ semval = 0
  /\ fd \notin open
  /\ open' = open \cup {fd}
  /\ count' = [count EXCEPT ![fd] = 0]
  /\ wqueue' = Append(wqueue, fd)
  /\ notifyfd' = [notifyfd EXCEPT ![c] = fd]
  /\ timed' = IF hasTimer THEN timed \cup {c} ELSE timed
  /\ UNCHANGED <<alive, semval, ret, exited, granted, posted>>

\* Mutant of WaitEnd: any notification is taken for a signal.
WaitEnd_AnyCount(c) ==
  LET fd == notifyfd[c]
      ok == count[fd] > 0
  IN  /\ fd # NULL /\ ~exited
      /\ count[fd] > 0 \/ c \in timed
      /\ notifyfd' = [notifyfd EXCEPT ![c] = NULL]
      /\ timed' = timed \ {c}
      /\ open' = open \ {fd}
      /\ count' = [count EXCEPT ![fd] = 0]
      /\ ret' = [ret EXCEPT ![c] = IF ok THEN 0 ELSE -1]
      /\ granted' = IF ok THEN granted + 1 ELSE granted
      /\ UNCHANGED <<alive, semval, wqueue, exited, posted>>

\* dyco_semaphore_wait from its yield on: the eventfd is read and closed.  The
\* node, if it is still queued, stays there.
WaitEnd(c) ==
  LET fd == notifyfd[c]
      ok == count[fd] = 1
  IN  /\ fd # NULL /\ ~exited
      /\ count[fd] > 0 \/ c \in timed
      /\ notifyfd' = [notifyfd EXCEPT ![c] = NULL]
      /\ timed' = timed \ {c}
      /\ open' = open \ {fd}
      /\ count' = [count EXCEPT ![fd] = 0]
      /\ ret' = [ret EXCEPT ![c] = IF ok THEN 0 ELSE -1]
      /\ granted' = IF ok THEN granted + 1 ELSE granted
      /\ UNCHANGED <<alive, semval, wqueue, exited, posted>>

\* Mutant of SignalFree: the queue is not looked at.
SignalFree_Barging ==
  /\ alive /\ ~exited /\ posted < MaxPosts
  /\ semval # SEM_VALUE_MAX
  /\ semval' = semval + 1
  /\ posted' = posted + 1
  /\ UNCHANGED <<alive, wqueue, notifyfd, timed, open, count, ret, exited,
                 granted>>

\* dyco_semaphore_signal without waiters
SignalFree ==
  /\ alive /\ ~exited /\ posted < MaxPosts
  /\ semval # SEM_VALUE_MAX
  /\ wqueue = <<>>
  /\ semval' = semval + 1
  /\ posted' = posted + 1
  /\ UNCHANGED <<alive, wqueue, notifyfd, timed, open, count, ret, exited,
                 granted>>

\* Mutant of SignalWake: the value is incremented for a waiter, too.
SignalWake_Both(c) ==
  /\ Running(c) /\ alive /\ posted < MaxPosts
  /\ semval # SEM_VALUE_MAX
  /\ wqueue # <<>>
  /\ wqueue' = Tail(wqueue)
  /\ semval' = semval + 1
  /\ count' = [count EXCEPT ![Head(wqueue)] = @ + 1]
  /\ posted' = posted + 1
  /\ UNCHANGED <<alive, notifyfd, timed, open, ret, exited, granted>>

\* dyco_semaphore_signal by a coroutine, with waiters: the first node is
\* removed and its eventfd written.  sem_notify ends the process if the fd is
\* closed.  (Called by the main program it returns -1 and does nothing.)
SignalWake(c) ==
  /\ Running(c) /\ alive /\ posted < MaxPosts
  /\ semval # SEM_VALUE_MAX
  /\ wqueue # <<>>
  /\ wqueue' = Tail(wqueue)
  /\ IF Head(wqueue) \in open
     THEN /\ count' = [count EXCEPT ![Head(wqueue)] = @ + 1]
          /\ posted' = posted + 1
          /\ UNCHANGED exited
     ELSE /\ exited' = TRUE
          /\ UNCHANGED <<count, posted>>
  /\ UNCHANGED <<alive, semval, notifyfd, timed, open, ret, granted>>

\* Mutant of Destroy: the waiters are not notified.
Destroy_Silent ==
  /\ alive /\ ~exited
  /\ alive' = FALSE
  /\ wqueue' = <<>>
  /\ UNCHANGED <<semval, notifyfd, timed, open, count, ret, exited, granted,
                 posted>>

\* dyco_semaphore_destroy
Destroy ==
  /\ alive /\ ~exited
  /\ alive' = FALSE
  /\ wqueue' = <<>>
  /\ count' = [fd \in Fd |-> IF fd \in Range(wqueue) /\ fd \in open
                             THEN count[fd] + 64 ELSE count[fd]]
  /\ exited' = ~ (Range(wqueue) \subseteq open)
  /\ UNCHANGED <<semval, notifyfd, timed, open, ret, granted, posted>>

Next ==
  \/ \E c \in Coro :
       \/ WaitNow(c) \/ WaitNot(c) \/ WaitEnd(c) \/ SignalWake(c)
       \/ \E fd \in Fd, hasTimer \in (IF Timeouts THEN BOOLEAN ELSE {FALSE}) :
            WaitBlock(c, fd, hasTimer)
  \/ SignalFree
  \/ Destroy

Spec == Init /\ [][Next]_vars

\* The scheduler resumes a coroutine whose fd is readable (EventWakes).
Fairness == \A c \in Coro : WF_vars(WaitEnd(c))

FairSpec == Spec /\ Fairness

-----------------------------------------------------------------------------
\* Every variable has its type; the value stays within its limits.
TypeOK ==
  /\ alive \in BOOLEAN /\ exited \in BOOLEAN
  /\ semval \in 0..SEM_VALUE_MAX
  /\ wqueue \in Seq(Fd)
  /\ notifyfd \in [Coro -> Fd \cup {NULL}]
  /\ timed \subseteq Coro
  /\ open \subseteq Fd
  /\ count \in [Fd -> Nat]
  /\ ret \in [Coro -> {0, -1}]
  /\ granted \in Nat /\ posted \in Nat

\* No token is lost or made up: the initial value and what was signalled is
\* what the value still holds, what waits have been granted, and what is on
\* its way to a coroutine that has been notified and not yet resumed.
Conservation ==
  InitVal + posted = semval + granted + Cardinality(Notified(1))

\* No lost wakeup: the value is positive only if every suspended coroutine has
\* been notified, so nobody waits for a token that is there.
NoLostWakeup ==
  \A c \in Coro : (notifyfd[c] # NULL /\ count[notifyfd[c]] = 0 /\ alive) =>
                    semval = 0 /\ notifyfd[c] \in Range(wqueue)

\* sem_notify never meets a closed eventfd, so its DYCO_MUST never ends the
\* process.
NotifyNeverFails == ~exited

\* A coroutine that is notified returns, and destroying the semaphore releases
\* every waiter.
WaitersReleased ==
  \A c \in Coro :
    (notifyfd[c] # NULL /\ (count[notifyfd[c]] > 0 \/ ~alive)) ~> notifyfd[c] = NULL

-----------------------------------------------------------------------------
(* Refinement of CountingSemaphore: the tokens are the value and what is on *)
(* its way; a suspended coroutine asks.                                     *)
Counting == INSTANCE CountingSemaphore WITH
              tokens <- semval + Cardinality(Notified(1)),
              asking <- {c \in Coro : notifyfd[c] # NULL}

\* The semaphore of dyco_semaphore.c is a counting semaphore: each of its steps
\* is a step of one, or changes nothing a caller can see.
IsCountingSemaphore == Counting!Spec

\* And it does not let a token lie idle while a coroutine waits.
NoIdleToken == Counting!FairSpec

=============================================================================
