----------------------------- MODULE Scheduler -----------------------------
(***************************************************************************)
(* The scheduling core of dyco: dyco_schedule_run and the timer, wait and  *)
(* queue helpers of dyco_schedule.c, the life cycle of a symmetric         *)
(* coroutine in dyco_coroutine.c, and the stop and abort schedcalls of     *)
(* dyco_schedcall.c.                                                       *)
(*                                                                         *)
(* One scheduler runs in one thread.  Between two context switches the     *)
(* code is atomic, so one step is: one iteration of one of the loops of    *)
(* dyco_schedule_run, one library call made by the running coroutine or by *)
(* the main program, a tick of the clock, or a change of an fd's           *)
(* readiness.  The user functions are arbitrary: the running coroutine may *)
(* make any call at any time.                                              *)
(***************************************************************************)
EXTENDS Integers, Sequences, FiniteSets, Functions

CONSTANTS
  Coro,          \* addresses of coroutine objects; a freed one is reused
  Fd,            \* file descriptors the user functions wait for
  NULL,          \* no coroutine, no fd
  MAXEXEC,       \* DYCO_URGENT_MAXEXEC
  MAXWAIT,       \* DYCO_URGENT_MAXWAIT
  MAXEVENTS,     \* DYCO_MAX_EVENTS
  UsecPerMs,     \* microseconds per millisecond: the 1000 of the code, scaled
  UintMod,       \* 2^32, scaled: unsigned int arithmetic is modulo UintMod
  SleepTimes,    \* arguments of dyco_coroutine_sleep, sleep(0) apart
  WaitTimeouts,  \* timeout arguments of waitev, 0 apart
  MaxUsec,       \* bound: the clock and the deadlines stay within 0..MaxUsec
  Punctual,      \* environment: the event and the timeout of one wait do not
                 \* both happen before the waiting coroutine is resumed
  FreshKeys      \* environment: no deadline equals another coroutine's old one

ASSUME SchedulerConstants ==
  /\ IsFiniteSet(Coro)
  /\ NULL \notin Coro /\ NULL \notin Fd
  /\ MAXEXEC \in Nat \ {0} /\ MAXWAIT \in Nat \ {0} /\ MAXEVENTS \in Nat \ {0}
  /\ UsecPerMs \in Nat \ {0} /\ UintMod \in Nat \ {0}
  /\ SleepTimes \subseteq Nat \ {0}
  /\ WaitTimeouts \subseteq Int \ {0}
  /\ MaxUsec \in Nat
  /\ Punctual \in BOOLEAN /\ FreshKeys \in BOOLEAN

VARIABLES
  phase,         \* where dyco_schedule_run is ("main": it is not running)
  status,        \* sched->status
  curr_thread,   \* sched->curr_thread
  last_co_ready, \* local of dyco_schedule_run
  idx,           \* local of dyco_schedule_run; a break sets it to the limit
  eventlist,     \* fds reported by epoll_wait and not handled yet
  urgent_ready, ready,     \* the two TAILQs
  sleeping,      \* coroutines in the red-black tree of timers
  sleep_usecs,   \* key of each coroutine in that tree; kept when it leaves it
  asleep,        \* coroutines with COROUTINE_STATUS_SLEEPING
  fd_co_map,     \* the coroutine waiting for each fd
  interest,      \* fds registered in sched->epollfd
  waiting,       \* coroutines with COROUTINE_FLAGS_WAITING
  wait_fd,       \* the fd of the waitev call a suspended coroutine is in
  live,          \* coroutines in cid_co_map: allocated and not freed
  coro_count,    \* sched->coro_count
  urgent,        \* coroutines with COROUTINE_FLAGS_URGENT
  now,           \* microseconds since sched->birth
  fdready,       \* fds that poll would report
  due            \* history: when the sleep or timed wait a coroutine is in
                 \* was asked to end; 0 if it was asked for no end

loopVars  == <<phase, status, last_co_ready, idx, eventlist>>
queueVars == <<urgent_ready, ready>>
timerVars == <<sleeping, sleep_usecs, asleep>>
waitVars  == <<fd_co_map, interest, waiting, wait_fd>>
coVars    == <<live, coro_count, urgent>>
envVars   == <<now, fdready>>
vars == <<loopVars, curr_thread, queueVars, timerVars, waitVars, coVars,
          envVars, due>>

Usec == 0..MaxUsec

Phases == {"main", "top", "expire", "urgent", "ready", "poll", "dispatch",
           "exitAdd", "exitDel", "exitRun"}

\* The run loop is on: dyco_schedule_run has been called and has not returned.
Looping == phase \in {"top", "expire", "urgent", "ready", "poll", "dispatch"}

\* Coroutines in one of the two ready queues.
Queued == Range(urgent_ready) \cup Range(ready)

\* TAILQ_LAST
LastOf(q) == IF q = <<>> THEN NULL ELSE q[Len(q)]

\* A running coroutine, or the main program while the loop is off.
Caller == \/ curr_thread # NULL /\ Looping
          \/ phase = "main" /\ status # "ABORTED"

-----------------------------------------------------------------------------
\* dyco_schedule_create
Init ==
  /\ phase = "main" /\ status = "READY" /\ curr_thread = NULL
  /\ last_co_ready = NULL /\ idx = 0 /\ eventlist = {}
  /\ urgent_ready = <<>> /\ ready = <<>>
  /\ sleeping = {} /\ sleep_usecs = [c \in Coro |-> 0] /\ asleep = {}
  /\ fd_co_map = [fd \in Fd |-> NULL] /\ interest = {} /\ waiting = {}
  /\ wait_fd = [c \in Coro |-> NULL]
  /\ live = {} /\ coro_count = 0 /\ urgent = {}
  /\ now = 0 /\ fdready = {}
  /\ due = [c \in Coro |-> 0]

-----------------------------------------------------------------------------
(* Helpers: each is a part of the actions below.                           *)

\* TAILQ_INSERT_TAIL on the queue the URGENT flag selects.  The list is a
\* sequence: this is what the pointers represent as long as no coroutine is
\* inserted twice (QueuedOnce).
InsertReady(c) ==
  /\ urgent_ready' = IF c \in urgent THEN Append(urgent_ready, c)
                                     ELSE urgent_ready
  /\ ready' = IF c \in urgent THEN ready ELSE Append(ready, c)

\* A uint32_t argument passed on as an int.
AsInt(msecs) == IF msecs >= UintMod \div 2 THEN msecs - UintMod ELSE msecs

\* uint64_t usecs = msecs * 1000u, a product of unsigned ints
Usecs(msecs) == (msecs * UsecPerMs) % UintMod

\* k is the key the insertion loop ends with: the first one from base on that
\* no coroutine of tree has.
IsFreeKey(k, base, tree) ==
  LET taken == {sleep_usecs[d] : d \in tree}
  IN  k >= base /\ k \notin taken /\ base..(k - 1) \subseteq taken

\* schedule_sched_sleep: RB_FIND compares keys only, so the removed timer is
\* that of whichever coroutine has c's old key.
SchedSleep(c, msecs) ==
  LET tree == {d \in sleeping : sleep_usecs[d] # sleep_usecs[c]}
  IN  \/ /\ msecs <= 0
         /\ sleeping' = tree
         /\ UNCHANGED <<sleep_usecs, asleep>>
      \/ /\ msecs > 0
         /\ \E k \in Usec :
              /\ IsFreeKey(k, now + Usecs(msecs), tree)
              /\ FreshKeys => \A d \in live \ {c} : sleep_usecs[d] # k
              /\ sleep_usecs' = [sleep_usecs EXCEPT ![c] = k]
         /\ sleeping' = tree \cup {c}
         /\ asleep' = asleep \cup {c}

\* Mutant of CancelSleep: the flag is cleared, the timer stays in the tree.
CancelSleep_TimerKept(c) ==
  /\ asleep' = asleep \ {c}
  /\ UNCHANGED <<sleeping, sleep_usecs>>

\* schedule_cancel_sleep
CancelSleep(c) ==
  /\ sleeping' = IF c \in asleep THEN sleeping \ {c} ELSE sleeping
  /\ asleep' = asleep \ {c}
  /\ UNCHANGED sleep_usecs

\* Mutant of CancelWait: fd_co_map keeps the entry.
CancelWait_EntryKept(c, fd, ph) ==
  IF c \in waiting
  THEN /\ interest' = interest \ {fd}
       /\ waiting' = waiting \ {c}
       /\ phase' = IF fd \in interest THEN ph ELSE "exitDel"
       /\ UNCHANGED fd_co_map
  ELSE /\ phase' = ph
       /\ UNCHANGED <<fd_co_map, interest, waiting>>

\* schedule_cancel_wait; a failing epoll_ctl(EPOLL_CTL_DEL) ends the process,
\* otherwise the caller goes on in phase ph.
CancelWait(c, fd, ph) ==
  IF c \in waiting
  THEN /\ fd_co_map' = [fd_co_map EXCEPT ![fd] = NULL]
       /\ interest' = interest \ {fd}
       /\ waiting' = waiting \ {c}
       /\ phase' = IF fd \in interest THEN ph ELSE "exitDel"
  ELSE /\ phase' = ph
       /\ UNCHANGED <<fd_co_map, interest, waiting>>

\* Mutant of Resume: waitev does not cancel the registration of a wait that
\* timed out.
Resume_StillRegistered(c) ==
  /\ curr_thread' = c
  /\ IF wait_fd[c] = NULL THEN UNCHANGED timerVars ELSE CancelSleep(c)
  /\ UNCHANGED <<phase, fd_co_map, interest, waiting>>
  /\ wait_fd' = [wait_fd EXCEPT ![c] = NULL]
  /\ due' = [due EXCEPT ![c] = 0]

\* resume: swap to c, which goes on where it was suspended.  In waitev that is
\* the cancellation of the timer and of the registration.
Resume(c) ==
  /\ curr_thread' = c
  /\ IF wait_fd[c] = NULL
     THEN UNCHANGED <<phase, timerVars, fd_co_map, interest, waiting>>
     ELSE CancelSleep(c) /\ CancelWait(c, wait_fd[c], phase)
  /\ wait_fd' = [wait_fd EXCEPT ![c] = NULL]
  /\ due' = [due EXCEPT ![c] = 0]

\* Mutant of Return: neither last_co_ready nor the limit ends the loop.
Return_NoBreak(c) ==
  /\ curr_thread' = NULL
  /\ idx' = 0
  /\ UNCHANGED <<phase, status, last_co_ready, eventlist>>

\* The coroutine c has swapped back: the end of the loop body in phases B and
\* C, where co == last_co_ready or ++idx reaching the limit breaks the loop.
Return(c) ==
  LET limit == IF phase = "urgent" THEN MAXEXEC ELSE MAXWAIT
  IN  /\ curr_thread' = NULL
      /\ idx' = IF c = last_co_ready THEN limit ELSE idx + 1
      /\ UNCHANGED <<phase, status, last_co_ready, eventlist>>

\* schedule_cancel_sleep and freecoro, at the end of resume.
FreeCoro(c) ==
  /\ CancelSleep(c)
  /\ live' = live \ {c}
  /\ coro_count' = coro_count - 1
  /\ urgent' = urgent \ {c}

-----------------------------------------------------------------------------
(* The loop of dyco_schedule_run.                                          *)

IsDone ==   \* SCHEDULE_ISDONE
  /\ \A fd \in Fd : fd_co_map[fd] = NULL
  /\ sleeping = {} /\ ready = <<>> /\ urgent_ready = <<>>

\* The loop condition, and the end of dyco_schedule_run when it is false.
LoopTest ==
  /\ phase = "top"
  /\ phase' = IF IsDone THEN "main" ELSE "expire"
  /\ status' = IF IsDone THEN "DONE" ELSE status
  /\ UNCHANGED <<last_co_ready, idx, eventlist, curr_thread, queueVars,
                 timerVars, waitVars, coVars, envVars, due>>

\* schedule_get_expired finds c
IsExpired(c) ==
  /\ c \in sleeping
  /\ sleep_usecs[c] <= now
  /\ \A d \in sleeping : sleep_usecs[c] <= sleep_usecs[d]

\* A: one expired timer
Expire(c) ==
  /\ phase = "expire"
  /\ IsExpired(c)
  /\ sleeping' = sleeping \ {c}
  /\ asleep' = asleep \ {c}
  /\ InsertReady(c)
  /\ UNCHANGED <<loopVars, curr_thread, sleep_usecs, waitVars, coVars,
                 envVars, due>>

\* A ends, B begins
ExpireDone ==
  /\ phase = "expire"
  /\ ~ \E c \in sleeping : IsExpired(c)
  /\ phase' = "urgent"
  /\ last_co_ready' = LastOf(urgent_ready)
  /\ idx' = 0
  /\ UNCHANGED <<status, eventlist, curr_thread, queueVars, timerVars,
                 waitVars, coVars, envVars, due>>

\* B: resume the first urgent coroutine
RunUrgent ==
  /\ phase = "urgent" /\ curr_thread = NULL
  /\ urgent_ready # <<>> /\ idx < MAXEXEC
  /\ Resume(Head(urgent_ready))
  /\ urgent_ready' = Tail(urgent_ready)
  /\ UNCHANGED <<status, last_co_ready, idx, eventlist, ready, coVars,
                 envVars>>

\* B ends, C begins
UrgentDone ==
  /\ phase = "urgent" /\ curr_thread = NULL
  /\ urgent_ready = <<>> \/ idx = MAXEXEC
  /\ phase' = "ready"
  /\ last_co_ready' = LastOf(ready)
  /\ idx' = 0
  /\ UNCHANGED <<status, eventlist, curr_thread, queueVars, timerVars,
                 waitVars, coVars, envVars, due>>

\* C: resume the first ready coroutine
RunReady ==
  /\ phase = "ready" /\ curr_thread = NULL
  /\ ready # <<>> /\ idx < MAXWAIT
  /\ Resume(Head(ready))
  /\ ready' = Tail(ready)
  /\ UNCHANGED <<status, last_co_ready, idx, eventlist, urgent_ready, coVars,
                 envVars>>

\* C ends, D begins
ReadyDone ==
  /\ phase = "ready" /\ curr_thread = NULL
  /\ ready = <<>> \/ idx = MAXWAIT
  /\ phase' = "poll"
  /\ UNCHANGED <<status, last_co_ready, idx, eventlist, curr_thread,
                 queueVars, timerVars, waitVars, coVars, envVars, due>>

\* Mutant of MayReportNone: the epoll timeout ignores the timers.
MayReportNone_NoTimers ==
  ready # <<>> \/ urgent_ready # <<>> \/ sleeping = {}

\* epoll_wait may report no event: it does not block, or its timeout (in
\* milliseconds, rounded down; 0 once the first timer is less than one away)
\* has passed.
MayReportNone ==
  \/ ready # <<>> \/ urgent_ready # <<>>
  \/ sleeping = {}
  \/ \E c \in sleeping : sleep_usecs[c] - now < UsecPerMs

\* Mutant of Poll: no polling while a coroutine is ready.
Poll_OnlyIdle ==
  /\ phase = "poll"
  /\ \E evs \in SUBSET (interest \cap fdready) :
       /\ Cardinality(evs) <= MAXEVENTS
       /\ evs = {} => MayReportNone
       /\ (ready # <<>> \/ urgent_ready # <<>>) => evs = {}
       /\ eventlist' = evs
       /\ phase' = IF evs = {} THEN "top" ELSE "dispatch"
  /\ UNCHANGED <<status, last_co_ready, idx, curr_thread, queueVars,
                 timerVars, waitVars, coVars, envVars, due>>

\* D: schedule_epoll_wait
Poll ==
  /\ phase = "poll"
  /\ \E evs \in SUBSET (interest \cap fdready) :
       /\ Cardinality(evs) <= MAXEVENTS
       /\ Cardinality(evs) < MAXEVENTS => evs = interest \cap fdready
       /\ evs = {} => MayReportNone
       /\ eventlist' = evs
       /\ phase' = IF evs = {} THEN "top" ELSE "dispatch"
  /\ UNCHANGED <<status, last_co_ready, idx, curr_thread, queueVars,
                 timerVars, waitVars, coVars, envVars, due>>

\* D: one event, in the order epoll_wait gives them
Dispatch(fd) ==
  LET c == fd_co_map[fd]
      ph == IF eventlist = {fd} THEN "top" ELSE "dispatch"
  IN  /\ phase = "dispatch"
      /\ fd \in eventlist
      /\ eventlist' = eventlist \ {fd}
      /\ IF c = NULL
         THEN /\ phase' = ph
              /\ UNCHANGED <<queueVars, fd_co_map, interest, waiting>>
         ELSE InsertReady(c) /\ CancelWait(c, fd, ph)
      /\ UNCHANGED <<status, last_co_ready, idx, curr_thread, timerVars,
                     wait_fd, coVars, envVars, due>>

Loop ==
  \/ LoopTest \/ ExpireDone \/ RunUrgent \/ UrgentDone \/ RunReady
  \/ ReadyDone \/ Poll
  \/ \E c \in Coro : Expire(c)
  \/ \E fd \in Fd : Dispatch(fd)

-----------------------------------------------------------------------------
(* Calls of the main program and of the running coroutine.                 *)

\* newcoro and the bookkeeping both kinds of creation share.
NewCoro(c) ==
  /\ Caller
  /\ c \notin live
  /\ live' = live \cup {c}
  /\ coro_count' = coro_count + 1
  /\ status' = IF status = "DONE" THEN "READY" ELSE status
  /\ sleep_usecs' = [sleep_usecs EXCEPT ![c] = 0]
  /\ wait_fd' = [wait_fd EXCEPT ![c] = NULL]
  /\ due' = [due EXCEPT ![c] = 0]
  /\ UNCHANGED <<phase, last_co_ready, idx, eventlist, curr_thread, sleeping,
                 asleep, fd_co_map, interest, waiting, envVars>>

\* dyco_coroutine_create
Create(c) ==
  /\ NewCoro(c)
  /\ ready' = Append(ready, c)
  /\ UNCHANGED <<urgent_ready, urgent>>

\* dyco_coroutine_create_urgent
CreateUrgent(c) ==
  /\ NewCoro(c)
  /\ urgent' = urgent \cup {c}
  /\ urgent_ready' = Append(urgent_ready, c)
  /\ UNCHANGED ready

\* dyco_coroutine_setUrgent: only the flag; a queued coroutine stays where it
\* is queued.
SetUrgent(c) ==
  /\ Caller
  /\ c \in live
  /\ urgent' = urgent \cup {c}
  /\ UNCHANGED <<loopVars, curr_thread, queueVars, timerVars, waitVars, live,
                 coro_count, envVars, due>>

\* dyco_coroutine_unsetUrgent
UnsetUrgent(c) ==
  /\ Caller
  /\ c \in live
  /\ urgent' = urgent \ {c}
  /\ UNCHANGED <<loopVars, curr_thread, queueVars, timerVars, waitVars, live,
                 coro_count, envVars, due>>

\* dyco_schedule_run called by the main program.  With status DONE or ABORTED
\* it returns at once.
Run ==
  /\ phase = "main"
  /\ status \in {"READY", "STOPPED"}
  /\ status' = "RUNNING"
  /\ phase' = "top"
  /\ UNCHANGED <<last_co_ready, idx, eventlist, curr_thread, queueVars,
                 timerVars, waitVars, coVars, envVars, due>>

\* dyco_schedule_run called by a coroutine: DYCO_MUSTNOT ends the process.
RunNested(c) ==
  /\ curr_thread = c
  /\ phase' = "exitRun"
  /\ UNCHANGED <<status, last_co_ready, idx, eventlist, curr_thread,
                 queueVars, timerVars, waitVars, coVars, envVars, due>>

\* dyco_coroutine_sleep(0): give way to the other ready coroutines.
SleepZero(c) ==
  /\ InsertReady(c)
  /\ Return(c)
  /\ UNCHANGED <<timerVars, waitVars, coVars, envVars, due>>

\* dyco_coroutine_sleep(msecs), msecs > 0
Sleep(c, msecs) ==
  /\ SchedSleep(c, AsInt(msecs))
  /\ due' = [due EXCEPT ![c] = now + msecs * UsecPerMs]
  /\ Return(c)
  /\ UNCHANGED <<queueVars, waitVars, coVars, envVars>>

\* waitev (waitRead, waitWrite, waitRW) on an fd that poll does not report.
WaitEv(c, fd, timeout) ==
  /\ fd \notin fdready
  /\ fd \notin interest
  /\ interest' = interest \cup {fd}
  /\ fd_co_map' = [fd_co_map EXCEPT ![fd] = c]
  /\ waiting' = waiting \cup {c}
  /\ wait_fd' = [wait_fd EXCEPT ![c] = fd]
  /\ SchedSleep(c, timeout)
  /\ due' = [due EXCEPT ![c] = IF timeout > 0 THEN now + timeout * UsecPerMs
                                              ELSE 0]
  /\ Return(c)
  /\ UNCHANGED <<queueVars, coVars, envVars>>

\* waitev on an fd another coroutine waits for: epoll_ctl(EPOLL_CTL_ADD) fails
\* and DYCO_MUST ends the process.
WaitEvTaken(c, fd) ==
  /\ curr_thread = c
  /\ fd \notin fdready
  /\ fd \in interest
  /\ phase' = "exitAdd"
  /\ UNCHANGED <<status, last_co_ready, idx, eventlist, curr_thread,
                 queueVars, timerVars, waitVars, coVars, envVars, due>>

\* The user function returns.
Exit(c) ==
  /\ FreeCoro(c)
  /\ Return(c)
  /\ UNCHANGED <<queueVars, waitVars, envVars, due>>

\* dyco_coroutine_abort
Abort(c) ==
  /\ FreeCoro(c)
  /\ Return(c)
  /\ UNCHANGED <<queueVars, waitVars, envVars, due>>

\* Mutant of Stop: the caller is not queued again.
Stop_NotQueued(c) ==
  /\ status' = "STOPPED"
  /\ curr_thread' = NULL
  /\ phase' = "main"
  /\ UNCHANGED <<last_co_ready, idx, eventlist, queueVars, timerVars,
                 waitVars, coVars, envVars, due>>

\* dyco_schedcall_stop: the caller is queued again and dyco_schedule_run
\* returns 1.
Stop(c) ==
  /\ InsertReady(c)
  /\ status' = "STOPPED"
  /\ curr_thread' = NULL
  /\ phase' = "main"
  /\ UNCHANGED <<last_co_ready, idx, eventlist, timerVars, waitVars, coVars,
                 envVars, due>>

\* dyco_schedcall_abort: every coroutine is freed and dyco_schedule_run
\* returns -1; queues, timers and registrations are left as they are.
SchedAbort(c) ==
  /\ live' = {}
  /\ coro_count' = coro_count - Cardinality(live)
  /\ urgent' = {}
  /\ status' = "ABORTED"
  /\ curr_thread' = NULL
  /\ phase' = "main"
  /\ UNCHANGED <<last_co_ready, idx, eventlist, queueVars, timerVars,
                 waitVars, envVars, due>>

\* The user function reads or writes fd until it would block.
Consume(c, fd) ==
  /\ curr_thread = c
  /\ fd \in fdready
  /\ fdready' = fdready \ {fd}
  /\ UNCHANGED <<loopVars, curr_thread, queueVars, timerVars, waitVars,
                 coVars, now, due>>

\* The calls by which the running coroutine gives the thread back.
Yields(c) ==
  /\ curr_thread = c
  /\ Looping
  /\ \/ SleepZero(c)
     \/ \E msecs \in SleepTimes : Sleep(c, msecs)
     \/ \E fd \in Fd, timeout \in WaitTimeouts : WaitEv(c, fd, timeout)
     \/ Exit(c)
     \/ Abort(c)
     \/ Stop(c)
     \/ SchedAbort(c)

Call ==
  \/ Run
  \/ \E c \in Coro :
       \/ Create(c) \/ CreateUrgent(c) \/ SetUrgent(c) \/ UnsetUrgent(c)
       \/ Looping /\ RunNested(c)
       \/ \E fd \in Fd : Looping /\ (WaitEvTaken(c, fd) \/ Consume(c, fd))

-----------------------------------------------------------------------------
(* The environment.                                                        *)

\* Time passes.  In a punctual environment the timer of a coroutine that is
\* queued, or whose event has happened, does not expire.
Tick ==
  /\ now < MaxUsec
  /\ Punctual => \A c \in sleeping :
                   (c \in Queued \/ wait_fd[c] \in fdready)
                     => sleep_usecs[c] > now + 1
  /\ now' = now + 1
  /\ UNCHANGED <<loopVars, curr_thread, queueVars, timerVars, waitVars,
                 coVars, fdready, due>>

\* Data arrives, a peer hangs up, or a buffer has room again.  In a punctual
\* environment this does not happen to a wait whose timer has expired.
FdReady(fd) ==
  /\ fd \notin fdready
  /\ Punctual => \A c \in live :
                   (wait_fd[c] = fd /\ due[c] # 0)
                     => c \in sleeping /\ sleep_usecs[c] > now
  /\ fdready' = fdready \cup {fd}
  /\ UNCHANGED <<loopVars, curr_thread, queueVars, timerVars, waitVars,
                 coVars, now, due>>

Next ==
  \/ Loop
  \/ \E c \in Coro : Yields(c)
  \/ Call
  \/ Tick
  \/ \E fd \in Fd : FdReady(fd)

Spec == Init /\ [][Next]_vars

\* The thread keeps executing the loop, user functions are cooperative: they
\* call something that yields or they return, and the clock advances.
FairSpec ==
  /\ Spec
  /\ WF_vars(Loop)
  /\ WF_vars(\E c \in Coro : Yields(c))
  /\ WF_vars(Tick)

-----------------------------------------------------------------------------
(* Properties.                                                             *)

\* Every variable has its type; a coroutine runs only inside phases B and C,
\* and the loops there do not overrun their limits.
TypeOK ==
  /\ phase \in Phases
  /\ curr_thread # NULL => phase \in {"urgent", "ready", "exitAdd", "exitDel",
                                      "exitRun"}
  /\ phase = "urgent" => idx <= MAXEXEC
  /\ phase = "ready" => idx <= MAXWAIT
  /\ status \in {"READY", "RUNNING", "STOPPED", "ABORTED", "DONE"}
  /\ curr_thread \in Coro \cup {NULL}
  /\ last_co_ready \in Coro \cup {NULL}
  /\ idx \in Nat
  /\ eventlist \subseteq Fd
  /\ urgent_ready \in Seq(Coro) /\ ready \in Seq(Coro)
  /\ sleeping \subseteq Coro /\ asleep \subseteq Coro
  /\ sleep_usecs \in [Coro -> Usec]
  /\ fd_co_map \in [Fd -> Coro \cup {NULL}]
  /\ interest \subseteq Fd /\ fdready \subseteq Fd
  /\ waiting \subseteq Coro
  /\ wait_fd \in [Coro -> Fd \cup {NULL}]
  /\ live \subseteq Coro /\ urgent \subseteq Coro
  /\ coro_count \in Int
  /\ now \in Usec
  /\ due \in [Coro -> Nat]

\* Until the scheduler is aborted, fd_co_map, the epoll set and the WAITING
\* flags agree: fd is registered exactly when one coroutine is recorded for
\* it, and that coroutine is inside waitev for this very fd with its flag set.
\* schedule_cancel_wait and schedule_get_waitco rely on this.
WaitsAgree ==
  status # "ABORTED" =>
    /\ \A fd \in Fd : fd \in interest <=> fd_co_map[fd] # NULL
    /\ \A fd \in Fd, c \in Coro :
         fd_co_map[fd] = c <=> (c \in waiting /\ wait_fd[c] = fd)
    /\ \A c \in waiting : wait_fd[c] # NULL

\* The epoll_ctl(EPOLL_CTL_DEL) of schedule_cancel_wait never fails, so its
\* DYCO_MUST never ends the process.
DelNeverFails == phase # "exitDel"

\* No coroutine is in the ready queues twice: TAILQ_INSERT_TAIL is never
\* applied to a linked element, by an event, a timer, sleep(0) or stop.
QueuedOnce ==
  /\ IsInjective(urgent_ready) /\ IsInjective(ready)
  /\ Range(urgent_ready) \cap Range(ready) = {}

\* Before an abort, a suspended coroutine is queued, has a timer in the tree,
\* or is found by fd_co_map: something will resume it.
NoneLost ==
  status # "ABORTED" =>
    live \subseteq Queued \cup sleeping \cup Range(fd_co_map) \cup {curr_thread}

\* Before an abort, the queues, the timer tree and fd_co_map refer to no freed
\* coroutine.  After one they do, and still none that was freed is resumed.
NoDangling ==
  /\ status # "ABORTED" =>
       Queued \cup sleeping \cup (Range(fd_co_map) \ {NULL}) \subseteq live
  /\ curr_thread \in live \cup {NULL}

\* The SLEEPING flag says exactly who is in the timer tree, and keys in the
\* tree are unique: RB_REMOVE is only applied to members.
TimersAgree ==
  status # "ABORTED" =>
    /\ asleep = sleeping
    /\ \A c, d \in sleeping : sleep_usecs[c] = sleep_usecs[d] => c = d

\* dyco_schedule_run returns 0 only when every coroutine has ended; the
\* counter users read with getCoroCount is the number of coroutines.
DoneMeansDone ==
  /\ status = "DONE" => live = {}
  /\ coro_count = Cardinality(live)

\* The queues, the timer tree, fd_co_map, the epoll set, the flags and the
\* counter agree with each other and with who is alive, whatever stops,
\* aborts, timeouts and events come between two turns of a coroutine.
StructuresAgree ==
  /\ TypeOK
  /\ WaitsAgree /\ DelNeverFails
  /\ QueuedOnce /\ TimersAgree
  /\ NoDangling /\ DoneMeansDone

\* A coroutine is resumed for a reason: it was new or had given way, its event
\* was reported, or the time it asked for has passed.
WakeJustified ==
  [][\A c \in Coro :
       (curr_thread' = c /\ curr_thread # c) =>
         \/ wait_fd[c] = NULL /\ due[c] = 0
         \/ wait_fd[c] # NULL /\ c \notin waiting
         \/ due[c] # 0 /\ due[c] <= now]_vars

\* No starvation: a coroutine in the ready queue is resumed unless
\* dyco_schedule_run ends, whatever the urgent coroutines do.
ReadyRuns ==
  \A c \in Coro : (c \in Range(ready) /\ Looping) ~> (curr_thread = c \/ ~Looping)

\* A sleep and a wait with a timeout end: dyco_coroutine_sleep(msecs) and
\* waitev(fd, events, timeout) with timeout > 0 return unless
\* dyco_schedule_run ends.
TimeoutReturns ==
  \A c \in Coro : (due[c] # 0 /\ Looping) ~> (due[c] = 0 \/ ~Looping)

\* A coroutine whose fd is and stays ready is resumed unless
\* dyco_schedule_run ends.
EventWakes ==
  \A c \in Coro, fd \in Fd :
    (fd_co_map[fd] = c /\ fd \in fdready /\ Looping)
      ~> (curr_thread = c \/ fd \notin fdready \/ ~Looping)

\* When the last coroutine has ended, dyco_schedule_run returns: no stale
\* registration or timer keeps the loop alive.
RunReturns == (live = {} /\ Looping) ~> ~Looping

=============================================================================
