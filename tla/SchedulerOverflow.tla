------------------------- MODULE SchedulerOverflow -------------------------
(***************************************************************************)
(* Scheduler with coroutines whose stack overflows.  yield calls checkstk  *)
(* after waitev has registered the wait; checkstk marks the coroutine      *)
(* KILLED and swaps to the scheduler, where resume frees it.               *)
(***************************************************************************)
EXTENDS Scheduler

\* waitev whose yield finds the stack overflowed.  schedule_sched_wait has
\* been done, schedule_cancel_wait will not be; the timer set by
\* schedule_sched_sleep is cancelled with the rest of resume.
WaitEvOverflow(c, fd) ==
  /\ fd \notin fdready
  /\ fd \notin interest
  /\ interest' = interest \cup {fd}
  /\ fd_co_map' = [fd_co_map EXCEPT ![fd] = c]
  /\ waiting' = waiting \cup {c}
  /\ sleeping' = {d \in sleeping : sleep_usecs[d] # sleep_usecs[c]}
  /\ live' = live \ {c}
  /\ coro_count' = coro_count - 1
  /\ urgent' = urgent \ {c}
  /\ Return(c)
  /\ UNCHANGED <<queueVars, sleep_usecs, asleep, wait_fd, envVars, due>>

\* What an event for the freed coroutine would do is undefined; the fd it
\* waited for stays silent here.
OverflowNext ==
  \/ Loop \/ Call \/ Tick
  \/ \E c \in Coro : Yields(c)
  \/ \E fd \in Fd : FdReady(fd) /\ fd_co_map[fd] \in live \cup {NULL}
  \/ \E c \in Coro, fd \in Fd :
       curr_thread = c /\ Looping /\ WaitEvOverflow(c, fd)

OverflowSpec ==
  /\ Init /\ [][OverflowNext]_vars
  /\ WF_vars(Loop)
  /\ WF_vars(\E c \in Coro : Yields(c))
  /\ WF_vars(Tick)

=============================================================================
