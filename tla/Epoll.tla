------------------------------- MODULE Epoll -------------------------------
(***************************************************************************)
(* dyco_epoll.c: the epoll fd that a coroutine has of its own, the hooked  *)
(* epoll_wait on an fd of the program, here one that all coroutines share, *)
(* and the hooked poll on an epoll fd made for the call.  A coroutine that *)
(* waits registers such an epoll fd with the scheduler's.                  *)
(***************************************************************************)
EXTENDS Functions

CONSTANTS
  Coro, Fd,
  None,       \* no epoll fd
  Shared,     \* the epoll fd of the program
  Careful,    \* environment: a coroutine ends after dyco_epoll_destroy, and one
              \* at a time waits on the epoll fd of the program
  QuietPoll   \* environment: poll has no timeout and nobody else reads its fds

Epfd == (Coro \X {"own", "poll"}) \cup {Shared}

VARIABLES
  ready,            \* the fds with an event
  IOMULTIPLEXING,   \* the coroutines with that flag
  interest,         \* the fds registered with each epoll fd
  fd_co_map,        \* the epoll fds registered with the scheduler, and by whom
  on,               \* the epoll fd each coroutine is suspended on, if any
  woken,            \* the suspended coroutines the scheduler has made ready
  timed,            \* the suspended coroutines with a timeout
  live,             \* the coroutines that have not ended
  aborted,          \* the status SCHEDULE_STATUS_ABORTED: the loop ends for good
  blocked,          \* poll_f blocks the thread; the model ends there
  exited            \* the process was ended by DYCO_MUST or DYCO_ABORT

waits == <<fd_co_map, on, woken, timed>>
vars  == <<ready, IOMULTIPLEXING, interest, waits, live, aborted, blocked, exited>>

Init ==
  /\ ready = {}
  /\ IOMULTIPLEXING = {}
  /\ interest = [e \in Epfd |-> IF e = Shared THEN Fd ELSE {}]
  /\ fd_co_map = <<>>
  /\ on = [c \in Coro |-> None]
  /\ woken = {} /\ timed = {}
  /\ live = Coro
  /\ aborted = FALSE
  /\ blocked = FALSE
  /\ exited = FALSE

Going      == ~blocked /\ ~exited /\ ~aborted
Running(c) == Going /\ c \in live /\ on[c] = None
Own(c)     == <<c, "own">>
Poll(c)    == <<c, "poll">>

\* DYCO_MUST.
Must(condition) == exited' = ~condition

Readable(e) == interest[e] \cap ready # {}

-----------------------------------------------------------------------------
(* The kernel and the program.                                             *)

Arrive(fd) ==
  /\ Going
  /\ ready' = ready \cup {fd}
  /\ UNCHANGED <<IOMULTIPLEXING, interest, waits, live, blocked, exited, aborted>>

\* A coroutine reads an fd empty.
Consume(c, fd) ==
  /\ Running(c)
  /\ fd \in ready
  /\ QuietPoll => \A d \in Coro : on[d] = Poll(d) => fd \notin interest[on[d]]
  /\ ready' = ready \ {fd}
  /\ UNCHANGED <<IOMULTIPLEXING, interest, waits, live, blocked, exited, aborted>>

-----------------------------------------------------------------------------
(* The scheduler.                                                          *)

\* schedule_sched_waitR, schedule_sched_sleep and yield: EPOLL_CTL_ADD fails
\* for an epoll fd that is registered.
Suspend(c, e, hasTimeout) ==
  /\ Must(e \notin DOMAIN fd_co_map)
  /\ fd_co_map' = [x \in DOMAIN fd_co_map \cup {e} |-> IF x = e THEN c ELSE fd_co_map[x]]
  /\ on' = [on EXCEPT ![c] = e]
  /\ timed' = IF hasTimeout THEN timed \cup {c} ELSE timed
  /\ UNCHANGED woken

\* Mutant of EventWakes: the loop polls only when no coroutine is ready.
EventWakes_OnlyIdle(e) ==
  /\ Going /\ woken = {}
  /\ e \in DOMAIN fd_co_map
  /\ Readable(e)
  /\ woken' = woken \cup {fd_co_map[e]}
  /\ fd_co_map' = Restrict(fd_co_map, DOMAIN fd_co_map \ {e})
  /\ UNCHANGED <<ready, IOMULTIPLEXING, interest, on, timed, live, blocked, exited, aborted>>

\* The loop finds the event and cancels the wait.
EventWakes(e) ==
  /\ Going
  /\ e \in DOMAIN fd_co_map
  /\ Readable(e)
  /\ woken' = woken \cup {fd_co_map[e]}
  /\ fd_co_map' = Restrict(fd_co_map, DOMAIN fd_co_map \ {e})
  /\ UNCHANGED <<ready, IOMULTIPLEXING, interest, on, timed, live, blocked, exited, aborted>>

\* The loop finds the timer expired; the registration stays.
TimerWakes(c) ==
  /\ Going
  /\ c \in timed \ woken
  /\ woken' = woken \cup {c}
  /\ UNCHANGED <<ready, IOMULTIPLEXING, interest, fd_co_map, on, timed, live, blocked, exited, aborted>>

\* Mutant of Resume: the registration stays when the timer woke the coroutine.
Resume_EntryKept(c) ==
  /\ Going
  /\ c \in woken
  /\ UNCHANGED fd_co_map
  /\ on' = [on EXCEPT ![c] = None]
  /\ woken' = woken \ {c}
  /\ timed' = timed \ {c}

\* From the yield on: schedule_cancel_sleep and schedule_cancel_wait.
Resume(c) ==
  /\ Going
  /\ c \in woken
  /\ fd_co_map' = Restrict(fd_co_map, {e \in DOMAIN fd_co_map : fd_co_map[e] # c})
  /\ on' = [on EXCEPT ![c] = None]
  /\ woken' = woken \ {c}
  /\ timed' = timed \ {c}

\* freecoro of the coroutines in cs: the epoll fd of each is removed from the
\* scheduler's once by schedule_cancel_wait, if it is there, and once more.
freecoro(cs) ==
  /\ Must(cs \cap IOMULTIPLEXING = {})
  /\ live' = live \ cs

\* A coroutine ends.
Exit(c) ==
  /\ Running(c)
  /\ Careful => c \notin IOMULTIPLEXING
  /\ freecoro({c})
  /\ UNCHANGED <<ready, IOMULTIPLEXING, interest, waits, blocked, aborted>>

\* schedule_abort: it empties cid_co_map only, so the registrations and the
\* timers of the coroutines it frees stay.
Abort(c) ==
  /\ Running(c)
  /\ Careful => IOMULTIPLEXING = {}
  /\ freecoro(live)
  /\ aborted' = TRUE
  /\ UNCHANGED <<ready, IOMULTIPLEXING, interest, waits, blocked>>

-----------------------------------------------------------------------------
(* The calls.                                                              *)

dyco_epoll_init(c) ==
  /\ Running(c)
  /\ c \notin IOMULTIPLEXING
  /\ IOMULTIPLEXING' = IOMULTIPLEXING \cup {c}
  /\ interest' = [interest EXCEPT ![Own(c)] = {}]
  /\ UNCHANGED <<ready, waits, live, blocked, exited, aborted>>

\* An fd that is added twice, or removed without being there, ends the process;
\* callers keep to that.
dyco_epoll_add(c, fd) ==
  /\ Running(c)
  /\ c \in IOMULTIPLEXING
  /\ fd \notin interest[Own(c)]
  /\ interest' = [interest EXCEPT ![Own(c)] = @ \cup {fd}]
  /\ UNCHANGED <<ready, IOMULTIPLEXING, waits, live, blocked, exited, aborted>>

dyco_epoll_del(c, fd) ==
  /\ Running(c)
  /\ c \in IOMULTIPLEXING
  /\ fd \in interest[Own(c)]
  /\ interest' = [interest EXCEPT ![Own(c)] = @ \ {fd}]
  /\ UNCHANGED <<ready, IOMULTIPLEXING, waits, live, blocked, exited, aborted>>

dyco_epoll_destroy(c) ==
  /\ Running(c)
  /\ c \in IOMULTIPLEXING
  /\ IOMULTIPLEXING' = IOMULTIPLEXING \ {c}
  /\ interest' = [interest EXCEPT ![Own(c)] = {}]
  /\ UNCHANGED <<ready, waits, live, blocked, exited, aborted>>

dyco_epoll_wait(c, hasTimeout) ==
  /\ Running(c)
  /\ c \in IOMULTIPLEXING
  /\ Suspend(c, Own(c), hasTimeout)
  /\ UNCHANGED <<ready, IOMULTIPLEXING, interest, live, blocked, aborted>>

\* The hooked epoll_wait.  With timeout 0 it passes 0 for maxevents, so that the
\* system call fails, and changes nothing.
epoll_wait(c, hasTimeout) ==
  /\ Running(c)
  /\ Careful => \A d \in Coro : on[d] # Shared
  /\ Suspend(c, Shared, hasTimeout)
  /\ UNCHANGED <<ready, IOMULTIPLEXING, interest, live, blocked, aborted>>

\* Both after the yield: they return the events that are there by then.
WaitEnd(c) ==
  /\ on[c] \in {Own(c), Shared}
  /\ Resume(c)
  /\ UNCHANGED <<ready, IOMULTIPLEXING, interest, live, blocked, exited, aborted>>

\* The hooked poll, up to the yield.
PollBlock(c, fds, hasTimeout) ==
  /\ Running(c)
  /\ QuietPoll => ~hasTimeout
  /\ interest' = [interest EXCEPT ![Poll(c)] = fds]
  /\ Suspend(c, Poll(c), hasTimeout)
  /\ UNCHANGED <<ready, IOMULTIPLEXING, live, blocked, aborted>>

\* From there on: poll_f gets the timeout once more, and blocks the thread
\* unless an fd is ready.  The epoll fd is not closed.
PollEnd(c) ==
  /\ on[c] = Poll(c)
  /\ Resume(c)
  /\ interest' = [interest EXCEPT ![Poll(c)] = {}]
  /\ blocked' = ~Readable(Poll(c))
  /\ UNCHANGED <<ready, IOMULTIPLEXING, live, exited, aborted>>

Next ==
  \/ \E fd \in Fd : Arrive(fd)
  \/ \E e \in Epfd : EventWakes(e)
  \/ \E c \in Coro :
       \/ TimerWakes(c) \/ Exit(c) \/ Abort(c)
       \/ dyco_epoll_init(c) \/ dyco_epoll_destroy(c) \/ WaitEnd(c) \/ PollEnd(c)
       \/ \E fd \in Fd : Consume(c, fd) \/ dyco_epoll_add(c, fd) \/ dyco_epoll_del(c, fd)
       \/ \E hasTimeout \in BOOLEAN :
            \/ dyco_epoll_wait(c, hasTimeout) \/ epoll_wait(c, hasTimeout)
            \/ \E fds \in SUBSET Fd \ {{}} : PollBlock(c, fds, hasTimeout)

Spec == Init /\ [][Next]_vars

\* The loop polls, and resumes what it has made ready.
Fairness ==
  /\ \A e \in Epfd : WF_vars(EventWakes(e))
  /\ \A c \in Coro : WF_vars(WaitEnd(c) \/ PollEnd(c))

FairSpec == Spec /\ Fairness

-----------------------------------------------------------------------------
(* Properties.                                                             *)

\* The variables have their types, and only suspended coroutines are woken or
\* have a timer.
TypeOK ==
  /\ ready \subseteq Fd /\ IOMULTIPLEXING \subseteq Coro
  /\ interest \in [Epfd -> SUBSET Fd]
  /\ DOMAIN fd_co_map \subseteq Epfd
  /\ on \in [Coro -> Epfd \cup {None}]
  /\ live \subseteq Coro /\ woken \cup timed \subseteq {c \in Coro : on[c] # None}
  /\ aborted \in BOOLEAN /\ blocked \in BOOLEAN /\ exited \in BOOLEAN

\* The scheduler has the registration of every coroutine that is suspended and
\* not yet woken, and no registration of an epoll fd in which nobody is: those
\* could be closed, and their number reused, by a coroutine that has gone on.
\* Nobody registered has been freed, except by schedule_abort: it leaves what
\* the coroutines it frees have registered, and the loop does not look at it.
RegistrationsAgree ==
  /\ \A c \in Coro : on[c] # None /\ c \notin woken => on[c] \in DOMAIN fd_co_map /\ fd_co_map[on[c]] = c
  /\ \A e \in DOMAIN fd_co_map : on[fd_co_map[e]] = e
  /\ \A e \in DOMAIN fd_co_map : aborted \/ fd_co_map[e] \in live

\* No epoll_ctl of the library fails, those of freecoro included.
NeverExits == ~exited

\* poll_f, called after the wait, finds an event: the thread never blocks in it.
LoopNeverBlocks == ~blocked

\* The registrations are those of the suspended coroutines, so that the library
\* neither ends the process nor blocks the thread.
WaitsAgree == TypeOK /\ RegistrationsAgree /\ NeverExits /\ LoopNeverBlocks

\* A coroutine that waits for an fd with an event goes on, unless another one
\* takes the event first or aborts the scheduler.
EventReturns ==
  \A c \in Coro :
    (on[c] # None /\ Readable(on[c])) ~> (on[c] = None \/ ~Readable(on[c]) \/ aborted)

=============================================================================
