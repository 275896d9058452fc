---------------------------- MODULE MCCoroutines ----------------------------
(* Instances of Asymcoro, Signals and Epoll for TLC: what belongs to a      *)
(* coroutine, its stack, its signal mask and its epoll fd.  They share      *)
(* nothing: a behaviour is one of either, while the others do not move.     *)
EXTENDS Asymcoro

CONSTANTS
  Waiter, None, Sig, UserSig, SIGCHLD, Sched, InitialMask, Exclusive,
  Fd, Shared, Careful, QuietPoll

VARIABLES
  component,
  mask, g_curr, g_pc, g_timed, WAITSIGNAL, sigset, old_sigmask, pending, child, ended,
  ready, IOMULTIPLEXING, interest, fd_co_map, on, woken, timed, live, aborted,
  blocked, exited

signals == <<mask, g_curr, g_pc, g_timed, WAITSIGNAL, sigset, old_sigmask, pending,
             child, ended>>
epoll == <<ready, IOMULTIPLEXING, interest, fd_co_map, on, woken, timed, live, aborted,
           blocked, exited>>

G == INSTANCE Signals WITH
       Coro <- Waiter, curr <- g_curr, pc <- g_pc, timed <- g_timed
E == INSTANCE Epoll WITH Coro <- Waiter

ASSUME SignalsConstants ==
  SIGCHLD \in Sig /\ UserSig \subseteq Sig /\ InitialMask \subseteq Sig /\ Sched \notin Waiter

ASSUME EpollConstants == Shared \notin Waiter \X {"own", "poll"} /\ None \notin E!Epfd

MCInit ==
  Init /\ G!Init /\ E!Init /\ component \in {"asymcoro", "signals", "epoll"}

MCNext ==
  \/ component = "asymcoro" /\ Next /\ UNCHANGED <<component, signals, epoll>>
  \/ component = "signals" /\ G!Next /\ UNCHANGED <<component, vars, epoll>>
  \/ component = "epoll" /\ E!Next /\ UNCHANGED <<component, vars, signals>>

MCSpec ==
  MCInit /\ [][MCNext]_<<component, vars, signals, epoll>> /\ G!Fairness /\ E!Fairness

-----------------------------------------------------------------------------
\* MasksAgree of Signals: the masks agree with who uses signals.
MasksAgree == G!MasksAgree

\* WaitChildReturns of Signals: dyco_signal_waitchild returns after the child has ended.
WaitChildReturns == G!WaitChildReturns

\* WaitsAgree of Epoll: the registrations are those of the suspended.
WaitsAgree == E!WaitsAgree

\* EventReturns of Epoll: who waits for an fd with an event goes on.
EventReturns == E!EventReturns

=============================================================================
