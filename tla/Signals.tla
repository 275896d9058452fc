------------------------------ MODULE Signals ------------------------------
(***************************************************************************)
(* dyco_signal.c and dyco_schedcall_sigprocmask.  swapcontext saves and    *)
(* restores the signal mask, so that the scheduler and every coroutine     *)
(* have a mask of their own; a schedcall has the scheduler change its own. *)
(* The default action of a signal that is not blocked ends the process,    *)
(* except for SIGCHLD, which is discarded.  A coroutine has one child.     *)
(***************************************************************************)

CONSTANTS
  Coro, Sig,
  SIGCHLD,      \* one of Sig
  UserSig,      \* environment: the signals given to dyco_signal_init
  Sched,        \* the context of the scheduler
  InitialMask,  \* environment: the mask of the thread that runs the scheduler
  Exclusive     \* environment: one coroutine at a time uses dyco_signal_init,
                \* and does not call dyco_signal_waitchild meanwhile

VARIABLES
  mask,        \* the signal mask of each context
  curr,        \* the context that runs
  pc,          \* where each coroutine is
  timed,       \* the coroutines whose wait has a timeout
  WAITSIGNAL,  \* the coroutines with that flag
  sigset,      \* the signals of the signalfd of each
  old_sigmask,
  pending,     \* the pending signals of the process
  child,       \* the child of each: "none", "alive", "zombie"
  ended        \* the process was ended by a signal

signals == <<mask, pending, ended>>
vars    == <<signals, curr, pc, timed, WAITSIGNAL, sigset, old_sigmask, child>>

Init ==
  /\ mask = [x \in Coro \cup {Sched} |-> InitialMask]
  /\ curr = Sched
  /\ pc = [c \in Coro |-> "new"]
  /\ timed = {}
  /\ WAITSIGNAL = {}
  /\ sigset = [c \in Coro |-> {}]
  /\ old_sigmask = [c \in Coro |-> {}]
  /\ pending = {}
  /\ child = [c \in Coro |-> "none"]
  /\ ended = FALSE

Running(c) == curr = c /\ pc[c] = "run" /\ ~ended

\* Of the signals p, those that one of the masks does not block are delivered.
Deliver(p, masks) ==
  /\ pending' = {s \in p : \A m \in masks : s \in m}
  /\ ended' = \E s \in p \ {SIGCHLD} : \E m \in masks : s \notin m

-----------------------------------------------------------------------------
(* The kernel.                                                             *)

Send(s) ==
  /\ ~ended
  /\ s # SIGCHLD
  /\ Deliver(pending \cup {s}, {mask[curr]})
  /\ UNCHANGED <<mask, curr, pc, timed, WAITSIGNAL, sigset, old_sigmask, child>>

ChildExit(c) ==
  /\ ~ended
  /\ child[c] = "alive"
  /\ child' = [child EXCEPT ![c] = "zombie"]
  /\ Deliver(pending \cup {SIGCHLD}, {mask[curr]})
  /\ UNCHANGED <<mask, curr, pc, timed, WAITSIGNAL, sigset, old_sigmask>>

-----------------------------------------------------------------------------
(* The scheduler.                                                          *)

\* The signalfd of c is readable while one of its signals is pending;
\* dyco_signal_waitchild waits on a second one.
Readable(c) == (IF pc[c] = "child" THEN {SIGCHLD} ELSE sigset[c]) \cap pending # {}

\* The loop finds the event, or the timeout, of a coroutine that waits.
Wake(c) ==
  /\ curr = Sched /\ ~ended
  /\ pc[c] \in {"wait", "child"}
  /\ Readable(c) \/ c \in timed
  /\ pc' = [pc EXCEPT ![c] = IF @ = "wait" THEN "waited" ELSE "childed"]
  /\ UNCHANGED <<signals, curr, timed, WAITSIGNAL, sigset, old_sigmask, child>>

\* Mutant of resume: a new context starts with an empty mask.
resume_EmptyMask(c) ==
  /\ curr = Sched /\ ~ended
  /\ pc[c] \in {"new", "ready"}
  /\ curr' = c
  /\ pc' = [pc EXCEPT ![c] = "run"]
  /\ mask' = IF pc[c] = "new" THEN [mask EXCEPT ![c] = {}] ELSE mask
  /\ Deliver(pending, {mask'[c]})
  /\ UNCHANGED <<timed, WAITSIGNAL, sigset, old_sigmask, child>>

\* resume: a new context takes the mask of the scheduler (getcontext).
resume(c) ==
  /\ curr = Sched /\ ~ended
  /\ pc[c] \in {"new", "ready"}
  /\ curr' = c
  /\ pc' = [pc EXCEPT ![c] = "run"]
  /\ mask' = IF pc[c] = "new" THEN [mask EXCEPT ![c] = mask[Sched]] ELSE mask
  /\ Deliver(pending, {mask'[c]})
  /\ UNCHANGED <<timed, WAITSIGNAL, sigset, old_sigmask, child>>

\* A coroutine yields for another reason.
yield(c) ==
  /\ Running(c)
  /\ curr' = Sched
  /\ pc' = [pc EXCEPT ![c] = "ready"]
  /\ Deliver(pending, {mask[Sched]})
  /\ UNCHANGED <<mask, timed, WAITSIGNAL, sigset, old_sigmask, child>>

\* A coroutine ends; freecoro restores the mask of the scheduler.
freecoro(c) ==
  /\ Running(c)
  /\ curr' = Sched
  /\ pc' = [pc EXCEPT ![c] = "done"]
  /\ mask' = IF c \in WAITSIGNAL THEN [mask EXCEPT ![Sched] = old_sigmask[c]] ELSE mask
  /\ Deliver(pending, {mask[Sched], mask'[Sched]})
  /\ WAITSIGNAL' = WAITSIGNAL \ {c}
  /\ sigset' = [sigset EXCEPT ![c] = {}]
  /\ UNCHANGED <<timed, old_sigmask, child>>

-----------------------------------------------------------------------------
(* The calls.                                                              *)

\* The mask of the scheduler after schedule_callexec of CALLNUM_SIGPROCMASK.
schedule_callexec(how, set) == IF how = "SIG_BLOCK" THEN mask[Sched] \cup set ELSE set

\* Mutant of dyco_schedcall_sigprocmask: without the schedcall.
dyco_schedcall_sigprocmask_OwnOnly(c, how, set, next) ==
  /\ mask' = [mask EXCEPT ![c] = @ \cup set]
  /\ Deliver(pending, {mask'[c], mask'[next]})

\* The coroutine blocks the set itself, whatever it asks for, and switches to
\* the scheduler and back; next is the context that runs afterwards.
dyco_schedcall_sigprocmask(c, how, set, next) ==
  /\ mask' = [mask EXCEPT ![c] = @ \cup set, ![Sched] = schedule_callexec(how, set)]
  /\ Deliver(pending, {mask[Sched], mask'[Sched], mask'[c], mask'[next]})

dyco_signal_init(c, set) ==
  /\ Running(c)
  /\ c \notin WAITSIGNAL
  /\ Exclusive => WAITSIGNAL = {}
  /\ dyco_schedcall_sigprocmask(c, "SIG_BLOCK", set, c)
  /\ old_sigmask' = [old_sigmask EXCEPT ![c] = mask[Sched]]
  /\ sigset' = [sigset EXCEPT ![c] = set]
  /\ WAITSIGNAL' = WAITSIGNAL \cup {c}
  /\ UNCHANGED <<curr, pc, timed, child>>

dyco_signal_destroy(c) ==
  /\ Running(c)
  /\ c \in WAITSIGNAL
  /\ WAITSIGNAL' = WAITSIGNAL \ {c}
  /\ dyco_schedcall_sigprocmask(c, "SIG_SETMASK", old_sigmask[c], c)
  /\ sigset' = [sigset EXCEPT ![c] = {}]
  /\ UNCHANGED <<curr, pc, timed, old_sigmask, child>>

\* read on the signalfd takes one of its pending signals, if there is one.
ReadSignal(c) ==
  \/ \E s \in sigset[c] \cap pending : Deliver(pending \ {s}, {mask[c]})
  \/ ~Readable(c) /\ Deliver(pending, {mask[c]})

\* dyco_signal_wait that returns at once.
SignalWaitNow(c) ==
  /\ Running(c)
  /\ c \in WAITSIGNAL
  /\ Readable(c)
  /\ ReadSignal(c)
  /\ UNCHANGED <<mask, curr, pc, timed, WAITSIGNAL, sigset, old_sigmask, child>>

SignalWaitBlock(c, hasTimeout) ==
  /\ Running(c)
  /\ c \in WAITSIGNAL
  /\ ~Readable(c)
  /\ curr' = Sched
  /\ pc' = [pc EXCEPT ![c] = "wait"]
  /\ timed' = IF hasTimeout THEN timed \cup {c} ELSE timed
  /\ Deliver(pending, {mask[Sched]})
  /\ UNCHANGED <<mask, WAITSIGNAL, sigset, old_sigmask, child>>

SignalWaitEnd(c) ==
  /\ curr = Sched /\ ~ended
  /\ pc[c] = "waited"
  /\ curr' = c
  /\ pc' = [pc EXCEPT ![c] = "run"]
  /\ timed' = timed \ {c}
  /\ ReadSignal(c)
  /\ UNCHANGED <<mask, WAITSIGNAL, sigset, old_sigmask, child>>

\* The program forks.
Fork(c) ==
  /\ Running(c)
  /\ child[c] = "none"
  /\ child' = [child EXCEPT ![c] = "alive"]
  /\ UNCHANGED <<signals, curr, pc, timed, WAITSIGNAL, sigset, old_sigmask>>

\* dyco_signal_waitchild, the first waitpid.
WaitChildCheck(c) ==
  /\ Running(c)
  /\ Exclusive => c \notin WAITSIGNAL
  /\ child[c] # "none"
  /\ IF child[c] = "zombie"
     THEN child' = [child EXCEPT ![c] = "none"] /\ UNCHANGED pc
     ELSE pc' = [pc EXCEPT ![c] = "checked"] /\ UNCHANGED child
  /\ UNCHANGED <<signals, curr, timed, WAITSIGNAL, sigset, old_sigmask>>

\* From there to the yield; old_sigmask is overwritten.
WaitChildBlock(c, hasTimeout) ==
  /\ curr = c /\ ~ended
  /\ pc[c] = "checked"
  /\ dyco_schedcall_sigprocmask(c, "SIG_BLOCK", {SIGCHLD}, Sched)
  /\ old_sigmask' = [old_sigmask EXCEPT ![c] = mask[Sched]]
  /\ curr' = Sched
  /\ pc' = [pc EXCEPT ![c] = "child"]
  /\ timed' = IF hasTimeout THEN timed \cup {c} ELSE timed
  /\ UNCHANGED <<WAITSIGNAL, sigset, child>>

\* The signalfd is closed unread, and no mask is restored.
WaitChildEnd(c) ==
  /\ curr = Sched /\ ~ended
  /\ pc[c] = "childed"
  /\ curr' = c
  /\ pc' = [pc EXCEPT ![c] = "run"]
  /\ timed' = timed \ {c}
  /\ child' = [child EXCEPT ![c] = IF @ = "zombie" THEN "none" ELSE @]
  /\ Deliver(pending, {mask[c]})
  /\ UNCHANGED <<mask, WAITSIGNAL, sigset, old_sigmask>>

Next ==
  \/ \E s \in Sig : Send(s)
  \/ \E c \in Coro :
       \/ ChildExit(c) \/ Wake(c) \/ resume(c) \/ yield(c) \/ freecoro(c)
       \/ \E set \in SUBSET UserSig \ {{}} : dyco_signal_init(c, set)
       \/ dyco_signal_destroy(c)
       \/ SignalWaitNow(c) \/ SignalWaitEnd(c)
       \/ Fork(c) \/ WaitChildCheck(c) \/ WaitChildEnd(c)
       \/ \E hasTimeout \in BOOLEAN : SignalWaitBlock(c, hasTimeout) \/ WaitChildBlock(c, hasTimeout)

Spec == Init /\ [][Next]_vars

\* A coroutine gives way in the end, every loop of the scheduler polls, and
\* what it finds is resumed.
Fairness ==
  \A c \in Coro :
    /\ WF_vars(yield(c) \/ \E t \in BOOLEAN : WaitChildBlock(c, t))
    /\ SF_vars(Wake(c))
    /\ SF_vars(SignalWaitEnd(c) \/ WaitChildEnd(c))

FairSpec == Spec /\ Fairness

-----------------------------------------------------------------------------
(* Properties.                                                             *)

\* The variables have their types, and a context runs that may run.
TypeOK ==
  /\ mask \in [Coro \cup {Sched} -> SUBSET Sig]
  /\ pc \in [Coro -> {"new", "ready", "run", "wait", "waited", "checked", "child", "childed", "done"}]
  /\ timed \subseteq Coro /\ WAITSIGNAL \subseteq Coro
  /\ sigset \in [Coro -> SUBSET Sig] /\ old_sigmask \in [Coro -> SUBSET Sig]
  /\ pending \subseteq Sig /\ child \in [Coro -> {"none", "alive", "zombie"}]
  /\ ended \in BOOLEAN
  /\ {c \in Coro : pc[c] \in {"run", "checked"}} = {curr} \ {Sched}

\* While a coroutine uses dyco_signal_init, the scheduler blocks its signals:
\* one that arrives during epoll_wait reaches the signalfd.
SchedulerBlocks == \A c \in WAITSIGNAL : sigset[c] \subseteq mask[Sched] \cap mask[c]

\* The scheduler never unblocks a signal of the mask it started with; after the
\* last dyco_signal_destroy, or the end of the coroutine, it has that mask again,
\* up to SIGCHLD, which dyco_signal_waitchild leaves blocked.
MaskRestored ==
  /\ InitialMask \subseteq mask[Sched]
  /\ WAITSIGNAL = {} => mask[Sched] \subseteq InitialMask \cup {SIGCHLD}

\* The masks of the scheduler and the coroutines agree with who uses signals,
\* in whatever order coroutines start, use, leave and end.
MasksAgree == TypeOK /\ SchedulerBlocks /\ MaskRestored

\* With SIGCHLD blocked from the start, a coroutine that waits for its child
\* returns when that has ended: no step of another coroutine discards the
\* signal, not even between the waitpid and the signalfd.
WaitChildReturns ==
  \A c \in Coro : (pc[c] \in {"checked", "child"} /\ child[c] = "zombie") ~> (pc[c] = "run" \/ ended)

=============================================================================
