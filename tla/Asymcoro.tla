------------------------------ MODULE Asymcoro ------------------------------
(***************************************************************************)
(* dyco_asymcoro.c with the stack copying of dyco_coroutine.c.  A          *)
(* coroutine runs on a stack of its own or on the one stack of the         *)
(* scheduler, where savestk and loadstk move its frames out and in.  An    *)
(* asymmetric coroutine is resumed by the program and returns to whoever   *)
(* resumed it last; a coroutine that resumes another one is not saved.     *)
(***************************************************************************)
EXTENDS FiniteSets, Naturals

CONSTANTS
  Sym, Asym,   \* the symmetric and the asymmetric coroutines
  Main,        \* the context of main and of the scheduler
  Independent  \* environment: in a coroutine, only those with a stack of their own,
               \* or not yet started, are resumed

Coro == Sym \cup Asym

ASSUME AsymcoroConstants == Sym \cap Asym = {} /\ Main \notin Coro /\ IsFiniteSet(Coro)

VARIABLES
  state,        \* "none", "new", "running" (or waiting for one it resumed),
                \* "suspended", "exited"
  OWNSTACK,     \* the coroutines with that flag
  stack,        \* whose frames the stack of the scheduler has
  curr_thread,
  ret           \* the context each asymmetric coroutine returns to

vars == <<state, OWNSTACK, stack, curr_thread, ret>>

Init ==
  /\ state = [c \in Coro |-> "none"]
  /\ OWNSTACK = {}
  /\ stack = Main
  /\ curr_thread = Main
  /\ ret = [c \in Asym |-> Main]

\* dyco_coroutine_create and dyco_asymcoro_create.
create(c) ==
  /\ state[c] = "none"
  /\ state' = [state EXCEPT ![c] = "new"]
  /\ UNCHANGED <<OWNSTACK, stack, curr_thread, ret>>

\* dyco_coroutine_setStack, for a coroutine that has not started: with size 0
\* the stack of the scheduler is used.
setStack(c, size) ==
  /\ state[c] = "new"
  /\ OWNSTACK' = IF size = 0 THEN OWNSTACK \ {c} ELSE OWNSTACK \cup {c}
  /\ UNCHANGED <<state, stack, curr_thread, ret>>

\* init_coro or loadstk: the frames of c are where it will run.
loadstk(c, own) == IF c \in own THEN stack ELSE c

\* resume, by the scheduler.
resume(c) ==
  /\ curr_thread = Main
  /\ c \in Sym /\ state[c] \in {"new", "suspended"}
  /\ stack' = loadstk(c, OWNSTACK)
  /\ curr_thread' = c
  /\ state' = [state EXCEPT ![c] = "running"]
  /\ UNCHANGED <<OWNSTACK, ret>>

\* yield of a symmetric coroutine, which ends or is suspended.
yield(c, next) ==
  /\ curr_thread = c /\ c \in Sym
  /\ curr_thread' = Main
  /\ state' = [state EXCEPT ![c] = next]
  /\ UNCHANGED <<OWNSTACK, stack, ret>>

\* Mutant of dyco_asymcororesume: it does not give the coroutine a stack.
dyco_asymcororesume_SharedStack(c) ==
  /\ c \in Asym /\ state[c] \in {"new", "suspended"}
  /\ Independent /\ curr_thread # Main => state[c] = "new" \/ c \in OWNSTACK
  /\ stack' = loadstk(c, OWNSTACK)
  /\ ret' = [ret EXCEPT ![c] = curr_thread]
  /\ curr_thread' = c
  /\ state' = [state EXCEPT ![c] = "running"]
  /\ UNCHANGED OWNSTACK

\* dyco_asymcororesume, in main or in a coroutine.  A coroutine that has
\* exited is left alone; setStack fails for one that has started.
dyco_asymcororesume(c) ==
  /\ c \in Asym /\ state[c] \in {"new", "suspended"}
  /\ Independent /\ curr_thread # Main => state[c] = "new" \/ c \in OWNSTACK
  /\ OWNSTACK' = IF curr_thread # Main /\ state[c] = "new" THEN OWNSTACK \cup {c} ELSE OWNSTACK
  /\ stack' = loadstk(c, OWNSTACK')
  /\ ret' = [ret EXCEPT ![c] = curr_thread]
  /\ curr_thread' = c
  /\ state' = [state EXCEPT ![c] = "running"]

\* Mutant of dyco_asymcoroyield: it returns to the scheduler.
dyco_asymcoroyield_ToMain(c, next) ==
  /\ curr_thread = c /\ c \in Asym
  /\ curr_thread' = Main
  /\ state' = [state EXCEPT ![c] = next]
  /\ UNCHANGED <<OWNSTACK, stack, ret>>

\* dyco_asymcoroyield and the rest of the dyco_asymcororesume it returns to;
\* execute ends with it.
dyco_asymcoroyield(c, next) ==
  /\ curr_thread = c /\ c \in Asym
  /\ curr_thread' = ret[c]
  /\ state' = [state EXCEPT ![c] = next]
  /\ UNCHANGED <<OWNSTACK, stack, ret>>

\* dyco_asymcoro_free; the program frees no coroutine that runs.
dyco_asymcoro_free(c) ==
  /\ c \in Asym /\ state[c] \in {"new", "suspended", "exited"}
  /\ state' = [state EXCEPT ![c] = "none"]
  /\ OWNSTACK' = OWNSTACK \ {c}
  /\ UNCHANGED <<stack, curr_thread, ret>>

\* freecoro, by the scheduler, after the end of a symmetric coroutine.
freecoro(c) ==
  /\ curr_thread = Main
  /\ c \in Sym /\ state[c] = "exited"
  /\ state' = [state EXCEPT ![c] = "none"]
  /\ OWNSTACK' = OWNSTACK \ {c}
  /\ UNCHANGED <<stack, curr_thread, ret>>

Next ==
  \E c \in Coro :
    \/ create(c) \/ resume(c) \/ freecoro(c)
    \/ dyco_asymcororesume(c) \/ dyco_asymcoro_free(c)
    \/ \E size \in {0, 1} : setStack(c, size)
    \/ \E next \in {"suspended", "exited"} : yield(c, next) \/ dyco_asymcoroyield(c, next)

Spec == Init /\ [][Next]_vars

-----------------------------------------------------------------------------
(* Properties.                                                             *)

\* The variables have their types, and only coroutines that exist have a stack.
TypeOK ==
  /\ state \in [Coro -> {"none", "new", "running", "suspended", "exited"}]
  /\ OWNSTACK \subseteq {c \in Coro : state[c] # "none"}
  /\ stack \in Coro \cup {Main} /\ curr_thread \in Coro \cup {Main}
  /\ ret \in [Asym -> Coro \cup {Main}]

\* A coroutine that runs on the stack of the scheduler finds its own frames
\* there, also when it goes on after the coroutines it has resumed.
StackIntact == curr_thread \in Coro \ OWNSTACK => stack = curr_thread

\* Where the control comes to by n returns.
Returned[n \in 0..Cardinality(Coro)] ==
  IF n = 0 THEN curr_thread
  ELSE IF Returned[n - 1] \in Asym THEN ret[Returned[n - 1]] ELSE Main

\* Every coroutine that has resumed another one gets the control back: the
\* running ones are those on the way from curr_thread to the scheduler.
ResumersReturned ==
  {c \in Coro : state[c] = "running"} = {Returned[n] : n \in DOMAIN Returned} \ {Main}

=============================================================================
