------------------------- MODULE CountingSemaphore -------------------------
(***************************************************************************)
(* What a semaphore promises, whatever its queue and its notifications     *)
(* look like: a wait succeeds only by taking one of the tokens that the    *)
(* initial value and the signals have supplied, and tokens that are wanted *)
(* do not lie idle.                                                        *)
(***************************************************************************)
EXTENDS Integers

CONSTANTS Coro, InitVal

VARIABLES tokens,   \* tokens nobody has been granted yet
          asking,   \* coroutines inside a wait
          granted,  \* number of waits that succeeded
          posted    \* number of signals

vars == <<tokens, asking, granted, posted>>

Init == tokens = InitVal /\ asking = {} /\ granted = 0 /\ posted = 0

Ask(c) ==
  /\ c \notin asking
  /\ asking' = asking \cup {c}
  /\ UNCHANGED <<tokens, granted, posted>>

\* At once, or after having asked.
Grant(c) ==
  /\ tokens > 0
  /\ tokens' = tokens - 1
  /\ granted' = granted + 1
  /\ asking' = asking \ {c}
  /\ UNCHANGED posted

GiveUp(c) ==
  /\ c \in asking
  /\ asking' = asking \ {c}
  /\ UNCHANGED <<tokens, granted, posted>>

Post ==
  /\ tokens' = tokens + 1
  /\ posted' = posted + 1
  /\ UNCHANGED <<asking, granted>>

Next == Post \/ \E c \in Coro : Ask(c) \/ Grant(c) \/ GiveUp(c)

Spec == Init /\ [][Next]_vars

\* Tokens and askers do not both stay: one is granted.
FairSpec == Spec /\ WF_vars(\E c \in asking : Grant(c))

=============================================================================
