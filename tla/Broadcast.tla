----------------------------- MODULE Broadcast -----------------------------
(***************************************************************************)
(* What a publish-subscribe channel promises: a message reaches exactly    *)
(* the coroutines that were subscribed when it was published, each once,   *)
(* and the publisher returns when all of them have it.                     *)
(***************************************************************************)
CONSTANTS Coro, Msg, None

VARIABLES
  waiting,    \* the subscribed coroutines
  owed,       \* the message each of them has still to be given
  latest,     \* the message published last
  publisher,  \* the coroutine that publishes, or None
  given,      \* who was given what last
  closed

vars == <<waiting, owed, latest, publisher, given, closed>>

Init ==
  /\ waiting = {} /\ owed = [c \in Coro |-> None] /\ publisher = None
  /\ latest = None /\ given = <<None, None>> /\ closed = FALSE

Subscribe(c) ==
  /\ c \notin waiting /\ closed = FALSE
  /\ waiting' = waiting \cup {c}
  /\ UNCHANGED <<owed, latest, publisher, given, closed>>

\* What a subscriber takes for a message when the channel is closed is open.
GiveUp(c) ==
  /\ c \in waiting /\ owed[c] = None
  /\ waiting' = waiting \ {c}
  /\ given' \in {given} \cup (IF closed THEN {c} \X (Msg \cup {None}) ELSE {})
  /\ UNCHANGED <<owed, latest, publisher, closed>>

Publish(c, m) ==
  /\ publisher = None /\ waiting # {} /\ closed = FALSE
  /\ publisher' = c /\ latest' = m
  /\ owed' = [d \in Coro |-> IF d \in waiting THEN m ELSE None]
  /\ UNCHANGED <<waiting, given, closed>>

Receive(c) ==
  /\ owed[c] # None
  /\ given' = <<c, owed[c]>>
  /\ owed' = [owed EXCEPT ![c] = None]
  /\ waiting' = waiting \ {c}
  /\ UNCHANGED <<latest, publisher, closed>>

\* A coroutine that does not subscribe may look at the message meanwhile.
Peek(c) ==
  /\ publisher # None
  /\ given' = <<c, latest>>
  /\ UNCHANGED <<waiting, owed, latest, publisher, closed>>

PublishEnd ==
  /\ publisher # None /\ \A c \in Coro : owed[c] = None
  /\ publisher' = None
  /\ UNCHANGED <<waiting, owed, latest, given, closed>>

Close ==
  /\ publisher = None /\ closed = FALSE
  /\ closed' = TRUE
  /\ UNCHANGED <<waiting, owed, latest, publisher, given>>

Next ==
  \/ \E c \in Coro : Subscribe(c) \/ GiveUp(c) \/ Receive(c) \/ Peek(c) \/ \E m \in Msg : Publish(c, m)
  \/ PublishEnd \/ Close

Spec == Init /\ [][Next]_vars

=============================================================================
