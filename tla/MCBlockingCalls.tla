--------------------------- MODULE MCBlockingCalls ---------------------------
(* Instances of Coropool and Socket for TLC: calls that suspend the         *)
(* coroutine instead of the thread.  They share nothing: a behaviour is one *)
(* of either, while the other does not move.                                *)
EXTENDS Coropool

CONSTANTS Coro, None, SendBuffer, Lengths, MaxBacklog, OneCaller

VARIABLES
  component,
  conn, backlog, out, in, reg, pc, woken, k_timed, expired, len, sent, ret, exited

socket == <<conn, backlog, out, in, reg, pc, woken, k_timed, expired, len, sent, ret,
            exited>>

K == INSTANCE Socket WITH timed <- k_timed

ASSUME SocketConstants ==
  SendBuffer \in Nat /\ MaxBacklog \in Nat /\ Lengths \subseteq Nat \ {0} /\ None \notin Coro

\* One of the pools is enough where the pool does not move.
MCInit ==
  /\ Init /\ K!Init
  /\ \/ component = "coropool"
     \/ component = "socket" /\ isasymmetric /\ totalsize = 1

MCNext ==
  \/ component = "coropool" /\ Next /\ UNCHANGED <<component, socket>>
  \/ component = "socket" /\ K!Next /\ UNCHANGED <<component, vars>>

MCSpec ==
  /\ MCInit /\ [][MCNext]_<<component, vars, socket>>
  /\ Fairness /\ K!Fairness

-----------------------------------------------------------------------------
\* StreamAgrees of Socket: dyco_send sends whole messages, no socket is
\* registered twice.
StreamAgrees == K!StreamAgrees

\* ResultsJustified of Socket: the calls fail only for a reason.
ResultsJustified == K!ResultsJustified

\* CallsReturn of Socket: the calls return.
CallsReturn == K!CallsReturn

=============================================================================
