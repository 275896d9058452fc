-------------------------- MODULE MCNotifications --------------------------
(* Instances of Semaphore and Pubsub for TLC.  They share nothing: a       *)
(* behaviour is one of either, while the other does not move.              *)
EXTENDS Semaphore

CONSTANTS Reader, Msg, None, PollAt, WORD

VARIABLES
  component,
  status, msg, pub_notifyfd, sub_num, ack_rem, sublist, pc, p_timed, p_count, p_ret,
  ended, owed

pubsub == <<status, msg, pub_notifyfd, sub_num, ack_rem, sublist, pc, p_timed, p_count,
            p_ret, ended, owed>>

P == INSTANCE Pubsub WITH
       Coro <- Reader, timed <- p_timed, count <- p_count, ret <- p_ret

\* None is no coroutine and no message, the coroutines can be counted in a word,
\* and timeout 0 is used only while a message is being published or the channel
\* is closed: in an empty channel it would end the process.
ASSUME PubsubConstants ==
  /\ IsFiniteSet(Reader) /\ None \notin Reader /\ None \notin Msg
  /\ WORD \in Nat \ {0} /\ Cardinality(Reader) <= WORD
  /\ P!EMPTY \notin PollAt

MCInit == Init /\ P!Init /\ component \in {"semaphore", "pubsub"}

MCNext ==
  \/ component = "semaphore" /\ Next /\ UNCHANGED <<component, pubsub>>
  \/ component = "pubsub" /\ P!Next /\ UNCHANGED <<component, vars>>

MCSpec ==
  MCInit /\ [][MCNext]_<<component, vars, pubsub>> /\ Fairness /\ P!Fairness

-----------------------------------------------------------------------------
\* CountsAgree of Pubsub: counters and list agree with who is suspended.
CountsAgree == P!CountsAgree

\* FreedUnused of Pubsub: destroy frees a channel nobody is suspended in.
FreedUnused == P!FreedUnused

\* IsBroadcast of Pubsub: who was subscribed gets the message.
IsBroadcast == P!IsBroadcast

\* NotifiedReturn of Pubsub: publish, destroy and a notified subscribe return.
NotifiedReturn == P!NotifiedReturn

=============================================================================
