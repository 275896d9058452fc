------------------------------- MODULE Pubsub -------------------------------
(***************************************************************************)
(* dyco_pubsub.c.  A subscriber waits on an eventfd of its own; publish    *)
(* and destroy write the status to all of these and wait on pub_notifyfd   *)
(* until the last notified subscriber, counted down in ack_rem, writes it. *)
(* A coroutine stands for the eventfd it waits on.  The channel is         *)
(* destroyed while nothing is being published, and not used afterwards.    *)
(* Calls are made inside a coroutine; outside of one they do not wait.     *)
(***************************************************************************)
EXTENDS FiniteSets, Sublist

CONSTANTS
  Coro,   \* the coroutines
  Msg,    \* the messages
  None,   \* no message, no coroutine
  PollAt, \* environment: the statuses at which subscribe is called with timeout 0
  WORD    \* ack_rem is unsigned: 2^64, or a smaller bound

\* PSC_STATUS; the value that is written to the eventfds.
NOP   == 0
EMPTY == 1
TRANS == 2
CLOSE == 3

VARIABLES
  status, msg, pub_notifyfd, sub_num, ack_rem, sublist,
  pc,      \* what each coroutine is suspended in: "run", "sub", "pub", "close"
  timed,   \* the subscribers with a timeout
  count,   \* the counters of the eventfds
  ret,     \* the last subscribe that returned: who, and the message or None
  ended,   \* "no", "freed", or "exit" when the process ended
  owed     \* history: the message that was being published to each

channel == <<status, msg, pub_notifyfd, sub_num, ack_rem, sublist>>
vars    == <<channel, pc, timed, count, ret, ended, owed>>

\* dyco_pubsub_create.
Init ==
  /\ status = EMPTY /\ msg = None /\ pub_notifyfd = None
  /\ sub_num = 0 /\ ack_rem = 0 /\ sublist = <<>>
  /\ pc = [c \in Coro |-> "run"]
  /\ timed = {}
  /\ count = [c \in Coro |-> 0]
  /\ ret = <<None, None>>
  /\ ended = "no"
  /\ owed = [c \in Coro |-> None]

Running(c) == pc[c] = "run" /\ ended = "no"

\* Mutant of psc_subnotify: only the first subscriber is notified.
psc_subnotify_First(s) == [c \in Coro |-> count[c] + IF sublist[1] = c THEN s ELSE 0]

\* The counters after psc_subnotify.
psc_subnotify(s) == [c \in Coro |-> count[c] + IF c \in Range(sublist) THEN s ELSE 0]

-----------------------------------------------------------------------------
(* dyco_pubsub_subscribe.                                                  *)

\* psc_subwait up to the yield.  A channel that is being destroyed is refused.
Subscribe(c, hasTimeout) ==
  /\ Running(c)
  /\ status # CLOSE
  /\ sublist' = <<c>> \o sublist
  /\ sub_num' = sub_num + 1
  /\ pc' = [pc EXCEPT ![c] = "sub"]
  /\ timed' = IF hasTimeout THEN timed \cup {c} ELSE timed
  /\ UNCHANGED <<status, msg, pub_notifyfd, ack_rem, count, ret, ended, owed>>

\* psc_pubnotify on the counters: without a coroutine that waits on
\* pub_notifyfd the write fails, and ends the process.
psc_pubnotify(counts) ==
  IF pub_notifyfd \in Coro
  THEN count' = [counts EXCEPT ![pub_notifyfd] = @ + status] /\ UNCHANGED ended
  ELSE count' = counts /\ ended' = "exit"

\* With timeout 0 the status of the channel is the result of psc_subwait.
SubscribePoll(c) ==
  /\ Running(c)
  /\ status \in PollAt \ {CLOSE}
  /\ ret' = <<c, msg>>
  /\ IF status = EMPTY THEN psc_pubnotify(count) ELSE UNCHANGED <<count, ended>>
  /\ UNCHANGED <<channel, pc, timed, owed>>

\* Mutant of SubscribeEnd: a wait that timed out acknowledges too.
SubscribeEnd_AckAlways(c) ==
  LET rest == [count EXCEPT ![c] = 0]
      left == (ack_rem - 1) % WORD
  IN  /\ pc[c] = "sub" /\ ended # "exit"
      /\ count[c] > 0 \/ c \in timed
      /\ sub_num' = sub_num - 1
      /\ sublist' = Unlink(sublist, c)
      /\ pc' = [pc EXCEPT ![c] = "run"]
      /\ timed' = timed \ {c}
      /\ owed' = [owed EXCEPT ![c] = None]
      /\ ack_rem' = left
      /\ IF left = 0 THEN psc_pubnotify(rest) ELSE count' = rest /\ UNCHANGED ended
      /\ ret' = IF left = 0 \/ count[c] = TRANS THEN <<c, msg>> ELSE ret
      /\ UNCHANGED <<status, msg, pub_notifyfd>>

\* From the yield on.  The last acknowledgement copies the message whatever was
\* written, and notifies; before it TRANS copies it and any other value is an
\* error, as a timeout is.
SubscribeEnd(c) ==
  LET rest == [count EXCEPT ![c] = 0]
      left == (ack_rem - 1) % WORD
  IN  /\ pc[c] = "sub" /\ ended # "exit"
      /\ count[c] > 0 \/ c \in timed
      /\ sub_num' = sub_num - 1
      /\ sublist' = Unlink(sublist, c)
      /\ pc' = [pc EXCEPT ![c] = "run"]
      /\ timed' = timed \ {c}
      /\ owed' = [owed EXCEPT ![c] = None]
      /\ IF count[c] = 0
         THEN count' = rest /\ UNCHANGED <<ack_rem, ret, ended>>
         ELSE /\ ack_rem' = left
              /\ IF left = 0 THEN psc_pubnotify(rest) ELSE count' = rest /\ UNCHANGED ended
              /\ ret' = IF left = 0 \/ count[c] = TRANS THEN <<c, msg>> ELSE ret
      /\ UNCHANGED <<status, msg, pub_notifyfd>>

-----------------------------------------------------------------------------
\* Mutant of Publish: a message is taken while one is being published.
Publish_Busy(c, m) ==
  /\ Running(c)
  /\ status \in {EMPTY, TRANS}
  /\ sub_num # 0
  /\ msg' = m
  /\ status' = TRANS
  /\ count' = psc_subnotify(TRANS)
  /\ ack_rem' = sub_num
  /\ pub_notifyfd' = c
  /\ pc' = [pc EXCEPT ![c] = "pub"]
  /\ owed' = [d \in Coro |-> IF d \in Range(sublist) THEN m ELSE None]
  /\ UNCHANGED <<sub_num, sublist, timed, ret, ended>>

\* dyco_pubsub_publish up to the yield of psc_pubwait; without subscribers it
\* returns 0, and -2 while a message is being published.
Publish(c, m) ==
  /\ Running(c)
  /\ status = EMPTY
  /\ sub_num # 0
  /\ msg' = m
  /\ status' = TRANS
  /\ count' = psc_subnotify(TRANS)
  /\ ack_rem' = sub_num
  /\ pub_notifyfd' = c
  /\ pc' = [pc EXCEPT ![c] = "pub"]
  /\ owed' = [d \in Coro |-> IF d \in Range(sublist) THEN m ELSE None]
  /\ UNCHANGED <<sub_num, sublist, timed, ret, ended>>

\* psc_pubwait from the yield on: pub_notifyfd keeps the number of a closed fd.
PublishEnd(c) ==
  /\ pc[c] = "pub" /\ ended # "exit"
  /\ count[c] > 0
  /\ status' = EMPTY
  /\ pub_notifyfd' = None
  /\ count' = [count EXCEPT ![c] = 0]
  /\ pc' = [pc EXCEPT ![c] = "run"]
  /\ UNCHANGED <<msg, sub_num, ack_rem, sublist, timed, ret, ended, owed>>

\* Mutant of Destroy: the channel is freed at once.
Destroy_NoWait(c) ==
  /\ Running(c)
  /\ status = EMPTY
  /\ ended' = "freed"
  /\ UNCHANGED <<channel, pc, timed, count, ret, owed>>

\* dyco_pubsub_destroy; without subscribers the channel is freed at once.
Destroy(c) ==
  /\ Running(c)
  /\ status = EMPTY
  /\ IF sub_num = 0
     THEN ended' = "freed" /\ UNCHANGED <<status, count, ack_rem, pub_notifyfd, pc>>
     ELSE /\ status' = CLOSE
          /\ count' = psc_subnotify(CLOSE)
          /\ ack_rem' = sub_num
          /\ pub_notifyfd' = c
          /\ pc' = [pc EXCEPT ![c] = "close"]
          /\ UNCHANGED ended
  /\ UNCHANGED <<msg, sub_num, sublist, timed, ret, owed>>

DestroyEnd(c) ==
  /\ pc[c] = "close" /\ ended # "exit"
  /\ count[c] > 0
  /\ ended' = "freed"
  /\ count' = [count EXCEPT ![c] = 0]
  /\ pc' = [pc EXCEPT ![c] = "run"]
  /\ UNCHANGED <<channel, timed, ret, owed>>

Next ==
  \E c \in Coro :
    \/ \E hasTimeout \in BOOLEAN : Subscribe(c, hasTimeout)
    \/ \E m \in Msg : Publish(c, m)
    \/ SubscribePoll(c) \/ SubscribeEnd(c) \/ PublishEnd(c) \/ Destroy(c) \/ DestroyEnd(c)

Spec == Init /\ [][Next]_vars

\* The scheduler resumes a coroutine whose eventfd is readable.
Fairness ==
  \A c \in Coro : WF_vars(count[c] > 0 /\ (SubscribeEnd(c) \/ PublishEnd(c) \/ DestroyEnd(c)))

FairSpec == Spec /\ Fairness

-----------------------------------------------------------------------------
(* Properties.                                                             *)

Notified == {c \in Coro : pc[c] = "sub" /\ count[c] > 0}

\* The variables have their types.
TypeOK ==
  /\ status \in {EMPTY, TRANS, CLOSE}
  /\ msg \in Msg \cup {None} /\ pub_notifyfd \in Coro \cup {None}
  /\ sub_num \in Nat /\ ack_rem \in 0..Cardinality(Coro) /\ sublist \in Seq(Coro)
  /\ pc \in [Coro -> {"run", "sub", "pub", "close"}]
  /\ timed \subseteq Coro /\ count \in [Coro -> Nat]
  /\ ended \in {"no", "freed", "exit"}

\* The list has the nodes of exactly the suspended subscribers, also after
\* timeouts, and sub_num is its length: psc_subnotify writes no closed eventfd.
ListAgrees ==
  /\ sub_num = Len(sublist)
  /\ Range(sublist) = {c \in Coro : pc[c] = "sub"}

\* ack_rem is the number of subscribers that were notified and have not run
\* yet, however late subscribers and timeouts come in between: it does not wrap
\* and the last one of them, and nobody else, finds it at zero.
AcksAgree == ack_rem = Cardinality(Notified)

\* The last acknowledgement finds a publisher or a destroyer that waits on
\* pub_notifyfd; a write to an fd that is closed would end the process.
NotifySucceeds == ended # "exit"

\* The counters and the list of the channel agree with who is suspended in it,
\* so that no acknowledgement goes astray.
CountsAgree == TypeOK /\ ListAgrees /\ AcksAgree /\ NotifySucceeds

\* dyco_pubsub_destroy frees the channel when no coroutine is suspended in it.
FreedUnused == ended = "freed" => \A c \in Coro : pc[c] = "run"

B == INSTANCE Broadcast WITH
       waiting   <- {c \in Coro : pc[c] = "sub"},
       publisher <- IF status = TRANS THEN pub_notifyfd ELSE None,
       latest    <- msg,
       given     <- ret,
       closed    <- (status = CLOSE \/ ended = "freed")

\* The channel implements a broadcast: every coroutine that was subscribed when
\* a message was published, and nobody else, gets that message and not a later
\* one, and publish returns after all of them have copied it.
IsBroadcast == B!Spec

\* publish, destroy, and a notified subscribe return.
NotifiedReturn ==
  \A c \in Coro : (pc[c] \in {"pub", "close"} \/ c \in Notified) ~> (pc[c] = "run")

=============================================================================
