------------------------------ MODULE Channel ------------------------------
(***************************************************************************)
(* dyco_channel.c: a half duplex channel that holds one message.  A sender *)
(* that finds it full, and a receiver that finds it empty, wait for one    *)
(* eventfd each (w_notifyfd, r_notifyfd), shared by all senders and by all *)
(* receivers.  What a resumed coroutine does depends on the status it      *)
(* finds then, not on what hdc_wait returns.                               *)
(*                                                                         *)
(* A call is one step up to its yield and one step from there on.  In      *)
(* between the scheduler takes a step of its own: it sees the eventfd      *)
(* readable, or the timer expired, and queues the coroutine (Scheduler).   *)
(***************************************************************************)
EXTENDS Integers, Sequences

CONSTANTS
  Coro,       \* coroutines
  NULL,
  Exclusive,  \* do callers start a send (recv) only when no other coroutine is
              \* suspended in one?
  MaxSent     \* bound on the number of messages

ASSUME ChannelConstants ==
  NULL \notin Coro /\ Exclusive \in BOOLEAN /\ MaxSent \in Nat

VARIABLES
  status,  \* channel->status, without its prefix HDC_STATUS_
  msg,     \* channel->msg: the number of the message
  count,   \* counters of the two eventfds
  waiter,  \* the coroutine registered in epoll for each eventfd, or NULL
  pc,      \* the call each coroutine is suspended in
  timed,   \* suspended coroutines with a timer
  woken,   \* suspended coroutines the scheduler has queued
  ret,     \* what the last call of each coroutine returned (a size is 1)
  exited,  \* DYCO_MUST has ended the process
  sent,    \* history: number of messages stored
  rcvd     \* history: the messages handed to receivers

vars == <<status, msg, count, waiter, pc, timed, woken, ret, exited, sent, rcvd>>

\* The eventfd a call waits for: w_notifyfd for send, r_notifyfd for recv.
Fd == {"send", "recv"}

Closed == status \in {"WANTCLOSE", "CANCLOSE"}

-----------------------------------------------------------------------------
\* dyco_channel_create
Init ==
  /\ status = "EMPTY" /\ msg = 0
  /\ count = [f \in Fd |-> 0] /\ waiter = [f \in Fd |-> NULL]
  /\ pc = [c \in Coro |-> "idle"] /\ timed = {} /\ woken = {}
  /\ ret = [c \in Coro |-> 0]
  /\ exited = FALSE /\ sent = 0 /\ rcvd = <<>>

\* c may call f.
Calls(c, f) ==
  /\ pc[c] = "idle" /\ ~exited
  /\ Exclusive => \A d \in Coro : pc[d] # f

Returns(c, r) == ret' = [ret EXCEPT ![c] = r]

\* The counters after hdc_notify on f.  It writes the status, which is not 0.
hdc_notify(cnt, f) == [cnt EXCEPT ![f] = @ + 1]

\* Mutant of ReadEvent: the eventfd is not read.
ReadEvent_Not(f) == count

\* The counters after eventfd_read on f.
ReadEvent(f) == [count EXCEPT ![f] = 0]

\* The message of c is copied into the channel.
Store(c) ==
  /\ status' = "FULL" /\ msg' = sent + 1 /\ sent' = sent + 1
  /\ Returns(c, 1)
  /\ UNCHANGED rcvd

\* The message is copied out of the channel.
Take(c) ==
  /\ status' = "EMPTY" /\ rcvd' = Append(rcvd, msg)
  /\ Returns(c, 1)
  /\ UNCHANGED <<msg, sent>>

\* c leaves the channel with status s and returns r.
Leave(c, s, r) ==
  /\ status' = s
  /\ Returns(c, r)
  /\ UNCHANGED <<msg, sent, rcvd>>

\* hdc_wait up to its yield.  Adding an fd that is registered ends the process.
hdc_wait(c, f, hasTimer) ==
  /\ exited' = (waiter[f] # NULL)
  /\ IF waiter[f] = NULL
     THEN /\ waiter' = [waiter EXCEPT ![f] = c]
          /\ pc' = [pc EXCEPT ![c] = f]
          /\ timed' = IF hasTimer THEN timed \cup {c} ELSE timed
     ELSE UNCHANGED <<waiter, pc, timed>>
  /\ UNCHANGED <<msg, count, woken, ret, sent, rcvd>>

\* hdc_wait from its yield on: the timer and the registration, if the scheduler
\* has not done so already, are withdrawn.
Resumed(c, f) ==
  /\ pc[c] = f /\ c \in woken /\ ~exited
  /\ pc' = [pc EXCEPT ![c] = "idle"]
  /\ woken' = woken \ {c} /\ timed' = timed \ {c}
  /\ waiter' = [waiter EXCEPT ![f] = IF @ = c THEN NULL ELSE @]
  /\ UNCHANGED exited

-----------------------------------------------------------------------------
\* dyco_channel_send into an empty channel
SendNow(c) ==
  /\ Calls(c, "send") /\ sent < MaxSent
  /\ status \in {"EMPTY", "WANTREAD"}
  /\ Store(c)
  /\ count' = IF status = "WANTREAD" THEN hdc_notify(count, "recv") ELSE count
  /\ UNCHANGED <<waiter, pc, timed, woken, exited>>

\* dyco_channel_send into a full channel, up to the yield
SendBlock(c, hasTimer) ==
  /\ Calls(c, "send") /\ sent < MaxSent
  /\ status = "FULL"
  /\ status' = "WANTWRITE"
  /\ hdc_wait(c, "send", hasTimer)

\* dyco_channel_send into a full channel when hdc_wait does not wait: with
\* timeout 0, or outside a coroutine
SendNot(c) ==
  /\ Calls(c, "send")
  /\ status = "FULL"
  /\ Leave(c, "FULL", 0)
  /\ UNCHANGED <<count, waiter, pc, timed, woken, exited>>

\* dyco_channel_send that is refused: for its arguments, because another sender
\* waits, or because the channel is closed
SendRefused(c) ==
  /\ Calls(c, "send")
  /\ \E r \in {-1, -2} : (r = -1 => status = "WANTCLOSE") /\ Leave(c, status, r)
  /\ UNCHANGED <<count, waiter, pc, timed, woken, exited>>

\* Mutant of SendEnd: the message is stored after a timeout.
SendEnd_TimeoutStores(c) ==
  /\ Resumed(c, "send")
  /\ Store(c)
  /\ count' = IF status = "WANTREAD" THEN hdc_notify(ReadEvent("send"), "recv")
                                     ELSE ReadEvent("send")

\* dyco_channel_send from its yield on
SendEnd(c) ==
  /\ Resumed(c, "send")
  /\ \/ status \in {"EMPTY", "WANTREAD"} /\ Store(c)
     \/ status = "FULL" /\ Leave(c, "FULL", -2)
     \/ status = "WANTWRITE" /\ Leave(c, "FULL", 0)
     \/ Closed /\ Leave(c, "CANCLOSE", -1)
  /\ count' = IF status \in {"WANTREAD", "WANTCLOSE"}
              THEN hdc_notify(ReadEvent("send"), "recv") ELSE ReadEvent("send")

-----------------------------------------------------------------------------
\* dyco_channel_recv from a full channel
RecvNow(c) ==
  /\ Calls(c, "recv")
  /\ status \in {"FULL", "WANTWRITE"}
  /\ Take(c)
  /\ count' = IF status = "WANTWRITE" THEN hdc_notify(count, "send") ELSE count
  /\ UNCHANGED <<waiter, pc, timed, woken, exited>>

\* dyco_channel_recv from an empty channel, up to the yield
RecvBlock(c, hasTimer) ==
  /\ Calls(c, "recv")
  /\ status = "EMPTY"
  /\ status' = "WANTREAD"
  /\ hdc_wait(c, "recv", hasTimer)

\* dyco_channel_recv from an empty channel when hdc_wait does not wait
RecvNot(c) ==
  /\ Calls(c, "recv")
  /\ status = "EMPTY"
  /\ Leave(c, "EMPTY", 0)
  /\ UNCHANGED <<count, waiter, pc, timed, woken, exited>>

\* dyco_channel_recv that is refused
RecvRefused(c) ==
  /\ Calls(c, "recv")
  /\ \E r \in {-1, -2} : (r = -1 => status = "WANTCLOSE") /\ Leave(c, status, r)
  /\ UNCHANGED <<count, waiter, pc, timed, woken, exited>>

\* Mutant of RecvEnd: a sender that began to wait meanwhile is not notified.
RecvEnd_Silent(c) ==
  /\ Resumed(c, "recv")
  /\ \/ status \in {"FULL", "WANTWRITE"} /\ Take(c)
     \/ status = "EMPTY" /\ Leave(c, "EMPTY", -2)
     \/ status = "WANTREAD" /\ Leave(c, "EMPTY", 0)
     \/ Closed /\ Leave(c, "CANCLOSE", -1)
  /\ count' = ReadEvent("recv")

\* dyco_channel_recv from its yield on
RecvEnd(c) ==
  /\ Resumed(c, "recv")
  /\ \/ status \in {"FULL", "WANTWRITE"} /\ Take(c)
     \/ status = "EMPTY" /\ Leave(c, "EMPTY", -2)
     \/ status = "WANTREAD" /\ Leave(c, "EMPTY", 0)
     \/ Closed /\ Leave(c, "CANCLOSE", -1)
  /\ count' = IF status \in {"WANTWRITE", "WANTCLOSE"}
              THEN hdc_notify(ReadEvent("recv"), "send") ELSE ReadEvent("recv")

-----------------------------------------------------------------------------
\* dyco_channel_destroy: its test assigns WANTCLOSE to the status, so it always
\* returns there.  Nobody is notified and nothing is freed.
Destroy ==
  /\ ~exited
  /\ status' = "WANTCLOSE"
  /\ UNCHANGED <<msg, count, waiter, pc, timed, woken, ret, exited, sent, rcvd>>

\* The scheduler finds the eventfd of f readable, queues the coroutine
\* registered for it and withdraws the registration.
Dispatch(f) ==
  /\ ~exited
  /\ count[f] > 0 /\ waiter[f] # NULL /\ waiter[f] \notin woken
  /\ woken' = woken \cup {waiter[f]}
  /\ waiter' = [waiter EXCEPT ![f] = NULL]
  /\ UNCHANGED <<status, msg, count, pc, timed, ret, exited, sent, rcvd>>

\* The timer of c expires and the scheduler queues c.
Expire(c) ==
  /\ ~exited
  /\ c \in timed \ woken
  /\ woken' = woken \cup {c}
  /\ UNCHANGED <<status, msg, count, waiter, pc, timed, ret, exited, sent, rcvd>>

Next ==
  \/ \E c \in Coro :
       \/ SendNow(c) \/ SendNot(c) \/ SendRefused(c) \/ SendEnd(c)
       \/ RecvNow(c) \/ RecvNot(c) \/ RecvRefused(c) \/ RecvEnd(c)
       \/ Expire(c)
       \/ \E hasTimer \in BOOLEAN : SendBlock(c, hasTimer) \/ RecvBlock(c, hasTimer)
  \/ \E f \in Fd : Dispatch(f)
  \/ Destroy

Spec == Init /\ [][Next]_vars

\* The scheduler dispatches events and expires timers, and resumes what it has
\* queued (Scheduler: EventWakes, TimeoutReturns, ReadyRuns).
Fairness ==
  /\ \A f \in Fd : WF_vars(Dispatch(f))
  /\ \A c \in Coro : WF_vars(Expire(c)) /\ WF_vars(SendEnd(c)) /\ WF_vars(RecvEnd(c))

FairSpec == Spec /\ Fairness

-----------------------------------------------------------------------------
\* Every variable has its type.  Only a suspended coroutine is queued by the
\* scheduler or has a timer: hdc_wait withdraws its timer before it returns.
TypeOK ==
  /\ status \in {"EMPTY", "FULL", "WANTREAD", "WANTWRITE", "WANTCLOSE", "CANCLOSE"}
  /\ msg \in Nat /\ sent \in Nat /\ rcvd \in Seq(Nat)
  /\ count \in [Fd -> Nat]
  /\ waiter \in [Fd -> Coro \cup {NULL}]
  /\ pc \in [Coro -> Fd \cup {"idle"}]
  /\ woken \cup timed \subseteq {c \in Coro : pc[c] # "idle"}
  /\ ret \in [Coro -> {1, 0, -1, -2}]
  /\ exited \in BOOLEAN

\* hdc_wait never adds an eventfd that is still registered, so the DYCO_MUST of
\* schedule_sched_wait never ends the process.
AddNeverFails == ~exited

\* No lost wakeup: as long as the channel is open, a suspended coroutine that
\* the scheduler has not queued and whose eventfd holds nothing is registered,
\* and the status tells the other side to notify it.
NoLostWakeup ==
  \A c \in Coro :
    (pc[c] # "idle" /\ c \notin woken /\ count[pc[c]] = 0 /\ ~Closed) =>
      /\ waiter[pc[c]] = c
      /\ status = IF pc[c] = "send" THEN "WANTWRITE" ELSE "WANTREAD"

\* A send or recv without timeout that had to wait succeeds, unless the channel
\* was closed: no notification meant for an earlier call wakes it.
PersistentSucceeds ==
  [][\A c \in Coro :
       (pc[c] # "idle" /\ pc'[c] = "idle" /\ c \notin timed /\ ~Closed)
         => ret'[c] = 1]_vars

\* A send returns once its predecessor's message was received, a recv once a
\* message was sent, and both once their time is up.
WaitersServed ==
  \A c \in Coro, f \in Fd :
    (/\ pc[c] = f /\ ~Closed
     /\ c \in timed \/ status # IF f = "send" THEN "WANTWRITE" ELSE "WANTREAD")
      ~> (pc[c] = "idle" \/ Closed)

\* The slot of the abstract buffer
Slot == IF status \in {"FULL", "WANTWRITE"} THEN <<msg>> ELSE <<>>

Buffer == INSTANCE OneSlotBuffer WITH slot <- Slot, closed <- Closed

\* However many coroutines use the channel at once: messages are received once,
\* in the order they were sent, and none is overwritten or lost before the
\* channel is closed.
IsOneSlotBuffer == Buffer!Spec

\* What the documentation of send and recv says, and the notifications of
\* dyco_channel_destroy are for: a suspended call returns when the channel is
\* closed.
ClosedReturns == \A c \in Coro : (pc[c] # "idle" /\ Closed) ~> pc[c] = "idle"

=============================================================================
