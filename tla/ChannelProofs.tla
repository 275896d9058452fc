--------------------------- MODULE ChannelProofs ---------------------------
(***************************************************************************)
(* Theorems about Channel, for any number of coroutines and of messages.   *)
(***************************************************************************)
EXTENDS Channel, SequenceTheorems, TLAPS

\* The inductive invariant behind the theorems on exclusive use.  Each eventfd
\* has at most one coroutine suspended on it, which is registered until the
\* scheduler queues it.  An eventfd is written only for a coroutine that waits
\* for it, and then the status has moved on, so that exactly one of the two
\* holds: the coroutine is notified, or the status asks for it.
Wants(f) == IF f = "send" THEN "WANTWRITE" ELSE "WANTREAD"

OnePerFd ==
  /\ ~exited
  /\ \A c, d \in Coro : pc[c] # "idle" /\ pc[c] = pc[d] => c = d
  /\ \A f \in Fd : waiter[f] # NULL => pc[waiter[f]] = f
  /\ \A c \in Coro : pc[c] # "idle" /\ c \notin woken => waiter[pc[c]] = c

NoticesAgree ==
  ~Closed =>
    /\ \A f \in Fd : (status = Wants(f) \/ count[f] > 0) => \E c \in Coro : pc[c] = f
    /\ \A c \in Coro : pc[c] # "idle" => (status = Wants(pc[c]) \/ count[pc[c]] > 0)
    /\ \A c \in woken \ timed : count[pc[c]] > 0
    /\ count["send"] > 0 => status \in {"EMPTY", "WANTREAD"}
    /\ count["recv"] > 0 => status \in {"FULL", "WANTWRITE"}

ExInv == TypeOK /\ OnePerFd /\ NoticesAgree

\* What the histories hold; the status is one of the six.
HistoryOK ==
  /\ status \in {"EMPTY", "FULL", "WANTREAD", "WANTWRITE", "WANTCLOSE", "CANCLOSE"}
  /\ msg \in Nat /\ sent \in Nat /\ rcvd \in Seq(Nat)

\* Every step stores, takes, or only moves the status, and the status tells
\* which of them it may do.
DataStep ==
  \/ /\ status \in {"EMPTY", "WANTREAD"}
     /\ status' = "FULL" /\ msg' = sent + 1 /\ sent' = sent + 1 /\ rcvd' = rcvd
  \/ /\ status \in {"FULL", "WANTWRITE"}
     /\ status' = "EMPTY" /\ rcvd' = Append(rcvd, msg)
     /\ msg' = msg /\ sent' = sent
  \/ /\ \/ status \in {"FULL", "WANTWRITE"} /\ status' \in {"FULL", "WANTWRITE"}
        \/ status \in {"EMPTY", "WANTREAD"} /\ status' \in {"EMPTY", "WANTREAD"}
        \/ Closed /\ status' = "CANCLOSE"
        \/ status' = "WANTCLOSE"
        \/ status' = status
     /\ msg' = msg /\ sent' = sent /\ rcvd' = rcvd

\* Each action of the channel is such a step.
LEMMA StepIsDataStep == [Next]_vars => DataStep
<1> SUFFICES ASSUME [Next]_vars PROVE DataStep
  OBVIOUS
<1>1. CASE UNCHANGED vars
  BY <1>1 DEF vars, DataStep
<1>2. ASSUME NEW c \in Coro, SendNow(c) PROVE DataStep
  BY <1>2 DEF SendNow, Store, DataStep
<1>3. ASSUME NEW c \in Coro, SendNot(c) PROVE DataStep
  BY <1>3 DEF SendNot, Leave, DataStep
<1>4. ASSUME NEW c \in Coro, SendRefused(c) \/ RecvRefused(c) PROVE DataStep
  BY <1>4 DEF SendRefused, RecvRefused, Leave, DataStep
<1>5. ASSUME NEW c \in Coro, SendEnd(c) PROVE DataStep
  BY <1>5 DEF SendEnd, Store, Leave, Closed, DataStep
<1>6. ASSUME NEW c \in Coro, RecvNow(c) PROVE DataStep
  BY <1>6 DEF RecvNow, Take, DataStep
<1>7. ASSUME NEW c \in Coro, RecvNot(c) PROVE DataStep
  BY <1>7 DEF RecvNot, Leave, DataStep
<1>8. ASSUME NEW c \in Coro, RecvEnd(c) PROVE DataStep
  BY <1>8 DEF RecvEnd, Take, Leave, Closed, DataStep
<1>9. ASSUME NEW c \in Coro, NEW t \in BOOLEAN, SendBlock(c, t) \/ RecvBlock(c, t)
      PROVE  DataStep
  BY <1>9 DEF SendBlock, RecvBlock, hdc_wait, DataStep
<1>10. ASSUME NEW c \in Coro, Expire(c) PROVE DataStep
  BY <1>10 DEF Expire, DataStep
<1>11. ASSUME NEW f \in Fd, Dispatch(f) PROVE DataStep
  BY <1>11 DEF Dispatch, DataStep
<1>12. CASE Destroy
  BY <1>12 DEF Destroy, DataStep
<1>13. QED
  BY <1>1, <1>2, <1>3, <1>4, <1>5, <1>6, <1>7, <1>8, <1>9, <1>10, <1>11, <1>12
     DEF Next

\* The histories keep their types.
LEMMA HistoryAlways == Spec => []HistoryOK
<1>1. Init => HistoryOK
  BY DEF Init, HistoryOK
<1>2. HistoryOK /\ [Next]_vars => HistoryOK'
  <2> SUFFICES ASSUME HistoryOK, DataStep PROVE HistoryOK'
    BY StepIsDataStep
  <2>1. rcvd' = Append(rcvd, msg) => rcvd' \in Seq(Nat)
    BY DEF HistoryOK
  <2>2. QED
    BY <2>1 DEF HistoryOK, DataStep, Closed
<1>3. QED
  BY <1>1, <1>2, PTL DEF Spec

-----------------------------------------------------------------------------
\* dyco_channel.c implements a buffer with one slot, for any number of senders
\* and receivers, with or without timeouts, and however their calls interleave:
\* a message is received once, in order, and is neither overwritten nor lost
\* before the channel is closed.
THEOREM ImplementsBuffer == Spec => IsOneSlotBuffer
<1>1. Init => Buffer!Init
  BY DEF Init, Buffer!Init, Slot, Closed
<1>2. HistoryOK /\ [Next]_vars => [Buffer!Next]_<<Slot, Closed, sent, rcvd>>
  <2> SUFFICES ASSUME HistoryOK, DataStep
               PROVE  Buffer!Next \/ UNCHANGED <<Slot, Closed, sent, rcvd>>
    BY StepIsDataStep
  <2>1. CASE /\ status \in {"EMPTY", "WANTREAD"}
             /\ status' = "FULL" /\ msg' = sent + 1 /\ sent' = sent + 1 /\ rcvd' = rcvd
    <3>1. ~Closed /\ ~Closed' /\ Slot = <<>> /\ Slot' = <<sent + 1>>
      BY <2>1 DEF Closed, Slot
    <3>2. Closed' = Closed
      BY <3>1 DEF Closed
    <3>3. QED
      BY <2>1, <3>1, <3>2 DEF Buffer!Next, Buffer!Put
  <2>2. CASE /\ status \in {"FULL", "WANTWRITE"}
             /\ status' = "EMPTY" /\ rcvd' = Append(rcvd, msg)
             /\ msg' = msg /\ sent' = sent
    <3>1. ~Closed /\ ~Closed' /\ Slot = <<msg>> /\ Slot' = <<>>
      BY <2>2 DEF Closed, Slot
    <3>2. Closed' = Closed
      BY <3>1 DEF Closed
    <3>3. rcvd' = rcvd \o <<msg>>
      BY <2>2, AppendIsConcat DEF HistoryOK
    <3>4. QED
      BY <2>2, <3>1, <3>2, <3>3 DEF Buffer!Next, Buffer!Get
  <2>3. CASE msg' = msg /\ sent' = sent /\ rcvd' = rcvd
    <3>1. CASE \/ status \in {"FULL", "WANTWRITE"} /\ status' \in {"FULL", "WANTWRITE"}
               \/ status \in {"EMPTY", "WANTREAD"} /\ status' \in {"EMPTY", "WANTREAD"}
               \/ Closed /\ status' = "CANCLOSE"
               \/ status' = status
      BY <2>3, <3>1 DEF Closed, Slot
    <3>2. CASE status' = "WANTCLOSE"
      <4>1. Closed' = TRUE /\ Slot' = <<>>
        BY <3>2 DEF Closed, Slot
      <4>2. QED
        BY <2>3, <4>1 DEF Buffer!Next, Buffer!Close
    <3>3. QED
      BY <2>1, <2>2, <3>1, <3>2 DEF DataStep
  <2>4. QED
    BY <2>1, <2>2, <2>3 DEF DataStep
<1>3. QED
  BY <1>1, <1>2, HistoryAlways, PTL DEF Spec, IsOneSlotBuffer, Buffer!Spec

-----------------------------------------------------------------------------
\* Every step of exclusive callers preserves the invariant.
LEMMA ExStep == ASSUME Exclusive, ExInv, [Next]_vars PROVE ExInv'
<1> USE ChannelConstants DEF ExInv, TypeOK, OnePerFd, NoticesAgree, Wants, Fd, Closed
<1>1. CASE UNCHANGED vars
  BY <1>1 DEF vars
<1>2. ASSUME NEW c \in Coro, SendNow(c) PROVE ExInv'
  BY <1>2 DEF SendNow, Calls, Store, Returns, hdc_notify
<1>3. ASSUME NEW c \in Coro, SendNot(c) PROVE ExInv'
  BY <1>3 DEF SendNot, Leave, Returns
<1>4. ASSUME NEW c \in Coro, SendRefused(c) PROVE ExInv'
  BY <1>4 DEF SendRefused, Leave, Returns
<1>5. ASSUME NEW c \in Coro, SendEnd(c) PROVE ExInv'
  <2>1. /\ pc[c] = "send" /\ c \in woken
        /\ pc' = [pc EXCEPT ![c] = "idle"]
        /\ woken' = woken \ {c} /\ timed' = timed \ {c}
    BY <1>5 DEF SendEnd, Resumed
  <2>2. OnePerFd'
    BY <1>5, <2>1 DEF SendEnd, Resumed
  <2>3. /\ status' \in {"FULL", "EMPTY", "CANCLOSE"}
        /\ Closed <=> Closed'
        /\ ~Closed => status' = "FULL"
    BY <1>5 DEF SendEnd, Store, Take, Leave
  <2>4. /\ count' \in [Fd -> Nat]
        /\ count'["send"] = 0
        /\ count'["recv"] = IF status \in {"WANTREAD", "WANTCLOSE"}
                             THEN count["recv"] + 1 ELSE count["recv"]
    BY <1>5 DEF SendEnd, ReadEvent, hdc_notify
  <2>5. /\ msg' \in Nat /\ sent' \in Nat /\ rcvd' \in Seq(Nat)
        /\ ret' \in [Coro -> {1, 0, -1, -2}]
    <3>1. msg' \in Nat /\ sent' \in Nat
      BY <1>5 DEF SendEnd, Store, Take, Leave
    <3>2. rcvd' = rcvd \/ rcvd' = Append(rcvd, msg)
      BY <1>5 DEF SendEnd, Store, Take, Leave
    <3>3. \E r \in {1, 0, -1, -2} : ret' = [ret EXCEPT ![c] = r]
      BY <1>5 DEF SendEnd, Store, Take, Leave, Returns
    <3>4. rcvd' \in Seq(Nat)
      <4>1. rcvd \in Seq(Nat) /\ msg \in Nat
        OBVIOUS
      <4>2. QED
        BY ONLY <3>2, <4>1, AppendProperties, SMTT(60)
    <3>5. ret' \in [Coro -> {1, 0, -1, -2}]
      BY <3>3
    <3>6. QED
      BY <3>1, <3>4, <3>5
  <2>6. TypeOK'
    <3>1. waiter' \in [Fd -> Coro \cup {NULL}] /\ exited' \in BOOLEAN
      BY <1>5 DEF SendEnd, Resumed
    <3>2. pc' \in [Coro -> Fd \cup {"idle"}]
      BY <2>1
    <3>3. woken' \cup timed' \subseteq {d \in Coro : pc'[d] # "idle"}
      BY <2>1
    <3>4. QED
      BY <2>3, <2>4, <2>5, <3>1, <3>2, <3>3, SMTT(60)
  <2>7. NoticesAgree'
    <3> SUFFICES ASSUME ~Closed PROVE NoticesAgree'
      BY <2>3
    <3>1. status # "FULL"
      BY <2>1
    <3>2. \A d \in Coro : pc'[d] # "idle" => d # c /\ pc[d] = "recv" /\ pc'[d] = "recv"
      BY <2>1
    <3>3. count["recv"] > 0 => status = "WANTWRITE"
      BY <3>1
    <3>4. \A d \in Coro : pc[d] = "recv" => count'["recv"] > 0
      BY <2>4
    <3>5. count'["recv"] > 0 => \E d \in Coro : pc'[d] = "recv"
      BY <2>1, <2>4
    <3>6. QED
      BY <2>1, <2>3, <2>4, <3>2, <3>4, <3>5, SMTT(60)
  <2>8. QED
    BY <2>2, <2>6, <2>7
<1>6. ASSUME NEW c \in Coro, RecvNow(c) PROVE ExInv'
  BY <1>6 DEF RecvNow, Calls, Take, Returns, hdc_notify
<1>7. ASSUME NEW c \in Coro, RecvNot(c) PROVE ExInv'
  BY <1>7 DEF RecvNot, Leave, Returns
<1>8. ASSUME NEW c \in Coro, RecvRefused(c) PROVE ExInv'
  BY <1>8 DEF RecvRefused, Leave, Returns
<1>9. ASSUME NEW c \in Coro, RecvEnd(c) PROVE ExInv'
  <2>1. /\ pc[c] = "recv" /\ c \in woken
        /\ pc' = [pc EXCEPT ![c] = "idle"]
        /\ woken' = woken \ {c} /\ timed' = timed \ {c}
    BY <1>9 DEF RecvEnd, Resumed
  <2>2. OnePerFd'
    BY <1>9, <2>1 DEF RecvEnd, Resumed
  <2>3. /\ status' \in {"FULL", "EMPTY", "CANCLOSE"}
        /\ Closed <=> Closed'
        /\ ~Closed => status' = "EMPTY"
    BY <1>9 DEF RecvEnd, Store, Take, Leave
  <2>4. /\ count' \in [Fd -> Nat]
        /\ count'["recv"] = 0
        /\ count'["send"] = IF status \in {"WANTWRITE", "WANTCLOSE"}
                             THEN count["send"] + 1 ELSE count["send"]
    BY <1>9 DEF RecvEnd, ReadEvent, hdc_notify
  <2>5. /\ msg' \in Nat /\ sent' \in Nat /\ rcvd' \in Seq(Nat)
        /\ ret' \in [Coro -> {1, 0, -1, -2}]
    <3>1. msg' \in Nat /\ sent' \in Nat
      BY <1>9 DEF RecvEnd, Store, Take, Leave
    <3>2. rcvd' = rcvd \/ rcvd' = Append(rcvd, msg)
      BY <1>9 DEF RecvEnd, Store, Take, Leave
    <3>3. \E r \in {1, 0, -1, -2} : ret' = [ret EXCEPT ![c] = r]
      BY <1>9 DEF RecvEnd, Store, Take, Leave, Returns
    <3>4. rcvd' \in Seq(Nat)
      <4>1. rcvd \in Seq(Nat) /\ msg \in Nat
        OBVIOUS
      <4>2. QED
        BY ONLY <3>2, <4>1, AppendProperties
    <3>5. ret' \in [Coro -> {1, 0, -1, -2}]
      BY <3>3
    <3>6. QED
      BY <3>1, <3>4, <3>5
  <2>6. TypeOK'
    <3>1. waiter' \in [Fd -> Coro \cup {NULL}] /\ exited' \in BOOLEAN
      BY <1>9 DEF RecvEnd, Resumed
    <3>2. pc' \in [Coro -> Fd \cup {"idle"}]
      BY <2>1
    <3>3. woken' \cup timed' \subseteq {d \in Coro : pc'[d] # "idle"}
      BY <2>1
    <3>4. QED
      BY <2>3, <2>4, <2>5, <3>1, <3>2, <3>3
  <2>7. NoticesAgree'
    <3> SUFFICES ASSUME ~Closed PROVE NoticesAgree'
      BY <2>3
    <3>1. status # "EMPTY"
      BY <2>1
    <3>2. \A d \in Coro : pc'[d] # "idle" => d # c /\ pc[d] = "send" /\ pc'[d] = "send"
      BY <2>1
    <3>3. count["send"] > 0 => status = "WANTREAD"
      BY <3>1
    <3>4. \A d \in Coro : pc[d] = "send" => count'["send"] > 0
      BY <2>4
    <3>5. count'["send"] > 0 => \E d \in Coro : pc'[d] = "send"
      BY <2>1, <2>4
    <3>6. QED
      BY <2>1, <2>3, <2>4, <3>2, <3>4, <3>5, SMTT(60)
  <2>8. QED
    BY <2>2, <2>6, <2>7
<1>10. ASSUME NEW c \in Coro, Expire(c) PROVE ExInv'
  BY <1>10 DEF Expire
<1>11. ASSUME NEW c \in Coro, NEW t \in BOOLEAN, SendBlock(c, t) PROVE ExInv'
  BY <1>11 DEF SendBlock, Calls, hdc_wait
<1>12. ASSUME NEW c \in Coro, NEW t \in BOOLEAN, RecvBlock(c, t) PROVE ExInv'
  BY <1>12 DEF RecvBlock, Calls, hdc_wait
<1>13. ASSUME NEW f \in Fd, Dispatch(f) PROVE ExInv'
  BY <1>13 DEF Dispatch
<1>14. CASE Destroy
  BY <1>14 DEF Destroy
<1> HIDE DEF ExInv, TypeOK, OnePerFd, NoticesAgree, Wants, Fd, Closed
<1>15. QED
  BY <1>1, <1>2, <1>3, <1>4, <1>5, <1>6, <1>7, <1>8, <1>9, <1>10, <1>11, <1>12,
     <1>13, <1>14 DEF Next

\* The invariant holds for ever.
LEMMA ExAlways == ASSUME Exclusive PROVE Spec => []ExInv
<1>1. ASSUME Init PROVE ExInv
  <2>1. exited \in BOOLEAN /\ ~exited
    BY <1>1, Zenon DEF Init
  <2>2. rcvd \in Seq(Nat)
    BY <1>1 DEF Init
  <2>3. TypeOK
    BY <1>1, <2>1, <2>2 DEF Init, TypeOK, Fd
  <2>4. OnePerFd
    BY <1>1, <2>1 DEF Init, OnePerFd
  <2>5. NoticesAgree
    BY <1>1 DEF Init, NoticesAgree, Wants, Fd
  <2>6. QED
    BY <2>3, <2>4, <2>5 DEF ExInv
<1>2. ExInv /\ [Next]_vars => ExInv'
  BY ExStep
<1>3. QED
  BY <1>1, <1>2, PTL DEF Spec

\* With at most one coroutine suspended in send and one in recv, hdc_wait never
\* registers an eventfd twice: the process never ends in schedule_sched_wait.
THEOREM AddNeverFailsAlways == ASSUME Exclusive PROVE Spec => []AddNeverFails
<1>1. ExInv => AddNeverFails
  BY DEF ExInv, OnePerFd, AddNeverFails
<1>2. Spec => []ExInv
  BY ExAlways
<1>3. QED
  BY <1>1, <1>2, PTL

\* And no wakeup is lost between the status, the two eventfds and the queue of
\* the scheduler.
THEOREM NoLostWakeupAlways == ASSUME Exclusive PROVE Spec => []NoLostWakeup
<1>1. ExInv => NoLostWakeup
  BY DEF ExInv, TypeOK, OnePerFd, NoticesAgree, Wants, Fd, NoLostWakeup
<1>2. Spec => []ExInv
  BY ExAlways
<1>3. QED
  BY <1>1, <1>2, PTL

\* And a send or recv without timeout that had to wait ends with its message
\* stored or taken, unless the channel is closed: hdc_wait leaves no
\* notification behind for a later call.
THEOREM PersistentSucceedsAlways ==
  ASSUME Exclusive PROVE Spec => PersistentSucceeds
<1> DEFINE Good == \A c \in Coro :
      (pc[c] # "idle" /\ pc'[c] = "idle" /\ c \notin timed /\ ~Closed) => ret'[c] = 1
<1>1. ASSUME ExInv, [Next]_vars PROVE Good
  <2> SUFFICES ASSUME NEW c \in Coro, pc[c] # "idle", pc'[c] = "idle",
                      c \notin timed, ~Closed
               PROVE  ret'[c] = 1
    BY SMTT(60)
  <2>1. SendEnd(c) \/ RecvEnd(c)
    <3>1. ~UNCHANGED pc
      OBVIOUS
    <3>2. \A d \in Coro, t \in BOOLEAN : ~SendBlock(d, t) /\ ~RecvBlock(d, t)
      BY <1>1 DEF SendBlock, RecvBlock, hdc_wait, Calls, Fd, ExInv, TypeOK
    <3>3. \A d \in Coro : (SendEnd(d) \/ RecvEnd(d)) => d = c
      BY <1>1 DEF SendEnd, RecvEnd, Resumed, ExInv, TypeOK
    <3>4. QED
      BY <1>1, <3>1, <3>2, <3>3
         DEF Next, vars, SendNow, SendNot, SendRefused, RecvNow, RecvNot,
             RecvRefused, Expire, Dispatch, Destroy
  <2>2. CASE SendEnd(c)
    <3>1. pc[c] = "send" /\ c \in woken
      BY <2>2 DEF SendEnd, Resumed
    <3>2. status \in {"EMPTY", "WANTREAD"}
      BY <1>1, <3>1 DEF ExInv, NoticesAgree
    <3>3. QED
      BY <1>1, <2>2, <3>2 DEF SendEnd, Store, Returns, Closed, ExInv, TypeOK
  <2>3. CASE RecvEnd(c)
    <3>1. pc[c] = "recv" /\ c \in woken
      BY <2>3 DEF RecvEnd, Resumed
    <3>2. status \in {"FULL", "WANTWRITE"}
      BY <1>1, <3>1 DEF ExInv, NoticesAgree
    <3>3. QED
      BY <1>1, <2>3, <3>2 DEF RecvEnd, Take, Returns, Closed, ExInv, TypeOK
  <2>4. QED
    BY <2>1, <2>2, <2>3
<1>2. ExInv /\ [Next]_vars => [Good]_vars
  BY <1>1
<1>3. Spec => []ExInv
  BY ExAlways
<1>4. QED
  BY <1>2, <1>3, PTL DEF Spec, PersistentSucceeds

=============================================================================
