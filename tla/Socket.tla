------------------------------- MODULE Socket -------------------------------
(***************************************************************************)
(* dyco_socket.c on a listening socket and on a stream socket with a peer. *)
(* The calls try the system call, wait with waitev, and try again.  The    *)
(* hooked functions and the ones with an address have the same bodies.     *)
(* The event and the timeout of one wait do not both happen, and SIGPIPE   *)
(* is ignored.                                                             *)
(***************************************************************************)
EXTENDS Integers, Sequences, FiniteSetsExt

CONSTANTS
  Coro, None,
  SendBuffer,  \* bytes that the socket takes before the peer reads
  Lengths,     \* the lengths of the messages
  MaxBacklog,  \* bound: connections and bytes from the peer that wait
  OneCaller    \* environment: one coroutine at a time uses a socket

VARIABLES
  conn,     \* "fresh", "connecting", "refused", "established", "reset", or
            \* "eof" when the peer has closed its side and sends no more
  backlog,  \* connections not yet accepted
  out,      \* bytes the peer has not read: their place in the message, and its length
  in,       \* number of bytes not yet received
  reg,      \* who is registered for each socket
  pc,       \* the call each coroutine is suspended in, or "run"
  woken, timed, expired,  \* suspended coroutines: made ready, with timeout, made ready by it
  len, sent,              \* of each dyco_send
  ret,      \* the last call that returned: who, which, the length, the result
  exited    \* the process was ended by DYCO_MUST

waits == <<reg, pc, woken, timed, expired>>
vars  == <<conn, backlog, out, in, waits, len, sent, ret, exited>>

Init ==
  /\ conn = "fresh" /\ backlog = 0 /\ out = <<>> /\ in = 0
  /\ reg = [fd \in {"listen", "stream"} |-> None]
  /\ pc = [c \in Coro |-> "run"]
  /\ woken = {} /\ timed = {} /\ expired = {}
  /\ len = [c \in Coro |-> 0] /\ sent = [c \in Coro |-> 0]
  /\ ret = <<None, "none", 0, 0>>
  /\ exited = FALSE

SocketOf(call) == IF call = "accept" THEN "listen" ELSE "stream"

\* c may start the call.
Calls(c, call) ==
  /\ ~exited /\ pc[c] = "run"
  /\ OneCaller => \A d \in Coro : pc[d] # "run" => SocketOf(pc[d]) # SocketOf(call)

\* poll_f and the scheduler find an event for the call.
Ready(call) ==
  CASE call = "accept"  -> backlog > 0
    [] call = "connect" -> conn # "connecting"
    [] call = "send"    -> Len(out) < SendBuffer \/ conn = "reset"
    [] call = "recv"    -> in > 0 \/ conn \in {"eof", "reset"}
    [] OTHER            -> FALSE

-----------------------------------------------------------------------------
(* The peer.                                                               *)

ConnectAnswer(answer) ==
  /\ ~exited /\ conn = "connecting"
  /\ conn' = answer
  /\ UNCHANGED <<backlog, out, in, waits, len, sent, ret, exited>>

Incoming ==
  /\ ~exited /\ backlog < MaxBacklog
  /\ backlog' = backlog + 1
  /\ UNCHANGED <<conn, out, in, waits, len, sent, ret, exited>>

PeerRead ==
  /\ ~exited /\ out # <<>>
  /\ out' = Tail(out)
  /\ UNCHANGED <<conn, backlog, in, waits, len, sent, ret, exited>>

PeerWrite ==
  /\ ~exited /\ conn = "established" /\ in < MaxBacklog
  /\ in' = in + 1
  /\ UNCHANGED <<conn, backlog, out, waits, len, sent, ret, exited>>

PeerClose ==
  /\ ~exited /\ conn = "established"
  /\ conn' = "eof"
  /\ UNCHANGED <<backlog, out, in, waits, len, sent, ret, exited>>

PeerReset ==
  /\ ~exited /\ conn \in {"established", "eof"}
  /\ conn' = "reset" /\ out' = <<>> /\ in' = 0
  /\ UNCHANGED <<backlog, waits, len, sent, ret, exited>>

-----------------------------------------------------------------------------
(* waitev and the scheduler.                                               *)

\* waitev up to the yield: EPOLL_CTL_ADD fails for a socket that is registered.
Suspend(c, call, hasTimeout) ==
  /\ exited' = (reg[SocketOf(call)] # None)
  /\ reg' = [reg EXCEPT ![SocketOf(call)] = c]
  /\ pc' = [pc EXCEPT ![c] = call]
  /\ timed' = IF hasTimeout THEN timed \cup {c} ELSE timed \ {c}
  /\ woken' = woken \ {c}
  /\ expired' = expired \ {c}

\* waitev from the yield on, and the return of the call.
Return(c, call, asked, value) ==
  /\ ret' = <<c, call, asked, value>>
  /\ reg' = [fd \in DOMAIN reg |-> IF reg[fd] = c THEN None ELSE reg[fd]]
  /\ pc' = [pc EXCEPT ![c] = "run"]
  /\ timed' = timed \ {c} /\ woken' = woken \ {c} /\ expired' = expired \ {c}
  /\ UNCHANGED exited

EventWakes(fd) ==
  /\ ~exited /\ reg[fd] # None
  /\ reg[fd] \notin woken
  /\ Ready(pc[reg[fd]])
  /\ woken' = woken \cup {reg[fd]}
  /\ reg' = [reg EXCEPT ![fd] = None]
  /\ UNCHANGED <<conn, backlog, out, in, pc, timed, expired, len, sent, ret, exited>>

TimerWakes(c) ==
  /\ ~exited /\ c \in timed \ woken
  /\ woken' = woken \cup {c} /\ expired' = expired \cup {c}
  /\ UNCHANGED <<conn, backlog, out, in, reg, pc, timed, len, sent, ret, exited>>

Resumes(c, call) == ~exited /\ pc[c] = call /\ c \in woken

-----------------------------------------------------------------------------
(* dyco_accept.                                                            *)

\* accept_f, and around the loop again when there is nothing to accept.  Another
\* error, or a failure to set up the new socket, is returned.
TryAccept(c) ==
  /\ IF backlog > 0
     THEN \/ backlog' = backlog - 1 /\ Return(c, "accept", 0, 0)
          \/ backlog' \in {backlog, backlog - 1} /\ Return(c, "accept", 0, -1)
     ELSE Suspend(c, "accept", FALSE) /\ UNCHANGED <<backlog, ret>>
  /\ UNCHANGED <<conn, out, in, len, sent>>

dyco_accept(c) == Calls(c, "accept") /\ TryAccept(c)

AcceptEnd(c) == Resumes(c, "accept") /\ TryAccept(c)

-----------------------------------------------------------------------------
(* dyco_connect.                                                           *)

\* A fresh socket polls ready; connect_f says EINPROGRESS and waitev waits.
dyco_connect(c) ==
  /\ Calls(c, "connect")
  /\ conn = "fresh"
  /\ conn' = "connecting"
  /\ Suspend(c, "connect", TRUE)
  /\ UNCHANGED <<backlog, out, in, len, sent, ret>>

\* connect_f again: after the timeout it says EALREADY, which ends the loop.
ConnectEnd(c) ==
  /\ Resumes(c, "connect")
  /\ Return(c, "connect", 0, IF conn \in {"established", "eof"} THEN 0 ELSE -1)
  /\ UNCHANGED <<conn, backlog, out, in, len, sent>>

-----------------------------------------------------------------------------
(* dyco_recv.                                                              *)

\* recv_f with nothing to receive: it tells a reset once, and then the end.
NothingReceived == CASE conn = "reset" -> {-1, 0} [] conn = "eof" -> {0} [] OTHER -> {-1}

\* recv_f, for up to n bytes.
TryRecv(c, n) ==
  /\ in' = in - Min({n, in})
  /\ \E value \in IF in > 0 THEN {Min({n, in})} ELSE NothingReceived : Return(c, "recv", n, value)
  /\ UNCHANGED <<conn, backlog, out, len, sent>>

\* Mutant of dyco_recv: without timeout.
dyco_recv_Forever(c, n) ==
  /\ Calls(c, "recv")
  /\ conn \in {"established", "eof", "reset"}
  /\ IF Ready("recv")
     THEN TryRecv(c, n)
     ELSE Suspend(c, "recv", FALSE) /\ UNCHANGED <<conn, backlog, out, in, len, sent, ret>>

\* waitev does not wait when there is something to read; its result is not used.
dyco_recv(c, n) ==
  /\ Calls(c, "recv")
  /\ conn \in {"established", "eof", "reset"}
  /\ IF Ready("recv")
     THEN TryRecv(c, n)
     ELSE Suspend(c, "recv", TRUE) /\ UNCHANGED <<conn, backlog, out, in, len, sent, ret>>

RecvEnd(c, n) == Resumes(c, "recv") /\ TryRecv(c, n)

-----------------------------------------------------------------------------
(* dyco_send.                                                              *)

\* The locals len and sent of a dyco_send that is suspended.
Kept(c, n, done) == len' = [len EXCEPT ![c] = n] /\ sent' = [sent EXCEPT ![c] = done]

\* ECONNRESET is returned as -1, whatever was sent before; another error, such
\* as EPIPE, ends the loop and the number sent is returned, if there is one.
SendFails(c, n, before) ==
  \E value \in {-1, IF before = 0 THEN -1 ELSE before} : Return(c, "send", n, value)

\* Mutant of TrySend: the message is sent from its start again.
TrySend_FromStart(c, n, before) ==
  LET k == Min({n - before, SendBuffer - Len(out)})
  IN  /\ IF conn = "reset"
         THEN SendFails(c, n, before) /\ Kept(c, 0, 0) /\ UNCHANGED out
         ELSE /\ out' = out \o [i \in 1..k |-> <<i, n>>]
              /\ IF before + k = n
                 THEN Return(c, "send", n, n) /\ Kept(c, 0, 0)
                 ELSE Suspend(c, "send", FALSE) /\ Kept(c, n, before + k) /\ UNCHANGED ret
      /\ UNCHANGED <<conn, backlog, in>>

\* Mutant of TrySend: a partial send is the result.
TrySend_Partial(c, n, before) ==
  LET k == Min({n - before, SendBuffer - Len(out)})
  IN  /\ IF conn = "reset"
         THEN SendFails(c, n, before) /\ Kept(c, 0, 0) /\ UNCHANGED out
         ELSE /\ out' = out \o [i \in 1..k |-> <<before + i, n>>]
              /\ IF k > 0
                 THEN Return(c, "send", n, before + k) /\ Kept(c, 0, 0)
                 ELSE Suspend(c, "send", FALSE) /\ Kept(c, n, before + k) /\ UNCHANGED ret
      /\ UNCHANGED <<conn, backlog, in>>

\* send_f of what is left of a message of n bytes after the first ones: the
\* buffer takes what it has room for, and the loop waits for more room.
TrySend(c, n, before) ==
  LET k == Min({n - before, SendBuffer - Len(out)})
  IN  /\ IF conn = "reset"
         THEN SendFails(c, n, before) /\ Kept(c, 0, 0) /\ UNCHANGED out
         ELSE /\ out' = out \o [i \in 1..k |-> <<before + i, n>>]
              /\ IF before + k = n
                 THEN Return(c, "send", n, n) /\ Kept(c, 0, 0)
                 ELSE Suspend(c, "send", FALSE) /\ Kept(c, n, before + k) /\ UNCHANGED ret
      /\ UNCHANGED <<conn, backlog, in>>

dyco_send(c, n) ==
  /\ Calls(c, "send")
  /\ conn \in {"established", "eof", "reset"}
  /\ TrySend(c, n, 0)

SendEnd(c) == Resumes(c, "send") /\ TrySend(c, len[c], sent[c])

dyco_sendto(c, n)   == dyco_send(c, n)
dyco_recvfrom(c, n) == dyco_recv(c, n)

\* The hooked functions.
accept(c)      == dyco_accept(c)
connect(c)     == dyco_connect(c)
recv(c, n)     == dyco_recv(c, n)
recvfrom(c, n) == dyco_recvfrom(c, n)
send(c, n)     == dyco_send(c, n)
sendto(c, n)   == dyco_sendto(c, n)

Peer ==
  \/ \E answer \in {"established", "refused"} : ConnectAnswer(answer)
  \/ Incoming \/ PeerRead \/ PeerWrite \/ PeerClose \/ PeerReset

Next ==
  \/ Peer
  \/ \E fd \in {"listen", "stream"} : EventWakes(fd)
  \/ \E c \in Coro :
       \/ TimerWakes(c) \/ AcceptEnd(c) \/ ConnectEnd(c) \/ SendEnd(c)
       \/ accept(c) \/ connect(c)
       \/ \E n \in Lengths : send(c, n) \/ sendto(c, n) \/ recv(c, n) \/ recvfrom(c, n) \/ RecvEnd(c, n)

Spec == Init /\ [][Next]_vars

\* The loop polls and resumes, timers expire, and the peer reads.
Fairness ==
  /\ WF_vars(PeerRead)
  /\ \A fd \in {"listen", "stream"} : WF_vars(EventWakes(fd))
  /\ \A c \in Coro :
       /\ WF_vars(TimerWakes(c))
       /\ WF_vars(AcceptEnd(c) \/ ConnectEnd(c) \/ SendEnd(c) \/ \E n \in Lengths : RecvEnd(c, n))

FairSpec == Spec /\ Fairness

-----------------------------------------------------------------------------
(* Properties.                                                             *)

\* The variables have their types, and only suspended coroutines are
\* registered, woken or have a timer.
TypeOK ==
  /\ conn \in {"fresh", "connecting", "refused", "established", "eof", "reset"}
  /\ backlog \in 0..MaxBacklog /\ in \in 0..MaxBacklog
  /\ out \in Seq(Nat \X Lengths) /\ Len(out) <= SendBuffer
  /\ pc \in [Coro -> {"run", "accept", "connect", "send", "recv"}]
  /\ woken \cup timed \cup expired \subseteq {c \in Coro : pc[c] # "run"}
  /\ \A fd \in DOMAIN reg : reg[fd] = None \/ SocketOf(pc[reg[fd]]) = fd
  /\ len \in [Coro -> Nat] /\ sent \in [Coro -> Nat] /\ exited \in BOOLEAN

\* What the peer reads are whole messages in order, however the buffer cut
\* them up: no byte is sent twice or left out, and none of another message
\* comes in between.
WholeMessages ==
  \A i \in 1..Len(out) - 1 :
    out[i + 1] = IF out[i][1] < out[i][2] THEN <<out[i][1] + 1, out[i][2]>> ELSE <<1, out[i + 1][2]>>

\* No coroutine registers a socket that is registered already, not even one
\* that goes around the loop of accept or send again.
NeverExits == ~exited

\* The stream and the registrations stay consistent.
StreamAgrees == TypeOK /\ WholeMessages /\ NeverExits

\* A send returns less than its length only after a reset; a receive fails
\* only after its timeout or a reset, and tells the end of the stream only when
\* everything the peer wrote before it has been received, or after a reset; a
\* connect returns 0 only when it is established.
ResultsJustified ==
  [][ret' # ret =>
       LET c == ret'[1]
           v == ret'[4]
       IN  /\ ret'[2] = "send" => v = ret'[3] \/ conn = "reset"
           /\ ret'[2] = "recv" => v > 0 \/ conn = "reset" \/ (v = 0 /\ conn = "eof" /\ in = 0)
                                  \/ (v = -1 /\ c \in expired)
           /\ ret'[2] = "connect" => v = -1 \/ conn \in {"established", "eof"}]_vars

\* Calls return: receive and connect by their timeouts, a send because the peer
\* reads, an accept when a connection is there.
CallsReturn ==
  \A c \in Coro :
    /\ pc[c] \in {"connect", "send", "recv"} ~> pc[c] = "run"
    /\ (pc[c] = "accept" /\ backlog > 0) ~> (pc[c] = "run" \/ backlog = 0)

=============================================================================
