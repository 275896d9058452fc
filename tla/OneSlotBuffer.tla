--------------------------- MODULE OneSlotBuffer ---------------------------
(***************************************************************************)
(* What dyco_channel promises about messages: a buffer that holds at most  *)
(* one.  The messages are numbered in the order they are put.  A message   *)
(* is taken once, in that order, and never replaced by the next one; only  *)
(* closing the channel may drop one.                                       *)
(***************************************************************************)
EXTENDS Naturals, Sequences

VARIABLES
  slot,    \* the message in the buffer: a sequence of length 0 or 1
  closed,
  sent,    \* number of messages put
  rcvd     \* the messages taken

Init == slot = <<>> /\ closed = FALSE /\ sent = 0 /\ rcvd = <<>>

Put ==
  /\ ~closed /\ slot = <<>>
  /\ sent' = sent + 1
  /\ slot' = <<sent + 1>>
  /\ UNCHANGED <<closed, rcvd>>

Get ==
  /\ ~closed /\ slot # <<>>
  /\ rcvd' = rcvd \o slot
  /\ slot' = <<>>
  /\ UNCHANGED <<closed, sent>>

Close ==
  /\ closed' = TRUE
  /\ slot' = <<>>
  /\ UNCHANGED <<sent, rcvd>>

Next == Put \/ Get \/ Close

Spec == Init /\ [][Next]_<<slot, closed, sent, rcvd>>

=============================================================================
