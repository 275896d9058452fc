------------------------ MODULE MCSchedulerOverflow ------------------------
(* Instance of SchedulerOverflow for TLC.                                  *)
EXTENDS SchedulerOverflow

Persistent == {-1}       \* waits without timeout

=============================================================================
