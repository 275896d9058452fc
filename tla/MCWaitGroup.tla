---------------------------- MODULE MCWaitGroup ----------------------------
(* Instance of WaitGroup for TLC.                                          *)
EXTENDS WaitGroup

=============================================================================
