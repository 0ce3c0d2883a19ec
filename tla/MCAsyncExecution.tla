-------------------------- MODULE MCAsyncExecution --------------------------
(* AsyncExecution for TLC: an unlimited wait, a poll, and a wait with a    *)
(* limit.                                                                  *)
EXTENDS AsyncExecution

MCLimits == {-1, 0, 1}
===========================================================================
