---------------------------- MODULE MCRetryDrain ----------------------------
(* Values for model checking RetryDrain.                                   *)
EXTENDS RetryDrain
=============================================================================
