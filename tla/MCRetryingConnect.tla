------------------------- MODULE MCRetryingConnect -------------------------
(* Small instances of RetryingConnect for TLC.                             *)
EXTENDS RetryingConnect
=============================================================================
