--------------------------- MODULE MCRetryHandler ---------------------------
(* Finite instances of RetryHandler for TLC.                                   *)
EXTENDS RetryHandler

CONSTANTS e1, e2

TwoEvents == {e1, e2}
=============================================================================
