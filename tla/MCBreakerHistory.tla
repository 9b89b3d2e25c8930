--------------------------- MODULE MCBreakerHistory ---------------------------
(* Model values for the threads of BreakerHistory.                         *)
EXTENDS BreakerHistory

CONSTANTS t1, t2

ASSUME t1 # t2
=============================================================================
