--------------------------- MODULE MCSessionTurns ---------------------------
(***************************************************************************)
(* Instances of SessionTurns for TLC.  Every scenario of the .cfg files    *)
(* switches on the commands, starters and turn features that interact in   *)
(* it; the budgets bound how often each command is received.               *)
(***************************************************************************)
EXTENDS SessionTurns
=============================================================================
