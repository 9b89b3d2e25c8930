-------------------------- MODULE MCSessionHistory --------------------------
(* Instances of SessionHistory for TLC; see MCSessionTurns.                *)
EXTENDS SessionHistory
=============================================================================
