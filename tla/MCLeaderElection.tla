-------------------------- MODULE MCLeaderElection --------------------------
(***************************************************************************)
(* LeaderElection for TLC: two clients, a leader started by hand and one   *)
(* that a client may spawn.                                                *)
(***************************************************************************)
EXTENDS LeaderElection

CONSTANTS client1, client2
=============================================================================
