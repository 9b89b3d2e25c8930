--------------------------- MODULE MCAuthRefresh ---------------------------
(***************************************************************************)
(* Two processes that share auth.json, each with a task that calls auth(). *)
(***************************************************************************)
EXTENDS AuthRefresh

CONSTANTS proc1, proc2, task1, task2

MCProcOf == [t \in Tasks |-> IF t = task1 THEN proc1 ELSE proc2]
=============================================================================
