----------------------------- MODULE MCAuthLock -----------------------------
(***************************************************************************)
(* Two processes with one task each that takes auth.json.lock.             *)
(***************************************************************************)
EXTENDS AuthLockLease

CONSTANTS proc1, proc2, task1, task2

MCProcOf == [t \in Tasks |-> IF t = task1 THEN proc1 ELSE proc2]
=============================================================================
