----------------------------- MODULE FileLease -----------------------------
(***************************************************************************)
(* What the auth.json.lock file promises to the code that takes it: an     *)
(* abstract lease.  holders are the clients that believe they hold the     *)
(* lock (they own an AuthFileLock guard); live is the one whose guard      *)
(* still refers to the file at the lock's path, AuthFileLock::still_live.  *)
(* At most one guard is live, a guard that is not live never becomes live  *)
(* again, and a new guard becomes live only when no other one is.  A       *)
(* holder may lose the lease at any time (a waiter broke the lock), so     *)
(* this is weaker than mutual exclusion, and it is all that the callers    *)
(* may rely on.  AuthLock implements it.                                   *)
(***************************************************************************)
CONSTANTS
  Clients,   \* whoever takes the lock
  Triers,    \* those that take it with try_lock_auth_file_nonblocking
  Nobody     \* not a client

VARIABLES live, holders

leaseVars == <<live, holders>>

LeaseInit ==
  /\ live = Nobody
  /\ holders = {}

\* try_lock_auth_file_async returns a guard.
Acquire(c) ==
  /\ c \notin holders
  /\ live = Nobody
  /\ live' = c
  /\ holders' = holders \union {c}

\* try_lock_auth_file_nonblocking returns a guard of a file that has already
\* been unlinked: it does not compare inodes.
Join(c) ==
  /\ c \notin holders
  /\ holders' = holders \union {c}
  /\ UNCHANGED live

\* The guards of C are dropped: a release, or the death of a process.
Drop(C) ==
  /\ holders' = holders \ C
  /\ live' = IF live \in C THEN Nobody ELSE live

\* A waiter unlinks the file; the holder is not told.
Break ==
  /\ live # Nobody
  /\ live' = Nobody
  /\ UNCHANGED holders

LeaseNext ==
  \/ \E c \in Clients : Acquire(c)
  \/ \E c \in Triers : Join(c)
  \/ \E C \in SUBSET Clients : Drop(C)
  \/ Break

LeaseSpec == LeaseInit /\ [][LeaseNext]_leaseVars
=============================================================================
