--------------------------- MODULE AuthLockLease ---------------------------
(***************************************************************************)
(* AuthLock implements FileLease, and the other promises of the lock file. *)
(***************************************************************************)
EXTENDS AuthLock

Holders == {t \in Tasks : lk[t].pc = "held"}

\* AuthFileLock::still_live of some guard
LiveHolders == {t \in Holders : lk[t].fd = path}
Live == IF LiveHolders = {} THEN Nobody ELSE CHOOSE t \in LiveHolders : TRUE

Lease == INSTANCE FileLease WITH Clients <- Tasks, live <- Live, holders <- Holders

\* The lock file gives its callers the lease they rely on: whatever the order of
\* opens, flocks, unlinks, timeouts and deaths, at most one guard is still_live,
\* a guard that lost the path never gets it back, and a waiting acquire returns a
\* guard only when no live one exists (inodes_match after the flock).
Implements == Lease!LeaseSpec

(***************************************************************************)
(* Fairness.  Every step of an attempt is a system call that returns, the  *)
(* deadline of phase 2 is a timer that fires, abandoned threads run on,    *)
(* and time passes.  Nothing makes a holder release: it may be suspended   *)
(* for ever.                                                               *)
(***************************************************************************)
Fairness ==
  /\ \A t \in Tasks : WF_vars(Attempt(t)) /\ SF_vars(Deadline(t))
  /\ WF_vars(\E h \in threads : ThreadLocks(h) \/ ThreadDrops(h))
  /\ WF_vars(\E i \in Inodes \intersect InUse : GrowOld(i))

FairSpec == Spec /\ Fairness

\* No acquire waits for ever, even behind a holder that never releases: the
\* deadline of phase 2 and the two rounds of phase 3 end it
\* (try_lock_auth_file_async).
AttemptsEnd == \A t \in Tasks : lk[t].pc # "idle" ~> lk[t].pc \in {"idle", "held"}

\* A holder that never releases does not keep the lock while others ask for it:
\* its holder info grows old, or was never written and the file's mtime does,
\* and is_holder_stale then lets a waiter unlink the file
\* (unidentified_holder_is_stale).
StuckHolderBroken ==
  \A t, s \in Tasks :
    t # s /\ []<>(lk[t].pc = "open" /\ lk[t].ph = "p2") => []<>(s \notin LiveHolders)
=============================================================================
