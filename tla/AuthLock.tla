------------------------------ MODULE AuthLock ------------------------------
(***************************************************************************)
(* The advisory lock auth.json.lock that the processes of one user take    *)
(* around refresh-token exchanges and writes of auth.json, one system call *)
(* per step.                                                               *)
(* (crates/codegen/xai-grok-shell/src/auth/manager/lock.rs, storage.rs)    *)
(*                                                                         *)
(* A lock is an flock on an inode plus the fact that the lock's path still *)
(* names that inode.  A waiter that finds the holder dead or older than    *)
(* STALE_LOCK_TIMEOUT_SECS unlinks the path, and the next open creates a   *)
(* new inode, so several inodes may be flocked at a time.                  *)
(*                                                                         *)
(*   path       the inode the path names, or NoIno                         *)
(*   flock      who has each inode flocked: a task, an abandoned thread of *)
(*              phase 2, or nobody                                         *)
(*   info       what is written in each inode (PID:TIMESTAMP)              *)
(*   lk         where each task is in its acquire: step, phase, open inode *)
(*   threads    the spawn_blocking threads whose caller timed out          *)
(*   faults     crashes and I/O errors so far                              *)
(***************************************************************************)
EXTENDS Naturals, FiniteSets

CONSTANTS
  Procs,        \* processes of one user on one machine
  Tasks,        \* tasks that take the lock
  Triers,       \* the tasks among them that also take it without waiting
  ProcOf,       \* the process each task belongs to
  Nobody,       \* nobody has the inode flocked
  Thread,       \* a thread nobody waits for any more has it flocked
  MaxIno,       \* inodes 1..MaxIno
  MaxFaults,    \* bound on crashes and I/O errors
  MaxThreads    \* bound on the abandoned threads that are followed

ASSUME TasksAssumption ==
  /\ Nobody \notin Tasks /\ Thread \notin Tasks /\ Nobody # Thread
  /\ Triers \subseteq Tasks
  /\ ProcOf \in [Tasks -> Procs]
ASSUME BoundsAssumption ==
  MaxIno \in Nat /\ MaxFaults \in Nat /\ MaxThreads \in Nat

VARIABLES path, flock, info, lk, threads, faults

vars == <<path, flock, info, lk, threads, faults>>

Inodes == 1..MaxIno
NoIno == 0

\* Holder info: the process that wrote it ("dead" once it is gone, "empty"
\* before anybody wrote) and whether it is older than the stale timeout.
Infos == [by : Procs \union {"dead", "empty"}, old : BOOLEAN]

Blank == [by |-> "empty", old |-> FALSE]

Steps == {"idle", "open", "flock", "write", "stat", "judge", "unlink", "held"}

(***************************************************************************)
(* The phases of an acquire.  "p1", "p2", "p3", "p4" are phase 1, phase 2, *)
(* and the two rounds of phase 3 of try_lock_auth_file_async; "once" is    *)
(* try_lock_auth_file_nonblocking.                                         *)
(***************************************************************************)
Phases == {"p1", "p2", "p3", "p4", "once"}

Idle == [pc |-> "idle", ph |-> "p1", fd |-> NoIno]
Held(i) == [pc |-> "held", ph |-> "p1", fd |-> i]
Start(ph) == [pc |-> "open", ph |-> ph, fd |-> NoIno]

TypeOK ==
  /\ path \in Inodes \union {NoIno}
  /\ flock \in [Inodes -> Tasks \union {Nobody, Thread}]
  /\ info \in [Inodes -> Infos]
  /\ lk \in [Tasks -> [pc : Steps, ph : Phases, fd : Inodes \union {NoIno}]]
  /\ \A t \in Tasks : lk[t].pc \in {"idle", "open"} <=> lk[t].fd = NoIno
  /\ threads \in SUBSET [task : Tasks, fd : Inodes, got : BOOLEAN]
  /\ faults \in 0..MaxFaults

Init ==
  /\ path = NoIno
  /\ flock = [i \in Inodes |-> Nobody]
  /\ info = [i \in Inodes |-> Blank]
  /\ lk = [t \in Tasks |-> Idle]
  /\ threads = {}
  /\ faults = 0

Goto(t, pc) == lk' = [lk EXCEPT ![t].pc = pc]

\* An inode is freed, and its content with it, once the path does not name
\* it and nobody has it open.
InUse == {path} \union {lk[t].fd : t \in Tasks} \union {h.fd : h \in threads}

SetInfo(f) == info' = [i \in Inodes |-> IF i \in InUse' THEN f[i] ELSE Blank]

(***************************************************************************)
(* Opening and flocking.                                                   *)
(***************************************************************************)
Begin(t) ==
  /\ lk[t].pc = "idle"
  /\ \/ lk' = [lk EXCEPT ![t] = Start("p1")]
     \/ t \in Triers /\ lk' = [lk EXCEPT ![t] = Start("once")]
  /\ UNCHANGED <<path, flock, info, threads, faults>>

\* Faulty: without create, a missing file is not made.
OpenNoCreate(t) ==
  /\ lk[t].pc = "open"
  /\ lk' = [lk EXCEPT ![t].pc = "flock", ![t].fd = path]
  /\ UNCHANGED <<path, flock, info, threads, faults>>

\* open(create = true, truncate = false)
Open(t) ==
  /\ lk[t].pc = "open"
  /\ \/ /\ path # NoIno
        /\ lk' = [lk EXCEPT ![t].pc = "flock", ![t].fd = path]
        /\ UNCHANGED path
     \/ /\ path = NoIno
        /\ \E i \in Inodes \ InUse :
             /\ \A j \in Inodes \ InUse : i <= j
             /\ path' = i
             /\ lk' = [lk EXCEPT ![t].pc = "flock", ![t].fd = i]
  /\ UNCHANGED <<flock, info, threads, faults>>

\* flock(LOCK_EX | LOCK_NB), or flock(LOCK_EX), which waits, in phase 2.
Flock(t) ==
  /\ lk[t].pc = "flock"
  /\ \/ /\ flock[lk[t].fd] = Nobody
        /\ flock' = [flock EXCEPT ![lk[t].fd] = t]
        /\ Goto(t, "write")
     \/ /\ flock[lk[t].fd] # Nobody
        /\ lk[t].ph \in {"p1", "p3", "p4"}
        /\ Goto(t, "judge")
        /\ UNCHANGED flock
     \/ /\ flock[lk[t].fd] # Nobody
        /\ lk[t].ph = "once"
        /\ lk' = [lk EXCEPT ![t] = Idle]
        /\ UNCHANGED flock
  /\ UNCHANGED <<path, threads, faults>>
  /\ SetInfo(info)

(***************************************************************************)
(* What follows a lost or refused attempt.  LockAttempt::StaleUnlinked     *)
(* tries again where the phase allows it, LockAttempt::Busy does not.      *)
(***************************************************************************)
Retry(ph) ==
  CASE ph = "p1" -> Start("p2")
    [] ph = "p2" -> Start("p2")
    [] ph = "p3" -> Start("p4")
    [] OTHER -> Idle

GiveUp(ph) == IF ph = "p1" THEN Start("p2") ELSE Idle

(***************************************************************************)
(* After the flock: write_holder_info, then inodes_match.  A failed write  *)
(* is only logged; it may leave the file empty.  The file is dropped, and  *)
(* with it the flock, when the path no longer names the inode.             *)
(***************************************************************************)
WriteInfo(t) ==
  /\ lk[t].pc = "write"
  /\ \/ /\ info' = [info EXCEPT ![lk[t].fd] = [by |-> ProcOf[t], old |-> FALSE]]
        /\ UNCHANGED faults
     \/ /\ faults < MaxFaults
        /\ faults' = faults + 1
        /\ info' \in {info, [info EXCEPT ![lk[t].fd] = Blank]}
  /\ IF lk[t].ph = "once" THEN lk' = [lk EXCEPT ![t] = Held(lk[t].fd)]
                          ELSE Goto(t, "stat")
  /\ UNCHANGED <<path, flock, threads>>

\* Faulty: the flock is taken for the lock, whatever the path names by now.
NoInodeCheck(t) ==
  /\ lk[t].pc = "stat"
  /\ lk' = [lk EXCEPT ![t] = Held(lk[t].fd)]
  /\ UNCHANGED <<path, flock, info, threads, faults>>

InodesMatch(t) ==
  /\ lk[t].pc = "stat"
  /\ \/ /\ lk[t].fd = path
        /\ lk' = [lk EXCEPT ![t] = Held(lk[t].fd)]
        /\ UNCHANGED flock
     \/ /\ lk[t].fd # path
        /\ flock' = [flock EXCEPT ![lk[t].fd] = Nobody]
        /\ lk' = [lk EXCEPT ![t] = Retry(lk[t].ph)]
  /\ UNCHANGED <<path, threads, faults>>
  /\ SetInfo(info)

(***************************************************************************)
(* Somebody else has the inode flocked: is_holder_stale reads the holder   *)
(* info of the open inode, remove_file then unlinks whatever the path      *)
(* names.                                                                  *)
(***************************************************************************)
\* Faulty: only the death of its holder makes a lock stale.
DeadOnly(i) == info[i].by = "dead"

Stale(i) == info[i].by = "dead" \/ info[i].old

IsHolderStale(t) ==
  /\ lk[t].pc = "judge"
  /\ lk' = [lk EXCEPT ![t] = IF Stale(lk[t].fd) THEN [@ EXCEPT !.pc = "unlink"]
                                                ELSE GiveUp(lk[t].ph)]
  /\ UNCHANGED <<path, flock, threads, faults>>
  /\ SetInfo(info)

RemoveFile(t) ==
  /\ lk[t].pc = "unlink"
  /\ path' = NoIno
  /\ lk' = [lk EXCEPT ![t] = IF path = NoIno THEN GiveUp(lk[t].ph) ELSE Retry(lk[t].ph)]
  /\ UNCHANGED <<flock, threads, faults>>
  /\ SetInfo(info)

(***************************************************************************)
(* The deadline of phase 2.  Dropping the future does not stop the thread: *)
(* it stays in the kernel's wait queue, and when it is given the flock it  *)
(* writes holder info and drops the file it locked for nobody.             *)
(***************************************************************************)
Abandon(t, got) ==
  threads' = IF Cardinality(threads) < MaxThreads
             THEN threads \union {[task |-> t, fd |-> lk[t].fd, got |-> got]}
             ELSE threads

\* Faulty: phase 2 waits in the kernel without a deadline.
NoDeadline(t) == lk[t].ph = "p2" /\ lk[t].pc = "open" /\ FALSE /\ UNCHANGED vars

Deadline(t) ==
  /\ lk[t].ph = "p2"
  /\ \/ /\ lk[t].pc = "open"
        /\ UNCHANGED <<threads, flock>>
     \/ /\ lk[t].pc = "flock"
        /\ Abandon(t, FALSE)
        /\ UNCHANGED flock
     \/ /\ lk[t].pc = "stat"
        /\ Cardinality(threads) < MaxThreads
        /\ Abandon(t, TRUE)
        /\ flock' = [flock EXCEPT ![lk[t].fd] = Thread]
  /\ lk' = [lk EXCEPT ![t] = Start("p3")]
  /\ UNCHANGED <<path, faults>>
  /\ SetInfo(info)

ThreadLocks(h) ==
  /\ ~h.got
  /\ flock[h.fd] = Nobody
  /\ flock' = [flock EXCEPT ![h.fd] = Thread]
  /\ info' = [info EXCEPT ![h.fd] = [by |-> ProcOf[h.task], old |-> FALSE]]
  /\ threads' = (threads \ {h}) \union {[h EXCEPT !.got = TRUE]}
  /\ UNCHANGED <<path, lk, faults>>

ThreadDrops(h) ==
  /\ h.got
  /\ flock' = [flock EXCEPT ![h.fd] = Nobody]
  /\ threads' = threads \ {h}
  /\ UNCHANGED <<path, lk, faults>>
  /\ SetInfo(info)

\* The guard is dropped.
Release(t) ==
  /\ lk[t].pc = "held"
  /\ flock' = [flock EXCEPT ![lk[t].fd] = Nobody]
  /\ lk' = [lk EXCEPT ![t] = Idle]
  /\ UNCHANGED <<path, threads, faults>>
  /\ SetInfo(info)

(***************************************************************************)
(* The environment: time, I/O errors, and the death of a process, which    *)
(* closes its files; its successor has another pid.  Holder info is        *)
(* rewritten at each acquire, so it grows old under a holder only when the *)
(* holder is slow or suspended.                                            *)
(***************************************************************************)
GrowOld(i) ==
  /\ ~info[i].old
  /\ info' = [info EXCEPT ![i].old = TRUE]
  /\ UNCHANGED <<path, flock, lk, threads, faults>>

IoError(t) ==
  /\ faults < MaxFaults
  /\ faults' = faults + 1
  /\ lk[t].pc \in {"open", "flock", "unlink"}
  /\ lk' = [lk EXCEPT ![t] = IF lk[t].pc = "unlink" THEN GiveUp(lk[t].ph)
                             ELSE IF lk[t].ph = "p2" THEN Start("p2") ELSE Idle]
  /\ UNCHANGED <<path, flock, threads>>
  /\ SetInfo(info)

Crash(p) ==
  /\ faults < MaxFaults
  /\ faults' = faults + 1
  /\ LET gone == {h \in threads : ProcOf[h.task] = p}
     IN /\ threads' = threads \ gone
        /\ flock' = [i \in Inodes |->
             IF \/ flock[i] \in Tasks /\ ProcOf[flock[i]] = p
                \/ \E h \in gone : h.fd = i /\ h.got
             THEN Nobody ELSE flock[i]]
  /\ lk' = [t \in Tasks |-> IF ProcOf[t] = p THEN Idle ELSE lk[t]]
  /\ UNCHANGED path
  /\ SetInfo([i \in Inodes |-> IF info[i].by = p THEN [info[i] EXCEPT !.by = "dead"] ELSE info[i]])

-----------------------------------------------------------------------------
Attempt(t) ==
  Open(t) \/ Flock(t) \/ WriteInfo(t) \/ InodesMatch(t) \/ IsHolderStale(t) \/ RemoveFile(t)

Next ==
  \/ \E t \in Tasks :
       \/ Begin(t) \/ Open(t) \/ Flock(t) \/ WriteInfo(t) \/ InodesMatch(t)
       \/ IsHolderStale(t) \/ RemoveFile(t) \/ Deadline(t) \/ Release(t) \/ IoError(t)
  \/ \E h \in threads : ThreadLocks(h) \/ ThreadDrops(h)
  \/ \E i \in Inodes \intersect InUse : GrowOld(i)
  \/ \E p \in Procs : Crash(p)

Spec == Init /\ [][Next]_vars
=============================================================================
