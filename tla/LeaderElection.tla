--------------------------- MODULE LeaderElection ---------------------------
(***************************************************************************)
(* One leader process serves all clients of a user.  Clients find it, or   *)
(* start it, through a lock file and a socket file, one system call per    *)
(* step.                                                                   *)
(* (crates/codegen/xai-grok-shell/src/leader/lock.rs, mod.rs, server.rs,   *)
(* client.rs and agent/app.rs)                                             *)
(*                                                                         *)
(* A client that finds no leader takes the lock, spawns one, waits for its *)
(* socket and hands the lock over by releasing it; the leader polls for    *)
(* it.  The lock is an flock on the inode that was opened, and nobody      *)
(* compares that inode with the path afterwards.                           *)
(*                                                                         *)
(*   lockPath   the inode that leader.lock names, or None                  *)
(*   flock      the process that has each inode flocked                    *)
(*   pid        the leader whose pid is written in each inode              *)
(*   sock       the leader that bound what leader.sock names, dead or not  *)
(*   pc, fd     the step of each process and the lock file it has open     *)
(*   srv        the IPC server task of each leader                         *)
(*   to         the leader a client is talking to                          *)
(*   events     crashes and planned stops so far                           *)
(***************************************************************************)
EXTENDS Naturals, FiniteSets

CONSTANTS
  Leaders,     \* processes that run_leader may run in, numbered
  Manual,      \* the ones the user starts; the others are spawned by clients
  Old,         \* leaders of a version below the clients' own
  Clients,     \* calls of connect_or_spawn, by one process or by several
  MaxIno,      \* inodes 1..MaxIno
  None,
  MaxEvents    \* bound on crashes and planned stops

Procs == Leaders \union Clients
Inodes == 1..MaxIno

ASSUME ProcsAssumption ==
  /\ Leaders \subseteq Nat /\ Manual \subseteq Leaders /\ Old \subseteq Manual
  /\ Leaders \intersect Clients = {}
  /\ None \notin Procs \union Inodes
ASSUME BoundsAssumption ==
  MaxIno \in Nat /\ MaxEvents \in Nat

VARIABLES lockPath, flock, pid, sock, pc, fd, srv, to, events

files == <<lockPath, flock, pid, sock>>
vars == <<lockPath, flock, pid, sock, pc, fd, srv, to, events>>

\* The end of a LeaderLock that was not released: Drop unlinks both paths and
\* then closes the file.
Dropping == {"unlink", "unsock", "close"}

LeaderSteps ==
  {"off", "boot", "try", "held", "pid", "clean", "await", "reopen", "poll",
   "lead", "quit", "dead"} \union Dropping

ClientSteps ==
  {"start", "fast", "open", "flock", "recheck", "adopt", "evict", "evicted",
   "spawn", "ready", "release", "connect", "wait", "refused", "done",
   "failed"} \union Dropping

TypeOK ==
  /\ lockPath \in Inodes \union {None}
  /\ flock \in [Inodes -> Procs \union {None}]
  /\ pid \in [Inodes -> Leaders \union {None}]
  /\ sock \in Leaders \union {None}
  /\ pc \in [Procs -> LeaderSteps \union ClientSteps]
  /\ \A l \in Leaders : pc[l] \in LeaderSteps
  /\ \A c \in Clients : pc[c] \in ClientSteps
  /\ fd \in [Procs -> Inodes \union {None}]
  /\ srv \in [Leaders -> {"none", "remove", "bind", "up", "closing", "down"}]
  /\ to \in [Clients -> Leaders \union {None}]
  /\ events \in 0..MaxEvents

Init ==
  /\ lockPath = None
  /\ flock = [i \in Inodes |-> None]
  /\ pid = [i \in Inodes |-> None]
  /\ sock = None
  /\ pc = [p \in Procs |-> CASE p \in Manual -> "boot"
                           [] p \in Leaders \ Manual -> "off"
                           [] p \in Clients -> "start"]
  /\ fd = [p \in Procs |-> None]
  /\ srv = [l \in Leaders |-> "none"]
  /\ to = [c \in Clients |-> None]
  /\ events = 0

Goto(p, step) == pc' = [pc EXCEPT ![p] = step]

\* is_process_alive
Alive(l) == pc[l] \notin {"off", "dead"}

\* LeaderLock::read_pid: by path, whatever file is there now
PidAtPath == IF lockPath = None THEN None ELSE pid[lockPath]

PidAlive == PidAtPath # None /\ Alive(PidAtPath)

\* What a connect() to the socket path finds; listener_is_ready only tests
\* that the path exists.
Connectable == sock # None /\ srv[sock] = "up"

(***************************************************************************)
(* LeaderLock.                                                             *)
(***************************************************************************)
Unused == {i \in Inodes : i # lockPath /\ \A p \in Procs : fd[p] # i}

\* open_lock_file: open(create = true, truncate = false).  Which inode a new
\* file gets does not matter; it is the least unused one.
OpenLockFile(p, step) ==
  /\ \E i \in Inodes :
       /\ \/ lockPath = i /\ UNCHANGED <<lockPath, pid>>
          \/ /\ lockPath = None
             /\ i \in Unused /\ \A j \in Unused : i <= j
             /\ lockPath' = i
             /\ pid' = [pid EXCEPT ![i] = None]
       /\ fd' = [fd EXCEPT ![p] = i]
  /\ Goto(p, step)
  /\ UNCHANGED <<flock, sock, srv, to, events>>

\* try_lock_exclusive on the open file: the lock, or the file is closed
TryLock(p, got, busy) ==
  /\ IF flock[fd[p]] = None
       THEN flock' = [flock EXCEPT ![fd[p]] = p] /\ Goto(p, got) /\ UNCHANGED fd
       ELSE fd' = [fd EXCEPT ![p] = None] /\ Goto(p, busy) /\ UNCHANGED flock
  /\ UNCHANGED <<lockPath, pid, sock, srv, to, events>>

\* The kernel drops the flock and closes the file.
Close(p) ==
  /\ flock' = [i \in Inodes |-> IF flock[i] = p THEN None ELSE flock[i]]
  /\ fd' = [fd EXCEPT ![p] = None]

\* The process is gone; its files stay.
Gone(l) ==
  /\ Close(l)
  /\ srv' = [srv EXCEPT ![l] = "none"]

Die(l) == Gone(l) /\ Goto(l, "dead")

DropLockPath(p) ==
  /\ pc[p] = "unlink"
  /\ lockPath' = None
  /\ Goto(p, "unsock")
  /\ UNCHANGED <<flock, pid, sock, fd, srv, to, events>>

DropSockPath(p) ==
  /\ pc[p] = "unsock"
  /\ sock' = None
  /\ Goto(p, "close")
  /\ UNCHANGED <<lockPath, flock, pid, fd, srv, to, events>>

DropClose(p) ==
  /\ pc[p] = "close"
  /\ \/ p \in Leaders /\ Die(p)
     \/ p \in Clients /\ Close(p) /\ Goto(p, "failed") /\ UNCHANGED srv
  /\ UNCHANGED <<lockPath, pid, sock, to, events>>

(***************************************************************************)
(* run_leader and, in the same process, the task run_leader_server.        *)
(***************************************************************************)
LeaderOpen(l) ==
  /\ pc[l] = "boot"
  /\ OpenLockFile(l, "try")

LeaderTry(l) ==
  /\ pc[l] = "try"
  /\ TryLock(l, "pid", "held")

\* Faulty: a held lock is always taken for the spawner's.
LeaderHeldProceeds(l) ==
  /\ pc[l] = "held"
  /\ Goto(l, "clean")
  /\ UNCHANGED <<files, fd, srv, to, events>>

\* Lock held and socket there: another leader runs.  Lock held and no socket:
\* it is the spawner's, which waits for ours.
LeaderHeld(l) ==
  /\ pc[l] = "held"
  /\ Goto(l, IF sock # None THEN "dead" ELSE "clean")
  /\ UNCHANGED <<files, fd, srv, to, events>>

\* Faulty: the pid is written by the path, not through the locked file.
LeaderWritePidByPath(l) ==
  /\ pc[l] = "pid"
  /\ lockPath # None
  /\ pid' = [pid EXCEPT ![lockPath] = l]
  /\ Goto(l, IF srv[l] = "none" THEN "clean" ELSE "lead")
  /\ UNCHANGED <<lockPath, flock, sock, fd, srv, to, events>>

\* write_pid, after try_acquire or after the handoff
LeaderWritePid(l) ==
  /\ pc[l] = "pid"
  /\ pid' = [pid EXCEPT ![fd[l]] = l]
  /\ Goto(l, IF srv[l] = "none" THEN "clean" ELSE "lead")
  /\ UNCHANGED <<lockPath, flock, sock, fd, srv, to, events>>

\* cleanup_socket, with or without the lock; then the server is spawned
LeaderClean(l) ==
  /\ pc[l] = "clean"
  /\ sock' = None
  /\ srv' = [srv EXCEPT ![l] = "remove"]
  /\ Goto(l, "await")
  /\ UNCHANGED <<lockPath, flock, pid, fd, to, events>>

ServerRemove(l) ==
  /\ srv[l] = "remove"
  /\ sock' = None
  /\ srv' = [srv EXCEPT ![l] = "bind"]
  /\ UNCHANGED <<lockPath, flock, pid, pc, fd, to, events>>

\* bind() fails on a path that exists, and the server task ends.
ServerBind(l) ==
  /\ srv[l] = "bind"
  /\ \/ /\ sock = None
        /\ sock' = l
        /\ srv' = [srv EXCEPT ![l] =
                     IF pc[l] \in {"quit"} \union Dropping THEN "closing" ELSE "up"]
     \/ /\ sock # None
        /\ srv' = [srv EXCEPT ![l] = "down"]
        /\ UNCHANGED sock
  /\ UNCHANGED <<lockPath, flock, pid, pc, fd, to, events>>

\* The leader waits until the socket path exists, whoever bound it.
LeaderAwait(l) ==
  /\ pc[l] = "await" /\ sock # None
  /\ Goto(l, IF fd[l] # None THEN "lead" ELSE "reopen")
  /\ UNCHANGED <<files, fd, srv, to, events>>

\* cancel.cancel(): the server stops accepting
Cancelled(l) == [srv EXCEPT ![l] = IF @ = "up" THEN "closing" ELSE @]

LeaderAwaitTimeout(l) ==
  /\ pc[l] = "await" /\ sock = None
  /\ Goto(l, IF fd[l] # None THEN "unlink" ELSE "quit")
  /\ srv' = Cancelled(l)
  /\ UNCHANGED <<files, fd, to, events>>

LeaderReopen(l) ==
  /\ pc[l] = "reopen"
  /\ OpenLockFile(l, "poll")

\* try_acquire_timeout: a poll that finds the lock free
LeaderPoll(l) ==
  /\ pc[l] = "poll" /\ flock[fd[l]] = None
  /\ TryLock(l, "pid", "quit")

\* try_acquire_timeout: the deadline finds the lock held
LeaderPollTimeout(l) ==
  /\ pc[l] = "poll" /\ flock[fd[l]] # None
  /\ fd' = [fd EXCEPT ![l] = None]
  /\ Goto(l, "quit")
  /\ srv' = Cancelled(l)
  /\ UNCHANGED <<files, to, events>>

\* The server is cancelled: an accepted RelaunchForUpdate, an auto-update, or
\* the last client gone without --no-exit-on-disconnect.
LeaderCancel(l) ==
  /\ srv[l] = "up" /\ events < MaxEvents
  /\ srv' = Cancelled(l)
  /\ events' = events + 1
  /\ UNCHANGED <<files, pc, fd, to>>

\* The select at the end of run_leader: the server task ended, or was told to,
\* and run_leader returns with the lock.
LeaderStop(l) ==
  /\ pc[l] = "lead" /\ srv[l] \in {"closing", "down"}
  /\ Goto(l, "unlink")
  /\ UNCHANGED <<files, fd, srv, to, events>>

\* The last statement of run_leader_server: unlink the path, by name.
ServerEnd(l) ==
  /\ srv[l] = "closing"
  /\ sock' = None
  /\ srv' = [srv EXCEPT ![l] = "down"]
  /\ UNCHANGED <<lockPath, flock, pid, pc, fd, to, events>>

\* run_leader returns without the lock.
LeaderQuit(l) ==
  /\ pc[l] = "quit"
  /\ Die(l)
  /\ UNCHANGED <<lockPath, pid, sock, to, events>>

\* A crash, or SIGTERM from outside (std::process::exit): no Drop
LeaderCrash(l) ==
  /\ Alive(l) /\ events < MaxEvents
  /\ Die(l)
  /\ events' = events + 1
  /\ UNCHANGED <<lockPath, pid, sock, to>>

(***************************************************************************)
(* connect_or_spawn.                                                       *)
(*                                                                         *)
(* connect_to_leader connects and then waits for LeaderReady, which a      *)
(* leader sends when it has the lock.  to[c] = None until the connection   *)
(* is made.                                                                *)
(***************************************************************************)
ClientAttach(c) ==
  /\ pc[c] \in {"fast", "adopt", "connect", "wait", "refused"}
  /\ to[c] = None /\ Connectable
  /\ to' = [to EXCEPT ![c] = sock]
  /\ UNCHANGED <<files, pc, fd, srv, events>>

ConnectOk(c) == to[c] # None /\ pc[to[c]] = "lead" /\ srv[to[c]] = "up"

\* No listener, or no LeaderReady in LEADER_READY_TIMEOUT: a leader that has the
\* lock sends it only after authentication and prefetch, which "lead" includes.
ConnectErr(c) == to[c] = None => ~Connectable

\* should_evict_conn
BelowFloor(l) == l \in Old

Keeps(c) == to' = to
Hangs(c) == to' = [to EXCEPT ![c] = None]

\* The fast path: a socket, and no dead pid in the lock file.
\* Its looks at the two files are one step: with a change in between, the client
\* goes where a look at one of the two moments, or a failed connect, takes it.
ClientLook(c) ==
  /\ pc[c] = "start"
  /\ Goto(c, IF sock # None /\ (PidAtPath # None => PidAlive) THEN "fast" ELSE "open")
  /\ UNCHANGED <<files, fd, srv, to, events>>

ClientFast(c) ==
  /\ pc[c] = "fast"
  /\ \/ ConnectOk(c) /\ ~BelowFloor(to[c]) /\ Goto(c, "done") /\ Keeps(c)
     \/ ConnectOk(c) /\ BelowFloor(to[c]) /\ Goto(c, "open") /\ Hangs(c)
     \/ ConnectErr(c) /\ Goto(c, "open") /\ Hangs(c)
  /\ UNCHANGED <<files, fd, srv, events>>

ClientOpen(c) ==
  /\ pc[c] = "open"
  /\ OpenLockFile(c, "flock")

ClientFlock(c) ==
  /\ pc[c] = "flock"
  /\ TryLock(c, "recheck", "wait")

\* With the lock: is there a leader after all?  One step for the two looks, as
\* above.
ClientRecheck(c) ==
  /\ pc[c] = "recheck"
  /\ Goto(c, IF sock # None /\ PidAlive THEN "adopt" ELSE "spawn")
  /\ UNCHANGED <<files, fd, srv, to, events>>

ClientAdopt(c) ==
  /\ pc[c] = "adopt"
  /\ \/ ConnectOk(c) /\ ~BelowFloor(to[c]) /\ Close(c) /\ Goto(c, "done") /\ Keeps(c)
     \/ ConnectOk(c) /\ BelowFloor(to[c]) /\ Goto(c, "evict") /\ Keeps(c)
          /\ UNCHANGED <<flock, fd>>
     \/ ConnectErr(c) /\ Goto(c, "spawn") /\ Hangs(c) /\ UNCHANGED <<flock, fd>>
  /\ UNCHANGED <<lockPath, pid, sock, srv, events>>

\* request_leader_vacate: RelaunchForUpdate, which the leader may follow
\* (LeaderCancel) or decline, or kill_process_by_pid on the pid in the lock
\* file (SIGTERM).
Vacate(c, step) ==
  \/ Goto(c, step) /\ UNCHANGED <<flock, fd, srv>>
  \/ PidAlive /\ Gone(PidAtPath) /\ pc' = [pc EXCEPT ![PidAtPath] = "dead", ![c] = step]

\* evict_leader, first half: with the lock, the old leader is asked to go.
ClientEvict(c) ==
  /\ pc[c] = "evict"
  /\ Vacate(c, "evicted")
  /\ to' = [to EXCEPT ![c] = PidAtPath]
  /\ UNCHANGED <<lockPath, pid, sock, events>>

\* evict_leader, second half: wait for the pid, kill it when that takes too
\* long, and go on in any case.
ClientEvicted(c) ==
  /\ pc[c] = "evicted"
  /\ LET l == to[c] IN
       \/ Goto(c, "spawn") /\ UNCHANGED <<flock, fd, srv>>
       \/ l # None /\ Alive(l) /\ Gone(l)
            /\ pc' = [pc EXCEPT ![l] = "dead", ![c] = "spawn"]
  /\ Hangs(c)
  /\ UNCHANGED <<lockPath, pid, sock, events>>

Spawnable == {l \in Leaders : pc[l] = "off"}

\* cleanup_socket under the lock, then spawn_leader_subprocess; when that fails
\* the `?` drops the lock
ClientSpawn(c) ==
  /\ pc[c] = "spawn"
  /\ sock' = None
  /\ \/ \E l \in Spawnable :
          /\ \A k \in Spawnable : l <= k
          /\ pc' = [pc EXCEPT ![l] = "boot", ![c] = "ready"]
     \/ Goto(c, "unlink")
  /\ UNCHANGED <<lockPath, flock, pid, fd, srv, to, events>>

\* wait_for_listener_ready; on a timeout the `?` drops the lock
ClientReady(c) ==
  /\ pc[c] = "ready"
  /\ \/ sock # None /\ Goto(c, "release")
     \/ sock = None /\ Goto(c, "unlink")
  /\ UNCHANGED <<files, fd, srv, to, events>>

\* release(): the handoff
ClientRelease(c) ==
  /\ pc[c] = "release"
  /\ Close(c)
  /\ Goto(c, "connect")
  /\ UNCHANGED <<lockPath, pid, sock, srv, to, events>>

ClientConnect(c) ==
  /\ pc[c] = "connect"
  /\ \/ ConnectOk(c) /\ Goto(c, "done") /\ Keeps(c)
     \/ ConnectErr(c) /\ Goto(c, "failed") /\ Hangs(c)
  /\ UNCHANGED <<files, fd, srv, events>>

\* wait_for_socket_connectable succeeds
ClientWait(c) ==
  /\ pc[c] \in {"wait", "refused"} /\ ConnectOk(c)
  /\ \/ ~BelowFloor(to[c]) /\ Goto(c, "done") /\ Keeps(c) /\ UNCHANGED <<flock, fd, srv>>
     \/ BelowFloor(to[c]) /\ Vacate(c, "open") /\ Hangs(c)
  /\ UNCHANGED <<lockPath, pid, sock, events>>

\* One of its connection attempts fails: last_error is set.
ClientRefused(c) ==
  /\ pc[c] \in {"wait", "refused"} /\ ConnectErr(c)
  /\ to[c] = None => sock # None
  /\ Goto(c, "refused")
  /\ Hangs(c)
  /\ UNCHANGED <<files, fd, srv, events>>

\* Its deadline: back to the lock if it never saw a socket (one that appeared
\* during its last sleep included), else an error
ClientWaitTimeout(c) ==
  /\ to[c] = None
  /\ \/ pc[c] = "wait" /\ Goto(c, "open")
     \/ pc[c] = "refused" /\ Goto(c, "failed")
  /\ UNCHANGED <<files, fd, srv, to, events>>

\* The client process dies in the middle of the call: no Drop
ClientCrash(c) ==
  /\ pc[c] \notin {"done", "failed"} /\ events < MaxEvents
  /\ Close(c)
  /\ Goto(c, "failed")
  /\ Hangs(c)
  /\ events' = events + 1
  /\ UNCHANGED <<lockPath, pid, sock, srv>>

(***************************************************************************)
(* The specification.                                                      *)
(***************************************************************************)
LeaderStep(l) ==
  \/ LeaderOpen(l) \/ LeaderTry(l) \/ LeaderHeld(l) \/ LeaderWritePid(l)
  \/ LeaderClean(l) \/ LeaderAwait(l) \/ LeaderAwaitTimeout(l)
  \/ LeaderReopen(l) \/ LeaderPoll(l) \/ LeaderPollTimeout(l)
  \/ LeaderStop(l) \/ LeaderQuit(l)

ServerStep(l) == ServerRemove(l) \/ ServerBind(l) \/ ServerEnd(l)

DropStep(p) == DropLockPath(p) \/ DropSockPath(p) \/ DropClose(p)

ClientStep(c) ==
  \/ ClientLook(c) \/ ClientAttach(c) \/ ClientFast(c) \/ ClientOpen(c)
  \/ ClientFlock(c) \/ ClientRecheck(c) \/ ClientAdopt(c) \/ ClientEvict(c)
  \/ ClientEvicted(c) \/ ClientSpawn(c) \/ ClientReady(c)
  \/ ClientRelease(c) \/ ClientConnect(c) \/ ClientWait(c) \/ ClientRefused(c)
  \/ ClientWaitTimeout(c)

Next ==
  \/ \E l \in Leaders :
       \/ LeaderStep(l) \/ ServerStep(l)
       \/ LeaderCancel(l) \/ LeaderCrash(l)
  \/ \E c \in Clients : ClientStep(c) \/ ClientCrash(c)
  \/ \E p \in Procs : DropStep(p)

Spec == Init /\ [][Next]_vars

(***************************************************************************)
(* Properties.                                                             *)
(***************************************************************************)

\* A live pid in a lock file is its holder's: write_pid runs under the lock
\* and a leader keeps the lock for life ("Leader holds exclusive lock for its
\* entire lifetime", lock.rs:132).  The fast path and the eviction trust it.
PidIsHolder ==
  \A i \in Inodes : pid[i] # None /\ Alive(pid[i]) => flock[i] = pid[i]

\* Leader l is up, has the lock and the socket, and nobody is in the middle of
\* replacing it: no other leader is past its looks at the lock and the socket (two
\* that looked while a spawner had the lock both go on, and the later one removes
\* the socket of the earlier one), and no client is past its flock.
Settled(l) ==
  /\ pc[l] = "lead" /\ srv[l] = "up" /\ sock = l
  /\ lockPath # None /\ fd[l] = lockPath
  /\ flock[lockPath] = l /\ pid[lockPath] = l
  /\ \A k \in Leaders \ {l} :
       /\ srv[k] = "none"
       /\ \/ pc[k] \in {"off", "boot", "held", "dead"}
          \/ pc[k] = "try" /\ fd[k] = lockPath
  /\ \A c \in Clients :
       \/ pc[c] \in {"start", "fast", "open", "connect", "wait", "refused",
                    "done", "failed"}
       \/ pc[c] = "flock" /\ fd[c] = lockPath

\* Once a leader is settled, no client and no further leader started by hand
\* takes its lock, its socket or its life: it goes by its own cancellation, by
\* a crash, or by the SIGTERM of a client with a newer version (run_leader's
\* early bail-out, the fast path and the wait branch of connect_or_spawn).
SettledStays ==
  [][\A l \in Leaders : Settled(l) =>
       \/ Settled(l)'
       \/ srv'[l] = "closing"
       \/ pc'[l] = "dead" /\ (BelowFloor(l) \/ events' > events)]_vars

\* With the lock in hand, connect_or_spawn finds a leader to adopt only when the
\* lock file has been replaced meanwhile: the live pid it asks for is the
\* holder's (mod.rs:1250-1254).
AdoptsOnlyReplaced ==
  [][\A c \in Clients : pc[c] = "recheck" /\ pc'[c] = "adopt" => fd[c] # lockPath]_vars

\* At most one leader leads ("single-leader-per-machine architecture where one
\* leader process manages the agent state", mod.rs:3).
OneLeader ==
  \A k, l \in Leaders :
    pc[k] = "lead" /\ pc[l] = "lead" /\ srv[k] = "up" /\ srv[l] = "up" => k = l
=============================================================================
