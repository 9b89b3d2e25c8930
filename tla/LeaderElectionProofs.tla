------------------------ MODULE LeaderElectionProofs ------------------------
(***************************************************************************)
(* Proofs about LeaderElection, for any number of clients, leaders, lock   *)
(* files and crashes.                                                      *)
(*                                                                         *)
(* PidIsHolder is not inductive: write_pid must find its file locked       *)
(* (LockedSteps), which needs the file to be open (OpenSteps), and a       *)
(* process that has not started must not be named by an old file           *)
(* (PidStarted).                                                           *)
(***************************************************************************)
EXTENDS LeaderElection, TLAPS

\* try_lock_exclusive is called on an open file.
OpenSteps ==
  \A p \in Procs : pc[p] \in {"try", "poll", "flock", "pid", "recheck"} => fd[p] \in Inodes

\* A leader that writes its pid, and a client that rechecks, has the lock.
LockedSteps ==
  \A p \in Procs : pc[p] \in {"pid", "recheck"} => flock[fd[p]] = p

\* Only a process that ran has written its pid.
PidStarted ==
  \A i \in Inodes : pid[i] # None => pc[pid[i]] # "off"

Inv == TypeOK /\ OpenSteps /\ LockedSteps /\ PidStarted /\ PidIsHolder

LEMMA InitInv == Init => Inv
  BY ProcsAssumption, BoundsAssumption
  DEF Init, Inv, TypeOK, OpenSteps, LockedSteps, PidStarted, PidIsHolder, Procs,
      LeaderSteps, ClientSteps, Dropping

(***************************************************************************)
(* What the operations of LeaderLock keep.                                 *)
(***************************************************************************)

\* open_lock_file keeps the invariant, whoever calls it.
LEMMA OpenKeeps ==
  ASSUME Inv, NEW p \in Procs, NEW step \in {"try", "poll", "flock"},
         p \in Leaders => step \in LeaderSteps, p \in Clients => step \in ClientSteps,
         pc[p] # "off", OpenLockFile(p, step),
         p \in Leaders => pc[p] # "dead"
  PROVE  Inv'
<1>1. PICK i \in Inodes :
        /\ \/ lockPath = i /\ UNCHANGED <<lockPath, pid>>
           \/ lockPath = None /\ i \in Unused /\ lockPath' = i /\ pid' = [pid EXCEPT ![i] = None]
        /\ fd' = [fd EXCEPT ![p] = i]
  BY DEF OpenLockFile
<1>2. /\ pc' = [pc EXCEPT ![p] = step]
      /\ UNCHANGED <<flock, sock, srv, to, events>>
  BY DEF OpenLockFile, Goto
<1>3. TypeOK'
  BY <1>1, <1>2 DEF Inv, TypeOK, Procs
<1>4. OpenSteps' /\ LockedSteps'
  BY <1>1, <1>2 DEF Inv, TypeOK, OpenSteps, LockedSteps
<1>5. PidStarted' /\ PidIsHolder'
  <2>1. \A j \in Inodes : pid'[j] # None => pid'[j] = pid[j] /\ pid[j] \in Leaders
    BY <1>1 DEF Inv, TypeOK
  <2>2. \A l \in Leaders : (pc'[l] = "off" => pc[l] = "off") /\ (Alive(l)' => Alive(l))
    BY <1>2, ProcsAssumption DEF Inv, TypeOK, Alive, Procs
  <2> QED
    BY <2>1, <2>2, <1>2 DEF Inv, PidStarted, PidIsHolder
<1> QED
  BY <1>3, <1>4, <1>5 DEF Inv

\* try_lock_exclusive keeps it: nobody else's lock is touched.
LEMMA TryKeeps ==
  ASSUME Inv, NEW p \in Procs, NEW got, NEW busy,
         got \in {"pid", "recheck"}, busy \in {"held", "quit", "wait"},
         p \in Leaders => {got, busy} \subseteq LeaderSteps,
         p \in Clients => {got, busy} \subseteq ClientSteps,
         pc[p] \in {"try", "poll", "flock"}, TryLock(p, got, busy)
  PROVE  Inv'
<1>0. fd[p] \in Inodes
  BY DEF Inv, OpenSteps
<1>1. CASE flock[fd[p]] = None
  <2>1. /\ flock' = [flock EXCEPT ![fd[p]] = p] /\ pc' = [pc EXCEPT ![p] = got]
        /\ UNCHANGED <<fd, lockPath, pid, sock, srv, to, events>>
    BY <1>1 DEF TryLock, Goto
  <2>2. TypeOK'
    BY <2>1, <1>0 DEF Inv, TypeOK, Procs
  <2>3. OpenSteps' /\ LockedSteps'
    BY <2>1, <1>0, <1>1, ProcsAssumption DEF Inv, TypeOK, OpenSteps, LockedSteps
  <2>4. PidStarted'
    BY <2>1 DEF Inv, TypeOK, PidStarted, Procs
  <2>5. PidIsHolder'
    <3>1. \A l \in Leaders : Alive(l)' => Alive(l)
      BY <2>1 DEF Inv, TypeOK, Alive, Procs
    <3> QED
      BY <2>1, <3>1, <1>0, <1>1 DEF Inv, TypeOK, PidIsHolder
  <2> QED
    BY <2>2, <2>3, <2>4, <2>5 DEF Inv
<1>2. CASE flock[fd[p]] # None
  <2>1. /\ fd' = [fd EXCEPT ![p] = None] /\ pc' = [pc EXCEPT ![p] = busy]
        /\ UNCHANGED <<flock, lockPath, pid, sock, srv, to, events>>
    BY <1>2 DEF TryLock, Goto
  <2>2. TypeOK'
    BY <2>1 DEF Inv, TypeOK, Procs
  <2>3. OpenSteps' /\ LockedSteps'
    BY <2>1 DEF Inv, TypeOK, OpenSteps, LockedSteps
  <2>4. PidStarted'
    BY <2>1 DEF Inv, TypeOK, PidStarted, Procs
  <2>5. PidIsHolder'
    <3>1. \A l \in Leaders : Alive(l)' => Alive(l)
      BY <2>1 DEF Inv, TypeOK, Alive, Procs
    <3> QED
      BY <2>1, <3>1 DEF Inv, TypeOK, PidIsHolder
  <2> QED
    BY <2>2, <2>3, <2>4, <2>5 DEF Inv
<1> QED
  BY <1>1, <1>2

\* The steps that rely on an open or a locked file.
Relying == {"try", "poll", "flock", "pid", "recheck"}

\* Every other step: no process arrives at a step that relies on its file, and
\* a lock is lost only with the process, or by a client that stops relying on it.
LEMMA OtherKeeps ==
  ASSUME Inv, TypeOK', pid' = pid,
         \A p \in Procs : pc'[p] \in Relying => pc'[p] = pc[p] /\ fd'[p] = fd[p],
         \A i \in Inodes : \/ flock'[i] = flock[i]
                           \/ /\ flock[i] \in Procs
                              /\ pc'[flock[i]] \notin Relying
                              /\ flock[i] \in Leaders => pc'[flock[i]] = "dead",
         \A l \in Leaders : /\ pc'[l] = "off" => pc[l] = "off"
                            /\ Alive(l)' => Alive(l) \/ pc[l] = "off"
  PROVE  Inv'
<1>1. OpenSteps'
  BY DEF Inv, OpenSteps, Relying
<1>2. LockedSteps'
  <2> SUFFICES ASSUME NEW p \in Procs, pc'[p] \in {"pid", "recheck"}
               PROVE  flock'[fd'[p]] = p
    BY DEF LockedSteps
  <2>1. pc'[p] = pc[p] /\ fd'[p] = fd[p] /\ fd[p] \in Inodes /\ flock[fd[p]] = p
    BY DEF Inv, OpenSteps, LockedSteps, Relying
  <2> QED
    BY <2>1 DEF Relying
<1>3. PidStarted'
  BY DEF Inv, TypeOK, PidStarted
<1>4. PidIsHolder'
  <2> SUFFICES ASSUME NEW i \in Inodes, pid[i] # None, Alive(pid[i])'
               PROVE  flock'[i] = pid[i]
    BY DEF PidIsHolder, Alive
  <2>1. pid[i] \in Leaders /\ pc[pid[i]] # "off"
    BY DEF Inv, TypeOK, PidStarted
  <2>2. Alive(pid[i]) /\ flock[i] = pid[i]
    BY <2>1 DEF Inv, PidIsHolder
  <2> QED
    BY <2>1, <2>2 DEF Alive
<1> QED
  BY <1>1, <1>2, <1>3, <1>4 DEF Inv

\* write_pid keeps the invariant: the file is the leader's own locked one.
LEMMA WritePidKeeps ==
  ASSUME Inv, NEW l \in Leaders, LeaderWritePid(l)
  PROVE  Inv'
<1>1. /\ pc[l] = "pid" /\ l \in Procs /\ fd[l] \in Inodes /\ flock[fd[l]] = l
      /\ pid' = [pid EXCEPT ![fd[l]] = l]
      /\ UNCHANGED <<lockPath, flock, sock, fd, srv, to, events>>
  BY DEF LeaderWritePid, Inv, OpenSteps, LockedSteps, Procs
<1>2. PICK s \in {"clean", "lead"} : pc' = [pc EXCEPT ![l] = s]
  BY DEF LeaderWritePid, Goto
<1>3. TypeOK'
  BY <1>1, <1>2, ProcsAssumption DEF Inv, TypeOK, LeaderSteps, Procs
<1>4. OpenSteps' /\ LockedSteps'
  BY <1>1, <1>2 DEF Inv, TypeOK, OpenSteps, LockedSteps
<1>5. PidStarted' /\ PidIsHolder'
  <2>1. \A k \in Leaders : pc'[k] # "off" <=> pc[k] # "off"
    BY <1>1, <1>2 DEF Inv, TypeOK, Procs
  <2>2. \A k \in Leaders : Alive(k)' => Alive(k)
    BY <1>1, <1>2 DEF Inv, TypeOK, Procs, Alive
  <2> QED
    BY <1>1, <2>1, <2>2 DEF Inv, TypeOK, PidStarted, PidIsHolder
<1> QED
  BY <1>3, <1>4, <1>5 DEF Inv

\* A process of its own steps only: pc changes, locks and files do not.
LEMMA MoveKeeps ==
  ASSUME Inv, NEW p \in Procs, NEW step,
         p \in Leaders => step \in LeaderSteps, p \in Clients => step \in ClientSteps,
         step \notin Relying \union {"off"}, pc[p] # "dead",
         pc' = [pc EXCEPT ![p] = step],
         UNCHANGED <<lockPath, flock, pid>>,
         \/ fd' = fd
         \/ fd' = [fd EXCEPT ![p] = None],
         sock' \in Leaders \union {None}, events' \in 0..MaxEvents,
         srv' \in [Leaders -> {"none", "remove", "bind", "up", "closing", "down"}],
         to' \in [Clients -> Leaders \union {None}]
  PROVE  Inv'
<1>1. TypeOK'
  BY DEF Inv, TypeOK, Procs
<1>2. \A q \in Procs : pc'[q] \in Relying => pc'[q] = pc[q] /\ fd'[q] = fd[q]
  BY DEF Inv, TypeOK
<1>3. \A l \in Leaders : /\ pc'[l] = "off" => pc[l] = "off"
                         /\ Alive(l)' => Alive(l) \/ pc[l] = "off"
  BY DEF Inv, TypeOK, Procs, Alive
<1> QED
  BY <1>1, <1>2, <1>3, OtherKeeps

\* Close and Gone: the lock goes with a leader that dies or a client that
\* lets go.
LEMMA CloseKeeps ==
  ASSUME Inv, NEW p \in Procs, Close(p), TypeOK', pid' = pid,
         pc'[p] \notin Relying, p \in Leaders => pc'[p] = "dead",
         \A q \in Procs \ {p} : pc'[q] \notin Relying \/ pc'[q] = pc[q],
         \A l \in Leaders \ {p} : pc'[l] = pc[l]
  PROVE  Inv'
<1>1. /\ flock' = [i \in Inodes |-> IF flock[i] = p THEN None ELSE flock[i]]
      /\ fd' = [fd EXCEPT ![p] = None]
  BY DEF Close
<1>2. \A q \in Procs : pc'[q] \in Relying => pc'[q] = pc[q] /\ fd'[q] = fd[q]
  BY <1>1 DEF Inv, TypeOK
<1>3. \A i \in Inodes : \/ flock'[i] = flock[i]
                        \/ /\ flock[i] \in Procs
                           /\ pc'[flock[i]] \notin Relying
                           /\ flock[i] \in Leaders => pc'[flock[i]] = "dead"
  BY <1>1
<1>4. \A l \in Leaders : /\ pc'[l] = "off" => pc[l] = "off"
                         /\ Alive(l)' => Alive(l) \/ pc[l] = "off"
  BY DEF Alive, Procs
<1> QED
  BY <1>2, <1>3, <1>4, OtherKeeps

(***************************************************************************)
(* The steps of Next.                                                      *)
(***************************************************************************)

\* Every step of LeaderLock::drop keeps the invariant.
LEMMA DropKeeps ==
  ASSUME Inv, NEW p \in Procs, DropStep(p)
  PROVE  Inv'
<1>0. p \in Leaders \/ p \in Clients
  BY DEF Procs
<1>1. CASE DropLockPath(p)
  <2>1. TypeOK'
    BY <1>0, <1>1 DEF DropLockPath, Goto, Inv, TypeOK, Procs, LeaderSteps, ClientSteps, Dropping
  <2>2. \A q \in Procs : pc'[q] \in Relying => pc'[q] = pc[q] /\ fd'[q] = fd[q]
    BY <1>1 DEF DropLockPath, Goto, Inv, TypeOK, Relying
  <2>3. \A l \in Leaders : /\ pc'[l] = "off" => pc[l] = "off"
                           /\ Alive(l)' => Alive(l) \/ pc[l] = "off"
    BY <1>1 DEF DropLockPath, Goto, Inv, TypeOK, Procs, Alive
  <2> QED
    BY <1>1, <2>1, <2>2, <2>3, OtherKeeps DEF DropLockPath
<1>2. CASE DropSockPath(p)
  BY <1>2, MoveKeeps
  DEF DropSockPath, Goto, Inv, TypeOK, LeaderSteps, ClientSteps, Dropping, Relying
<1>3. CASE DropClose(p)
  <2>1. Close(p) /\ pid' = pid
    BY <1>3 DEF DropClose, Die, Gone
  <2>2. \/ p \in Leaders /\ pc' = [pc EXCEPT ![p] = "dead"]
        \/ p \in Clients /\ pc' = [pc EXCEPT ![p] = "failed"]
    BY <1>3 DEF DropClose, Die, Gone, Goto
  <2>3. TypeOK'
    BY <1>0, <1>3, <2>1, <2>2, ProcsAssumption
    DEF DropClose, Die, Gone, Close, Inv, TypeOK, Procs, LeaderSteps, ClientSteps
  <2> QED
    BY <2>1, <2>2, <2>3, CloseKeeps, ProcsAssumption DEF Inv, TypeOK, Relying, Procs
<1> QED
  BY <1>1, <1>2, <1>3 DEF DropStep

\* Every step of run_leader and its server keeps the invariant.
LEMMA LeaderKeeps ==
  ASSUME Inv, NEW l \in Leaders,
         LeaderStep(l) \/ ServerStep(l) \/ LeaderCancel(l) \/ LeaderCrash(l)
  PROVE  Inv'
<1> USE ProcsAssumption
<1>0. l \in Procs /\ l \notin Clients /\ Inv
  BY DEF Procs
<1>a. ASSUME pc' = pc, UNCHANGED <<lockPath, flock, pid, fd, to>>,
             sock' \in Leaders \union {None}, events' \in 0..MaxEvents,
             srv' \in [Leaders -> {"none", "remove", "bind", "up", "closing", "down"}]
      PROVE  Inv'
  <2>1. TypeOK'
    BY <1>a DEF Inv, TypeOK
  <2> QED
    BY <1>a, <2>1, OtherKeeps DEF Alive
<1>b. ASSUME Die(l), pid' = pid, lockPath' = lockPath, sock' = sock, to' = to,
             events' \in 0..MaxEvents, pc[l] # "off"
      PROVE  Inv'
  <2>1. Close(l) /\ pc' = [pc EXCEPT ![l] = "dead"] /\ srv' = [srv EXCEPT ![l] = "none"]
    BY <1>b DEF Die, Gone, Goto
  <2>2. TypeOK'
    BY <1>0, <1>b, <2>1 DEF Close, Inv, TypeOK, Procs, LeaderSteps
  <2> QED
    BY <1>0, <1>b, <2>1, <2>2, CloseKeeps DEF Inv, TypeOK, Relying, Procs
<1>1. CASE LeaderOpen(l)
  BY <1>0, <1>1, OpenKeeps DEF LeaderOpen, LeaderSteps
<1>2. CASE LeaderTry(l)
  BY <1>0, <1>2, TryKeeps DEF LeaderTry, LeaderSteps
<1>3. CASE LeaderHeld(l)
  BY <1>0, <1>3, MoveKeeps DEF LeaderHeld, Goto, files, Inv, TypeOK, LeaderSteps, Relying
<1>4. CASE LeaderWritePid(l)
  BY <1>4, WritePidKeeps
<1>5. CASE LeaderClean(l)
  BY <1>0, <1>5, MoveKeeps DEF LeaderClean, Goto, Inv, TypeOK, LeaderSteps, Relying
<1>6. CASE LeaderAwait(l)
  BY <1>0, <1>6, MoveKeeps
  DEF LeaderAwait, Goto, files, Inv, TypeOK, OpenSteps, LeaderSteps, Relying
<1>7. CASE LeaderAwaitTimeout(l)
  BY <1>0, <1>7, MoveKeeps
  DEF LeaderAwaitTimeout, Cancelled, Goto, files, Inv, TypeOK, LeaderSteps, Dropping, Relying
<1>8. CASE LeaderReopen(l)
  BY <1>0, <1>8, OpenKeeps DEF LeaderReopen, LeaderSteps
<1>9. CASE LeaderPoll(l)
  BY <1>0, <1>9, TryKeeps DEF LeaderPoll, LeaderSteps
<1>10. CASE LeaderPollTimeout(l)
  BY <1>0, <1>10, MoveKeeps
  DEF LeaderPollTimeout, Cancelled, Goto, files, Inv, TypeOK, LeaderSteps, Relying
<1>11. CASE LeaderStop(l)
  BY <1>0, <1>11, MoveKeeps
  DEF LeaderStop, Goto, files, Inv, TypeOK, LeaderSteps, Dropping, Relying
<1>12. CASE LeaderQuit(l)
  BY <1>12, <1>b DEF LeaderQuit, Inv, TypeOK
<1>13. CASE ServerRemove(l)
  BY <1>13, <1>a DEF ServerRemove, Inv, TypeOK
<1>14. CASE ServerBind(l)
  BY <1>14, <1>a DEF ServerBind, Inv, TypeOK
<1>15. CASE ServerEnd(l)
  BY <1>15, <1>a DEF ServerEnd, Inv, TypeOK
<1>16. CASE LeaderCancel(l)
  BY <1>16, <1>a, BoundsAssumption DEF LeaderCancel, Cancelled, files, Inv, TypeOK
<1>17. CASE LeaderCrash(l)
  BY <1>17, <1>b, BoundsAssumption DEF LeaderCrash, Alive, Inv, TypeOK
<1> QED
  BY <1>1, <1>2, <1>3, <1>4, <1>5, <1>6, <1>7, <1>8, <1>9, <1>10, <1>11, <1>12,
     <1>13, <1>14, <1>15, <1>16, <1>17 DEF LeaderStep, ServerStep

\* request_leader_vacate and evict_leader: what a SIGTERM to leader l, or the
\* lack of one, does to the invariant while client c goes on.
LEMMA KillKeeps ==
  ASSUME Inv, NEW c \in Clients, NEW step \in ClientSteps, step \notin Relying,
         NEW l \in Leaders, Gone(l), pc' = [pc EXCEPT ![l] = "dead", ![c] = step],
         UNCHANGED <<lockPath, pid, sock, events>>,
         to' \in [Clients -> Leaders \union {None}]
  PROVE  Inv'
<1> USE ProcsAssumption
<1>1. Close(l) /\ srv' = [srv EXCEPT ![l] = "none"] /\ l \in Procs /\ l # c
  BY DEF Gone, Procs
<1>2. TypeOK'
  BY <1>1 DEF Close, Inv, TypeOK, Procs, LeaderSteps
<1> QED
  BY <1>1, <1>2, CloseKeeps DEF Inv, TypeOK, Relying, Procs

\* Every step of connect_or_spawn keeps the invariant.
LEMMA ClientKeeps ==
  ASSUME Inv, NEW c \in Clients, ClientStep(c) \/ ClientCrash(c)
  PROVE  Inv'
<1> USE ProcsAssumption
<1>0. c \in Procs /\ c \notin Leaders /\ pc[c] \in ClientSteps /\ pc[c] # "dead"
  BY DEF Procs, Inv, TypeOK, ClientSteps, Dropping
<1>t. \A l \in Leaders \union {None} : [to EXCEPT ![c] = l] \in [Clients -> Leaders \union {None}]
  BY DEF Inv, TypeOK
<1>p. PidAtPath \in Leaders \union {None}
  BY DEF PidAtPath, Inv, TypeOK
<1>m. ASSUME NEW step \in ClientSteps, step \notin Relying, pc' = [pc EXCEPT ![c] = step],
             UNCHANGED <<lockPath, flock, pid, fd, srv, events>>, sock' \in {sock, None},
             to' = to \/ \E l \in Leaders \union {None} : to' = [to EXCEPT ![c] = l]
      PROVE  Inv'
  BY <1>0, <1>t, <1>m, MoveKeeps DEF Inv, TypeOK, ClientSteps, Dropping
<1>c. ASSUME NEW step \in ClientSteps, step \notin Relying, pc' = [pc EXCEPT ![c] = step],
             Close(c), UNCHANGED <<lockPath, pid, sock, srv>>, events' \in 0..MaxEvents,
             to' = to \/ to' = [to EXCEPT ![c] = None]
      PROVE  Inv'
  <2>1. TypeOK'
    BY <1>0, <1>t, <1>c DEF Close, Inv, TypeOK, Procs
  <2> QED
    BY <1>0, <1>c, <2>1, CloseKeeps DEF Inv, TypeOK, Procs
<1>v. ASSUME NEW step \in ClientSteps, step \notin Relying, Vacate(c, step),
             UNCHANGED <<lockPath, pid, sock, events>>,
             \E l \in Leaders \union {None} : to' = [to EXCEPT ![c] = l]
      PROVE  Inv'
  <2>1. CASE Goto(c, step) /\ UNCHANGED <<flock, fd, srv>>
    BY <1>v, <2>1, <1>m DEF Goto
  <2>2. CASE PidAlive /\ Gone(PidAtPath) /\ pc' = [pc EXCEPT ![PidAtPath] = "dead", ![c] = step]
    BY <1>v, <1>p, <1>t, <2>2, KillKeeps DEF PidAlive
  <2> QED
    BY <1>v, <2>1, <2>2 DEF Vacate
<1>1. CASE ClientLook(c)
  BY <1>1, <1>m DEF ClientLook, Goto, files, ClientSteps, Relying
<1>2. CASE ClientAttach(c)
  <2>1. TypeOK'
    BY <1>2, <1>t DEF ClientAttach, Connectable, files, Inv, TypeOK
  <2> QED
    BY <1>2, <2>1, OtherKeeps DEF ClientAttach, files, Alive
<1>3. CASE ClientFast(c)
  BY <1>3, <1>m DEF ClientFast, Goto, Keeps, Hangs, files, ClientSteps, Relying
<1>4. CASE ClientOpen(c)
  BY <1>0, <1>4, OpenKeeps DEF ClientOpen, ClientSteps
<1>5. CASE ClientFlock(c)
  BY <1>0, <1>5, TryKeeps DEF ClientFlock, ClientSteps
<1>6. CASE ClientRecheck(c)
  BY <1>6, <1>m DEF ClientRecheck, Goto, files, ClientSteps, Relying
<1>7. CASE ClientAdopt(c)
  <2>1. CASE Close(c) /\ Goto(c, "done") /\ Keeps(c)
    BY <1>7, <2>1, <1>c DEF ClientAdopt, Goto, Keeps, Inv, TypeOK, ClientSteps, Relying
  <2>2. CASE UNCHANGED <<flock, fd>>
    BY <1>7, <2>2, <1>m
    DEF ClientAdopt, Goto, Keeps, Hangs, Close, ClientSteps, Relying
  <2> QED
    BY <1>7, <2>1, <2>2 DEF ClientAdopt
<1>8. CASE ClientEvict(c)
  BY <1>8, <1>v, <1>p DEF ClientEvict, ClientSteps, Relying
<1>9. CASE ClientEvicted(c)
  <2>1. CASE Goto(c, "spawn") /\ UNCHANGED <<flock, fd, srv>>
    BY <1>9, <2>1, <1>m DEF ClientEvicted, Goto, Hangs, ClientSteps, Relying
  <2>2. CASE to[c] # None /\ Gone(to[c]) /\ pc' = [pc EXCEPT ![to[c]] = "dead", ![c] = "spawn"]
    <3>1. to[c] \in Leaders
      BY <2>2 DEF Inv, TypeOK
    <3> QED
      BY <1>9, <1>t, <2>2, <3>1, KillKeeps DEF ClientEvicted, Hangs, ClientSteps, Relying
  <2> QED
    BY <1>9, <2>1, <2>2 DEF ClientEvicted
<1>10. CASE ClientSpawn(c)
  <2>1. CASE Goto(c, "unlink")
    BY <1>10, <2>1, <1>m DEF ClientSpawn, Goto, ClientSteps, Dropping, Relying
  <2>2. ASSUME NEW l \in Spawnable, pc' = [pc EXCEPT ![l] = "boot", ![c] = "ready"]
        PROVE  Inv'
    <3>1. l \in Leaders /\ pc[l] = "off" /\ l # c
      BY <2>2 DEF Spawnable
    <3>2. TypeOK'
      BY <1>0, <1>10, <2>2, <3>1
      DEF ClientSpawn, Inv, TypeOK, Procs, LeaderSteps, ClientSteps
    <3>3. \A p \in Procs : pc'[p] \in Relying => pc'[p] = pc[p] /\ fd'[p] = fd[p]
      BY <1>10, <2>2 DEF ClientSpawn, Inv, TypeOK, Relying
    <3>4. \A k \in Leaders : /\ pc'[k] = "off" => pc[k] = "off"
                             /\ Alive(k)' => Alive(k) \/ pc[k] = "off"
      BY <1>0, <2>2, <3>1 DEF Inv, TypeOK, Procs, Alive
    <3> QED
      BY <1>10, <3>2, <3>3, <3>4, OtherKeeps DEF ClientSpawn
  <2> QED
    BY <1>10, <2>1, <2>2 DEF ClientSpawn
<1>11. CASE ClientReady(c)
  BY <1>11, <1>m DEF ClientReady, Goto, files, ClientSteps, Dropping, Relying
<1>12. CASE ClientRelease(c)
  BY <1>12, <1>c DEF ClientRelease, Goto, Inv, TypeOK, ClientSteps, Relying
<1>13. CASE ClientConnect(c)
  BY <1>13, <1>m DEF ClientConnect, Goto, Keeps, Hangs, files, ClientSteps, Relying
<1>14. CASE ClientWait(c)
  <2>1. CASE Goto(c, "done") /\ Keeps(c) /\ UNCHANGED <<flock, fd, srv>>
    BY <1>14, <2>1, <1>m DEF ClientWait, Goto, Keeps, ClientSteps, Relying
  <2>2. CASE Vacate(c, "open") /\ Hangs(c)
    BY <1>14, <2>2, <1>v DEF ClientWait, Hangs, ClientSteps, Relying
  <2> QED
    BY <1>14, <2>1, <2>2 DEF ClientWait
<1>15. CASE ClientRefused(c)
  BY <1>15, <1>m DEF ClientRefused, Goto, Hangs, files, ClientSteps, Relying
<1>16. CASE ClientWaitTimeout(c)
  BY <1>16, <1>m DEF ClientWaitTimeout, Goto, files, ClientSteps, Relying
<1>17. CASE ClientCrash(c)
  <2>1. events' \in 0..MaxEvents
    BY <1>17, BoundsAssumption DEF ClientCrash, Inv, TypeOK
  <2>2. "failed" \in ClientSteps /\ "failed" \notin Relying
    BY DEF ClientSteps, Relying
  <2> QED
    BY <1>17, <2>1, <2>2, <1>c DEF ClientCrash, Goto, Hangs
<1> QED
  BY <1>1, <1>2, <1>3, <1>4, <1>5, <1>6, <1>7, <1>8, <1>9, <1>10, <1>11, <1>12,
     <1>13, <1>14, <1>15, <1>16, <1>17 DEF ClientStep

\* Every step keeps the invariant.
LEMMA NextInv == Inv /\ [Next]_vars => Inv'
<1> SUFFICES ASSUME Inv, [Next]_vars PROVE Inv'
  OBVIOUS
<1>1. CASE UNCHANGED vars
  BY <1>1
  DEF vars, Inv, TypeOK, OpenSteps, LockedSteps, PidStarted, PidIsHolder, Alive
<1>2. CASE Next
  BY <1>2, LeaderKeeps, ClientKeeps, DropKeeps DEF Next
<1> QED
  BY <1>1, <1>2

\* The invariant holds in every reachable state.
LEMMA InvHolds == Spec => []Inv
  BY InitInv, NextInv, PTL DEF Spec

\* Whatever leaders and clients do to the lock file, its path and the socket,
\* and whoever crashes when: a live pid in a lock file is that of the process
\* that has the file locked.
THEOREM PidIsHolderCorrect == Spec => []PidIsHolder
<1>1. Inv => PidIsHolder
  BY DEF Inv
<1> QED
  BY <1>1, InvHolds, PTL

(***************************************************************************)
(* Whose step a step is.                                                   *)
(***************************************************************************)

\* A step of a leader or of its server moves no other process.
LEMMA LeaderMoves ==
  ASSUME Inv, NEW l \in Leaders,
         LeaderStep(l) \/ ServerStep(l) \/ LeaderCancel(l) \/ LeaderCrash(l)
  PROVE  \A p \in Procs \ {l} : pc'[p] = pc[p]
<1>1. pc' = pc \/ \E s \in LeaderSteps : pc' = [pc EXCEPT ![l] = s]
  BY DEF LeaderStep, ServerStep, LeaderCancel, LeaderCrash, LeaderOpen, LeaderTry, LeaderHeld,
         LeaderWritePid, LeaderClean, LeaderAwait, LeaderAwaitTimeout, LeaderReopen, LeaderPoll,
         LeaderPollTimeout, LeaderStop, LeaderQuit, ServerRemove, ServerBind, ServerEnd, Die,
         Goto, OpenLockFile, TryLock, LeaderSteps, Dropping
<1> QED
  BY <1>1 DEF Inv, TypeOK

\* A step of Drop moves no other process.
LEMMA DropMoves ==
  ASSUME Inv, NEW p \in Procs, DropStep(p)
  PROVE  \A q \in Procs \ {p} : pc'[q] = pc[q]
  BY DEF DropStep, DropLockPath, DropSockPath, DropClose, Die, Goto, Inv, TypeOK

\* A step of a client moves no other client, and the adoption finds a live pid.
LEMMA ClientMoves ==
  ASSUME Inv, NEW c \in Clients, ClientStep(c) \/ ClientCrash(c)
  PROVE  /\ \A d \in Clients \ {c} : pc'[d] = pc[d]
         /\ pc[c] = "recheck" /\ pc'[c] = "adopt" => PidAlive
<1> USE ProcsAssumption
<1>0. /\ c \in Procs /\ c \notin Leaders /\ pc \in [Procs -> LeaderSteps \union ClientSteps]
      /\ Clients \subseteq Procs
  BY DEF Procs, Inv, TypeOK
<1>m. ASSUME NEW s, Goto(c, s), pc[c] # "recheck" \/ s # "adopt"
      PROVE  /\ \A d \in Clients \ {c} : pc'[d] = pc[d]
             /\ ~(pc[c] = "recheck" /\ pc'[c] = "adopt")
  BY <1>0, <1>m DEF Goto
<1>k. ASSUME NEW k \in Leaders, NEW r, NEW s, pc' = [pc EXCEPT ![k] = r, ![c] = s],
             s # "adopt"
      PROVE  /\ \A d \in Clients \ {c} : pc'[d] = pc[d]
             /\ ~(pc[c] = "recheck" /\ pc'[c] = "adopt")
  BY <1>0, <1>k
<1>p. PidAlive => PidAtPath \in Leaders
  BY DEF PidAlive, PidAtPath, Inv, TypeOK
<1>v. ASSUME NEW s, Vacate(c, s), s # "adopt"
      PROVE  /\ \A d \in Clients \ {c} : pc'[d] = pc[d]
             /\ ~(pc[c] = "recheck" /\ pc'[c] = "adopt")
  BY <1>v, <1>m, <1>k, <1>p DEF Vacate
<1>1. CASE ClientLook(c) \/ ClientOpen(c) \/ ClientFlock(c) \/ ClientReady(c) \/ ClientRelease(c)
  BY <1>1, <1>m
  DEF ClientLook, ClientOpen, OpenLockFile, ClientFlock, TryLock, ClientReady, ClientRelease
<1>2. CASE ClientFast(c) \/ ClientAdopt(c) \/ ClientConnect(c) \/ ClientRefused(c)
           \/ ClientWaitTimeout(c) \/ ClientCrash(c)
  BY <1>2, <1>m
  DEF ClientFast, ClientAdopt, ClientConnect, ClientRefused, ClientWaitTimeout, ClientCrash
<1>3. CASE ClientAttach(c)
  BY <1>3 DEF ClientAttach
<1>4. CASE ClientRecheck(c)
  BY <1>0, <1>4 DEF ClientRecheck, Goto
<1>5. CASE ClientEvict(c)
  BY <1>5, <1>v DEF ClientEvict
<1>6. CASE ClientEvicted(c)
  <2>1. to[c] # None => to[c] \in Leaders
    BY DEF Inv, TypeOK
  <2> QED
    BY <1>6, <1>m, <1>k, <2>1 DEF ClientEvicted
<1>7. CASE ClientSpawn(c)
  BY <1>7, <1>m, <1>k DEF ClientSpawn, Spawnable
<1>8. CASE ClientWait(c)
  BY <1>8, <1>m, <1>v DEF ClientWait
<1> QED
  BY <1>1, <1>2, <1>3, <1>4, <1>5, <1>6, <1>7, <1>8 DEF ClientStep

\* The adoption under the lock of connect_or_spawn is only ever tried on a lock
\* file that somebody replaced: as long as the client's own file is at the
\* path, no live pid is in it, not even that of a leader that is waiting for the
\* handoff.
THEOREM AdoptsOnlyReplacedCorrect == Spec => AdoptsOnlyReplaced
<1>1. ASSUME Inv, Next, NEW c \in Clients, pc[c] = "recheck", pc'[c] = "adopt"
      PROVE  fd[c] # lockPath
  <2>0. c \in Procs /\ c \notin Leaders /\ fd[c] \in Inodes /\ flock[fd[c]] = c
    BY <1>1, ProcsAssumption DEF Procs, Inv, OpenSteps, LockedSteps
  <2>1. PidAlive
    <3>1. ASSUME NEW l \in Leaders,
                 LeaderStep(l) \/ ServerStep(l) \/ LeaderCancel(l) \/ LeaderCrash(l)
          PROVE  FALSE
      BY <1>1, <2>0, <3>1, LeaderMoves
    <3>2. ASSUME NEW p \in Procs, DropStep(p)
          PROVE  FALSE
      <4>1. pc[p] \in Dropping
        BY <3>2 DEF DropStep, DropLockPath, DropSockPath, DropClose, Dropping
      <4> QED
        BY <1>1, <2>0, <3>2, <4>1, DropMoves DEF Dropping
    <3> QED
      BY <1>1, <3>1, <3>2, ClientMoves DEF Next
  <2>2. PidAtPath \in Leaders /\ lockPath \in Inodes /\ flock[lockPath] = PidAtPath
    BY <1>1, <2>1 DEF PidAlive, PidAtPath, Inv, TypeOK, PidIsHolder
  <2> QED
    BY <2>0, <2>2
<1>2. Inv /\ [Next]_vars =>
        [\A c \in Clients : pc[c] = "recheck" /\ pc'[c] = "adopt" => fd[c] # lockPath]_vars
  BY <1>1
<1> QED
  BY <1>2, InvHolds, PTL DEF Spec, AdoptsOnlyReplaced

(***************************************************************************)
(* A settled leader stays.                                                 *)
(***************************************************************************)

\* What may follow a state in which leader l is settled.
StaysOrGoes(l) ==
  \/ Settled(l)'
  \/ srv'[l] = "closing"
  \/ pc'[l] = "dead" /\ (BelowFloor(l) \/ events' > events)

\* The clients and the other leaders that leave a settled leader alone.
CalmLeader(k) ==
  \/ pc[k] \in {"off", "boot", "held", "dead"}
  \/ pc[k] = "try" /\ fd[k] = lockPath

CalmClient(c) ==
  \/ pc[c] \in {"start", "fast", "open", "connect", "wait", "refused", "done", "failed"}
  \/ pc[c] = "flock" /\ fd[c] = lockPath

\* A step of process p that takes no file from l leaves it settled, if p itself
\* stays calm.
LEMMA CalmStays ==
  ASSUME Inv, NEW l \in Leaders, Settled(l), NEW p \in Procs, p # l,
         UNCHANGED <<lockPath, sock, srv>>, pid' = pid,
         flock'[lockPath] = flock[lockPath],
         \A q \in Procs \ {p} : pc'[q] = pc[q] /\ fd'[q] = fd[q],
         p \in Leaders => CalmLeader(p)', p \in Clients => CalmClient(p)'
  PROVE  Settled(l)'
<1>1. l \in Procs /\ Leaders \subseteq Procs /\ Clients \subseteq Procs
  BY DEF Procs
<1>2. \A k \in Leaders \ {l} : srv[k] = "none" /\ CalmLeader(k)
  BY DEF Settled, CalmLeader
<1>3. \A k \in Leaders \ {l} : srv'[k] = "none" /\ CalmLeader(k)'
  BY <1>1, <1>2 DEF CalmLeader
<1>4. \A c \in Clients : CalmClient(c)
  BY DEF Settled, CalmClient
<1>5. \A c \in Clients : CalmClient(c)'
  BY <1>1, <1>4 DEF CalmClient
<1>6. /\ pc'[l] = "lead" /\ srv'[l] = "up" /\ sock' = l /\ lockPath' # None
      /\ fd'[l] = lockPath' /\ flock'[lockPath'] = l /\ pid'[lockPath'] = l
  BY <1>1 DEF Settled
<1> QED
  BY <1>3, <1>5, <1>6 DEF Settled, CalmLeader, CalmClient

\* open_lock_file opens the settled leader's own lock file.
LEMMA OpenSettled ==
  ASSUME Inv, NEW l \in Leaders, Settled(l), NEW p \in Procs, p # l, NEW step,
         OpenLockFile(p, step)
  PROVE  /\ UNCHANGED <<lockPath, sock, srv, flock, pid>>
         /\ fd'[p] = lockPath /\ pc'[p] = step
         /\ \A q \in Procs \ {p} : pc'[q] = pc[q] /\ fd'[q] = fd[q]
  BY DEF OpenLockFile, Settled, Goto, Inv, TypeOK

\* try_lock_exclusive on that file finds it locked.
LEMMA TrySettled ==
  ASSUME Inv, NEW l \in Leaders, Settled(l), NEW p \in Procs, p # l, fd[p] = lockPath,
         NEW got, NEW busy, TryLock(p, got, busy)
  PROVE  /\ UNCHANGED <<lockPath, sock, srv, flock, pid>>
         /\ pc'[p] = busy
         /\ \A q \in Procs \ {p} : pc'[q] = pc[q] /\ fd'[q] = fd[q]
<1>1. flock[fd[p]] # None
  BY ProcsAssumption DEF Settled, Procs
<1> QED
  BY <1>1 DEF TryLock, Goto, Inv, TypeOK

\* A leader that starts finds the lock held and the socket there, and leaves.
LEMMA LeaderSettled ==
  ASSUME Inv, NEW l \in Leaders, Settled(l), NEW k \in Leaders,
         LeaderStep(k) \/ ServerStep(k) \/ LeaderCancel(k) \/ LeaderCrash(k)
  PROVE  StaysOrGoes(l)
<1> USE ProcsAssumption
<1>0. k \in Procs /\ l \in Procs /\ k \notin Clients /\ events \in Nat /\ sock # None
  BY BoundsAssumption DEF Procs, Inv, TypeOK, Settled
<1>1. CASE k = l
  <2>1. pc[l] = "lead" /\ srv[l] = "up"
    BY DEF Settled
  <2>2. LeaderCancel(l) \/ LeaderCrash(l)
    BY <1>1, <2>1
    DEF LeaderStep, ServerStep, LeaderOpen, LeaderTry, LeaderHeld, LeaderWritePid, LeaderClean,
        LeaderAwait, LeaderAwaitTimeout, LeaderReopen, LeaderPoll, LeaderPollTimeout, LeaderStop,
        LeaderQuit, ServerRemove, ServerBind, ServerEnd
  <2>3. CASE LeaderCancel(l)
    BY <2>1, <2>3 DEF LeaderCancel, Cancelled, StaysOrGoes, Inv, TypeOK
  <2>4. CASE LeaderCrash(l)
    BY <1>0, <2>4 DEF LeaderCrash, Die, Goto, StaysOrGoes, Inv, TypeOK
  <2> QED
    BY <2>2, <2>3, <2>4
<1>2. CASE k # l
  <2>1. srv[k] = "none" /\ CalmLeader(k)
    BY <1>2 DEF Settled, CalmLeader
  <2>2. LeaderOpen(k) \/ LeaderTry(k) \/ LeaderHeld(k) \/ LeaderCrash(k)
    BY <2>1
    DEF CalmLeader, LeaderStep, ServerStep, LeaderWritePid, LeaderClean,
        LeaderAwait, LeaderAwaitTimeout, LeaderReopen, LeaderPoll, LeaderPollTimeout, LeaderStop,
        LeaderQuit, ServerRemove, ServerBind, ServerEnd, LeaderCancel
  <2>3. CASE LeaderOpen(k)
    <3>1. /\ UNCHANGED <<lockPath, sock, srv, flock, pid>>
          /\ fd'[k] = lockPath /\ pc'[k] = "try"
          /\ \A q \in Procs \ {k} : pc'[q] = pc[q] /\ fd'[q] = fd[q]
      BY <1>0, <1>2, <2>3, OpenSettled DEF LeaderOpen
    <3> QED
      BY <1>0, <1>2, <3>1, CalmStays DEF CalmLeader, StaysOrGoes
  <2>4. CASE LeaderTry(k)
    <3>1. fd[k] = lockPath
      BY <2>1, <2>4 DEF LeaderTry, CalmLeader
    <3>2. /\ UNCHANGED <<lockPath, sock, srv, flock, pid>> /\ pc'[k] = "held"
          /\ \A q \in Procs \ {k} : pc'[q] = pc[q] /\ fd'[q] = fd[q]
      BY <1>0, <1>2, <2>4, <3>1, TrySettled DEF LeaderTry
    <3> QED
      BY <1>0, <1>2, <3>2, CalmStays DEF CalmLeader, StaysOrGoes
  <2>5. CASE LeaderHeld(k)
    <3>1. /\ UNCHANGED <<lockPath, sock, srv, flock, pid, fd>> /\ pc'[k] = "dead"
          /\ \A q \in Procs \ {k} : pc'[q] = pc[q]
      BY <1>0, <2>5 DEF LeaderHeld, files, Goto, Inv, TypeOK
    <3> QED
      BY <1>0, <1>2, <3>1, CalmStays DEF CalmLeader, StaysOrGoes
  <2>6. CASE LeaderCrash(k)
    <3>1. /\ UNCHANGED <<lockPath, sock, pid>> /\ srv' = [srv EXCEPT ![k] = "none"]
          /\ Close(k) /\ pc' = [pc EXCEPT ![k] = "dead"]
      BY <2>6 DEF LeaderCrash, Die, Gone, Goto
    <3>2. srv' = srv
      BY <2>1, <3>1 DEF Inv, TypeOK
    <3>3. flock'[lockPath] = flock[lockPath]
      BY <1>2, <3>1 DEF Close, Settled, Inv, TypeOK
    <3>4. pc'[k] = "dead" /\ \A q \in Procs \ {k} : pc'[q] = pc[q] /\ fd'[q] = fd[q]
      BY <1>0, <3>1 DEF Close, Inv, TypeOK
    <3> QED
      BY <1>0, <1>2, <3>1, <3>2, <3>3, <3>4, CalmStays DEF CalmLeader, StaysOrGoes
  <2> QED
    BY <2>2, <2>3, <2>4, <2>5, <2>6
<1> QED
  BY <1>1, <1>2

\* A client connects to a settled leader, waits for it, or, with a newer
\* version, kills it.
LEMMA ClientSettled ==
  ASSUME Inv, NEW l \in Leaders, Settled(l), NEW c \in Clients,
         ClientStep(c) \/ ClientCrash(c)
  PROVE  StaysOrGoes(l)
<1> USE ProcsAssumption
<1>0. /\ c \in Procs /\ l \in Procs /\ c # l /\ c \notin Leaders /\ sock # None
      /\ CalmClient(c) /\ lockPath \in Inodes
  BY DEF Procs, Inv, TypeOK, Settled, CalmClient
<1>m. ASSUME UNCHANGED <<lockPath, flock, pid, sock, fd, srv>>, NEW s, Goto(c, s),
             s \in {"start", "fast", "open", "connect", "wait", "refused", "done", "failed"}
      PROVE  StaysOrGoes(l)
  <2>1. pc'[c] = s /\ \A q \in Procs \ {c} : pc'[q] = pc[q]
    BY <1>0, <1>m DEF Goto, Inv, TypeOK
  <2> QED
    BY <1>0, <1>m, <2>1, CalmStays DEF CalmClient, StaysOrGoes
<1>1. CASE ClientLook(c)
  BY <1>1, <1>m DEF ClientLook, files
<1>2. CASE ClientAttach(c)
  BY <1>0, <1>2, CalmStays DEF ClientAttach, files, CalmClient, StaysOrGoes
<1>3. CASE ClientFast(c)
  BY <1>3, <1>m DEF ClientFast, files
<1>4. CASE ClientOpen(c)
  <2>1. /\ UNCHANGED <<lockPath, sock, srv, flock, pid>>
        /\ fd'[c] = lockPath /\ pc'[c] = "flock"
        /\ \A q \in Procs \ {c} : pc'[q] = pc[q] /\ fd'[q] = fd[q]
    BY <1>0, <1>4, OpenSettled DEF ClientOpen
  <2> QED
    BY <1>0, <2>1, CalmStays DEF CalmClient, StaysOrGoes
<1>5. CASE ClientFlock(c)
  <2>1. fd[c] = lockPath
    BY <1>0, <1>5 DEF ClientFlock, CalmClient
  <2>2. /\ UNCHANGED <<lockPath, sock, srv, flock, pid>> /\ pc'[c] = "wait"
        /\ \A q \in Procs \ {c} : pc'[q] = pc[q] /\ fd'[q] = fd[q]
    BY <1>0, <1>5, <2>1, TrySettled DEF ClientFlock
  <2> QED
    BY <1>0, <2>2, CalmStays DEF CalmClient, StaysOrGoes
<1>6. CASE ClientConnect(c)
  BY <1>6, <1>m DEF ClientConnect, files
<1>7. CASE ClientWait(c)
  <2>1. CASE Goto(c, "done") /\ UNCHANGED <<flock, fd, srv>>
    BY <1>7, <2>1, <1>m DEF ClientWait
  <2>2. CASE Vacate(c, "open") /\ BelowFloor(to[c])
    <3>1. CASE Goto(c, "open") /\ UNCHANGED <<flock, fd, srv>>
      BY <1>7, <3>1, <1>m DEF ClientWait
    <3>2. CASE PidAlive /\ pc' = [pc EXCEPT ![PidAtPath] = "dead", ![c] = "open"]
      <4>1. PidAtPath = l
        BY DEF PidAtPath, Settled
      <4>2. to[c] \in Leaders /\ pc[to[c]] = "lead"
        BY <1>7 DEF ClientWait, ConnectOk, Inv, TypeOK
      <4>3. to[c] = l
        BY <4>2 DEF Settled
      <4>4. pc'[l] = "dead"
        BY <1>0, <3>2, <4>1 DEF Inv, TypeOK
      <4> QED
        BY <2>2, <4>3, <4>4 DEF StaysOrGoes
    <3> QED
      BY <2>2, <3>1, <3>2 DEF Vacate
  <2> QED
    BY <1>7, <2>1, <2>2 DEF ClientWait
<1>8. CASE ClientRefused(c)
  BY <1>8, <1>m DEF ClientRefused, files
<1>9. CASE ClientWaitTimeout(c)
  BY <1>9, <1>m DEF ClientWaitTimeout, files
<1>10. CASE ClientCrash(c)
  <2>1. Close(c) /\ UNCHANGED <<lockPath, pid, sock, srv>> /\ pc' = [pc EXCEPT ![c] = "failed"]
    BY <1>10 DEF ClientCrash, Goto
  <2>2. flock'[lockPath] = flock[lockPath]
    BY <1>0, <2>1 DEF Close, Settled
  <2>3. pc'[c] = "failed" /\ \A q \in Procs \ {c} : pc'[q] = pc[q] /\ fd'[q] = fd[q]
    BY <1>0, <2>1 DEF Close, Inv, TypeOK
  <2> QED
    BY <1>0, <2>1, <2>2, <2>3, CalmStays DEF CalmClient, StaysOrGoes
<1>11. ~( \/ ClientRecheck(c) \/ ClientAdopt(c) \/ ClientEvict(c) \/ ClientEvicted(c)
          \/ ClientSpawn(c) \/ ClientReady(c) \/ ClientRelease(c))
  BY <1>0
  DEF CalmClient, ClientRecheck, ClientAdopt, ClientEvict, ClientEvicted, ClientSpawn,
      ClientReady, ClientRelease
<1> QED
  BY <1>1, <1>2, <1>3, <1>4, <1>5, <1>6, <1>7, <1>8, <1>9, <1>10, <1>11 DEF ClientStep

\* Once a leader is up with the lock and the socket and nobody is in the middle
\* of replacing it, no number of clients and leaders started by hand takes its
\* files: it goes by cancellation, by a crash, or killed by a newer client.
THEOREM SettledStaysCorrect == Spec => SettledStays
<1>1. ASSUME Inv, Next, NEW l \in Leaders, Settled(l)
      PROVE  StaysOrGoes(l)
  <2>1. \A p \in Procs : ~DropStep(p)
    <3> SUFFICES ASSUME NEW p \in Procs, DropStep(p) PROVE FALSE
      OBVIOUS
    <3>1. pc[p] \in Dropping
      BY DEF DropStep, DropLockPath, DropSockPath, DropClose, Dropping
    <3>2. p = l \/ p \in Leaders \ {l} \/ p \in Clients
      BY DEF Procs
    <3> QED
      BY <1>1, <3>1, <3>2 DEF Settled, Dropping
  <2> QED
    BY <1>1, <2>1, LeaderSettled, ClientSettled DEF Next
<1>2. Inv /\ [Next]_vars =>
        [\A l \in Leaders : Settled(l) =>
           \/ Settled(l)'
           \/ srv'[l] = "closing"
           \/ pc'[l] = "dead" /\ (BelowFloor(l) \/ events' > events)]_vars
  BY <1>1 DEF StaysOrGoes
<1> QED
  BY <1>2, InvHolds, PTL DEF Spec, SettledStays

=============================================================================
