--------------------------- MODULE AuthLockProofs ---------------------------
(***************************************************************************)
(* Proofs about the lock file, for every number of processes, tasks,       *)
(* inodes, abandoned threads, crashes and I/O errors: it is a lease.       *)
(*                                                                         *)
(* TypeOK alone is not inductive: that a release frees only the inode of   *)
(* the task needs Owned, that whoever has passed flock owns the inode.     *)
(***************************************************************************)
EXTENDS AuthLockLease, TLAPS

\* Who has passed flock and has not closed the file owns the inode's flock,
\* and one abandoned thread at most owns an inode.
Owned ==
  /\ \A t \in Tasks : lk[t].pc \in {"write", "stat", "held"} => flock[lk[t].fd] = t
  /\ \A h \in threads : h.got => flock[h.fd] = Thread
  /\ \A g, h \in threads : g.got /\ h.got /\ g.fd = h.fd => g = h

\* Only a trier is in an attempt without inode check.
OnceIsTrier == \A t \in Tasks : lk[t].ph = "once" => t \in Triers

LockInv == TypeOK /\ Owned /\ OnceIsTrier

Places == [pc : Steps, ph : Phases, fd : Inodes \union {NoIno}]

-----------------------------------------------------------------------------
(***************************************************************************)
(* The helpers.                                                            *)
(***************************************************************************)
LEMMA InodesNat == 0 \notin Inodes /\ NoIno \notin Inodes
  BY BoundsAssumption DEF Inodes, NoIno

\* Where an attempt goes next is a place, and keeps the file open only when it
\* was handed over to the guard.
LEMMA NextPlaces ==
  /\ Idle \in Places /\ Idle.pc = "idle" /\ Idle.ph = "p1" /\ Idle.fd = NoIno
  /\ \A i \in Inodes : /\ Held(i) \in Places
                       /\ Held(i).pc = "held" /\ Held(i).ph = "p1" /\ Held(i).fd = i
  /\ \A ph \in Phases : /\ Start(ph) \in Places
                        /\ Start(ph).pc = "open" /\ Start(ph).ph = ph /\ Start(ph).fd = NoIno
  BY DEF Idle, Held, Start, Places, Steps, Phases

LEMMA LostPlaces ==
  ASSUME NEW ph \in Phases, NEW x \in {Retry(ph), GiveUp(ph)}
  PROVE  x \in Places /\ x.pc \in {"idle", "open"} /\ x.fd = NoIno /\ x.ph # "once"
<1>1. x = Idle \/ x = Start("p2") \/ x = Start("p4")
  BY DEF Retry, GiveUp, Phases
<1>2. "p2" \in Phases /\ "p4" \in Phases /\ "p2" # "once" /\ "p4" # "once" /\ "p1" # "once"
  BY DEF Phases
<1> QED
  BY <1>1, <1>2, NextPlaces

\* The content of a freed inode is blank, that of the others is kept.
LEMMA SetInfoType ==
  ASSUME NEW f \in [Inodes -> Infos], SetInfo(f)
  PROVE  info' \in [Inodes -> Infos]
<1>1. Blank \in Infos
  BY DEF Blank, Infos
<1> QED
  BY <1>1 DEF SetInfo

\* A task moves to a place that owns nothing it did not own before.
LEMMA MoveType ==
  ASSUME TypeOK, NEW t \in Tasks, NEW x \in Places,
         x.pc \in {"idle", "open"} <=> x.fd = NoIno,
         lk' = [lk EXCEPT ![t] = x]
  PROVE  /\ lk' \in [Tasks -> Places]
         /\ lk'[t] = x
         /\ \A s \in Tasks : s # t => lk'[s] = lk[s]
         /\ \A s \in Tasks : lk'[s].pc \in {"idle", "open"} <=> lk'[s].fd = NoIno
<1>1. lk \in [Tasks -> Places]
  BY DEF TypeOK, Places
<1>2. lk' \in [Tasks -> Places] /\ lk'[t] = x /\ \A s \in Tasks : s # t => lk'[s] = lk[s]
  BY <1>1
<1> QED
  BY <1>2 DEF TypeOK

-----------------------------------------------------------------------------
LEMMA InitInv == Init => LockInv
<1> SUFFICES ASSUME Init PROVE LockInv
  OBVIOUS
<1>1. lk \in [Tasks -> Places] /\ \A t \in Tasks : lk[t].pc = "idle" /\ lk[t].fd = NoIno /\ lk[t].ph # "once"
  BY NextPlaces DEF Init
<1>2. Blank \in Infos
  BY DEF Blank, Infos
<1>3. TypeOK
  BY <1>1, <1>2, BoundsAssumption DEF Init, TypeOK, Places
<1>4. Owned /\ OnceIsTrier
  BY <1>1 DEF Init, Owned, OnceIsTrier
<1> QED
  BY <1>3, <1>4 DEF LockInv

(***************************************************************************)
(* A step of one task that changes its own place only: enough to look at   *)
(* the new place.                                                          *)
(***************************************************************************)
LEMMA MovePreserves ==
  ASSUME LockInv, NEW t \in Tasks, NEW x \in Places,
         lk' = [lk EXCEPT ![t] = x],
         x.pc \in {"idle", "open"} <=> x.fd = NoIno,
         x.ph = "once" => t \in Triers,
         x.pc \in {"write", "stat", "held"} => flock'[x.fd] = t,
         flock' \in [Inodes -> Tasks \union {Nobody, Thread}],
         \A i \in Inodes : flock'[i] = flock[i] \/ flock[i] \in {t, Nobody},
         \A i \in Inodes : flock'[i] \in {flock[i], t, Nobody},
         path' \in Inodes \union {NoIno}, info' \in [Inodes -> Infos],
         threads' = threads, faults' \in 0..MaxFaults
  PROVE  LockInv'
<1>1. /\ lk' \in [Tasks -> Places] /\ lk'[t] = x
      /\ \A s \in Tasks : s # t => lk'[s] = lk[s]
      /\ \A s \in Tasks : lk'[s].pc \in {"idle", "open"} <=> lk'[s].fd = NoIno
  BY MoveType DEF LockInv
<1>2. TypeOK'
  BY <1>1 DEF LockInv, TypeOK, Places
<1>3. \A s \in Tasks : lk'[s].pc \in {"write", "stat", "held"} => flock'[lk'[s].fd] = s
  <2> SUFFICES ASSUME NEW s \in Tasks, lk'[s].pc \in {"write", "stat", "held"}, s # t
               PROVE  flock'[lk'[s].fd] = s
    BY <1>1
  <2>1. lk'[s] = lk[s] /\ flock[lk[s].fd] = s /\ lk[s].fd \in Inodes
    BY <1>1 DEF LockInv, Owned, TypeOK
  <2> QED
    BY <2>1, TasksAssumption
<1>4. \A h \in threads' : h.got => flock'[h.fd] = Thread
  BY TasksAssumption DEF LockInv, Owned, TypeOK
<1>5. OnceIsTrier'
  BY <1>1 DEF LockInv, OnceIsTrier
<1> QED
  BY <1>2, <1>3, <1>4, <1>5 DEF LockInv, Owned

LEMMA BeginInv == ASSUME LockInv, NEW t \in Tasks, Begin(t) PROVE LockInv'
<1>1. PICK ph \in Phases : lk' = [lk EXCEPT ![t] = Start(ph)] /\ (ph = "once" => t \in Triers)
  BY DEF Begin, Phases
<1>2. UNCHANGED <<path, flock, info, threads, faults>>
  BY DEF Begin
<1>3. /\ Start(ph) \in Places /\ (Start(ph).pc \in {"idle", "open"} <=> Start(ph).fd = NoIno)
      /\ Start(ph).ph = "once" => t \in Triers
      /\ Start(ph).pc \in {"write", "stat", "held"} => flock'[Start(ph).fd] = t
  BY <1>1, NextPlaces
<1>4. UNCHANGED <<path, flock, info, threads, faults>> => LockInv'
  BY <1>1, <1>3, MovePreserves DEF LockInv, TypeOK
<1> QED
  BY <1>2, <1>4

LEMMA OpenInv == ASSUME LockInv, NEW t \in Tasks, Open(t) PROVE LockInv'
<1>1. PICK i \in Inodes : /\ lk' = [lk EXCEPT ![t].pc = "flock", ![t].fd = i]
                          /\ path' = i
  BY DEF Open, LockInv, TypeOK
<1>2. UNCHANGED <<flock, info, threads, faults>>
  BY DEF Open
<1> DEFINE x == [lk[t] EXCEPT !.pc = "flock", !.fd = i]
<1>3. x \in Places /\ x.pc = "flock" /\ x.fd = i /\ x.ph = lk[t].ph
  BY DEF LockInv, TypeOK, Places, Steps
<1>4. lk' = [lk EXCEPT ![t] = x]
  BY <1>1 DEF LockInv, TypeOK
<1> HIDE DEF x
<1> QED
  BY <1>1, <1>2, <1>3, <1>4, MovePreserves, InodesNat DEF LockInv, TypeOK, OnceIsTrier

LEMMA FlockInv == ASSUME LockInv, NEW t \in Tasks, Flock(t) PROVE LockInv'
<1> DEFINE at(pc) == [lk[t] EXCEPT !.pc = pc]
<1>1. /\ lk[t].fd \in Inodes /\ lk[t].pc = "flock"
      /\ UNCHANGED <<path, threads, faults>> /\ info' \in [Inodes -> Infos]
  BY SetInfoType DEF Flock, LockInv, TypeOK
<1>2. \A pc \in Steps : /\ at(pc) \in Places /\ at(pc).pc = pc
                        /\ at(pc).fd = lk[t].fd /\ at(pc).ph = lk[t].ph
  BY DEF LockInv, TypeOK, Places
<1>3. \A pc : Goto(t, pc) => lk' = [lk EXCEPT ![t] = at(pc)]
  BY DEF Goto, LockInv, TypeOK
<1>4. "write" \in Steps /\ "judge" \in Steps
  BY DEF Steps
<1> HIDE DEF at
<1>5. CASE flock[lk[t].fd] = Nobody
  <2>1. flock' = [flock EXCEPT ![lk[t].fd] = t] /\ lk' = [lk EXCEPT ![t] = at("write")]
    BY <1>3, <1>5 DEF Flock
  <2>2. /\ flock' \in [Inodes -> Tasks \union {Nobody, Thread}] /\ flock'[lk[t].fd] = t
        /\ \A i \in Inodes : flock'[i] = flock[i] \/ flock[i] \in {t, Nobody}
        /\ \A i \in Inodes : flock'[i] \in {flock[i], t, Nobody}
    BY <1>1, <1>5, <2>1 DEF LockInv, TypeOK
  <2> QED
    BY <1>1, <1>2, <1>4, <2>1, <2>2, MovePreserves, InodesNat DEF LockInv, TypeOK, OnceIsTrier
<1>6. CASE flock[lk[t].fd] # Nobody
  <2>1. PICK x \in {at("judge"), Idle} : UNCHANGED flock /\ lk' = [lk EXCEPT ![t] = x]
    BY <1>3, <1>6 DEF Flock
  <2>2. /\ x \in Places /\ (x.pc \in {"idle", "open"} <=> x.fd = NoIno)
        /\ x.ph = "once" => t \in Triers
        /\ x.pc \in {"write", "stat", "held"} => flock'[x.fd] = t
    BY <1>1, <1>2, <1>4, <2>1, NextPlaces, InodesNat DEF LockInv, OnceIsTrier
  <2> QED
    BY <1>1, <2>1, <2>2, MovePreserves DEF LockInv, TypeOK
<1> QED
  BY <1>5, <1>6

LEMMA WriteInfoInv == ASSUME LockInv, NEW t \in Tasks, WriteInfo(t) PROVE LockInv'
<1> DEFINE x == [lk[t] EXCEPT !.pc = "stat"]
<1>1. /\ lk[t].fd \in Inodes /\ flock[lk[t].fd] = t /\ lk[t].pc = "write"
      /\ UNCHANGED <<path, flock, threads>>
  BY DEF WriteInfo, LockInv, TypeOK, Owned
<1>2. faults' \in 0..MaxFaults
  BY BoundsAssumption DEF WriteInfo, LockInv, TypeOK
<1>3. info' \in [Inodes -> Infos]
  <2>1. Blank \in Infos /\ [by |-> ProcOf[t], old |-> FALSE] \in Infos
    BY TasksAssumption DEF Blank, Infos
  <2> QED
    BY <1>1, <2>1 DEF WriteInfo, LockInv, TypeOK
<1>4. x \in Places /\ x.pc = "stat" /\ x.fd = lk[t].fd /\ x.ph = lk[t].ph
  BY DEF LockInv, TypeOK, Places, Steps
<1>5. PICK y \in {x, Held(lk[t].fd)} : lk' = [lk EXCEPT ![t] = y]
  BY DEF WriteInfo, Goto, LockInv, TypeOK
<1> HIDE DEF x
<1>6. /\ y \in Places /\ (y.pc \in {"idle", "open"} <=> y.fd = NoIno)
      /\ y.ph = "once" => t \in Triers
      /\ y.pc \in {"write", "stat", "held"} => flock'[y.fd] = t
  BY <1>1, <1>4, <1>5, NextPlaces, InodesNat DEF LockInv, OnceIsTrier
<1> QED
  BY <1>1, <1>2, <1>3, <1>5, <1>6, MovePreserves DEF LockInv, TypeOK

LEMMA InodesMatchInv == ASSUME LockInv, NEW t \in Tasks, InodesMatch(t) PROVE LockInv'
<1>1. /\ lk[t].fd \in Inodes /\ flock[lk[t].fd] = t /\ lk[t].pc = "stat" /\ lk[t].ph \in Phases
      /\ UNCHANGED <<path, threads, faults>> /\ info' \in [Inodes -> Infos]
  BY SetInfoType DEF InodesMatch, LockInv, TypeOK, Owned
<1>2. CASE lk[t].fd = path
  <2>1. lk' = [lk EXCEPT ![t] = Held(lk[t].fd)] /\ UNCHANGED flock
    BY <1>2 DEF InodesMatch
  <2> DEFINE x == Held(lk[t].fd)
  <2>2. /\ x \in Places /\ (x.pc \in {"idle", "open"} <=> x.fd = NoIno)
        /\ x.ph = "once" => t \in Triers
        /\ x.pc \in {"write", "stat", "held"} => flock'[x.fd] = t
    BY <1>1, <2>1, NextPlaces, InodesNat
  <2>3. lk' = [lk EXCEPT ![t] = x]
    BY <2>1
  <2> HIDE DEF x
  <2> QED
    BY <1>1, <2>1, <2>2, <2>3, MovePreserves DEF LockInv, TypeOK
<1>3. CASE lk[t].fd # path
  <2>1. lk' = [lk EXCEPT ![t] = Retry(lk[t].ph)] /\ flock' = [flock EXCEPT ![lk[t].fd] = Nobody]
    BY <1>3 DEF InodesMatch
  <2>2. /\ flock' \in [Inodes -> Tasks \union {Nobody, Thread}]
        /\ \A i \in Inodes : flock'[i] = flock[i] \/ flock[i] \in {t, Nobody}
        /\ \A i \in Inodes : flock'[i] \in {flock[i], t, Nobody}
    BY <1>1, <2>1 DEF LockInv, TypeOK
  <2> QED
    BY <1>1, <2>1, <2>2, MovePreserves, LostPlaces, InodesNat DEF LockInv, TypeOK
<1> QED
  BY <1>2, <1>3

LEMMA IsHolderStaleInv == ASSUME LockInv, NEW t \in Tasks, IsHolderStale(t) PROVE LockInv'
<1> DEFINE x == [lk[t] EXCEPT !.pc = "unlink"]
<1>1. /\ lk[t].fd \in Inodes /\ lk[t].pc = "judge" /\ lk[t].ph \in Phases
      /\ UNCHANGED <<path, flock, threads, faults>> /\ info' \in [Inodes -> Infos]
  BY SetInfoType DEF IsHolderStale, LockInv, TypeOK
<1>2. x \in Places /\ x.pc = "unlink" /\ x.fd = lk[t].fd /\ x.ph = lk[t].ph
  BY DEF LockInv, TypeOK, Places, Steps
<1>3. PICK y \in {x, GiveUp(lk[t].ph)} : lk' = [lk EXCEPT ![t] = y]
  BY DEF IsHolderStale, LockInv, TypeOK
<1> HIDE DEF x
<1>4. /\ y \in Places /\ (y.pc \in {"idle", "open"} <=> y.fd = NoIno)
      /\ y.ph = "once" => t \in Triers
      /\ y.pc \in {"write", "stat", "held"} => flock'[y.fd] = t
  BY <1>1, <1>2, <1>3, LostPlaces, InodesNat DEF LockInv, OnceIsTrier
<1> QED
  BY <1>1, <1>3, <1>4, MovePreserves DEF LockInv, TypeOK

LEMMA RemoveFileInv == ASSUME LockInv, NEW t \in Tasks, RemoveFile(t) PROVE LockInv'
<1>1. /\ lk[t].ph \in Phases /\ path' = NoIno
      /\ UNCHANGED <<flock, threads, faults>> /\ info' \in [Inodes -> Infos]
  BY SetInfoType DEF RemoveFile, LockInv, TypeOK
<1>2. PICK y \in {Retry(lk[t].ph), GiveUp(lk[t].ph)} : lk' = [lk EXCEPT ![t] = y]
  BY DEF RemoveFile
<1>3. /\ y \in Places /\ (y.pc \in {"idle", "open"} <=> y.fd = NoIno)
      /\ y.ph = "once" => t \in Triers
      /\ y.pc \in {"write", "stat", "held"} => flock'[y.fd] = t
  BY <1>1, <1>2, LostPlaces
<1> QED
  BY <1>1, <1>2, <1>3, MovePreserves DEF LockInv, TypeOK

LEMMA ReleaseInv == ASSUME LockInv, NEW t \in Tasks, Release(t) PROVE LockInv'
<1>1. /\ lk[t].fd \in Inodes /\ flock[lk[t].fd] = t
      /\ UNCHANGED <<path, threads, faults>> /\ info' \in [Inodes -> Infos]
      /\ lk' = [lk EXCEPT ![t] = Idle] /\ flock' = [flock EXCEPT ![lk[t].fd] = Nobody]
  BY SetInfoType DEF Release, LockInv, TypeOK, Owned
<1>2. /\ flock' \in [Inodes -> Tasks \union {Nobody, Thread}]
      /\ \A i \in Inodes : flock'[i] = flock[i] \/ flock[i] \in {t, Nobody}
      /\ \A i \in Inodes : flock'[i] \in {flock[i], t, Nobody}
  BY <1>1 DEF LockInv, TypeOK
<1> QED
  BY <1>1, <1>2, MovePreserves, NextPlaces DEF LockInv, TypeOK

LEMMA IoErrorInv == ASSUME LockInv, NEW t \in Tasks, IoError(t) PROVE LockInv'
<1>1. /\ lk[t].ph \in Phases /\ faults' \in 0..MaxFaults
      /\ UNCHANGED <<path, flock, threads>> /\ info' \in [Inodes -> Infos]
  BY SetInfoType, BoundsAssumption DEF IoError, LockInv, TypeOK
<1>2. PICK y \in {GiveUp(lk[t].ph), Start("p2"), Idle} : lk' = [lk EXCEPT ![t] = y]
  BY DEF IoError
<1>3. "p2" \in Phases /\ "p2" # "once" /\ "p1" # "once"
  BY DEF Phases
<1>4. /\ y \in Places /\ (y.pc \in {"idle", "open"} <=> y.fd = NoIno)
      /\ y.ph = "once" => t \in Triers
      /\ y.pc \in {"write", "stat", "held"} => flock'[y.fd] = t
  BY <1>1, <1>2, <1>3, LostPlaces, NextPlaces
<1> QED
  BY <1>1, <1>2, <1>4, MovePreserves DEF LockInv, TypeOK

\* The task that ran into the deadline starts over; what its thread still has
\* flocked is the thread's.
LEMMA DeadlineInv == ASSUME LockInv, NEW t \in Tasks, Deadline(t) PROVE LockInv'
<1>1. /\ lk' = [lk EXCEPT ![t] = Start("p3")] /\ UNCHANGED <<path, faults>>
      /\ info' \in [Inodes -> Infos]
  BY SetInfoType DEF Deadline, LockInv, TypeOK
<1>2. "p3" \in Phases /\ "p3" # "once"
  BY DEF Phases
<1>3. /\ lk' \in [Tasks -> Places] /\ lk'[t] = Start("p3")
      /\ \A s \in Tasks : s # t => lk'[s] = lk[s]
      /\ \A s \in Tasks : lk'[s].pc \in {"idle", "open"} <=> lk'[s].fd = NoIno
      /\ lk'[t].pc = "open" /\ lk'[t].ph = "p3"
  <2>1. /\ Start("p3") \in Places /\ Start("p3").pc = "open"
        /\ Start("p3").fd = NoIno /\ Start("p3").ph = "p3"
    BY <1>2, NextPlaces
  <2> HIDE DEF Start
  <2> QED
    BY <1>1, <2>1, MoveType DEF LockInv
<1>4. OnceIsTrier'
  BY <1>2, <1>3 DEF LockInv, OnceIsTrier
<1>5. CASE UNCHANGED <<threads, flock>>
  <2>1. TypeOK'
    BY <1>1, <1>3, <1>5 DEF LockInv, TypeOK, Places
  <2>2. Owned'
    BY <1>3, <1>5 DEF LockInv, Owned
  <2> QED
    BY <1>4, <2>1, <2>2 DEF LockInv
<1>6. ASSUME NEW got \in BOOLEAN, lk[t].fd \in Inodes, lk[t].pc # "held",
             threads' = threads \union {[task |-> t, fd |-> lk[t].fd, got |-> got]},
             got => flock[lk[t].fd] = t /\ flock' = [flock EXCEPT ![lk[t].fd] = Thread],
             ~got => flock' = flock
      PROVE  LockInv'
  <2> DEFINE n == [task |-> t, fd |-> lk[t].fd, got |-> got]
  <2>1. n \in [task : Tasks, fd : Inodes, got : BOOLEAN] /\ n.fd = lk[t].fd /\ n.got = got
    BY <1>6
  <2>2. threads' = threads \union {n}
    BY <1>6
  <2> HIDE DEF n
  <2>3. /\ flock' \in [Inodes -> Tasks \union {Nobody, Thread}]
        /\ \A i \in Inodes : flock'[i] = flock[i] \/ (got /\ i = lk[t].fd /\ flock[i] = t /\ flock'[i] = Thread)
        /\ got => flock'[lk[t].fd] = Thread
    BY <1>6 DEF LockInv, TypeOK
  <2>4. TypeOK'
    BY <1>1, <1>3, <2>1, <2>2, <2>3 DEF LockInv, TypeOK, Places
  <2>5. \A s \in Tasks : lk'[s].pc \in {"write", "stat", "held"} => flock'[lk'[s].fd] = s
    <3> SUFFICES ASSUME NEW s \in Tasks, lk'[s].pc \in {"write", "stat", "held"}
                 PROVE  flock'[lk'[s].fd] = s
      OBVIOUS
    <3>1. s # t /\ lk'[s] = lk[s] /\ flock[lk[s].fd] = s /\ lk[s].fd \in Inodes
      BY <1>3 DEF LockInv, Owned, TypeOK
    <3> QED
      BY <2>3, <3>1
  <2>6. \A h \in threads : h.got => h.fd \in Inodes /\ flock[h.fd] = Thread /\ flock'[h.fd] = Thread
    BY <2>3, TasksAssumption DEF LockInv, Owned, TypeOK
  <2>7. \A h \in threads' : h.got => flock'[h.fd] = Thread
    BY <2>1, <2>2, <2>3, <2>6
  <2>8. \A h \in threads : ~(h.got /\ got /\ h.fd = lk[t].fd)
    BY <1>6, <2>6, TasksAssumption
  <2>9. \A g, h \in threads' : g.got /\ h.got /\ g.fd = h.fd => g = h
    BY <2>1, <2>2, <2>8 DEF LockInv, Owned
  <2> QED
    BY <1>4, <2>4, <2>5, <2>7, <2>9 DEF LockInv, Owned
<1>7. CASE lk[t].pc = "flock" /\ Abandon(t, FALSE) /\ UNCHANGED flock
  <2>1. lk[t].fd \in Inodes
    BY <1>7 DEF LockInv, TypeOK
  <2> QED
    BY <1>5, <1>6, <1>7, <2>1 DEF Abandon
<1>8. CASE /\ lk[t].pc = "stat" /\ Cardinality(threads) < MaxThreads /\ Abandon(t, TRUE)
           /\ flock' = [flock EXCEPT ![lk[t].fd] = Thread]
  <2>1. lk[t].fd \in Inodes /\ flock[lk[t].fd] = t
    BY <1>8 DEF LockInv, TypeOK, Owned
  <2> QED
    BY <1>6, <1>8, <2>1 DEF Abandon
<1> QED
  BY <1>5, <1>7, <1>8 DEF Deadline

LEMMA ThreadLocksInv == ASSUME LockInv, NEW h \in threads, ThreadLocks(h) PROVE LockInv'
<1> DEFINE n == [h EXCEPT !.got = TRUE]
<1>1. /\ h \in [task : Tasks, fd : Inodes, got : BOOLEAN] /\ ~h.got /\ flock[h.fd] = Nobody
      /\ UNCHANGED <<path, lk, faults>>
      /\ flock' = [flock EXCEPT ![h.fd] = Thread] /\ threads' = (threads \ {h}) \union {n}
  BY DEF ThreadLocks, LockInv, TypeOK
<1>2. n \in [task : Tasks, fd : Inodes, got : BOOLEAN] /\ n.fd = h.fd /\ n.got
  BY <1>1
<1>3. info' \in [Inodes -> Infos]
  <2>1. [by |-> ProcOf[h.task], old |-> FALSE] \in Infos
    BY <1>1, TasksAssumption DEF Infos
  <2> QED
    BY <2>1 DEF ThreadLocks, LockInv, TypeOK
<1> HIDE DEF n
<1>4. TypeOK'
  BY <1>1, <1>2, <1>3 DEF LockInv, TypeOK
<1>5. \A i \in Inodes : flock'[i] = IF i = h.fd THEN Thread ELSE flock[i]
  BY <1>1 DEF LockInv, TypeOK
<1>6. \A s \in Tasks : lk'[s].pc \in {"write", "stat", "held"} => flock'[lk'[s].fd] = s
  <2> SUFFICES ASSUME NEW s \in Tasks, lk[s].pc \in {"write", "stat", "held"}
               PROVE  flock'[lk[s].fd] = s
    BY <1>1
  <2>1. flock[lk[s].fd] = s /\ lk[s].fd \in Inodes
    BY DEF LockInv, Owned, TypeOK
  <2> QED
    BY <1>1, <1>5, <2>1, TasksAssumption
<1>7. \A g \in threads : g.got => g.fd \in Inodes /\ flock[g.fd] = Thread /\ g.fd # h.fd
  BY <1>1, TasksAssumption DEF LockInv, Owned, TypeOK
<1>8. \A g \in threads' : g.got => flock'[g.fd] = Thread
  BY <1>1, <1>2, <1>5, <1>7
<1>9. \A f, g \in threads' : f.got /\ g.got /\ f.fd = g.fd => f = g
  BY <1>1, <1>2, <1>7 DEF LockInv, Owned
<1> QED
  BY <1>1, <1>4, <1>6, <1>8, <1>9 DEF LockInv, Owned, OnceIsTrier

LEMMA ThreadDropsInv == ASSUME LockInv, NEW h \in threads, ThreadDrops(h) PROVE LockInv'
<1>1. /\ h.fd \in Inodes /\ h.got /\ flock[h.fd] = Thread
      /\ UNCHANGED <<path, lk, faults>> /\ info' \in [Inodes -> Infos]
      /\ flock' = [flock EXCEPT ![h.fd] = Nobody] /\ threads' = threads \ {h}
  BY SetInfoType DEF ThreadDrops, LockInv, TypeOK, Owned
<1>2. TypeOK'
  BY <1>1 DEF LockInv, TypeOK
<1>3. \A i \in Inodes : flock'[i] = IF i = h.fd THEN Nobody ELSE flock[i]
  BY <1>1 DEF LockInv, TypeOK
<1>4. \A s \in Tasks : lk'[s].pc \in {"write", "stat", "held"} => flock'[lk'[s].fd] = s
  <2> SUFFICES ASSUME NEW s \in Tasks, lk[s].pc \in {"write", "stat", "held"}
               PROVE  flock'[lk[s].fd] = s
    BY <1>1
  <2>1. flock[lk[s].fd] = s /\ lk[s].fd \in Inodes
    BY DEF LockInv, Owned, TypeOK
  <2> QED
    BY <1>1, <1>3, <2>1, TasksAssumption
<1>5. \A g \in threads' : g.got => flock'[g.fd] = Thread
  BY <1>1, <1>3 DEF LockInv, Owned, TypeOK
<1> QED
  BY <1>1, <1>2, <1>4, <1>5 DEF LockInv, Owned, OnceIsTrier

LEMMA GrowOldInv == ASSUME LockInv, NEW i \in Inodes, GrowOld(i) PROVE LockInv'
<1>1. UNCHANGED <<path, flock, lk, threads, faults>> /\ info' \in [Inodes -> Infos]
  BY DEF GrowOld, LockInv, TypeOK, Infos
<1> QED
  BY <1>1 DEF LockInv, TypeOK, Owned, OnceIsTrier

\* The death of a process frees what its tasks and threads had flocked, and
\* nothing else.
LEMMA CrashInv == ASSUME LockInv, NEW p \in Procs, Crash(p) PROVE LockInv'
<1> DEFINE gone == {h \in threads : ProcOf[h.task] = p}
           f == [i \in Inodes |-> IF info[i].by = p THEN [info[i] EXCEPT !.by = "dead"] ELSE info[i]]
<1>1. /\ threads' = threads \ gone /\ path' = path /\ SetInfo(f)
      /\ flock' = [i \in Inodes |-> IF \/ flock[i] \in Tasks /\ ProcOf[flock[i]] = p
                                       \/ \E h \in gone : h.fd = i /\ h.got
                                    THEN Nobody ELSE flock[i]]
      /\ lk' = [t \in Tasks |-> IF ProcOf[t] = p THEN Idle ELSE lk[t]]
      /\ faults' \in 0..MaxFaults
  BY BoundsAssumption DEF Crash, LockInv, TypeOK
<1>2. info' \in [Inodes -> Infos]
  <2>1. f \in [Inodes -> Infos]
    BY DEF LockInv, TypeOK, Infos
  <2> HIDE DEF f
  <2> QED
    BY <1>1, <2>1, SetInfoType
<1> HIDE DEF f
<1>3. /\ lk' \in [Tasks -> Places]
      /\ \A t \in Tasks : /\ lk'[t].pc \in {"idle", "open"} <=> lk'[t].fd = NoIno
                          /\ lk'[t].ph = "once" => t \in Triers
                          /\ lk'[t].pc # "idle" => lk'[t] = lk[t] /\ ProcOf[t] # p
  BY <1>1, NextPlaces DEF LockInv, TypeOK, Places, OnceIsTrier
<1>4. flock' \in [Inodes -> Tasks \union {Nobody, Thread}]
  BY <1>1 DEF LockInv, TypeOK
<1>5. TypeOK' /\ OnceIsTrier'
  BY <1>1, <1>2, <1>3, <1>4 DEF LockInv, TypeOK, Places, OnceIsTrier
<1>6. \A t \in Tasks : lk'[t].pc \in {"write", "stat", "held"} => flock'[lk'[t].fd] = t
  <2> SUFFICES ASSUME NEW t \in Tasks, lk'[t].pc \in {"write", "stat", "held"}
               PROVE  flock'[lk'[t].fd] = t
    OBVIOUS
  <2>1. lk'[t] = lk[t] /\ ProcOf[t] # p /\ flock[lk[t].fd] = t /\ lk[t].fd \in Inodes
    BY <1>3 DEF LockInv, Owned, TypeOK
  <2>2. \A h \in gone : ~(h.fd = lk[t].fd /\ h.got)
    BY <2>1, TasksAssumption DEF LockInv, Owned
  <2> HIDE DEF gone
  <2> QED
    BY <1>1, <2>1, <2>2
<1>7. \A h \in threads' : h.got => flock'[h.fd] = Thread
  <2> SUFFICES ASSUME NEW h \in threads', h.got PROVE flock'[h.fd] = Thread
    OBVIOUS
  <2>1. h \in threads /\ h \notin gone /\ flock[h.fd] = Thread /\ h.fd \in Inodes
    BY <1>1 DEF LockInv, Owned, TypeOK
  <2>2. \A g \in gone : ~(g.fd = h.fd /\ g.got)
    BY <2>1 DEF LockInv, Owned
  <2> HIDE DEF gone
  <2> QED
    BY <1>1, <2>1, <2>2, TasksAssumption
<1> QED
  BY <1>1, <1>5, <1>6, <1>7 DEF LockInv, Owned

LEMMA NextInv == LockInv /\ [Next]_vars => LockInv'
<1> SUFFICES ASSUME LockInv, [Next]_vars PROVE LockInv'
  OBVIOUS
<1>1. CASE UNCHANGED vars
  BY <1>1 DEF vars, LockInv, TypeOK, Owned, OnceIsTrier
<1>2. ASSUME NEW t \in Tasks,
             \/ Begin(t) \/ Open(t) \/ Flock(t) \/ WriteInfo(t) \/ InodesMatch(t)
             \/ IsHolderStale(t) \/ RemoveFile(t) \/ Deadline(t) \/ Release(t) \/ IoError(t)
      PROVE  LockInv'
  BY <1>2, BeginInv, OpenInv, FlockInv, WriteInfoInv, InodesMatchInv, IsHolderStaleInv,
     RemoveFileInv, DeadlineInv, ReleaseInv, IoErrorInv
<1>3. ASSUME NEW h \in threads, ThreadLocks(h) \/ ThreadDrops(h) PROVE LockInv'
  BY <1>3, ThreadLocksInv, ThreadDropsInv
<1> QED
  BY <1>1, <1>2, <1>3, GrowOldInv, CrashInv DEF Next

\* The lock file is well typed and every guard owns its inode, in every reachable
\* state (try_acquire_once, blocking_acquire).
THEOREM LockFileInvariant == Spec => []LockInv
  BY InitInv, NextInv, PTL DEF Spec

\* The type invariant of the lock file.
THEOREM LockFileTyped == Spec => []TypeOK
<1>1. LockInv => TypeOK
  BY DEF LockInv
<1> QED
  BY <1>1, LockFileInvariant, PTL

-----------------------------------------------------------------------------
(***************************************************************************)
(* The refinement.  A live guard owns the inode the path names, so there   *)
(* is one at most and Live is it.                                          *)
(***************************************************************************)
LiveIsUnique ==
  /\ Live \in Tasks \union {Nobody}
  /\ \A t \in Tasks : Live = t <=> lk[t].pc = "held" /\ lk[t].fd = path

LEMMA LiveIs == LockInv => LiveIsUnique
<1> SUFFICES ASSUME LockInv PROVE LiveIsUnique
  OBVIOUS
<1>1. \A t \in Tasks : t \in LiveHolders <=> lk[t].pc = "held" /\ lk[t].fd = path
  BY DEF LiveHolders, Holders
<1>2. LiveHolders \subseteq Tasks
  BY DEF LiveHolders, Holders
<1>3. \A s, t \in LiveHolders : s = t
  BY <1>1, <1>2 DEF LockInv, Owned
<1>4. CASE LiveHolders = {}
  BY <1>1, <1>4, TasksAssumption DEF Live, LiveIsUnique
<1>5. CASE LiveHolders # {}
  <2>1. Live \in LiveHolders
    BY <1>5 DEF Live
  <2> QED
    BY <1>1, <1>2, <1>3, <2>1 DEF LiveIsUnique
<1> QED
  BY <1>4, <1>5

LEMMA LiveIsPrimed == LockInv' => LiveIsUnique'
  BY LiveIs, PTL

\* Whatever leaves the held places and the path alone is invisible to the lease.
LEMMA LeaseStutters ==
  ASSUME LockInv, LockInv', path' = path,
         \A t \in Tasks : lk[t].pc = "held" \/ lk'[t].pc = "held" => lk'[t] = lk[t]
  PROVE  UNCHANGED Lease!leaseVars
<1>1. Holders' = Holders
  BY DEF Holders
<1>2. LiveIsUnique /\ LiveIsUnique'
  BY LiveIs, LiveIsPrimed
<1>3. Live' = Live
  BY <1>2, TasksAssumption DEF LiveIsUnique
<1> QED
  BY <1>1, <1>3 DEF Lease!leaseVars

\* A task whose guard becomes live found the path's inode free of live guards.
LEMMA GuardGained ==
  ASSUME LockInv, LockInv', path' = path, NEW t \in Tasks,
         lk[t].pc \in {"write", "stat"}, lk' = [lk EXCEPT ![t] = Held(lk[t].fd)],
         lk[t].fd = path \/ t \in Triers
  PROVE  Lease!LeaseNext
<1>1. LiveIsUnique /\ LiveIsUnique'
  BY LiveIs, LiveIsPrimed
<1>2. lk[t].fd \in Inodes /\ flock[lk[t].fd] = t
  BY DEF LockInv, TypeOK, Owned
<1>3. /\ lk'[t].pc = "held" /\ lk'[t].fd = lk[t].fd
      /\ \A s \in Tasks : s # t => lk'[s] = lk[s]
  <2>1. Held(lk[t].fd).pc = "held" /\ Held(lk[t].fd).fd = lk[t].fd
    BY <1>2, NextPlaces
  <2> QED
    BY <2>1 DEF LockInv, TypeOK
<1>4. t \notin Holders /\ Holders' = Holders \union {t}
  BY <1>3 DEF Holders
<1>5. CASE lk[t].fd = path
  <2>1. Live' = t
    BY <1>1, <1>3, <1>5 DEF LiveIsUnique
  <2>2. Live = Nobody
    <3>1. \A s \in Tasks : Live # s
      BY <1>1, <1>2, <1>5 DEF LiveIsUnique, LockInv, Owned
    <3> QED
      BY <1>1, <3>1 DEF LiveIsUnique
  <2>3. Lease!Acquire(t)
    BY <1>4, <2>1, <2>2 DEF Lease!Acquire
  <2> QED
    BY <2>3 DEF Lease!LeaseNext
<1>6. CASE lk[t].fd # path /\ t \in Triers
  <2>1. Live' = Live
    BY <1>1, <1>3, <1>6, TasksAssumption DEF LiveIsUnique
  <2>2. Lease!Join(t)
    BY <1>4, <2>1 DEF Lease!Join
  <2> QED
    BY <1>6, <2>2 DEF Lease!LeaseNext
<1> QED
  BY <1>5, <1>6

\* The guards of C are dropped and nothing else changes for the lease.
LEMMA GuardsDropped ==
  ASSUME LockInv, LockInv', path' = path, NEW C \in SUBSET Tasks,
         \A t \in C : lk'[t].pc = "idle",
         \A t \in Tasks \ C : lk'[t] = lk[t]
  PROVE  Lease!LeaseNext
<1>1. LiveIsUnique /\ LiveIsUnique'
  BY LiveIs, LiveIsPrimed
<1>2. Holders' = Holders \ C
  BY DEF Holders
<1>3. Live' = IF Live \in C THEN Nobody ELSE Live
  BY <1>1, TasksAssumption DEF LiveIsUnique
<1>4. Lease!Drop(C)
  BY <1>2, <1>3 DEF Lease!Drop
<1> QED
  BY <1>4 DEF Lease!LeaseNext

-----------------------------------------------------------------------------
(***************************************************************************)
(* Step simulation.                                                        *)
(***************************************************************************)
LEMMA OpenSim == ASSUME LockInv, LockInv', NEW t \in Tasks, Open(t) PROVE UNCHANGED Lease!leaseVars
<1>1. PICK i \in Inodes :
        /\ lk' = [lk EXCEPT ![t].pc = "flock", ![t].fd = i] /\ path' = i
        /\ path = i \/ (path = NoIno /\ i \notin InUse)
  BY DEF Open, LockInv, TypeOK
<1>2. lk[t].pc = "open" /\ lk'[t].pc = "flock" /\ \A s \in Tasks : s # t => lk'[s] = lk[s]
  BY <1>1 DEF Open, LockInv, TypeOK
<1>3. CASE path' = path
  BY <1>2, <1>3, LeaseStutters
<1>4. CASE path = NoIno /\ path' \notin InUse
  <2>1. LiveIsUnique /\ LiveIsUnique'
    BY LiveIs, LiveIsPrimed
  <2>2. Holders' = Holders
    BY <1>2 DEF Holders
  <2>3. \A s \in Tasks : ~(lk[s].pc = "held" /\ lk[s].fd = path)
    BY <1>4 DEF LockInv, TypeOK
  <2>4. \A s \in Tasks : ~(lk'[s].pc = "held" /\ lk'[s].fd = path')
    BY <1>2, <1>4 DEF InUse
  <2>5. Live' = Nobody /\ Live = Nobody
    BY <2>1, <2>3, <2>4 DEF LiveIsUnique
  <2> QED
    BY <2>2, <2>5 DEF Lease!leaseVars
<1> QED
  BY <1>1, <1>3, <1>4

LEMMA RemoveFileSim ==
  ASSUME LockInv, LockInv', NEW t \in Tasks, RemoveFile(t)
  PROVE  Lease!LeaseNext \/ UNCHANGED Lease!leaseVars
<1>1. LiveIsUnique /\ LiveIsUnique'
  BY LiveIs, LiveIsPrimed
<1>2. /\ lk[t].pc = "unlink" /\ lk[t].ph \in Phases /\ path' = NoIno
      /\ \E x \in {Retry(lk[t].ph), GiveUp(lk[t].ph)} : lk' = [lk EXCEPT ![t] = x]
  BY DEF RemoveFile, LockInv, TypeOK
<1>3. lk'[t].pc # "held" /\ \A s \in Tasks : s # t => lk'[s] = lk[s]
  BY <1>2, LostPlaces DEF LockInv, TypeOK
<1>4. Holders' = Holders
  BY <1>2, <1>3 DEF Holders
<1>5. Live' = Nobody
  BY <1>1, <1>2 DEF LiveIsUnique, LockInv, TypeOK
<1>6. CASE Live = Nobody
  BY <1>4, <1>5, <1>6 DEF Lease!leaseVars
<1>7. CASE Live # Nobody
  BY <1>4, <1>5, <1>7 DEF Lease!Break, Lease!LeaseNext
<1> QED
  BY <1>6, <1>7

LEMMA AttemptSim ==
  ASSUME LockInv, LockInv', NEW t \in Tasks, WriteInfo(t) \/ InodesMatch(t)
  PROVE  Lease!LeaseNext \/ UNCHANGED Lease!leaseVars
<1>1. path' = path /\ lk[t].ph \in Phases /\ lk[t].pc \in {"write", "stat"}
  BY DEF WriteInfo, InodesMatch, LockInv, TypeOK
<1>2. CASE lk' = [lk EXCEPT ![t] = Held(lk[t].fd)] /\ (lk[t].fd = path \/ t \in Triers)
  BY <1>1, <1>2, GuardGained
<1>3. CASE lk'[t].pc # "held" /\ \A s \in Tasks : s # t => lk'[s] = lk[s]
  BY <1>1, <1>3, LeaseStutters
<1>4. CASE lk' = [lk EXCEPT ![t] = Retry(lk[t].ph)]
  BY <1>1, <1>3, <1>4, LostPlaces DEF LockInv, TypeOK
<1>5. CASE Goto(t, "stat")
  BY <1>3, <1>5 DEF Goto, LockInv, TypeOK
<1> QED
  BY <1>2, <1>4, <1>5 DEF WriteInfo, InodesMatch, LockInv, OnceIsTrier

\* The steps of an attempt that neither gain nor lose a guard.
LEMMA QuietSim ==
  ASSUME LockInv, LockInv', NEW t \in Tasks,
         Begin(t) \/ Flock(t) \/ IsHolderStale(t) \/ Deadline(t) \/ IoError(t)
  PROVE  UNCHANGED Lease!leaseVars
<1>1. path' = path /\ lk[t].ph \in Phases
  BY DEF Begin, Flock, IsHolderStale, Deadline, IoError, LockInv, TypeOK
<1>2. lk[t].pc # "held"
  BY DEF Begin, Flock, IsHolderStale, Deadline, IoError
<1>3. ASSUME NEW x, lk' = [lk EXCEPT ![t] = x], x.pc # "held"
      PROVE  UNCHANGED Lease!leaseVars
  <2>1. lk'[t] = x /\ \A s \in Tasks : s # t => lk'[s] = lk[s]
    BY <1>3 DEF LockInv, TypeOK
  <2> QED
    BY <1>1, <1>2, <1>3, <2>1, LeaseStutters
<1>4. CASE \E pc \in Steps \ {"held"} : Goto(t, pc)
  <2>1. lk'[t].pc # "held" /\ \A s \in Tasks : s # t => lk'[s] = lk[s]
    BY <1>4 DEF Goto, LockInv, TypeOK
  <2> QED
    BY <1>1, <1>2, <2>1, LeaseStutters
<1>5. Idle.pc # "held" /\ \A ph \in Phases : Start(ph).pc # "held" /\ GiveUp(ph).pc # "held"
  BY NextPlaces, LostPlaces
<1>6. {"p1", "p2", "p3", "once"} \subseteq Phases /\ {"write", "judge"} \subseteq Steps \ {"held"}
  BY DEF Phases, Steps
<1>7. CASE Begin(t)
  BY <1>3, <1>5, <1>6, <1>7 DEF Begin
<1>8. CASE Flock(t)
  BY <1>3, <1>4, <1>5, <1>6, <1>8 DEF Flock
<1>9. CASE IsHolderStale(t)
  <2> DEFINE x == [lk[t] EXCEPT !.pc = "unlink"]
  <2>1. x.pc # "held"
    BY DEF LockInv, TypeOK
  <2>2. PICK y \in {x, GiveUp(lk[t].ph)} : lk' = [lk EXCEPT ![t] = y]
    BY <1>9 DEF IsHolderStale, LockInv, TypeOK
  <2>3. y.pc # "held"
    BY <1>1, <1>5, <2>1
  <2> QED
    BY <1>3, <2>2, <2>3
<1>10. CASE Deadline(t)
  BY <1>3, <1>5, <1>6, <1>10 DEF Deadline
<1>11. CASE IoError(t)
  BY <1>1, <1>3, <1>5, <1>6, <1>11 DEF IoError
<1> QED
  BY <1>7, <1>8, <1>9, <1>10, <1>11

LEMMA ReleaseSim == ASSUME LockInv, LockInv', NEW t \in Tasks, Release(t) PROVE Lease!LeaseNext
<1>1. path' = path /\ lk'[t].pc = "idle" /\ \A s \in Tasks : s # t => lk'[s] = lk[s]
  BY NextPlaces DEF Release, LockInv, TypeOK
<1> QED
  BY <1>1, GuardsDropped, {t} \in SUBSET Tasks

LEMMA CrashSim == ASSUME LockInv, LockInv', NEW p \in Procs, Crash(p) PROVE Lease!LeaseNext
<1> DEFINE C == {t \in Tasks : ProcOf[t] = p}
<1>1. /\ path' = path
      /\ \A t \in C : lk'[t].pc = "idle"
      /\ \A t \in Tasks \ C : lk'[t] = lk[t]
  BY NextPlaces DEF Crash
<1>2. C \in SUBSET Tasks
  OBVIOUS
<1> HIDE DEF C
<1> QED
  BY <1>1, <1>2, GuardsDropped

LEMMA StepSim == LockInv /\ LockInv' /\ [Next]_vars => [Lease!LeaseNext]_(Lease!leaseVars)
<1> SUFFICES ASSUME LockInv, LockInv', [Next]_vars
             PROVE  Lease!LeaseNext \/ UNCHANGED Lease!leaseVars
  OBVIOUS
<1>1. CASE UNCHANGED vars
  BY <1>1, LeaseStutters DEF vars
<1>2. ASSUME NEW t \in Tasks,
             \/ Begin(t) \/ Open(t) \/ Flock(t) \/ WriteInfo(t) \/ InodesMatch(t)
             \/ IsHolderStale(t) \/ RemoveFile(t) \/ Deadline(t) \/ Release(t) \/ IoError(t)
      PROVE  Lease!LeaseNext \/ UNCHANGED Lease!leaseVars
  BY <1>2, OpenSim, AttemptSim, QuietSim, RemoveFileSim, ReleaseSim
<1>3. CASE UNCHANGED <<path, lk>>
  BY <1>3, LeaseStutters
<1>4. ASSUME NEW h \in threads, ThreadLocks(h) \/ ThreadDrops(h) PROVE UNCHANGED <<path, lk>>
  BY <1>4 DEF ThreadLocks, ThreadDrops
<1>5. ASSUME NEW i \in Inodes, GrowOld(i) PROVE UNCHANGED <<path, lk>>
  BY <1>5 DEF GrowOld
<1> QED
  BY <1>1, <1>2, <1>3, <1>4, <1>5, CrashSim DEF Next

LEMMA InitSim == Init => Lease!LeaseInit
<1> SUFFICES ASSUME Init PROVE Lease!LeaseInit
  OBVIOUS
<1>1. Holders = {}
  BY NextPlaces DEF Init, Holders
<1>2. Live = Nobody
  BY <1>1 DEF Live, LiveHolders
<1> QED
  BY <1>1, <1>2 DEF Lease!LeaseInit

\* The lock file implements the lease, for every set of processes and tasks,
\* whatever the order of their system calls, the unlinks of waiters, the
\* abandoned threads, crashes and I/O errors: at most one guard is live, and a
\* waiting acquire returns one only when there is none
\* (try_lock_auth_file_async, try_lock_auth_file_nonblocking).
THEOREM LockFileIsLease == Spec => Implements
<1>1. Spec => []LockInv
  BY LockFileInvariant
<1>2. LockInv /\ LockInv' /\ [Next]_vars => [Lease!LeaseNext]_(Lease!leaseVars)
  BY StepSim
<1> QED
  BY <1>1, <1>2, InitSim, PTL DEF Spec, Implements, Lease!LeaseSpec

=============================================================================
