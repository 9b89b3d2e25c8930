-------------------------- MODULE AuthRefreshProofs --------------------------
(***************************************************************************)
(* Proofs about token refresh, for every number of processes and tasks,    *)
(* every limit and every number of events.                                 *)
(***************************************************************************)
EXTENDS AuthRefresh, TLAPS

-----------------------------------------------------------------------------
(***************************************************************************)
(* The helpers, one lemma each.                                            *)
(***************************************************************************)
LEMMA Numbers ==
  /\ NoTok \in Cred /\ Tokens \subseteq Cred /\ 1 \in Tokens
  /\ 1 \in 1..MaxSends /\ 0 \in 0..MaxEvents
  /\ 0 \in 0..(MAX_CONSECUTIVE_TRANSIENT_FAILURES - 1)
  BY LimitsAssumption DEF NoTok, Cred, Tokens

LEMMA IdleType ==
  /\ Idle \in Calls /\ Idle.pc = "idle" /\ Idle.res = "none"
  BY Numbers DEF Idle, Calls, Steps, Reasons, Results

LEMMA ClientTypes ==
  /\ \A t \in Tasks : Chain(t) \in Clients /\ Flow(t) \in Clients
  /\ \A p \in Procs : Enrich(p) \in Clients
  /\ \A s, t \in Tasks : /\ Chain(s) # Flow(t)
                         /\ Chain(s) = Chain(t) => s = t
  /\ \A t \in Tasks, p \in Procs : Chain(t) # Enrich(p) /\ Flow(t) # Enrich(p)
  /\ \A p, q \in Procs : Enrich(p) = Enrich(q) => p = q
  BY DEF Chain, Flow, Enrich, Clients

\* A call moved on; the others did not.
Moved(t) == \A s \in Tasks : s # t => chain'[s] = chain[s]

LEMMA MoveType ==
  ASSUME chain \in [Tasks -> Calls], NEW t \in Tasks, NEW r \in Calls,
         chain' = [chain EXCEPT ![t] = r]
  PROVE  chain' \in [Tasks -> Calls] /\ chain'[t] = r /\ Moved(t)
  BY DEF Moved

LEMMA GotoType ==
  ASSUME chain \in [Tasks -> Calls], NEW t \in Tasks, NEW pc \in Steps, Goto(t, pc)
  PROVE  /\ chain' \in [Tasks -> Calls]
         /\ chain'[t].pc = pc /\ chain'[t].key = chain[t].key /\ chain'[t].res = chain[t].res
         /\ \A s \in Tasks : s # t => chain'[s] = chain[s]
  BY DEF Goto, Calls

LEMMA OutcomeType ==
  ASSUME chain \in [Tasks -> Calls], NEW t \in Tasks,
         NEW res \in Results, NEW key \in Cred, NEW got \in Cred, Outcome(t, res, key, got)
  PROVE  /\ chain' \in [Tasks -> Calls]
         /\ chain'[t].pc = "apply" /\ chain'[t].key = key /\ chain'[t].res = res /\ chain'[t].got = got
         /\ \A s \in Tasks : s # t => chain'[s] = chain[s]
<1>1. "apply" \in Steps
  BY DEF Steps
<1> DEFINE e == [chain[t] EXCEPT !.pc = "apply", !.res = res, !.key = key,
                                 !.got = got, !.n = 1, !.again = FALSE]
<1>2. chain[t] \in Calls
  OBVIOUS
<1>3. e \in Calls
  BY <1>1, <1>2, Numbers DEF Calls
<1>4. e.pc = "apply" /\ e.key = key /\ e.res = res /\ e.got = got
  BY <1>2 DEF Calls
<1>5. chain' = [chain EXCEPT ![t] = e]
  BY DEF Outcome
<1> HIDE DEF e
<1> QED
  BY <1>3, <1>4, <1>5

LEMMA DropType ==
  ASSUME TypeOK, NEW C, Lease!Drop(C)
  PROVE  live' \in Clients \union {Nobody} /\ holders' \in SUBSET Clients
  BY DEF Lease!Drop, TypeOK

LEMMA AcquireType ==
  ASSUME TypeOK, NEW c \in Clients, Lease!Acquire(c)
  PROVE  live' \in Clients \union {Nobody} /\ holders' \in SUBSET Clients
  BY DEF Lease!Acquire, TypeOK

LEMMA ReturnType ==
  ASSUME TypeOK, NEW t \in Tasks, NEW m \in [Procs -> Cred], NEW tr \in BOOLEAN, Return(t, m, tr)
  PROVE  /\ chain' \in [Tasks -> Calls] /\ chain'[t] = Idle
         /\ \A s \in Tasks : s # t => chain'[s] = chain[s]
         /\ mutex' \in [Procs -> Tasks \union {Nobody}]
         /\ live' \in Clients \union {Nobody} /\ holders' \in SUBSET Clients
         /\ mem' \in [Procs -> Cred]
<1>1. chain' \in [Tasks -> Calls] /\ chain'[t] = Idle /\ \A s \in Tasks : s # t => chain'[s] = chain[s]
  BY IdleType DEF Return, TypeOK
<1>2. mutex' \in [Procs -> Tasks \union {Nobody}]
  BY DEF Return, TypeOK
<1>3. live' \in Clients \union {Nobody} /\ holders' \in SUBSET Clients
  BY DropType DEF Return
<1>4. mem' \in [Procs -> Cred]
  BY ProcsAssumption DEF Return, TypeOK, Calls
<1> QED
  BY <1>1, <1>2, <1>3, <1>4

LEMMA MemType ==
  ASSUME TypeOK, NEW p \in Procs, NEW c \in Cred
  PROVE  [mem EXCEPT ![p] = c] \in [Procs -> Cred]
  BY DEF TypeOK

LEMMA AdoptType ==
  ASSUME TypeOK, NEW t \in Tasks, Adopt(t)
  PROVE  /\ chain' \in [Tasks -> Calls] /\ chain'[t] = Idle
         /\ \A s \in Tasks : s # t => chain'[s] = chain[s]
         /\ mutex' \in [Procs -> Tasks \union {Nobody}]
         /\ live' \in Clients \union {Nobody} /\ holders' \in SUBSET Clients
         /\ mem' \in [Procs -> Cred]
<1>1. [mem EXCEPT ![ProcOf[t]] = disk] \in [Procs -> Cred]
  BY MemType, ProcsAssumption DEF TypeOK
<1> QED
  BY <1>1, ReturnType DEF Adopt

LEMMA CurrentType == ASSUME TypeOK, NEW p \in Procs PROVE Current(p) \in Cred
  BY Numbers DEF Current, TypeOK

LEMMA ResolveType == ASSUME TypeOK, NEW p \in Procs, NEW r PROVE Resolve(p, r) \in Cred
  BY Numbers DEF Resolve, TypeOK

LEMMA EventType == ASSUME TypeOK, NEW k, Event(k) PROVE events' \in 0..MaxEvents
  BY LimitsAssumption DEF Event, TypeOK

\* What a call may change of the process and of the lock.
CallTyped ==
  /\ chain' \in [Tasks -> Calls] /\ mutex' \in [Procs -> Tasks \union {Nobody}]
  /\ live' \in Clients \union {Nobody} /\ holders' \in SUBSET Clients
  /\ mem' \in [Procs -> Cred]

LEMMA EnterChainType ==
  ASSUME TypeOK, NEW t \in Tasks, NEW reason \in Reasons, EnterChain(t, reason)
  PROVE  CallTyped /\ Moved(t) /\ chain'[t].pc \in {"idle", "mutex"}
<1>1. ProcOf[t] \in Procs /\ mem \in [Procs -> Cred]
  BY ProcsAssumption DEF TypeOK
<1>2. CASE Failed(ProcOf[t])
  <2>1. Adopt(t) \/ Return(t, mem, FALSE)
    BY <1>2 DEF EnterChain
  <2> QED
    BY <1>1, <2>1, AdoptType, ReturnType, IdleType DEF CallTyped, Moved
<1>3. CASE ~Failed(ProcOf[t])
  <2> DEFINE r == [chain[t] EXCEPT !.pc = "mutex", !.reason = reason, !.key = Current(ProcOf[t])]
  <2>1. chain' = [chain EXCEPT ![t] = r] /\ UNCHANGED <<mem, mutex, live, holders>>
    BY <1>3 DEF EnterChain
  <2>2. Current(ProcOf[t]) \in Cred /\ "mutex" \in Steps
    BY <1>1, CurrentType DEF Steps
  <2>3. r \in Calls /\ r.pc = "mutex"
    BY <2>2 DEF TypeOK, Calls
  <2> HIDE DEF r
  <2> QED
    BY <2>1, <2>3, MoveType DEF CallTyped, TypeOK
<1> QED
  BY <1>2, <1>3

LEMMA DispatchType ==
  ASSUME TypeOK, NEW t \in Tasks, Dispatch(t)
  PROVE  TypeOK' /\ Moved(t) /\ chain'[t].pc \in {"idle", "mutex"}
<1>1. mem \in [Procs -> Cred] /\ "PreRequest" \in Reasons
  BY DEF TypeOK, Reasons
<1>2. Return(t, mem, FALSE) \/ EnterChain(t, "PreRequest")
  BY DEF Dispatch
<1>3. CallTyped /\ Moved(t) /\ chain'[t].pc \in {"idle", "mutex"}
  BY <1>1, <1>2, ReturnType, EnterChainType, IdleType DEF CallTyped, Moved
<1> QED
  BY <1>3 DEF Dispatch, CallTyped, TypeOK, idpVars

LEMMA RejectType ==
  ASSUME TypeOK, NEW t \in Tasks, Reject(t)
  PROVE  TypeOK' /\ Moved(t) /\ chain'[t].pc = "reload"
<1>1. mem[ProcOf[t]] \in Cred /\ "reload" \in Steps
  BY ProcsAssumption DEF TypeOK, Steps
<1> DEFINE r == [chain[t] EXCEPT !.pc = "reload", !.key = mem[ProcOf[t]]]
<1>2. r \in Calls /\ r.pc = "reload" /\ chain' = [chain EXCEPT ![t] = r]
  BY <1>1 DEF Reject, TypeOK, Calls
<1> HIDE DEF r
<1>3. chain' \in [Tasks -> Calls] /\ Moved(t) /\ chain'[t].pc = "reload"
  BY <1>2, MoveType DEF TypeOK
<1> QED
  BY <1>3 DEF Reject, TypeOK, idpVars, leaseVars

LEMMA ReloadType ==
  ASSUME TypeOK, NEW t \in Tasks, Reload(t)
  PROVE  TypeOK' /\ Moved(t) /\ chain'[t].pc \in {"idle", "mutex"}
<1>1. mem \in [Procs -> Cred] /\ "ServerRejected" \in Reasons
  BY DEF TypeOK, Reasons
<1>2. Adopt(t) \/ Return(t, mem, FALSE) \/ EnterChain(t, "ServerRejected")
  BY DEF Reload
<1>3. CallTyped /\ Moved(t) /\ chain'[t].pc \in {"idle", "mutex"}
  BY <1>1, <1>2, AdoptType, ReturnType, EnterChainType, IdleType DEF CallTyped, Moved
<1> QED
  BY <1>3 DEF Reload, CallTyped, TypeOK, idpVars

LEMMA StartupType ==
  ASSUME TypeOK, NEW t \in Tasks, Startup(t)
  PROVE  TypeOK' /\ Moved(t) /\ chain'[t].pc = "outer"
<1>1. "outer" \in Steps
  BY DEF Steps
<1>2. chain' \in [Tasks -> Calls] /\ Moved(t) /\ chain'[t].pc = "outer"
  BY <1>1, GotoType DEF Startup, TypeOK, Moved
<1> QED
  BY <1>2 DEF Startup, TypeOK, idpVars, leaseVars

LEMMA StartupLockType ==
  ASSUME TypeOK, NEW t \in Tasks, StartupLock(t)
  PROVE  TypeOK' /\ Moved(t) /\ chain'[t].pc \in {"idle", "start"}
<1>1. CASE Valid(disk)
  <2>1. CallTyped /\ Moved(t) /\ chain'[t].pc = "idle"
    BY <1>1, AdoptType, IdleType DEF StartupLock, CallTyped, Moved
  <2> QED
    BY <2>1 DEF StartupLock, CallTyped, TypeOK, idpVars
<1>2. CASE ~Valid(disk)
  <2>1. live' \in Clients \union {Nobody} /\ holders' \in SUBSET Clients
    BY <1>2, AcquireType, ClientTypes DEF StartupLock, TypeOK, leaseVars
  <2>2. "start" \in Steps /\ disk \in Cred
    BY DEF Steps, TypeOK
  <2> DEFINE r == [chain[t] EXCEPT !.pc = "start", !.defer = disk]
  <2>3. r \in Calls /\ r.pc = "start" /\ chain' = [chain EXCEPT ![t] = r]
    <3>1. chain' = [chain EXCEPT ![t] = r]
      BY <1>2 DEF StartupLock
    <3> QED
      BY <2>2, <3>1 DEF TypeOK, Calls
  <2> HIDE DEF r
  <2>4. chain' \in [Tasks -> Calls] /\ Moved(t) /\ chain'[t].pc = "start"
    BY <2>3, MoveType DEF TypeOK
  <2> QED
    BY <1>2, <2>1, <2>4 DEF StartupLock, TypeOK, idpVars
<1> QED
  BY <1>1, <1>2

LEMMA TakeMutexType ==
  ASSUME TypeOK, NEW t \in Tasks, TakeMutex(t)
  PROVE  TypeOK' /\ Moved(t) /\ chain'[t].pc \in {"idle", "lock"}
<1>1. CASE Return(t, mem, FALSE)
  <2>1. mem \in [Procs -> Cred]
    BY DEF TypeOK
  <2>2. CallTyped /\ Moved(t) /\ chain'[t].pc = "idle"
    BY <1>1, <2>1, ReturnType, IdleType DEF CallTyped, Moved
  <2> QED
    BY <2>2 DEF TakeMutex, CallTyped, TypeOK, idpVars
<1>2. CASE /\ mutex' = [mutex EXCEPT ![ProcOf[t]] = t]
           /\ chain' = [chain EXCEPT ![t] = [@ EXCEPT !.pc = "lock", !.key = NoTok]]
           /\ UNCHANGED <<mem, live, holders>>
  <2>1. "lock" \in Steps
    BY DEF Steps
  <2> DEFINE r == [chain[t] EXCEPT !.pc = "lock", !.key = NoTok]
  <2>2. r \in Calls /\ r.pc = "lock" /\ chain' = [chain EXCEPT ![t] = r]
    BY <1>2, <2>1, Numbers DEF TypeOK, Calls
  <2> HIDE DEF r
  <2>3. chain' \in [Tasks -> Calls] /\ Moved(t) /\ chain'[t].pc = "lock"
    BY <2>2, MoveType DEF TypeOK
  <2>4. mutex' \in [Procs -> Tasks \union {Nobody}]
    BY <1>2 DEF TypeOK
  <2> QED
    BY <1>2, <2>3, <2>4 DEF TakeMutex, TypeOK, idpVars
<1> QED
  BY <1>1, <1>2 DEF TakeMutex

LEMMA GetLockType ==
  ASSUME TypeOK, NEW t \in Tasks, GetLock(t)
  PROVE  TypeOK' /\ Moved(t) /\ chain'[t].pc \in {"idle", "held", "claim"}
<1>1. CASE Adopt(t)
  <2>1. CallTyped /\ Moved(t) /\ chain'[t].pc = "idle"
    BY <1>1, AdoptType, IdleType DEF CallTyped, Moved
  <2> QED
    BY <2>1 DEF GetLock, CallTyped, TypeOK, idpVars
<1>2. CASE /\ Lease!Acquire(Chain(t)) /\ UNCHANGED <<mem, mutex>>
           /\ Goto(t, IF chain[t].pc = "lock" THEN "held" ELSE "claim")
  <2>1. live' \in Clients \union {Nobody} /\ holders' \in SUBSET Clients
    BY <1>2, AcquireType, ClientTypes
  <2>2. "held" \in Steps /\ "claim" \in Steps
    BY DEF Steps
  <2>3. chain' \in [Tasks -> Calls] /\ Moved(t) /\ chain'[t].pc \in {"held", "claim"}
    BY <1>2, <2>2, GotoType DEF TypeOK, Moved
  <2> QED
    BY <1>2, <2>1, <2>3 DEF GetLock, TypeOK, idpVars
<1> QED
  BY <1>1, <1>2 DEF GetLock

LEMMA LockTimeoutType ==
  ASSUME TypeOK, NEW t \in Tasks, LockTimeout(t) \/ AdoptLate(t) \/ Defer(t)
  PROVE  TypeOK' /\ Moved(t) /\ chain'[t].pc \in {"idle", "late"}
<1>1. mem \in [Procs -> Cred] /\ "late" \in Steps
  BY DEF TypeOK, Steps
<1>2. \/ Goto(t, "late") /\ UNCHANGED <<mem, mutex, live, holders>>
      \/ Return(t, mem, TRUE) \/ Adopt(t)
  BY DEF LockTimeout, AdoptLate, Defer
<1>3. CallTyped /\ Moved(t) /\ chain'[t].pc \in {"idle", "late"}
  BY <1>1, <1>2, AdoptType, ReturnType, GotoType, IdleType DEF CallTyped, Moved, TypeOK
<1> QED
  BY <1>3 DEF LockTimeout, AdoptLate, Defer, CallTyped, TypeOK, idpVars

LEMMA RevalidateType ==
  ASSUME TypeOK, NEW t \in Tasks, Revalidate(t)
  PROVE  TypeOK' /\ Moved(t) /\ chain'[t].pc \in {"claim", "relock"}
<1>1. "claim" \in Steps /\ "relock" \in Steps
  BY DEF Steps
<1>2. chain' \in [Tasks -> Calls] /\ Moved(t) /\ chain'[t].pc \in {"claim", "relock"}
  BY <1>1, GotoType DEF Revalidate, TypeOK, Moved
<1>3. live' \in Clients \union {Nobody} /\ holders' \in SUBSET Clients
  BY DropType DEF Revalidate, TypeOK, leaseVars
<1> QED
  BY <1>2, <1>3 DEF Revalidate, TypeOK, idpVars

LEMMA ClaimType ==
  ASSUME TypeOK, NEW t \in Tasks, Claim(t)
  PROVE  TypeOK' /\ Moved(t) /\ chain'[t].pc = "gate"
<1>1. "gate" \in Steps
  BY DEF Steps
<1>2. chain' \in [Tasks -> Calls] /\ Moved(t) /\ chain'[t].pc = "gate"
  BY <1>1, GotoType DEF Claim, TypeOK, Moved
<1> QED
  BY <1>2 DEF Claim, TypeOK, idpVars, leaseVars

LEMMA GateCheckType ==
  ASSUME TypeOK, NEW t \in Tasks, GateCheck(t)
  PROVE  TypeOK' /\ Moved(t) /\ chain'[t].pc \in {"idle", "resolve"}
<1>1. mem \in [Procs -> Cred] /\ "resolve" \in Steps
  BY DEF TypeOK, Steps
<1>2. \/ Goto(t, "resolve") /\ UNCHANGED <<mem, mutex, live, holders>>
      \/ Return(t, mem, TRUE)
  BY DEF GateCheck
<1>3. CallTyped /\ Moved(t) /\ chain'[t].pc \in {"idle", "resolve"}
  BY <1>1, <1>2, ReturnType, GotoType, IdleType DEF CallTyped, Moved, TypeOK
<1> QED
  BY <1>3 DEF GateCheck, CallTyped, TypeOK, idpVars

LEMMA ResolveCredentialType ==
  ASSUME TypeOK, NEW t \in Tasks, ResolveCredential(t)
  PROVE  /\ TypeOK' /\ Moved(t)
         /\ \/ chain'[t].pc = "apply" /\ chain'[t].res = "ok" /\ chain'[t].got = disk
            \/ chain'[t].pc = "apply" /\ chain'[t].res = "transient"
            \/ chain'[t].pc = "send" /\ chain'[t].key = Resolve(ProcOf[t], chain[t].reason)
<1>1. ProcOf[t] \in Procs /\ disk \in Cred /\ chain \in [Tasks -> Calls] /\ NoTok \in Cred
  BY ProcsAssumption, Numbers DEF TypeOK
<1>2. "ok" \in Results /\ "transient" \in Results /\ "send" \in Steps
  BY DEF Results, Steps
<1>3. CASE Outcome(t, "ok", NoTok, disk) /\ budget' = [budget EXCEPT ![ProcOf[t]] = NoFailures]
  <2>1. NoFailures \in [key : Cred, count : 0..(MAX_CONSECUTIVE_TRANSIENT_FAILURES - 1)]
    BY Numbers DEF NoFailures
  <2>2. budget' \in [Procs -> [key : Cred, count : 0..(MAX_CONSECUTIVE_TRANSIENT_FAILURES - 1)]]
    BY <1>3, <2>1 DEF TypeOK
  <2>3. /\ chain' \in [Tasks -> Calls] /\ Moved(t)
        /\ chain'[t].pc = "apply" /\ chain'[t].res = "ok" /\ chain'[t].got = disk
    BY <1>1, <1>2, <1>3, OutcomeType DEF Moved
  <2> QED
    BY <2>2, <2>3 DEF ResolveCredential, TypeOK, idpVars, leaseVars
<1>4. CASE Outcome(t, "transient", NoTok, NoTok) /\ UNCHANGED budget
  <2>1. /\ chain' \in [Tasks -> Calls] /\ Moved(t)
        /\ chain'[t].pc = "apply" /\ chain'[t].res = "transient"
    BY <1>1, <1>2, <1>4, OutcomeType DEF Moved
  <2> QED
    BY <1>4, <2>1 DEF ResolveCredential, TypeOK, idpVars, leaseVars
<1> DEFINE r == [chain[t] EXCEPT !.pc = "send", !.key = Resolve(ProcOf[t], chain[t].reason)]
<1>5. CASE chain' = [chain EXCEPT ![t] = r] /\ UNCHANGED budget
  <2>1. Resolve(ProcOf[t], chain[t].reason) \in Cred
    BY <1>1, ResolveType
  <2>2. r \in Calls /\ r.pc = "send" /\ r.key = Resolve(ProcOf[t], chain[t].reason)
    BY <1>1, <1>2, <2>1 DEF Calls
  <2> HIDE DEF r
  <2>3. chain' \in [Tasks -> Calls] /\ chain'[t] = r /\ Moved(t)
    BY <1>1, <1>5, <2>2, MoveType
  <2>4. TypeOK'
    BY <1>5, <2>3 DEF ResolveCredential, TypeOK, idpVars, leaseVars
  <2> QED
    BY <2>2, <2>3, <2>4
<1> HIDE DEF r
<1>6. \/ Outcome(t, "ok", NoTok, disk) /\ budget' = [budget EXCEPT ![ProcOf[t]] = NoFailures]
      \/ Outcome(t, "transient", NoTok, NoTok) /\ UNCHANGED budget
      \/ chain' = [chain EXCEPT ![t] = r] /\ UNCHANGED budget
  BY DEF ResolveCredential, r
<1> QED
  BY <1>3, <1>4, <1>5, <1>6

-----------------------------------------------------------------------------
(***************************************************************************)
(* The exchange and its failures.                                          *)
(***************************************************************************)
BudgetTyped == budget' \in [Procs -> [key : Cred, count : 0..(MAX_CONSECUTIVE_TRANSIENT_FAILURES - 1)]]

LEMMA BudgetReset ==
  ASSUME TypeOK, NEW p \in Procs, budget' = [budget EXCEPT ![p] = NoFailures]
  PROVE  BudgetTyped
<1>1. NoFailures \in [key : Cred, count : 0..(MAX_CONSECUTIVE_TRANSIENT_FAILURES - 1)]
  BY Numbers DEF NoFailures
<1> QED
  BY <1>1 DEF TypeOK, BudgetTyped

\* After an exchange that failed the call has an outcome other than success, or
\* sends the same credential again.
LEMMA ResendType ==
  ASSUME TypeOK, NEW t \in Tasks, chain[t].pc = "send",
         Resend(t) \/ RecordTransientFailure(t)
  PROVE  /\ chain' \in [Tasks -> Calls] /\ Moved(t) /\ BudgetTyped
         /\ \/ chain'[t].pc = "send" /\ chain'[t].key = chain[t].key
            \/ chain'[t].pc = "apply" /\ chain'[t].res \in {"aging", "transient"}
<1>1. ProcOf[t] \in Procs /\ chain \in [Tasks -> Calls] /\ chain[t].key \in Cred /\ NoTok \in Cred
  BY ProcsAssumption, Numbers DEF TypeOK, Calls
<1>2. CASE Resend(t) /\ chain[t].n < MaxSends
  <2>1. chain' = [chain EXCEPT ![t].n = @ + 1] /\ UNCHANGED budget
    BY <1>2 DEF Resend
  <2>2. chain[t].n + 1 \in 1..MaxSends
    BY <1>1, <1>2, LimitsAssumption DEF Calls
  <2>3. /\ chain' \in [Tasks -> Calls] /\ Moved(t)
        /\ chain'[t].pc = "send" /\ chain'[t].key = chain[t].key
    BY <1>1, <2>1, <2>2 DEF Calls, Moved
  <2> QED
    BY <2>1, <2>3 DEF TypeOK, BudgetTyped
<1>3. CASE RecordTransientFailure(t) \/ (Resend(t) /\ ~(chain[t].n < MaxSends))
  <2>1. RecordTransientFailure(t)
    BY <1>3 DEF Resend
  <2>2. PICK res \in {"aging", "transient"} : Outcome(t, res, chain[t].key, NoTok)
    BY <2>1 DEF RecordTransientFailure
  <2>3. res \in Results
    BY DEF Results
  <2>4. /\ chain' \in [Tasks -> Calls] /\ Moved(t)
        /\ chain'[t].pc = "apply" /\ chain'[t].res \in {"aging", "transient"}
    BY <1>1, <2>2, <2>3, OutcomeType DEF Moved
  <2> DEFINE old == budget[ProcOf[t]].count
             count == (IF budget[ProcOf[t]].key = chain[t].key THEN old ELSE 0) + 1
             c == IF count >= MAX_CONSECUTIVE_TRANSIENT_FAILURES THEN 0 ELSE count
  <2>5. old \in Nat
    BY <1>1 DEF TypeOK
  <2>6. c \in 0..(MAX_CONSECUTIVE_TRANSIENT_FAILURES - 1)
    BY <2>5, LimitsAssumption
  <2>7. \/ UNCHANGED budget
        \/ budget' = [budget EXCEPT ![ProcOf[t]] = [key |-> chain[t].key, count |-> c]]
    BY <2>1 DEF RecordTransientFailure
  <2> HIDE DEF c
  <2>8. BudgetTyped
    BY <1>1, <2>6, <2>7 DEF TypeOK, BudgetTyped
  <2> QED
    BY <2>4, <2>8
<1> QED
  BY <1>2, <1>3

LEMMA RejectedType ==
  ASSUME TypeOK, NEW t \in Tasks, chain[t].pc = "send", Rejected(t)
  PROVE  /\ chain' \in [Tasks -> Calls] /\ Moved(t) /\ BudgetTyped
         /\ \/ chain'[t].pc = "send"
            \/ chain'[t].pc = "apply" /\ chain'[t].res = "ok"
            \/ chain'[t].pc = "apply" /\ chain'[t].res = "rejected" /\ chain'[t].key = chain[t].key
<1>1. /\ ProcOf[t] \in Procs /\ chain \in [Tasks -> Calls] /\ chain[t].key \in Cred
      /\ disk \in Cred /\ NoTok \in Cred /\ "ok" \in Results /\ "rejected" \in Results
  BY ProcsAssumption, Numbers DEF TypeOK, Calls, Results
<1>2. CASE Outcome(t, "ok", chain[t].key, disk) /\ budget' = [budget EXCEPT ![ProcOf[t]] = NoFailures]
  BY <1>1, <1>2, OutcomeType, BudgetReset DEF Moved
<1>3. CASE Outcome(t, "rejected", chain[t].key, NoTok) /\ UNCHANGED budget
  BY <1>1, <1>3, OutcomeType DEF Moved, TypeOK, BudgetTyped
<1> DEFINE r == [chain[t] EXCEPT !.key = disk, !.n = 1, !.again = TRUE]
<1>4. CASE chain' = [chain EXCEPT ![t] = r] /\ UNCHANGED budget
  <2>1. r \in Calls /\ r.pc = "send"
    BY <1>1, Numbers DEF Calls
  <2> HIDE DEF r
  <2>2. chain' \in [Tasks -> Calls] /\ chain'[t].pc = "send" /\ Moved(t)
    BY <1>1, <1>4, <2>1, MoveType
  <2> QED
    BY <1>4, <2>2 DEF TypeOK, BudgetTyped
<1> HIDE DEF r
<1> QED
  BY <1>2, <1>3, <1>4 DEF Rejected, r

LEMMA RotateType ==
  ASSUME TypeOK, NEW g \in Cred, Rotate(g)
  PROVE  cur' \in Tokens /\ grace' \in BOOLEAN /\ revoked' \in BOOLEAN
<1>1. \/ revoked' = TRUE /\ UNCHANGED <<cur, grace>>
      \/ cur < MaxGen /\ cur' = cur + 1 /\ grace' = TRUE /\ UNCHANGED revoked
      \/ UNCHANGED <<cur, grace, revoked>>
  BY DEF Rotate, idpVars
<1>2. cur' \in Tokens
  BY <1>1, LimitsAssumption DEF TypeOK, Tokens
<1>3. grace' \in BOOLEAN /\ revoked' \in BOOLEAN
  BY <1>1, Zenon DEF TypeOK
<1> QED
  BY <1>2, <1>3

LEMMA ExchangeType ==
  ASSUME TypeOK, NEW t \in Tasks, Exchange(t)
  PROVE  /\ TypeOK' /\ Moved(t)
         /\ ~Dead(chain[t].key) => chain'[t].pc = "apply" /\ chain'[t].res = "ok" /\ chain'[t].got = cur'
         /\ Dead(chain[t].key) => \/ chain'[t].pc = "send"
                                  \/ chain'[t].pc = "apply" /\ chain'[t].res = "ok"
                                  \/ /\ chain'[t].pc = "apply" /\ chain'[t].res = "rejected"
                                     /\ chain'[t].key = chain[t].key
<1>1. /\ ProcOf[t] \in Procs /\ chain \in [Tasks -> Calls] /\ chain[t].key \in Cred
      /\ "ok" \in Results /\ chain[t].pc = "send"
  BY ProcsAssumption DEF Exchange, TypeOK, Calls, Results
<1>2. cur' \in Tokens /\ grace' \in BOOLEAN /\ revoked' \in BOOLEAN /\ cur' \in Cred
  BY <1>1, RotateType, Numbers DEF Exchange
<1>3. CASE ~Dead(chain[t].key)
  <2>1. Outcome(t, "ok", chain[t].key, cur') /\ budget' = [budget EXCEPT ![ProcOf[t]] = NoFailures]
    BY <1>3 DEF Exchange
  <2>2. /\ chain' \in [Tasks -> Calls] /\ Moved(t)
        /\ chain'[t].pc = "apply" /\ chain'[t].res = "ok" /\ chain'[t].got = cur'
    BY <1>1, <1>2, <2>1, OutcomeType DEF Moved
  <2>3. BudgetTyped
    BY <1>1, <2>1, BudgetReset
  <2> QED
    BY <1>2, <1>3, <2>2, <2>3 DEF Exchange, TypeOK, BudgetTyped, leaseVars
<1>4. CASE Dead(chain[t].key)
  <2>1. Rejected(t)
    BY <1>4 DEF Exchange
  <2>2. TypeOK'
    BY <1>1, <1>2, <2>1, RejectedType DEF Exchange, TypeOK, BudgetTyped, leaseVars
  <2> QED
    BY <1>1, <1>4, <2>1, <2>2, RejectedType
<1> QED
  BY <1>3, <1>4

LEMMA FailedSendType ==
  ASSUME TypeOK, NEW t \in Tasks, RequestFails(t) \/ ResponseLost(t)
  PROVE  /\ TypeOK' /\ Moved(t)
         /\ \/ chain'[t].pc = "send" /\ chain'[t].key = chain[t].key
            \/ chain'[t].pc = "apply" /\ chain'[t].res \in {"aging", "transient"}
<1>1. /\ chain[t].pc = "send" /\ chain[t].key \in Cred
      /\ Resend(t) \/ RecordTransientFailure(t)
  BY DEF RequestFails, ResponseLost, TypeOK, Calls
<1>2. cur' \in Tokens /\ grace' \in BOOLEAN /\ revoked' \in BOOLEAN
  BY <1>1, RotateType DEF RequestFails, ResponseLost, TypeOK, idpVars
<1>3. events' \in 0..MaxEvents
  BY EventType DEF RequestFails, ResponseLost, TypeOK
<1>4. /\ chain' \in [Tasks -> Calls] /\ Moved(t) /\ BudgetTyped
      /\ \/ chain'[t].pc = "send" /\ chain'[t].key = chain[t].key
         \/ chain'[t].pc = "apply" /\ chain'[t].res \in {"aging", "transient"}
  BY <1>1, ResendType
<1>5. TypeOK'
  BY <1>2, <1>3, <1>4 DEF RequestFails, ResponseLost, TypeOK, BudgetTyped, leaseVars
<1> QED
  BY <1>4, <1>5

LEMMA ClientRejectedType ==
  ASSUME TypeOK, NEW t \in Tasks, ClientRejected(t)
  PROVE  TypeOK' /\ Moved(t) /\ chain'[t].pc = "apply" /\ chain'[t].res = "aging"
<1>1. /\ chain \in [Tasks -> Calls] /\ chain[t].key \in Cred /\ NoTok \in Cred /\ "aging" \in Results
  BY Numbers DEF TypeOK, Calls, Results
<1>2. chain' \in [Tasks -> Calls] /\ Moved(t) /\ chain'[t].pc = "apply" /\ chain'[t].res = "aging"
  BY <1>1, OutcomeType DEF ClientRejected, Moved
<1>3. events' \in 0..MaxEvents
  BY EventType DEF ClientRejected
<1> QED
  BY <1>2, <1>3 DEF ClientRejected, TypeOK, idpVars, leaseVars

-----------------------------------------------------------------------------
(***************************************************************************)
(* What follows the exchange, enrichment, sleep and the environment.       *)
(***************************************************************************)
LEMMA PersistType ==
  ASSUME TypeOK, NEW t \in Tasks, Persist(t)
  PROVE  TypeOK' /\ Moved(t) /\ chain'[t].pc = "idle"
<1> DEFINE new == [mem EXCEPT ![ProcOf[t]] = chain[t].got]
<1>1. ProcOf[t] \in Procs /\ chain[t].got \in Cred
  BY ProcsAssumption DEF TypeOK, Calls
<1>2. new \in [Procs -> Cred]
  BY <1>1, MemType
<1>3. \E tr \in BOOLEAN : Return(t, new, tr)
  BY DEF Persist
<1> HIDE DEF new
<1>4. CallTyped /\ Moved(t) /\ chain'[t].pc = "idle"
  BY <1>2, <1>3, ReturnType, IdleType DEF CallTyped, Moved
<1>5. disk' \in Cred
  BY <1>1 DEF Persist, TypeOK
<1>6. events' \in 0..MaxEvents
  BY EventType DEF Persist, TypeOK
<1>7. enrich' \in [Procs -> [pc : {"none", "want", "locked", "unlocked"}, tok : Cred]]
  <2> DEFINE e == [pc |-> "want", tok |-> chain[t].got]
  <2>1. e \in [pc : {"none", "want", "locked", "unlocked"}, tok : Cred]
    BY <1>1
  <2>2. UNCHANGED enrich \/ enrich' = [enrich EXCEPT ![ProcOf[t]] = e]
    BY DEF Persist
  <2> HIDE DEF e
  <2> QED
    BY <2>1, <2>2 DEF TypeOK
<1> QED
  BY <1>4, <1>5, <1>6, <1>7 DEF Persist, CallTyped, TypeOK, idpVars

LEMMA GiveUpType ==
  ASSUME TypeOK, NEW t \in Tasks, GiveUp(t)
  PROVE  /\ TypeOK' /\ Moved(t) /\ chain'[t].pc = "idle"
         /\ \/ UNCHANGED verdict
            \/ \E k \in {"sticky", "aging"} :
                 /\ verdict' = [verdict EXCEPT ![ProcOf[t]] = [key |-> chain[t].key, kind |-> k]]
                 /\ k = "sticky" => chain[t].res = "rejected"
<1>1. ProcOf[t] \in Procs /\ chain[t].key \in Cred /\ mem \in [Procs -> Cred]
  BY ProcsAssumption DEF TypeOK, Calls
<1>2. Adopt(t) \/ \E tr \in BOOLEAN : Return(t, mem, tr)
  BY DEF GiveUp, SiblingDiffers
<1>3. CallTyped /\ Moved(t) /\ chain'[t].pc = "idle"
  BY <1>1, <1>2, AdoptType, ReturnType, IdleType DEF CallTyped, Moved
<1>4. \/ UNCHANGED verdict
      \/ \E k \in {"sticky", "aging"} :
           /\ verdict' = [verdict EXCEPT ![ProcOf[t]] = [key |-> chain[t].key, kind |-> k]]
           /\ k = "sticky" => chain[t].res = "rejected"
  <2> DEFINE k == IF chain[t].res = "rejected" THEN "sticky" ELSE "aging"
  <2>1. \/ UNCHANGED verdict
        \/ verdict' = [verdict EXCEPT ![ProcOf[t]] = [key |-> chain[t].key, kind |-> k]]
    BY DEF GiveUp
  <2>2. k \in {"sticky", "aging"} /\ (k = "sticky" => chain[t].res = "rejected")
    OBVIOUS
  <2> HIDE DEF k
  <2> QED
    BY <2>1, <2>2
<1>5. verdict' \in [Procs -> [kind : {"none", "sticky", "aging"}, key : Cred]]
  <2>1. \A k \in {"sticky", "aging"} :
          [key |-> chain[t].key, kind |-> k] \in [kind : {"none", "sticky", "aging"}, key : Cred]
    BY <1>1
  <2>2. ASSUME NEW r \in [kind : {"none", "sticky", "aging"}, key : Cred],
               verdict' = [verdict EXCEPT ![ProcOf[t]] = r]
        PROVE  verdict' \in [Procs -> [kind : {"none", "sticky", "aging"}, key : Cred]]
    BY <2>2 DEF TypeOK
  <2>3. CASE UNCHANGED verdict
    BY <2>3 DEF TypeOK
  <2> QED
    BY <1>4, <2>1, <2>2, <2>3
<1>6. TypeOK'
  BY <1>3, <1>5 DEF GiveUp, CallTyped, TypeOK, idpVars
<1> QED
  BY <1>3, <1>4, <1>6

LEMMA EnrichReadType == ASSUME TypeOK, NEW p \in Procs, EnrichRead(p) PROVE TypeOK'
<1>1. NoEnrich \in [pc : {"none", "want", "locked", "unlocked"}, tok : Cred]
  BY Numbers DEF NoEnrich
<1>2. enrich' \in [Procs -> [pc : {"none", "want", "locked", "unlocked"}, tok : Cred]]
  BY <1>1 DEF EnrichRead, TypeOK
<1>3. live' \in Clients \union {Nobody} /\ holders' \in SUBSET Clients
  BY AcquireType, ClientTypes DEF EnrichRead, TypeOK, leaseVars
<1> QED
  BY <1>2, <1>3 DEF EnrichRead, TypeOK, idpVars

LEMMA EnrichWriteType == ASSUME TypeOK, NEW p \in Procs, EnrichWrite(p) PROVE TypeOK'
<1>1. NoEnrich \in [pc : {"none", "want", "locked", "unlocked"}, tok : Cred] /\ enrich[p].tok \in Cred
  BY Numbers DEF NoEnrich, TypeOK
<1>2. enrich' \in [Procs -> [pc : {"none", "want", "locked", "unlocked"}, tok : Cred]]
  BY <1>1 DEF EnrichWrite, TypeOK
<1>3. live' \in Clients \union {Nobody} /\ holders' \in SUBSET Clients
  BY DropType DEF EnrichWrite
<1>4. disk' \in Cred /\ mem' \in [Procs -> Cred]
  BY <1>1 DEF EnrichWrite, TypeOK
<1>5. hurt' \in BOOLEAN
  BY DEF EnrichWrite
<1> QED
  BY <1>2, <1>3, <1>4, <1>5 DEF EnrichWrite, TypeOK, idpVars

LEMMA ProcessType ==
  ASSUME TypeOK, NEW p \in Procs,
         \/ PickUpSiblingToken(p) \/ WillSleep(p) \/ SleepAck(p) \/ Wake(p) \/ VerdictAges(p)
  PROVE  TypeOK' /\ UNCHANGED <<disk, idpVars, leaseVars, chain, enrich, hurt>>
<1>1. CASE PickUpSiblingToken(p)
  BY <1>1 DEF PickUpSiblingToken, TypeOK, idpVars, leaseVars
<1>2. CASE WillSleep(p)
  <2>1. events' \in 0..MaxEvents
    BY <1>2, EventType DEF WillSleep
  <2> QED
    BY <1>2, <2>1 DEF WillSleep, TypeOK, idpVars, leaseVars
<1>3. CASE SleepAck(p)
  BY <1>3 DEF SleepAck, TypeOK, idpVars, leaseVars
<1>4. CASE Wake(p)
  BY <1>4 DEF Wake, TypeOK, idpVars, leaseVars
<1>5. CASE VerdictAges(p)
  <2>1. NoVerdict \in [kind : {"none", "sticky", "aging"}, key : Cred]
    BY Numbers DEF NoVerdict
  <2> QED
    BY <1>5, <2>1 DEF VerdictAges, TypeOK, idpVars, leaseVars
<1> QED
  BY <1>1, <1>2, <1>3, <1>4, <1>5

LEMMA LogoutType == ASSUME TypeOK, NEW p \in Procs, Logout(p) PROVE TypeOK'
<1>1. events' \in 0..MaxEvents
  BY EventType DEF Logout
<1>2. disk' \in Cred /\ mem' \in [Procs -> Cred]
  BY Numbers DEF Logout, TypeOK
<1> QED
  BY <1>1, <1>2 DEF Logout, TypeOK, idpVars, leaseVars

LEMMA CrashType == ASSUME TypeOK, NEW p \in Procs, Crash(p) PROVE TypeOK'
<1>1. /\ NoVerdict \in [kind : {"none", "sticky", "aging"}, key : Cred]
      /\ NoEnrich \in [pc : {"none", "want", "locked", "unlocked"}, tok : Cred]
      /\ NoFailures \in [key : Cred, count : 0..(MAX_CONSECUTIVE_TRANSIENT_FAILURES - 1)]
  BY Numbers DEF NoVerdict, NoEnrich, NoFailures
<1>2. /\ verdict' \in [Procs -> [kind : {"none", "sticky", "aging"}, key : Cred]]
      /\ enrich' \in [Procs -> [pc : {"none", "want", "locked", "unlocked"}, tok : Cred]]
      /\ budget' \in [Procs -> [key : Cred, count : 0..(MAX_CONSECUTIVE_TRANSIENT_FAILURES - 1)]]
  BY <1>1 DEF Crash, TypeOK
<1>3. chain' \in [Tasks -> Calls] /\ mem' \in [Procs -> Cred]
  BY IdleType DEF Crash, TypeOK
<1>4. live' \in Clients \union {Nobody} /\ holders' \in SUBSET Clients
  BY DropType DEF Crash
<1>5. events' \in 0..MaxEvents
  BY EventType DEF Crash
<1>6. /\ mutex' \in [Procs -> Tasks \union {Nobody}]
      /\ sleep' \in [Procs -> {"awake", "raised", "acked", "late"}]
  BY DEF Crash, TypeOK
<1> QED
  BY <1>2, <1>3, <1>4, <1>5, <1>6 DEF Crash, TypeOK, idpVars

LEMMA WorldType == ASSUME TypeOK, Expire \/ GraceEnds \/ Break PROVE TypeOK'
<1>1. CASE Expire
  <2>1. aged' \in Cred
    BY <1>1, LimitsAssumption DEF Expire, TypeOK, Cred
  <2> QED
    BY <1>1, <2>1 DEF Expire, TypeOK, idpVars, leaseVars
<1>2. CASE GraceEnds
  <2>1. grace' \in BOOLEAN /\ hurt' \in BOOLEAN
    BY <1>2 DEF GraceEnds
  <2> QED
    BY <1>2, <2>1 DEF GraceEnds, TypeOK, leaseVars
<1>3. CASE Break
  <2>1. live' \in Clients \union {Nobody} /\ holders' = holders
    BY <1>3 DEF Break, Lease!Break
  <2>2. events' \in 0..MaxEvents
    BY <1>3, EventType DEF Break
  <2>3. hurt' \in BOOLEAN
    BY <1>3 DEF Break
  <2> QED
    BY <1>3, <2>1, <2>2, <2>3 DEF Break, TypeOK, idpVars
<1> QED
  BY <1>1, <1>2, <1>3

LEMMA InitType == Init => TypeOK
<1> SUFFICES ASSUME Init PROVE TypeOK
  OBVIOUS
<1>1. /\ NoVerdict \in [kind : {"none", "sticky", "aging"}, key : Cred]
      /\ NoEnrich \in [pc : {"none", "want", "locked", "unlocked"}, tok : Cred]
      /\ NoFailures \in [key : Cred, count : 0..(MAX_CONSECUTIVE_TRANSIENT_FAILURES - 1)]
      /\ 1 \in Cred /\ 0 \in Cred
  BY Numbers DEF NoVerdict, NoEnrich, NoFailures, NoTok
<1>2. live \in Clients \union {Nobody} /\ holders \in SUBSET Clients
  BY DEF Init, Lease!LeaseInit
<1> QED
  BY <1>1, <1>2, Numbers, IdleType DEF Init, TypeOK

LEMMA NextType == TypeOK /\ [Next]_vars => TypeOK'
<1> SUFFICES ASSUME TypeOK, [Next]_vars PROVE TypeOK'
  OBVIOUS
<1>1. CASE UNCHANGED vars
  BY <1>1 DEF vars, TypeOK
<1>2. ASSUME NEW t \in Tasks,
             \/ Dispatch(t) \/ Reject(t) \/ Reload(t) \/ Startup(t) \/ StartupLock(t)
             \/ TakeMutex(t) \/ GetLock(t) \/ LockTimeout(t) \/ AdoptLate(t)
             \/ Defer(t) \/ Revalidate(t) \/ Claim(t) \/ GateCheck(t) \/ ResolveCredential(t)
             \/ Exchange(t) \/ RequestFails(t) \/ ResponseLost(t) \/ ClientRejected(t)
             \/ Persist(t) \/ GiveUp(t)
      PROVE  TypeOK'
  BY <1>2, DispatchType, RejectType, ReloadType, StartupType, StartupLockType, TakeMutexType,
     GetLockType, LockTimeoutType, RevalidateType, ClaimType, GateCheckType,
     ResolveCredentialType, ExchangeType, FailedSendType, ClientRejectedType, PersistType, GiveUpType
<1>3. ASSUME NEW p \in Procs,
             \/ EnrichRead(p) \/ EnrichWrite(p) \/ PickUpSiblingToken(p)
             \/ WillSleep(p) \/ SleepAck(p) \/ Wake(p)
             \/ VerdictAges(p) \/ Logout(p) \/ Crash(p)
      PROVE  TypeOK'
  BY <1>3, EnrichReadType, EnrichWriteType, ProcessType, LogoutType, CrashType
<1> QED
  BY <1>1, <1>2, <1>3, WorldType DEF Next

\* The type invariant of token refresh: among others, no transient budget exceeds
\* its limit and no exchange is attempted more often than allowed.
THEOREM RefreshTyped == Spec => []TypeOK
  BY InitType, NextType, PTL DEF Spec

-----------------------------------------------------------------------------
(***************************************************************************)
(* Sleep.  NoStraddle is inductive: whoever raises the gate and finds no   *)
(* slot claimed sees every later claimer stop at GateCheck.                *)
(***************************************************************************)

LEMMA SleepInit == Init => NoStraddle
  BY IdleType DEF Init, NoStraddle, Exchanging

\* A task step leaves the sleep handler alone; only GateCheck, which looks at it,
\* brings a call to the exchange.
LEMMA SleepCall ==
  ASSUME TypeOK, NoStraddle, NEW t \in Tasks, sleep' = sleep, Moved(t),
         chain'[t].pc \in Exchanging => chain[t].pc \in Exchanging \/ sleep[ProcOf[t]] = "awake"
  PROVE  NoStraddle'
  BY DEF NoStraddle, Moved

LEMMA SleepNext == TypeOK /\ NoStraddle /\ [Next]_vars => NoStraddle'
<1> SUFFICES ASSUME TypeOK, NoStraddle, [Next]_vars PROVE NoStraddle'
  OBVIOUS
<1>1. CASE UNCHANGED <<chain, sleep>>
  BY <1>1 DEF NoStraddle
<1>2. ASSUME NEW t \in Tasks,
             \/ Dispatch(t) \/ Reject(t) \/ Reload(t) \/ Startup(t) \/ StartupLock(t)
             \/ TakeMutex(t) \/ GetLock(t) \/ LockTimeout(t) \/ AdoptLate(t)
             \/ Defer(t) \/ Revalidate(t) \/ Claim(t) \/ ClientRejected(t) \/ Persist(t) \/ GiveUp(t)
      PROVE  NoStraddle'
  <2>1. sleep' = sleep
    BY <1>2 DEF Dispatch, Reject, Reload, Startup, StartupLock, TakeMutex, GetLock, LockTimeout,
                AdoptLate, Defer, Revalidate, Claim, ClientRejected, Persist, GiveUp
  <2>2. Moved(t) /\ chain'[t].pc \notin Exchanging
    BY <1>2, DispatchType, RejectType, ReloadType, StartupType, StartupLockType, TakeMutexType,
       GetLockType, LockTimeoutType, RevalidateType, ClaimType, ClientRejectedType, PersistType,
       GiveUpType DEF Exchanging
  <2> QED
    BY <2>1, <2>2, SleepCall
<1>3. ASSUME NEW t \in Tasks, GateCheck(t) PROVE NoStraddle'
  <2>1. Moved(t) /\ sleep' = sleep /\ chain'[t].pc \in {"idle", "resolve"}
    BY <1>3, GateCheckType DEF GateCheck
  <2>2. ProcOf[t] \in Procs
    BY ProcsAssumption
  <2>3. CASE sleep[ProcOf[t]] = "awake"
    BY <2>1, <2>3, SleepCall
  <2>4. CASE sleep[ProcOf[t]] # "awake"
    <3>1. Return(t, mem, TRUE) /\ mem \in [Procs -> Cred]
      BY <1>3, <2>4 DEF GateCheck, TypeOK
    <3>2. chain'[t].pc = "idle"
      BY <3>1, ReturnType, IdleType
    <3> QED
      BY <2>1, <3>2, SleepCall DEF Exchanging
  <2> QED
    BY <2>3, <2>4
<1>4. ASSUME NEW t \in Tasks,
             ResolveCredential(t) \/ Exchange(t) \/ RequestFails(t) \/ ResponseLost(t)
      PROVE  NoStraddle'
  <2>1. sleep' = sleep /\ chain[t].pc \in Exchanging
    BY <1>4 DEF ResolveCredential, Exchange, RequestFails, ResponseLost, Exchanging
  <2>2. Moved(t)
    BY <1>4, ResolveCredentialType, ExchangeType, FailedSendType
  <2> QED
    BY <2>1, <2>2, SleepCall
<1>5. ASSUME NEW p \in Procs, SleepAck(p) PROVE NoStraddle'
  <2>1. /\ chain' = chain
        /\ \A t \in Tasks : ProcOf[t] # p => sleep'[ProcOf[t]] = sleep[ProcOf[t]]
        /\ sleep'[p] = "acked" => InFlight(p) = {}
    BY <1>5, ProcsAssumption DEF SleepAck, TypeOK
  <2>2. InFlight(p) = {} => \A t \in Tasks : ProcOf[t] = p => chain[t].pc \notin Exchanging
    BY DEF InFlight
  <2> QED
    BY <2>1, <2>2 DEF NoStraddle
<1>6. ASSUME NEW p \in Procs, WillSleep(p) \/ Wake(p) PROVE NoStraddle'
  <2>1. /\ chain' = chain
        /\ \A t \in Tasks : ProcOf[t] # p => sleep'[ProcOf[t]] = sleep[ProcOf[t]]
        /\ sleep'[p] # "acked"
    BY <1>6, ProcsAssumption DEF WillSleep, Wake, TypeOK
  <2> QED
    BY <2>1 DEF NoStraddle
<1>7. ASSUME NEW p \in Procs, Crash(p) PROVE NoStraddle'
  <2>1. \A t \in Tasks : /\ ProcOf[t] = p => chain'[t].pc = "idle"
                         /\ ProcOf[t] # p => chain'[t] = chain[t] /\ sleep'[ProcOf[t]] = sleep[ProcOf[t]]
    BY <1>7, IdleType, ProcsAssumption DEF Crash, TypeOK
  <2> QED
    BY <2>1 DEF NoStraddle, Exchanging
<1>8. ASSUME NEW p \in Procs,
             EnrichRead(p) \/ EnrichWrite(p) \/ PickUpSiblingToken(p) \/ VerdictAges(p) \/ Logout(p)
      PROVE  UNCHANGED <<chain, sleep>>
  BY <1>8 DEF EnrichRead, EnrichWrite, PickUpSiblingToken, VerdictAges, Logout
<1>9. ASSUME Expire \/ GraceEnds \/ Break \/ UNCHANGED vars PROVE UNCHANGED <<chain, sleep>>
  BY <1>9 DEF Expire, GraceEnds, Break, vars
<1> QED
  BY <1>1, <1>2, <1>3, <1>4, <1>5, <1>6, <1>7, <1>8, <1>9 DEF Next

\* No exchange of a process is on the wire once its sleep handler has acknowledged
\* the sleep without a timeout, until it wakes: the order of raising the gate
\* and counting the slots against claiming a slot and looking at the gate
\* (set_system_sleep_imminent, step 3c of refresh_chain) leaves no gap.
THEOREM SleepNeverStraddled == Spec => []NoStraddle
  BY SleepInit, SleepNext, RefreshTyped, PTL DEF Spec

-----------------------------------------------------------------------------
(***************************************************************************)
(* Lockout.  A credential that died stays dead, and a rejection on its way *)
(* to record_permanent_failure names a dead credential.                    *)
(***************************************************************************)
RejectedIsDead ==
  \A t \in Tasks : chain[t].pc = "apply" /\ chain[t].res = "rejected" => Dead(chain[t].key)

LockoutInv == LockoutIsReal /\ RejectedIsDead

LEMMA DeadStable ==
  ASSUME TypeOK, TypeOK', NEW g \in Cred, Dead(g),
         \/ UNCHANGED idpVars
         \/ grace' = FALSE /\ UNCHANGED <<cur, revoked>>
         \/ \E k \in Cred : Rotate(k)
  PROVE  Dead(g)'
<1>1. g \in Nat /\ cur \in Nat
  BY DEF TypeOK, Cred, Tokens
<1>2. CASE UNCHANGED idpVars
  BY <1>2 DEF idpVars, Dead
<1>3. CASE grace' = FALSE /\ UNCHANGED <<cur, revoked>>
  BY <1>3 DEF Dead
<1>4. ASSUME NEW k \in Cred, Rotate(k) PROVE Dead(g)'
  <2>1. \/ revoked' = TRUE
        \/ cur' = cur + 1 /\ UNCHANGED revoked
        \/ UNCHANGED idpVars
    BY <1>4 DEF Rotate
  <2>2. CASE revoked' = TRUE
    BY <2>2 DEF Dead
  <2>3. CASE cur' = cur + 1 /\ UNCHANGED revoked
    <3>1. revoked \/ g + 1 <= cur
      BY <1>1 DEF Dead
    <3>2. CASE revoked
      BY <2>3, <3>2 DEF Dead
    <3>3. CASE g + 1 <= cur
      BY <1>1, <2>3, <3>3 DEF Dead
    <3> QED
      BY <3>1, <3>2, <3>3
  <2> QED
    BY <1>2, <2>1, <2>2, <2>3
<1> QED
  BY <1>2, <1>3, <1>4

LEMMA LockoutInit == Init => LockoutInv
<1> SUFFICES ASSUME Init PROVE LockoutInv
  OBVIOUS
<1>1. \A p \in Procs : verdict[p].kind = "none"
  BY DEF Init, NoVerdict
<1>2. \A t \in Tasks : chain[t].pc = "idle"
  BY IdleType DEF Init
<1> QED
  BY <1>1, <1>2 DEF LockoutInv, LockoutIsReal, RejectedIsDead

\* The steps that neither touch the identity provider nor reject a credential.
LEMMA LockoutQuiet ==
  ASSUME TypeOK, TypeOK', LockoutInv, UNCHANGED idpVars,
         \A p \in Procs : verdict'[p] = verdict[p] \/ verdict'[p].kind # "sticky",
         \A t \in Tasks : chain'[t] = chain[t] \/ chain'[t].pc # "apply" \/ chain'[t].res # "rejected"
  PROVE  LockoutInv'
<1>2. ASSUME NEW p \in Procs, verdict'[p].kind = "sticky" PROVE Dead(verdict[p].key)'
  <2>1. verdict'[p] = verdict[p] /\ verdict[p].key \in Cred
    BY <1>2 DEF TypeOK
  <2>2. Dead(verdict[p].key)
    BY <1>2, <2>1 DEF LockoutInv, LockoutIsReal
  <2>3. UNCHANGED <<cur, grace, revoked>>
    BY DEF idpVars
  <2> QED
    BY <2>1, <2>2, <2>3 DEF Dead
<1>3. ASSUME NEW t \in Tasks, chain'[t].pc = "apply", chain'[t].res = "rejected"
      PROVE  Dead(chain[t].key)'
  <2>1. chain'[t] = chain[t]
    BY <1>3
  <2>2. Dead(chain[t].key)
    BY <1>3, <2>1 DEF LockoutInv, RejectedIsDead
  <2>3. UNCHANGED <<cur, grace, revoked>>
    BY DEF idpVars
  <2> QED
    BY <2>1, <2>2, <2>3 DEF Dead
<1> QED
  BY <1>2, <1>3 DEF LockoutInv, LockoutIsReal, RejectedIsDead

LEMMA LockoutRotate ==
  ASSUME TypeOK, TypeOK', LockoutInv, NEW t \in Tasks, Rotate(chain[t].key), UNCHANGED verdict,
         Moved(t),
         chain'[t].pc = "apply" /\ chain'[t].res = "rejected" =>
           Dead(chain[t].key) /\ chain'[t].key = chain[t].key
  PROVE  LockoutInv'
<1>1. chain[t].key \in Cred
  BY DEF TypeOK, Calls
<1>2. ASSUME NEW g \in Cred, Dead(g) PROVE Dead(g)'
  BY <1>1, <1>2, DeadStable
<1>3. ASSUME NEW g \in Cred, NEW x, x = g, Dead(g) PROVE revoked' \/ x + 1 < cur' \/ (x + 1 = cur' /\ ~grace')
  BY <1>2, <1>3 DEF Dead
<1>4. ASSUME NEW p \in Procs, verdict'[p].kind = "sticky" PROVE Dead(verdict[p].key)'
  <2>1. verdict[p].key \in Cred /\ verdict' = verdict /\ Dead(verdict[p].key)
    BY <1>4 DEF TypeOK, LockoutInv, LockoutIsReal
  <2> QED
    BY <1>3, <2>1 DEF Dead
<1>5. ASSUME NEW s \in Tasks, chain'[s].pc = "apply", chain'[s].res = "rejected"
      PROVE  Dead(chain[s].key)'
  <2>1. chain[s].key \in Cred /\ chain'[s].key = chain[s].key /\ Dead(chain[s].key)
    BY <1>5 DEF TypeOK, Calls, LockoutInv, RejectedIsDead, Moved
  <2> QED
    BY <1>3, <2>1 DEF Dead
<1> QED
  BY <1>4, <1>5 DEF LockoutInv, LockoutIsReal, RejectedIsDead

LEMMA LockoutNext == TypeOK /\ TypeOK' /\ LockoutInv /\ [Next]_vars => LockoutInv'
<1> SUFFICES ASSUME TypeOK, TypeOK', LockoutInv, [Next]_vars PROVE LockoutInv'
  OBVIOUS
<1>1. CASE UNCHANGED <<idpVars, verdict, chain>>
  BY <1>1, LockoutQuiet
<1>2. ASSUME NEW t \in Tasks,
             \/ Dispatch(t) \/ Reject(t) \/ Reload(t) \/ Startup(t) \/ StartupLock(t)
             \/ TakeMutex(t) \/ GetLock(t) \/ LockTimeout(t) \/ AdoptLate(t) \/ Defer(t)
             \/ Revalidate(t) \/ Claim(t) \/ GateCheck(t) \/ ResolveCredential(t)
             \/ RequestFails(t) \/ ClientRejected(t) \/ Persist(t)
      PROVE  LockoutInv'
  <2>1. UNCHANGED <<idpVars, verdict>>
    BY <1>2 DEF Dispatch, Reject, Reload, Startup, StartupLock, TakeMutex, GetLock, LockTimeout,
                AdoptLate, Defer, Revalidate, Claim, GateCheck, ResolveCredential, RequestFails,
                ClientRejected, Persist
  <2>2. Moved(t) /\ (chain'[t].pc # "apply" \/ chain'[t].res # "rejected")
    BY <1>2, DispatchType, RejectType, ReloadType, StartupType, StartupLockType, TakeMutexType,
       GetLockType, LockTimeoutType, RevalidateType, ClaimType, GateCheckType,
       ResolveCredentialType, FailedSendType, ClientRejectedType, PersistType
  <2> QED
    BY <2>1, <2>2, LockoutQuiet DEF Moved
<1>3. ASSUME NEW t \in Tasks, Exchange(t) PROVE LockoutInv'
  <2>1. Rotate(chain[t].key) /\ UNCHANGED verdict
    BY <1>3 DEF Exchange
  <2>2. /\ Moved(t)
        /\ chain'[t].pc = "apply" /\ chain'[t].res = "rejected" =>
             Dead(chain[t].key) /\ chain'[t].key = chain[t].key
    BY <1>3, ExchangeType
  <2> QED
    BY <2>1, <2>2, LockoutRotate
<1>4. ASSUME NEW t \in Tasks, ResponseLost(t) PROVE LockoutInv'
  <2>1. Rotate(chain[t].key) /\ UNCHANGED verdict
    BY <1>4 DEF ResponseLost
  <2>2. Moved(t) /\ (chain'[t].pc # "apply" \/ chain'[t].res # "rejected")
    BY <1>4, FailedSendType
  <2> QED
    BY <2>1, <2>2, LockoutRotate
<1>5. ASSUME NEW t \in Tasks, GiveUp(t) PROVE LockoutInv'
  <2>1. UNCHANGED idpVars /\ chain[t].pc = "apply" /\ ProcOf[t] \in Procs
    BY <1>5, ProcsAssumption DEF GiveUp
  <2>2. /\ Moved(t) /\ chain'[t].pc = "idle"
        /\ \/ UNCHANGED verdict
           \/ \E k \in {"sticky", "aging"} :
                /\ verdict' = [verdict EXCEPT ![ProcOf[t]] = [key |-> chain[t].key, kind |-> k]]
                /\ k = "sticky" => chain[t].res = "rejected"
    BY <1>5, GiveUpType
  <2>3. RejectedIsDead'
    BY <2>1, <2>2 DEF LockoutInv, RejectedIsDead, Moved, Dead, idpVars
  <2>4. ASSUME NEW p \in Procs, verdict'[p].kind = "sticky" PROVE Dead(verdict[p].key)'
    <3>1. \/ verdict'[p] = verdict[p]
          \/ chain[t].res = "rejected" /\ verdict'[p].key = chain[t].key
      BY <2>1, <2>2, <2>4 DEF TypeOK
    <3>2. \E g : verdict'[p].key = g /\ Dead(g)
      BY <2>1, <2>4, <3>1 DEF LockoutInv, LockoutIsReal, RejectedIsDead
    <3> QED
      BY <2>1, <3>2 DEF Dead, idpVars
  <2> QED
    BY <2>3, <2>4 DEF LockoutInv, LockoutIsReal
<1>6. ASSUME NEW p \in Procs, Crash(p) \/ VerdictAges(p) PROVE LockoutInv'
  <2>1. UNCHANGED idpVars
    BY <1>6 DEF Crash, VerdictAges
  <2>2. \A q \in Procs : verdict'[q] = verdict[q] \/ verdict'[q].kind # "sticky"
    BY <1>6 DEF Crash, VerdictAges, TypeOK, NoVerdict
  <2>3. \A t \in Tasks : chain'[t] = chain[t] \/ chain'[t].pc # "apply"
    BY <1>6, IdleType DEF Crash, VerdictAges
  <2> QED
    BY <2>1, <2>2, <2>3, LockoutQuiet
<1>7. ASSUME GraceEnds PROVE LockoutInv'
  <2>1. grace' = FALSE /\ UNCHANGED <<cur, revoked, verdict, chain>>
    BY <1>7 DEF GraceEnds
  <2> QED
    BY <2>1 DEF LockoutInv, LockoutIsReal, RejectedIsDead, Dead
<1>8. ASSUME NEW p \in Procs,
             \/ EnrichRead(p) \/ EnrichWrite(p) \/ PickUpSiblingToken(p)
             \/ WillSleep(p) \/ SleepAck(p) \/ Wake(p) \/ Logout(p)
      PROVE  UNCHANGED <<idpVars, verdict, chain>>
  BY <1>8 DEF EnrichRead, EnrichWrite, PickUpSiblingToken, WillSleep, SleepAck, Wake, Logout
<1>9. ASSUME Expire \/ Break \/ UNCHANGED vars PROVE UNCHANGED <<idpVars, verdict, chain>>
  BY <1>9 DEF Expire, Break, vars, idpVars
<1> QED
  BY <1>1, <1>2, <1>3, <1>4, <1>5, <1>6, <1>7, <1>8, <1>9 DEF Next

\* A sticky permanent_failure always stands on a credential that the identity
\* provider will never exchange again, whatever other tasks and processes did
\* between the exchange and record_permanent_failure.
THEOREM LockoutsAreReal == Spec => []LockoutIsReal
<1>1. Spec => []LockoutInv
  BY LockoutInit, LockoutNext, RefreshTyped, PTL DEF Spec
<1>2. LockoutInv => LockoutIsReal
  BY DEF LockoutInv
<1> QED
  BY <1>1, <1>2, PTL

-----------------------------------------------------------------------------
(***************************************************************************)
(* The token family.  As long as no token was lost, auth.json holds the    *)
(* current credential or, within the grace window, its predecessor; only   *)
(* the holder of the live guard is past the last check of still_live; what *)
(* it sends is the disk credential, what it persists is the disk or the    *)
(* current one; and an enrichment that has the lock writes back what it    *)
(* read.                                                                   *)
(***************************************************************************)
DiskFresh == ~revoked /\ disk \in Tokens /\ (disk = cur \/ (grace /\ disk + 1 = cur))

ExposedHolds == \A t \in Tasks : chain[t].pc \in Exposed => live = Chain(t)

SendsDisk == \A t \in Tasks : chain[t].pc = "send" => chain[t].key = disk

PersistsFresh ==
  \A t \in Tasks : chain[t].pc = "apply" /\ chain[t].res = "ok" => chain[t].got \in {cur, disk}

EnrichHolds ==
  \A p \in Procs : enrich[p].pc = "locked" => live = Enrich(p) /\ enrich[p].tok = disk

FamilyInv ==
  ~hurt => DiskFresh /\ ExposedHolds /\ SendsDisk /\ PersistsFresh /\ EnrichHolds

\* What a step of call t does to the lock: the guards of others stay live.
LiveMoves(t) ==
  /\ \A s \in Tasks : s # t /\ live = Chain(s) => live' = live
  /\ \A p \in Procs : live = Enrich(p) => live' = live

LEMMA NobodyIsNone ==
  /\ \A t \in Tasks : Chain(t) # Nobody
  /\ \A p \in Procs : Enrich(p) # Nobody
  BY ClientTypes, NobodyAssumption

LEMMA LeaseMoves ==
  ASSUME NEW t \in Tasks,
         \/ Lease!Drop({Chain(t), Flow(t)}) \/ Lease!Drop({Chain(t)})
         \/ Lease!Acquire(Chain(t)) \/ Lease!Acquire(Flow(t))
         \/ UNCHANGED live
  PROVE  LiveMoves(t)
<1>1. CASE Lease!Acquire(Chain(t)) \/ Lease!Acquire(Flow(t))
  BY <1>1, NobodyIsNone DEF Lease!Acquire, LiveMoves
<1>2. CASE Lease!Drop({Chain(t), Flow(t)}) \/ Lease!Drop({Chain(t)})
  <2>1. live \notin {Chain(t), Flow(t)} => live' = live
    BY <1>2 DEF Lease!Drop
  <2> QED
    BY <2>1, ClientTypes DEF LiveMoves
<1> QED
  BY <1>1, <1>2 DEF LiveMoves

LEMMA ReturnMoves ==
  ASSUME NEW t \in Tasks, NEW m, NEW tr, Return(t, m, tr) PROVE LiveMoves(t)
  BY LeaseMoves DEF Return

LEMMA AdoptMoves == ASSUME NEW t \in Tasks, Adopt(t) PROVE LiveMoves(t)
  BY ReturnMoves DEF Adopt

LEMMA EnterChainMoves ==
  ASSUME NEW t \in Tasks, NEW r, EnterChain(t, r) PROVE LiveMoves(t)
  BY ReturnMoves, AdoptMoves, LeaseMoves DEF EnterChain

\* A step of one call that leaves the disk and the identity provider alone.
LEMMA FamilyCall ==
  ASSUME TypeOK, FamilyInv, NEW t \in Tasks,
         UNCHANGED <<disk, cur, grace, revoked, enrich, hurt>>, Moved(t), LiveMoves(t),
         ~hurt /\ chain'[t].pc \in Exposed => live' = Chain(t),
         ~hurt /\ chain'[t].pc = "send" => chain'[t].key = disk,
         ~hurt /\ chain'[t].pc = "apply" /\ chain'[t].res = "ok" => chain'[t].got \in {cur, disk}
  PROVE  FamilyInv'
<1> SUFFICES ASSUME ~hurt
             PROVE  (DiskFresh /\ ExposedHolds /\ SendsDisk /\ PersistsFresh /\ EnrichHolds)'
  BY DEF FamilyInv
<1>1. DiskFresh /\ ExposedHolds /\ SendsDisk /\ PersistsFresh /\ EnrichHolds
  BY DEF FamilyInv
<1>2. DiskFresh'
  BY <1>1 DEF DiskFresh
<1>3. ExposedHolds'
  BY <1>1 DEF ExposedHolds, Moved, LiveMoves
<1>4. SendsDisk' /\ PersistsFresh'
  BY <1>1 DEF SendsDisk, PersistsFresh, Moved
<1>5. EnrichHolds'
  BY <1>1 DEF EnrichHolds, LiveMoves
<1> QED
  BY <1>2, <1>3, <1>4, <1>5

\* Before the last check of still_live, and after the call returned.
LEMMA FamilyUnexposed ==
  ASSUME TypeOK, FamilyInv, NEW t \in Tasks,
         \/ Dispatch(t) \/ Reject(t) \/ Reload(t) \/ Startup(t) \/ StartupLock(t)
         \/ TakeMutex(t) \/ LockTimeout(t) \/ AdoptLate(t) \/ Defer(t) \/ GiveUp(t)
  PROVE  FamilyInv'
<1>1. UNCHANGED <<disk, cur, grace, revoked, enrich, hurt>>
  BY DEF Dispatch, Reject, Reload, Startup, StartupLock, TakeMutex, LockTimeout, AdoptLate, Defer,
         GiveUp, idpVars
<1>2. Moved(t) /\ chain'[t].pc \notin Exposed
  BY DispatchType, RejectType, ReloadType, StartupType, StartupLockType, TakeMutexType,
     LockTimeoutType, GiveUpType DEF Exposed, Exchanging
<1>3. LiveMoves(t)
  BY ReturnMoves, AdoptMoves, EnterChainMoves, LeaseMoves
     DEF Dispatch, Reject, Reload, Startup, StartupLock, TakeMutex, LockTimeout, AdoptLate, Defer,
         GiveUp, leaseVars
<1> QED
  BY <1>1, <1>2, <1>3, FamilyCall DEF Exposed, Exchanging

LEMMA FamilyLocked ==
  ASSUME TypeOK, FamilyInv, NEW t \in Tasks, GetLock(t) \/ Revalidate(t)
  PROVE  FamilyInv'
<1>1. UNCHANGED <<disk, cur, grace, revoked, enrich, hurt>>
  BY DEF GetLock, Revalidate, idpVars
<1>2. Moved(t) /\ chain'[t].pc \in {"idle", "held", "claim", "relock"}
  BY GetLockType, RevalidateType
<1>3. LiveMoves(t)
  BY AdoptMoves, LeaseMoves DEF GetLock, Revalidate, leaseVars
<1>4. chain'[t].pc \in Exposed => live' = Chain(t)
  <2>1. CASE GetLock(t)
    <3>1. Adopt(t) \/ Lease!Acquire(Chain(t))
      BY <2>1 DEF GetLock
    <3>2. Adopt(t) => chain'[t].pc = "idle"
      BY AdoptType, IdleType
    <3>3. Lease!Acquire(Chain(t)) => live' = Chain(t)
      BY DEF Lease!Acquire
    <3> QED
      BY <3>1, <3>2, <3>3 DEF Exposed, Exchanging
  <2>2. CASE Revalidate(t)
    <3>1. "relock" \in Steps /\ chain \in [Tasks -> Calls]
      BY DEF Steps, TypeOK
    <3>2. Goto(t, "relock") => chain'[t].pc = "relock"
      BY <3>1, GotoType
    <3>3. (live = Chain(t) /\ UNCHANGED live) \/ Goto(t, "relock")
      BY <2>2 DEF Revalidate, leaseVars
    <3> QED
      BY <3>2, <3>3 DEF Exposed, Exchanging
  <2> QED
    BY <2>1, <2>2
<1> QED
  BY <1>1, <1>2, <1>3, <1>4, FamilyCall

LEMMA FamilyClaimed ==
  ASSUME TypeOK, FamilyInv, NEW t \in Tasks, Claim(t) \/ GateCheck(t)
  PROVE  FamilyInv'
<1>1. UNCHANGED <<disk, cur, grace, revoked, enrich, hurt>>
  BY DEF Claim, GateCheck, idpVars
<1>2. Moved(t) /\ chain'[t].pc \in {"idle", "gate", "resolve"}
  BY ClaimType, GateCheckType
<1>3. LiveMoves(t)
  BY ReturnMoves, LeaseMoves DEF Claim, GateCheck, leaseVars
<1>4. ~hurt => live = Chain(t)
  <2>1. chain[t].pc \in Exposed
    BY DEF Claim, GateCheck, Exposed
  <2> QED
    BY <2>1 DEF FamilyInv, ExposedHolds
<1>5. chain'[t].pc \in Exposed => live' = live
  <2>1. Return(t, mem, TRUE) => chain'[t].pc = "idle"
    <3>1. mem \in [Procs -> Cred]
      BY DEF TypeOK
    <3> QED
      BY <3>1, ReturnType, IdleType
  <2> QED
    BY <2>1 DEF Claim, GateCheck, leaseVars, Exposed, Exchanging
<1> QED
  BY <1>1, <1>2, <1>3, <1>4, <1>5, FamilyCall

LEMMA FamilyResolve ==
  ASSUME TypeOK, FamilyInv, NEW t \in Tasks, ResolveCredential(t)
  PROVE  FamilyInv'
<1>1. UNCHANGED <<disk, cur, grace, revoked, enrich, hurt, live>>
  BY DEF ResolveCredential, idpVars, leaseVars
<1>2. /\ Moved(t)
      /\ \/ chain'[t].pc = "apply" /\ chain'[t].res = "ok" /\ chain'[t].got = disk
         \/ chain'[t].pc = "apply" /\ chain'[t].res = "transient"
         \/ chain'[t].pc = "send" /\ chain'[t].key = Resolve(ProcOf[t], chain[t].reason)
  BY ResolveCredentialType
<1>3. ~hurt => live = Chain(t) /\ disk # NoTok
  BY DEF ResolveCredential, FamilyInv, ExposedHolds, Exposed, Exchanging, DiskFresh, Tokens, NoTok
<1>4. disk # NoTok => Resolve(ProcOf[t], chain[t].reason) = disk
  BY DEF Resolve
<1>5. LiveMoves(t)
  BY <1>1, LeaseMoves
<1> QED
  BY <1>1, <1>2, <1>3, <1>4, <1>5, FamilyCall

\* The holder of the live guard is the only one that is exposed.
LEMMA OnlyExposed ==
  ASSUME ExposedHolds, EnrichHolds, NEW t \in Tasks, chain[t].pc \in Exposed
  PROVE  /\ \A s \in Tasks : s # t => chain[s].pc \notin Exposed
         /\ \A p \in Procs : enrich[p].pc # "locked"
  BY ClientTypes DEF ExposedHolds, EnrichHolds

\* The exchange: the disk credential is not dead, so it is rotated or answered
\* with its successor, and nobody else has a credential in hand.
LEMMA FamilyExchange ==
  ASSUME TypeOK, FamilyInv, NEW t \in Tasks, Exchange(t) \/ ResponseLost(t)
  PROVE  FamilyInv'
<1> SUFFICES ASSUME ~hurt
             PROVE  (DiskFresh /\ ExposedHolds /\ SendsDisk /\ PersistsFresh /\ EnrichHolds)'
  BY DEF FamilyInv, Exchange, ResponseLost
<1>1. DiskFresh /\ ExposedHolds /\ SendsDisk /\ PersistsFresh /\ EnrichHolds
  BY DEF FamilyInv
<1>2. /\ chain[t].pc = "send" /\ Rotate(chain[t].key)
      /\ UNCHANGED <<disk, live, enrich, hurt>>
  BY DEF Exchange, ResponseLost, leaseVars
<1>3. chain[t].key = disk /\ disk \in Nat /\ cur \in Nat /\ chain[t].pc \in Exposed /\ live = Chain(t)
  BY <1>1, <1>2 DEF SendsDisk, DiskFresh, TypeOK, Tokens, Exposed, Exchanging, ExposedHolds
<1>4. ~Dead(disk)
  BY <1>1, <1>3 DEF DiskFresh, Dead
<1>5. \/ disk = cur /\ cur' = cur + 1 /\ grace' = TRUE /\ revoked' = revoked
      \/ disk # cur /\ UNCHANGED <<cur, grace, revoked>>
  BY <1>2, <1>3, <1>4 DEF Rotate, idpVars
<1>6. DiskFresh'
  BY <1>1, <1>2, <1>3, <1>5 DEF DiskFresh
<1>7. /\ Moved(t)
      /\ \/ chain'[t].pc = "apply" /\ chain'[t].res = "ok" /\ chain'[t].got = cur'
         \/ chain'[t].pc = "send" /\ chain'[t].key = disk
         \/ chain'[t].pc = "apply" /\ chain'[t].res # "ok"
  BY <1>3, <1>4, ExchangeType, FailedSendType
<1>8. /\ \A s \in Tasks : s # t => chain[s].pc \notin Exposed
      /\ \A p \in Procs : enrich[p].pc # "locked"
  BY <1>1, <1>3, OnlyExposed
<1>9. \A s \in Tasks : s # t => chain'[s].pc \notin Exposed
  BY <1>7, <1>8 DEF Moved
<1>10. ExposedHolds'
  BY <1>2, <1>3, <1>9 DEF ExposedHolds
<1>11. SendsDisk' /\ PersistsFresh'
  BY <1>2, <1>7, <1>9 DEF SendsDisk, PersistsFresh, Exposed, Exchanging
<1>12. EnrichHolds'
  BY <1>2, <1>8 DEF EnrichHolds
<1> QED
  BY <1>6, <1>10, <1>11, <1>12

\* A request that did not arrive, or was refused for another reason.
LEMMA FamilyNoAnswer ==
  ASSUME TypeOK, FamilyInv, NEW t \in Tasks, RequestFails(t) \/ ClientRejected(t)
  PROVE  FamilyInv'
<1>1. UNCHANGED <<disk, cur, grace, revoked, enrich, hurt, live>> /\ chain[t].pc = "send"
  BY DEF RequestFails, ClientRejected, idpVars, leaseVars
<1>2. /\ Moved(t)
      /\ \/ chain'[t].pc = "send" /\ chain'[t].key = chain[t].key
         \/ chain'[t].pc = "apply" /\ chain'[t].res # "ok"
  BY FailedSendType, ClientRejectedType
<1>3. ~hurt => live = Chain(t) /\ chain[t].key = disk
  BY <1>1 DEF FamilyInv, ExposedHolds, SendsDisk, Exposed, Exchanging
<1>4. LiveMoves(t)
  BY <1>1, LeaseMoves
<1> QED
  BY <1>1, <1>2, <1>3, <1>4, FamilyCall

\* The new credential reaches the disk while the guard is live.
LEMMA FamilyPersist ==
  ASSUME TypeOK, FamilyInv, NEW t \in Tasks, Persist(t)
  PROVE  FamilyInv'
<1> SUFFICES ASSUME ~hurt
             PROVE  (DiskFresh /\ ExposedHolds /\ SendsDisk /\ PersistsFresh /\ EnrichHolds)'
  BY DEF FamilyInv, Persist
<1>1. DiskFresh /\ ExposedHolds /\ SendsDisk /\ PersistsFresh /\ EnrichHolds
  BY DEF FamilyInv
<1>2. /\ UNCHANGED <<cur, grace, revoked>> /\ disk' \in {disk, chain[t].got}
      /\ chain[t].pc = "apply" /\ chain[t].res = "ok"
  BY DEF Persist, idpVars
<1>3. disk' \in {disk, cur} /\ chain[t].pc \in Exposed
  BY <1>1, <1>2 DEF PersistsFresh, Exposed
<1>4. DiskFresh'
  BY <1>1, <1>2, <1>3 DEF DiskFresh, TypeOK
<1>5. Moved(t) /\ chain'[t].pc = "idle"
  BY PersistType
<1>6. /\ \A s \in Tasks : s # t => chain[s].pc \notin Exposed
      /\ \A p \in Procs : enrich[p].pc # "locked"
  BY <1>1, <1>3, OnlyExposed
<1>7. \A s \in Tasks : chain'[s].pc \notin Exposed
  BY <1>5, <1>6 DEF Moved, Exposed, Exchanging
<1>8. \A p \in Procs : enrich'[p].pc # "locked"
  <2>1. PICK e \in {[pc |-> "want", tok |-> chain[t].got]} :
          UNCHANGED enrich \/ enrich' = [enrich EXCEPT ![ProcOf[t]] = e]
    BY DEF Persist
  <2>2. e.pc = "want"
    BY <2>1
  <2>3. ASSUME NEW p \in Procs PROVE enrich'[p] = enrich[p] \/ enrich'[p] = e
    BY <2>1 DEF TypeOK
  <2> QED
    BY <1>6, <2>2, <2>3
<1> QED
  BY <1>4, <1>7, <1>8
     DEF ExposedHolds, SendsDisk, PersistsFresh, EnrichHolds, Exposed, Exchanging

\* Enrichment: with the lock it writes back what it read; without, it either
\* changes nothing or a token is lost.
LEMMA FamilyEnrich ==
  ASSUME TypeOK, FamilyInv, NEW p \in Procs, EnrichRead(p) \/ EnrichWrite(p)
  PROVE  FamilyInv'
<1> SUFFICES ASSUME ~hurt'
             PROVE  (DiskFresh /\ ExposedHolds /\ SendsDisk /\ PersistsFresh /\ EnrichHolds)'
  BY DEF FamilyInv
<1>1. ~hurt
  BY DEF EnrichRead, EnrichWrite
<1>2. DiskFresh /\ ExposedHolds /\ SendsDisk /\ PersistsFresh /\ EnrichHolds
  BY <1>1 DEF FamilyInv
<1>3. UNCHANGED <<cur, grace, revoked, chain>>
  BY DEF EnrichRead, EnrichWrite, idpVars
<1>4. disk' = disk
  <2>1. CASE EnrichRead(p)
    BY <2>1 DEF EnrichRead
  <2>2. CASE EnrichWrite(p)
    BY <1>2, <2>2 DEF EnrichWrite, EnrichHolds
  <2> QED
    BY <2>1, <2>2
<1>5. \A t \in Tasks : live = Chain(t) => live' = live
  BY ClientTypes, NobodyIsNone DEF EnrichRead, EnrichWrite, Lease!Acquire, Lease!Drop, leaseVars
<1>6. \A q \in Procs : q # p => /\ enrich'[q] = enrich[q]
                                /\ live = Enrich(q) => live' = live
  <2>1. \A q \in Procs : q # p => enrich'[q] = enrich[q]
    BY DEF EnrichRead, EnrichWrite, TypeOK
  <2>2. \A q \in Procs : q # p /\ live = Enrich(q) => live' = live
    BY ClientTypes, NobodyIsNone DEF EnrichRead, EnrichWrite, Lease!Acquire, Lease!Drop, leaseVars
  <2> QED
    BY <2>1, <2>2
<1>7. enrich'[p].pc = "locked" => live' = Enrich(p) /\ enrich'[p].tok = disk
  <2>1. CASE EnrichWrite(p)
    BY <2>1 DEF EnrichWrite, TypeOK, NoEnrich
  <2>2. CASE EnrichRead(p) /\ disk # enrich[p].tok
    BY <2>2 DEF EnrichRead, TypeOK, NoEnrich
  <2>3. CASE EnrichRead(p) /\ disk = enrich[p].tok
    BY <2>3 DEF EnrichRead, TypeOK, Lease!Acquire
  <2> QED
    BY <2>1, <2>2, <2>3
<1> QED
  BY <1>2, <1>3, <1>4, <1>5, <1>6, <1>7
     DEF DiskFresh, ExposedHolds, SendsDisk, PersistsFresh, EnrichHolds

LEMMA FamilyCrash ==
  ASSUME TypeOK, FamilyInv, NEW p \in Procs, Crash(p)
  PROVE  FamilyInv'
<1> SUFFICES ASSUME ~hurt
             PROVE  (DiskFresh /\ ExposedHolds /\ SendsDisk /\ PersistsFresh /\ EnrichHolds)'
  BY DEF FamilyInv, Crash
<1>1. DiskFresh /\ ExposedHolds /\ SendsDisk /\ PersistsFresh /\ EnrichHolds
  BY DEF FamilyInv
<1>2. UNCHANGED <<disk, cur, grace, revoked>>
  BY DEF Crash, idpVars
<1>3. \A t \in Tasks : /\ ProcOf[t] = p => chain'[t].pc = "idle"
                       /\ ProcOf[t] # p => chain'[t] = chain[t]
  BY IdleType DEF Crash
<1>4. \A q \in Procs : /\ q # p => enrich'[q] = enrich[q]
                       /\ enrich'[p].pc = "none"
  BY DEF Crash, TypeOK, NoEnrich
<1>5. /\ \A t \in Tasks : ProcOf[t] # p /\ live = Chain(t) => live' = live
      /\ \A q \in Procs : q # p /\ live = Enrich(q) => live' = live
  <2> DEFINE C == ({"chain", "flow"} \X {t \in Tasks : ProcOf[t] = p}) \union {Enrich(p)}
  <2>1. live \notin C => live' = live
    BY DEF Crash, Lease!Drop
  <2>2. \A t \in Tasks : ProcOf[t] # p => Chain(t) \notin C
    BY DEF Chain, Enrich
  <2>3. \A q \in Procs : q # p => Enrich(q) \notin C
    BY DEF Enrich
  <2> QED
    BY <2>1, <2>2, <2>3
<1>6. ExposedHolds'
  BY <1>1, <1>3, <1>5 DEF ExposedHolds, Exposed, Exchanging
<1>7. DiskFresh' /\ SendsDisk' /\ PersistsFresh'
  BY <1>1, <1>2, <1>3 DEF DiskFresh, SendsDisk, PersistsFresh
<1>8. EnrichHolds'
  BY <1>1, <1>2, <1>4, <1>5 DEF EnrichHolds
<1> QED
  BY <1>6, <1>7, <1>8

\* The lock is broken under a holder that may not notice, or the grace window
\* ends: either costs nobody a token, or hurt says so.
LEMMA FamilyWorld == ASSUME TypeOK, FamilyInv, GraceEnds \/ Break PROVE FamilyInv'
<1> SUFFICES ASSUME ~hurt'
             PROVE  (DiskFresh /\ ExposedHolds /\ SendsDisk /\ PersistsFresh /\ EnrichHolds)'
  BY DEF FamilyInv
<1>1. ~hurt
  BY DEF GraceEnds, Break
<1>2. DiskFresh /\ ExposedHolds /\ SendsDisk /\ PersistsFresh /\ EnrichHolds
  BY <1>1 DEF FamilyInv
<1>3. UNCHANGED <<disk, cur, revoked, chain, enrich>>
  BY DEF GraceEnds, Break, idpVars
<1>4. CASE GraceEnds
  <2>1. disk = cur /\ UNCHANGED live
    BY <1>4 DEF GraceEnds, leaseVars
  <2> QED
    BY <1>2, <1>3, <2>1 DEF DiskFresh, ExposedHolds, SendsDisk, PersistsFresh, EnrichHolds
<1>5. CASE Break
  <2>1. /\ grace' = grace
        /\ \A t \in Tasks : ~(live = Chain(t) /\ chain[t].pc \in Exposed)
        /\ \A p \in Procs : live # Enrich(p)
    BY <1>5 DEF Break, idpVars
  <2> QED
    BY <1>2, <1>3, <2>1 DEF DiskFresh, ExposedHolds, SendsDisk, PersistsFresh, EnrichHolds
<1> QED
  BY <1>4, <1>5

LEMMA FamilyInit == Init => FamilyInv
<1> SUFFICES ASSUME Init PROVE FamilyInv
  OBVIOUS
<1>1. \A t \in Tasks : chain[t].pc = "idle"
  BY IdleType DEF Init
<1>2. \A p \in Procs : enrich[p].pc = "none"
  BY DEF Init, NoEnrich
<1>3. DiskFresh
  BY Numbers DEF Init, DiskFresh
<1> QED
  BY <1>1, <1>2, <1>3
     DEF FamilyInv, ExposedHolds, SendsDisk, PersistsFresh, EnrichHolds, Exposed, Exchanging

LEMMA FamilyNext == TypeOK /\ FamilyInv /\ [Next]_vars => FamilyInv'
<1> SUFFICES ASSUME TypeOK, FamilyInv, [Next]_vars PROVE FamilyInv'
  OBVIOUS
<1>1. CASE UNCHANGED <<disk, idpVars, leaseVars, chain, enrich, hurt>>
  BY <1>1 DEF idpVars, leaseVars, FamilyInv, DiskFresh, ExposedHolds, SendsDisk, PersistsFresh, EnrichHolds
<1>2. ASSUME NEW t \in Tasks,
             \/ Dispatch(t) \/ Reject(t) \/ Reload(t) \/ Startup(t) \/ StartupLock(t)
             \/ TakeMutex(t) \/ GetLock(t) \/ LockTimeout(t) \/ AdoptLate(t)
             \/ Defer(t) \/ Revalidate(t) \/ Claim(t) \/ GateCheck(t) \/ ResolveCredential(t)
             \/ Exchange(t) \/ RequestFails(t) \/ ResponseLost(t) \/ ClientRejected(t)
             \/ Persist(t) \/ GiveUp(t)
      PROVE  FamilyInv'
  BY <1>2, FamilyUnexposed, FamilyLocked, FamilyClaimed, FamilyResolve, FamilyExchange,
     FamilyNoAnswer, FamilyPersist
<1>3. ASSUME NEW p \in Procs,
             \/ PickUpSiblingToken(p) \/ WillSleep(p) \/ SleepAck(p) \/ Wake(p) \/ VerdictAges(p)
      PROVE  UNCHANGED <<disk, idpVars, leaseVars, chain, enrich, hurt>>
  BY <1>3, ProcessType
<1>4. ASSUME NEW p \in Procs, Logout(p) PROVE FamilyInv'
  BY <1>4 DEF Logout, FamilyInv
<1>5. ASSUME Expire \/ UNCHANGED vars
      PROVE  UNCHANGED <<disk, idpVars, leaseVars, chain, enrich, hurt>>
  BY <1>5 DEF Expire, vars, idpVars, leaseVars
<1> QED
  BY <1>1, <1>2, <1>3, <1>4, <1>5, FamilyEnrich, FamilyCrash, FamilyWorld DEF Next

LEMMA FamilyInvariant == Spec => []FamilyInv
  BY FamilyInit, FamilyNext, RefreshTyped, PTL DEF Spec

\* The code never makes the identity provider revoke the token family, for any
\* number of processes and tasks and any interleaving of their refreshes,
\* crashes, lost answers and lock breaks, unless a token was lost (hurt).
THEOREM FamilyIsSafe == Spec => []FamilySafe
<1>1. FamilyInv => FamilySafe
  BY DEF FamilyInv, DiskFresh, FamilySafe
<1> QED
  BY <1>1, FamilyInvariant, PTL

\* Under the same conditions auth.json always holds a credential that can be
\* exchanged.
THEOREM DiskStaysUsable == Spec => []DiskUsable
<1>1. TypeOK /\ FamilyInv => DiskUsable
  <2> SUFFICES ASSUME TypeOK, FamilyInv, ~hurt PROVE ~Dead(disk)
    BY DEF DiskUsable
  <2>1. DiskFresh /\ disk \in Nat /\ cur \in Nat
    BY DEF FamilyInv, TypeOK, Tokens, Cred
  <2> QED
    BY <2>1 DEF DiskFresh, Dead
<1> QED
  BY <1>1, FamilyInvariant, RefreshTyped, PTL

=============================================================================
