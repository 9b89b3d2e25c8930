---------------------------- MODULE AuthRefresh ----------------------------
(***************************************************************************)
(* Token refresh by the processes of one user that share auth.json.        *)
(* (crates/codegen/xai-grok-shell/src/auth: manager.rs, recovery.rs,       *)
(* flow.rs, refresh/, oidc/refresh.rs, manager/enrichment.rs and           *)
(* manager/sleep_gate.rs)                                                  *)
(*                                                                         *)
(* A credential is the number of its generation: the n-th access token and *)
(* the refresh token that came with it.  The identity provider rotates the *)
(* refresh token at each exchange, answers a repeated exchange within its  *)
(* grace window with the same successor, and revokes the whole family when *)
(* a spent refresh token is presented later.                               *)
(*                                                                         *)
(*   disk, mem     the credential in auth.json, and in each AuthManager    *)
(*   aged          access tokens up to this generation have expired        *)
(*   cur, grace, revoked   the identity provider                           *)
(*   verdict       permanent_failure of each AuthManager                   *)
(*   budget        transient_budget of each refresher                      *)
(*   mutex         the task inside refresh_lock of each process            *)
(*   live, holders the guards of auth.json.lock: see FileLease             *)
(*   chain         where each task is in auth() or 401 recovery            *)
(*   sleep         the system sleep handler of each process                *)
(*   enrich        the /user enrichment each process has under way         *)
(*   events, hurt  how many of Events there were, and whether a refresh    *)
(*                 token may have been lost or spent twice because of one  *)
(***************************************************************************)
EXTENDS Naturals

CONSTANTS
  Procs, Tasks, ProcOf,
  Starters,      \* tasks that also run the start-up login flow
  Sleepers,      \* processes with an OS power listener
  Nobody,
  MAX_CONSECUTIVE_TRANSIENT_FAILURES,
  MaxSends,      \* attempts of one exchange
  MaxGen,        \* bound on generations
  Events,        \* what may go wrong or come from outside
  MaxEvents      \* bound on their number

ASSUME ProcsAssumption ==
  /\ ProcOf \in [Tasks -> Procs]
  /\ Starters \subseteq Tasks /\ Sleepers \subseteq Procs
  /\ Nobody \notin Tasks
ASSUME LimitsAssumption ==
  /\ MAX_CONSECUTIVE_TRANSIENT_FAILURES \in Nat /\ MAX_CONSECUTIVE_TRANSIENT_FAILURES > 0
  /\ MaxSends \in Nat /\ MaxSends > 0
  /\ MaxGen \in Nat /\ MaxGen > 0
  /\ MaxEvents \in Nat

VARIABLES disk, mem, aged, cur, grace, revoked, verdict, budget, mutex,
          live, holders, chain, sleep, enrich, events, hurt

idpVars == <<cur, grace, revoked>>
leaseVars == <<live, holders>>
vars == <<disk, mem, aged, cur, grace, revoked, verdict, budget, mutex,
          live, holders, chain, sleep, enrich, events, hurt>>

NoTok == 0
Tokens == 1..MaxGen
Cred == 0..MaxGen

(***************************************************************************)
(* The clients of the lock: a refresh chain, the start-up flow around one, *)
(* and an enrichment.                                                      *)
(***************************************************************************)
Chain(t) == <<"chain", t>>
Flow(t) == <<"flow", t>>
Enrich(p) == <<"enrich", p>>
Clients == ({"chain", "flow"} \X Tasks) \union ({"enrich"} \X Procs)

ASSUME NobodyAssumption == Nobody \notin Clients

Lease == INSTANCE FileLease WITH Triers <- {}

Steps == {"idle", "outer", "start", "reload", "mutex", "lock", "late", "held", "relock",
          "claim", "gate", "resolve", "send", "apply"}

\* In refresher.refresh: the refresh token may leave, or has left, the process.
Exchanging == {"resolve", "send"}

\* After still_live was checked for the last time.
Exposed == Exchanging \union {"claim", "gate", "apply"}

Reasons == {"PreRequest", "ServerRejected"}
Results == {"none", "ok", "rejected", "aging", "transient"}

(***************************************************************************)
(* A call of auth() or of the 401 recovery.  key is the rejected token,    *)
(* then pre_lock_key, then the credential sent to the identity provider;   *)
(* got the one that came back; n the attempt; again whether it is the      *)
(* retry with the disk token; defer the disk token the start-up flow falls *)
(* back to.                                                                *)
(***************************************************************************)
Idle == [pc |-> "idle", reason |-> "PreRequest", key |-> NoTok, res |-> "none",
         got |-> NoTok, n |-> 1, again |-> FALSE, defer |-> NoTok]

Calls == [pc : Steps, reason : Reasons, key : Cred, res : Results,
          got : Cred, n : 1..MaxSends, again : BOOLEAN, defer : Cred]

NoVerdict == [kind |-> "none", key |-> NoTok]
NoFailures == [key |-> NoTok, count |-> 0]
NoEnrich == [pc |-> "none", tok |-> NoTok]

TypeOK ==
  /\ disk \in Cred /\ aged \in Cred /\ cur \in Tokens
  /\ mem \in [Procs -> Cred]
  /\ grace \in BOOLEAN /\ revoked \in BOOLEAN /\ hurt \in BOOLEAN
  /\ verdict \in [Procs -> [kind : {"none", "sticky", "aging"}, key : Cred]]
  /\ budget \in [Procs -> [key : Cred, count : 0..(MAX_CONSECUTIVE_TRANSIENT_FAILURES - 1)]]
  /\ mutex \in [Procs -> Tasks \union {Nobody}]
  /\ live \in Clients \union {Nobody} /\ holders \in SUBSET Clients
  /\ chain \in [Tasks -> Calls]
  /\ sleep \in [Procs -> {"awake", "raised", "acked", "late"}]
  /\ enrich \in [Procs -> [pc : {"none", "want", "locked", "unlocked"}, tok : Cred]]
  /\ events \in 0..MaxEvents

Init ==
  /\ disk = 1 /\ mem = [p \in Procs |-> 1] /\ aged = 0
  /\ cur = 1 /\ grace = FALSE /\ revoked = FALSE
  /\ verdict = [p \in Procs |-> NoVerdict]
  /\ budget = [p \in Procs |-> NoFailures]
  /\ mutex = [p \in Procs |-> Nobody]
  /\ Lease!LeaseInit
  /\ chain = [t \in Tasks |-> Idle]
  /\ sleep = [p \in Procs |-> "awake"]
  /\ enrich = [p \in Procs |-> NoEnrich]
  /\ events = 0 /\ hurt = FALSE

Event(kind) ==
  /\ kind \in Events
  /\ events < MaxEvents
  /\ events' = events + 1

(***************************************************************************)
(* AuthManager: current, resolve_refresh_credential, permanent_failure and *)
(* try_use_disk_token.                                                     *)
(***************************************************************************)
Valid(g) == g > aged

Current(p) == IF Valid(mem[p]) THEN mem[p] ELSE NoTok

Resolve(p, reason) ==
  IF disk # NoTok THEN disk
  ELSE IF ~Valid(mem[p]) \/ reason = "ServerRejected" THEN mem[p] ELSE NoTok

Failed(p) ==
  /\ verdict[p].kind # "none"
  /\ Resolve(p, "ServerRejected") = verdict[p].key

Adoptable(p, reason) == Valid(disk) /\ (reason = "ServerRejected" => disk # mem[p])

\* sibling_has_different_refresh_token
SiblingDiffers(p) == Valid(disk) /\ disk # (IF Valid(mem[p]) THEN NoTok ELSE mem[p])

Goto(t, pc) == chain' = [chain EXCEPT ![t].pc = pc]

(***************************************************************************)
(* The call returns: its guards and its place in refresh_lock are dropped. *)
(* The start-up flow answers a transient error with the disk credential it *)
(* read before it called auth(), which it puts in memory.                  *)
(***************************************************************************)
Return(t, m, transient) ==
  /\ chain' = [chain EXCEPT ![t] = Idle]
  /\ mutex' = [p \in Procs |-> IF mutex[p] = t THEN Nobody ELSE mutex[p]]
  /\ Lease!Drop({Chain(t), Flow(t)})
  /\ mem' = IF transient /\ chain[t].defer # NoTok
            THEN [m EXCEPT ![ProcOf[t]] = chain[t].defer] ELSE m

Adopt(t) == Return(t, [mem EXCEPT ![ProcOf[t]] = disk], FALSE)

(***************************************************************************)
(* refresh_chain up to its first await.  A verdict on the credential that  *)
(* would be sent ends the call, unless a sibling left a valid token on     *)
(* disk.                                                                   *)
(***************************************************************************)
EnterChain(t, reason) ==
  LET p == ProcOf[t] IN
  \/ /\ Failed(p)
     /\ IF Adoptable(p, reason) THEN Adopt(t) ELSE Return(t, mem, FALSE)
  \/ /\ ~Failed(p)
     /\ chain' = [chain EXCEPT ![t] = [@ EXCEPT !.pc = "mutex", !.reason = reason, !.key = Current(p)]]
     /\ UNCHANGED <<mem, mutex, live, holders>>

\* auth() on an expired token; the start-up flow may find that it no longer is.
Dispatch(t) ==
  /\ chain[t].pc \in {"idle", "start"}
  /\ \/ /\ Valid(mem[ProcOf[t]]) \/ (mem[ProcOf[t]] = NoTok /\ ~Failed(ProcOf[t]))
        /\ chain[t].pc = "start"
        /\ Return(t, mem, FALSE)
     \/ /\ ~Valid(mem[ProcOf[t]])
        /\ mem[ProcOf[t]] # NoTok \/ Failed(ProcOf[t])
        /\ EnterChain(t, "PreRequest")
  /\ UNCHANGED <<disk, aged, idpVars, verdict, budget, sleep, enrich, events, hurt>>

(***************************************************************************)
(* UnauthorizedRecovery: the server rejected the token in memory.  The     *)
(* disk is read with or without the file lock; a different valid token is  *)
(* taken, a freshly minted one is kept, otherwise the chain runs.          *)
(***************************************************************************)
Reject(t) ==
  /\ chain[t].pc = "idle"
  /\ mem[ProcOf[t]] \in 1..(MaxGen - 1)
  /\ chain' = [chain EXCEPT ![t] = [@ EXCEPT !.pc = "reload", !.key = mem[ProcOf[t]]]]
  /\ UNCHANGED <<disk, mem, aged, idpVars, verdict, budget, mutex, leaseVars, sleep, enrich, events, hurt>>

Reload(t) ==
  /\ chain[t].pc = "reload"
  /\ \/ /\ Valid(disk) /\ disk # chain[t].key
        /\ Adopt(t)
     \/ /\ ~(Valid(disk) /\ disk # chain[t].key)
        /\ \/ (Current(ProcOf[t]) # NoTok \/ mem[ProcOf[t]] = NoTok) /\ Return(t, mem, FALSE)
           \/ mem[ProcOf[t]] # NoTok /\ EnterChain(t, "ServerRejected")
  /\ UNCHANGED <<disk, aged, idpVars, verdict, budget, sleep, enrich, events, hurt>>

(***************************************************************************)
(* The start-up flow on an expired token: it takes the file lock, or gives *)
(* up waiting for it, uses a valid disk token, and otherwise calls auth()  *)
(* with the lock still held.                                               *)
(***************************************************************************)
Startup(t) ==
  /\ t \in Starters
  /\ chain[t].pc = "idle"
  /\ mem[ProcOf[t]] # NoTok /\ ~Valid(mem[ProcOf[t]])
  /\ Goto(t, "outer")
  /\ UNCHANGED <<disk, mem, aged, idpVars, verdict, budget, mutex, leaseVars, sleep, enrich, events, hurt>>

StartupLock(t) ==
  /\ chain[t].pc = "outer"
  /\ IF Valid(disk)
     THEN Adopt(t)
     ELSE /\ Lease!Acquire(Flow(t)) \/ UNCHANGED leaseVars
          /\ chain' = [chain EXCEPT ![t] = [@ EXCEPT !.pc = "start", !.defer = disk]]
          /\ UNCHANGED <<mem, mutex>>
  /\ UNCHANGED <<disk, aged, idpVars, verdict, budget, sleep, enrich, events, hurt>>

(***************************************************************************)
(* Steps 1, 1b and 2 of refresh_chain.                                     *)
(***************************************************************************)
TakeMutex(t) ==
  LET p == ProcOf[t] IN
  /\ chain[t].pc = "mutex"
  /\ mutex[p] = Nobody
  /\ IF \/ Current(p) # NoTok /\ (chain[t].reason # "ServerRejected" \/ chain[t].key # Current(p))
        \/ Failed(p)
     THEN Return(t, mem, FALSE)
     ELSE /\ mutex' = [mutex EXCEPT ![p] = t]
          /\ chain' = [chain EXCEPT ![t] = [@ EXCEPT !.pc = "lock", !.key = NoTok]]
          /\ UNCHANGED <<mem, live, holders>>
  /\ UNCHANGED <<disk, aged, idpVars, verdict, budget, sleep, enrich, events, hurt>>

\* Step 2, and the second half of step 3b: the lock is taken, and then the
\* token of a sibling if there is one.
GetLock(t) ==
  /\ chain[t].pc \in {"lock", "relock"}
  /\ IF Adoptable(ProcOf[t], chain[t].reason)
     THEN live = Nobody /\ Adopt(t)
     ELSE /\ Lease!Acquire(Chain(t))
          /\ Goto(t, IF chain[t].pc = "lock" THEN "held" ELSE "claim")
          /\ UNCHANGED <<mem, mutex>>
  /\ UNCHANGED <<disk, aged, idpVars, verdict, budget, sleep, enrich, events, hurt>>

\* Faulty: the wait for the file lock has no timeout.
NoTimeout(t) == chain[t].pc = "lock" /\ FALSE /\ UNCHANGED vars

LockTimeout(t) ==
  /\ \/ /\ chain[t].pc = "lock"
        /\ Goto(t, "late")
        /\ UNCHANGED <<mem, mutex, live, holders>>
     \/ /\ chain[t].pc = "relock"
        /\ Return(t, mem, TRUE)
  /\ UNCHANGED <<disk, aged, idpVars, verdict, budget, sleep, enrich, events, hurt>>

AdoptLate(t) ==
  /\ chain[t].pc = "late"
  /\ IF Adoptable(ProcOf[t], chain[t].reason) THEN Adopt(t) ELSE Return(t, mem, TRUE)
  /\ UNCHANGED <<disk, aged, idpVars, verdict, budget, sleep, enrich, events, hurt>>

(***************************************************************************)
(* Steps 3a, 3b and 3c: defer when the system is about to sleep or in a    *)
(* dark wake, check that the guard is still live, claim an in-flight slot, *)
(* look at the sleep gate again.                                           *)
(***************************************************************************)
Defer(t) ==
  /\ chain[t].pc = "held"
  /\ ProcOf[t] \in Sleepers
  /\ Return(t, mem, TRUE)
  /\ UNCHANGED <<disk, aged, idpVars, verdict, budget, sleep, enrich, events, hurt>>

\* Faulty: the guard is taken to be live still.
NoRevalidation(t) ==
  /\ chain[t].pc = "held"
  /\ sleep[ProcOf[t]] = "awake"
  /\ Goto(t, "claim")
  /\ UNCHANGED <<disk, mem, aged, idpVars, verdict, budget, mutex, leaseVars, sleep, enrich, events, hurt>>

Revalidate(t) ==
  /\ chain[t].pc = "held"
  /\ sleep[ProcOf[t]] = "awake"
  /\ \/ live = Chain(t) /\ Goto(t, "claim") /\ UNCHANGED leaseVars
     \/ live # Chain(t) /\ Goto(t, "relock") /\ Lease!Drop({Chain(t)})
  /\ UNCHANGED <<disk, mem, aged, idpVars, verdict, budget, mutex, sleep, enrich, events, hurt>>

Claim(t) ==
  /\ chain[t].pc = "claim"
  /\ Goto(t, "gate")
  /\ UNCHANGED <<disk, mem, aged, idpVars, verdict, budget, mutex, leaseVars, sleep, enrich, events, hurt>>

\* Faulty: the gate is not looked at again once the slot is claimed.
NoGateCheck(t) ==
  /\ chain[t].pc = "gate"
  /\ Goto(t, "resolve")
  /\ UNCHANGED <<disk, mem, aged, idpVars, verdict, budget, mutex, leaseVars, sleep, enrich, events, hurt>>

GateCheck(t) ==
  /\ chain[t].pc = "gate"
  /\ IF sleep[ProcOf[t]] # "awake"
     THEN Return(t, mem, TRUE)
     ELSE Goto(t, "resolve") /\ UNCHANGED <<mem, mutex, live, holders>>
  /\ UNCHANGED <<disk, aged, idpVars, verdict, budget, sleep, enrich, events, hurt>>

\* The refresher's outcome, handed to apply_refresh_outcome.
Outcome(t, res, key, got) ==
  chain' = [chain EXCEPT ![t] = [@ EXCEPT !.pc = "apply", !.res = res, !.key = key,
                                          !.got = got, !.n = 1, !.again = FALSE]]

\* OidcRefresher::refresh: the disk token if it is valid and new, else the
\* credential to send.
ResolveCredential(t) ==
  LET p == ProcOf[t] IN
  /\ chain[t].pc = "resolve"
  /\ \/ /\ Valid(disk) /\ disk # Current(p)
        /\ Outcome(t, "ok", NoTok, disk)
        /\ budget' = [budget EXCEPT ![p] = NoFailures]
     \/ /\ ~(Valid(disk) /\ disk # Current(p))
        /\ IF Resolve(p, chain[t].reason) = NoTok
           THEN Outcome(t, "transient", NoTok, NoTok)
           ELSE chain' = [chain EXCEPT ![t] = [@ EXCEPT !.pc = "send", !.key = Resolve(p, chain[t].reason)]]
        /\ UNCHANGED budget
  /\ UNCHANGED <<disk, mem, aged, idpVars, verdict, mutex, leaseVars, sleep, enrich, events, hurt>>

(***************************************************************************)
(* The exchange.  The identity provider (external) rotates the refresh     *)
(* token; a spent one is answered with its successor within the grace      *)
(* window, and revokes the family after it.                                *)
(***************************************************************************)
Dead(g) == revoked \/ g + 1 < cur \/ (g + 1 = cur /\ ~grace)

Rotate(g) ==
  IF Dead(g)
  THEN revoked' = TRUE /\ UNCHANGED <<cur, grace>>
  ELSE IF g = cur
  THEN cur < MaxGen /\ cur' = cur + 1 /\ grace' = TRUE /\ UNCHANGED revoked
  ELSE UNCHANGED idpVars

\* invalid_grant: retry_with_fresh_disk_token, once.
Rejected(t) ==
  LET key == chain[t].key IN
  IF ~chain[t].again /\ Valid(disk) /\ disk # key
  THEN Outcome(t, "ok", key, disk) /\ budget' = [budget EXCEPT ![ProcOf[t]] = NoFailures]
  ELSE IF ~chain[t].again /\ disk \notin {NoTok, key}
  THEN /\ chain' = [chain EXCEPT ![t] = [@ EXCEPT !.key = disk, !.n = 1, !.again = TRUE]]
       /\ UNCHANGED budget
  ELSE Outcome(t, "rejected", key, NoTok) /\ UNCHANGED budget

\* Faulty: an escalation leaves the count where it is.
NeverReset(t) ==
  LET p == ProcOf[t]
      key == chain[t].key
      count == (IF budget[p].key = key THEN budget[p].count ELSE 0) + 1
  IN /\ budget' = [budget EXCEPT ![p] = [key |-> key, count |-> count]]
     /\ Outcome(t, IF count >= MAX_CONSECUTIVE_TRANSIENT_FAILURES THEN "aging" ELSE "transient",
                key, NoTok)

\* The attempts are used up: record_transient_failure, except for the retry.
RecordTransientFailure(t) ==
  LET p == ProcOf[t]
      key == chain[t].key
      count == (IF budget[p].key = key THEN budget[p].count ELSE 0) + 1
      escalate == count >= MAX_CONSECUTIVE_TRANSIENT_FAILURES
  IN IF chain[t].again
     THEN Outcome(t, "transient", key, NoTok) /\ UNCHANGED budget
     ELSE /\ budget' = [budget EXCEPT ![p] = [key |-> key, count |-> IF escalate THEN 0 ELSE count]]
          /\ Outcome(t, IF escalate THEN "aging" ELSE "transient", key, NoTok)

Resend(t) ==
  IF chain[t].n < MaxSends
  THEN chain' = [chain EXCEPT ![t].n = @ + 1] /\ UNCHANGED budget
  ELSE RecordTransientFailure(t)

Exchange(t) ==
  /\ chain[t].pc = "send"
  /\ Rotate(chain[t].key)
  /\ IF Dead(chain[t].key)
     THEN Rejected(t)
     ELSE /\ Outcome(t, "ok", chain[t].key, cur')
          /\ budget' = [budget EXCEPT ![ProcOf[t]] = NoFailures]
  /\ UNCHANGED <<disk, mem, aged, verdict, mutex, leaseVars, sleep, enrich, events, hurt>>

\* The request does not arrive, the answer is a server error, or the discovery
\* before the first attempt failed.
RequestFails(t) ==
  /\ chain[t].pc = "send"
  /\ Event("request") \/ (cur = MaxGen /\ UNCHANGED events)
  /\ Resend(t) \/ (chain[t].n = 1 /\ RecordTransientFailure(t))
  /\ UNCHANGED <<disk, mem, aged, idpVars, verdict, mutex, leaseVars, sleep, enrich, hurt>>

\* The identity provider has done its part, the answer is lost.
ResponseLost(t) ==
  /\ chain[t].pc = "send"
  /\ Event("response")
  /\ Rotate(chain[t].key)
  /\ Resend(t)
  /\ UNCHANGED <<disk, mem, aged, verdict, mutex, leaseVars, sleep, enrich, hurt>>

\* Faulty: an invalid_client is treated as an invalid_grant.
ClientSticky(t) ==
  /\ chain[t].pc = "send"
  /\ Event("client")
  /\ Outcome(t, "rejected", chain[t].key, NoTok)
  /\ UNCHANGED <<disk, mem, aged, idpVars, verdict, budget, mutex, leaseVars, sleep, enrich, hurt>>

\* invalid_client: terminal, but not sticky.
ClientRejected(t) ==
  /\ chain[t].pc = "send"
  /\ Event("client")
  /\ Outcome(t, "aging", chain[t].key, NoTok)
  /\ UNCHANGED <<disk, mem, aged, idpVars, verdict, budget, mutex, leaseVars, sleep, enrich, hurt>>

(***************************************************************************)
(* apply_refresh_outcome.  update() puts the new credential in memory even *)
(* when it cannot be written to disk, and then starts the enrichment.  One *)
(* that fails, or ends before anything else happens, leaves no trace: only *)
(* a slow one is followed.                                                 *)
(***************************************************************************)
Persist(t) ==
  LET p == ProcOf[t]
      new == [mem EXCEPT ![p] = chain[t].got]
  IN
  /\ chain[t].pc = "apply" /\ chain[t].res = "ok"
  /\ \/ /\ disk' = chain[t].got
        /\ Return(t, new, FALSE)
        /\ UNCHANGED <<enrich, events>>
     \/ /\ disk' = chain[t].got
        /\ Return(t, new, FALSE)
        /\ Event("enrich") /\ enrich[p].pc = "none"
        /\ enrich' = [enrich EXCEPT ![p] = [pc |-> "want", tok |-> chain[t].got]]
     \/ /\ Event("persist")
        /\ \E transient \in BOOLEAN : Return(t, new, transient)
        /\ UNCHANGED <<disk, enrich>>
  /\ UNCHANGED <<aged, idpVars, verdict, budget, sleep, hurt>>

GiveUp(t) ==
  LET p == ProcOf[t] IN
  /\ chain[t].pc = "apply"
  /\ \/ /\ chain[t].res \in {"rejected", "aging"} /\ Adoptable(p, chain[t].reason)
        /\ Adopt(t)
        /\ UNCHANGED verdict
     \/ /\ chain[t].res \in {"rejected", "aging"} /\ ~Adoptable(p, chain[t].reason)
        /\ Return(t, mem, SiblingDiffers(p))
        /\ verdict' = IF SiblingDiffers(p) THEN verdict
                      ELSE [verdict EXCEPT ![p] =
                             [key |-> chain[t].key,
                              kind |-> IF chain[t].res = "rejected" THEN "sticky" ELSE "aging"]]
     \/ /\ chain[t].res = "transient"
        /\ Return(t, mem, TRUE)
        /\ UNCHANGED verdict
  /\ UNCHANGED <<disk, aged, idpVars, budget, sleep, enrich, events, hurt>>

(***************************************************************************)
(* run_user_info_enrichment: read, compare, merge and write auth.json, with *)
(* the lock or, when it cannot be had, without.                             *)
(***************************************************************************)
\* Faulty: the disk entry is not compared with the token that was enriched.
NoStompGuard(p) ==
  /\ enrich[p].pc = "want"
  /\ Lease!Acquire(Enrich(p))
  /\ enrich' = [enrich EXCEPT ![p].pc = "locked"]
  /\ UNCHANGED <<disk, mem, aged, idpVars, verdict, budget, mutex, chain, sleep, events, hurt>>

EnrichRead(p) ==
  /\ enrich[p].pc = "want"
  /\ IF disk # enrich[p].tok
     THEN enrich' = [enrich EXCEPT ![p] = NoEnrich] /\ UNCHANGED leaseVars
     ELSE \/ /\ Lease!Acquire(Enrich(p))
             /\ enrich' = [enrich EXCEPT ![p].pc = "locked"]
          \/ /\ enrich' = [enrich EXCEPT ![p].pc = "unlocked"]
             /\ UNCHANGED leaseVars
  /\ UNCHANGED <<disk, mem, aged, idpVars, verdict, budget, mutex, chain, sleep, events, hurt>>

EnrichWrite(p) ==
  /\ enrich[p].pc \in {"locked", "unlocked"}
  /\ disk' = enrich[p].tok
  /\ mem' = [mem EXCEPT ![p] = enrich[p].tok]
  /\ hurt' = (hurt \/ (enrich[p].pc = "unlocked" /\ disk # enrich[p].tok))
  /\ enrich' = [enrich EXCEPT ![p] = NoEnrich]
  /\ Lease!Drop({Enrich(p)})
  /\ UNCHANGED <<aged, idpVars, verdict, budget, mutex, chain, sleep, events>>

\* pick_up_sibling_token, in the proactive refresh loop.
PickUpSiblingToken(p) ==
  /\ Valid(disk) /\ disk # mem[p]
  /\ mem' = [mem EXCEPT ![p] = disk]
  /\ UNCHANGED <<disk, aged, idpVars, verdict, budget, mutex, leaseVars, chain, sleep, enrich, events, hurt>>

(***************************************************************************)
(* The sleep handler: raise the gate, then hold the acknowledgement until  *)
(* no exchange is in flight, or for SLEEP_ACK_MAX_WAIT.  A wake event      *)
(* lowers the gate, and so does SLEEP_GATE_MAX when the event is missed.   *)
(***************************************************************************)
InFlight(p) == {t \in Tasks : ProcOf[t] = p /\ chain[t].pc \in Exchanging \union {"gate"}}

WillSleep(p) ==
  /\ p \in Sleepers
  /\ sleep[p] = "awake"
  /\ Event("sleep")
  /\ sleep' = [sleep EXCEPT ![p] = "raised"]
  /\ UNCHANGED <<disk, mem, aged, idpVars, verdict, budget, mutex, leaseVars, chain, enrich, hurt>>

SleepAck(p) ==
  /\ sleep[p] = "raised"
  /\ sleep' = [sleep EXCEPT ![p] = IF InFlight(p) = {} THEN "acked" ELSE "late"]
  /\ UNCHANGED <<disk, mem, aged, idpVars, verdict, budget, mutex, leaseVars, chain, enrich, events, hurt>>

Wake(p) ==
  /\ sleep[p] \in {"acked", "late"}
  /\ sleep' = [sleep EXCEPT ![p] = "awake"]
  /\ UNCHANGED <<disk, mem, aged, idpVars, verdict, budget, mutex, leaseVars, chain, enrich, events, hurt>>

(***************************************************************************)
(* The environment.  An access token expires; a verdict that is not sticky *)
(* ages out; the grace window ends; a waiter breaks the lock; the user     *)
(* logs out; a process dies, and its successor reads auth.json.            *)
(***************************************************************************)
Expire ==
  /\ aged < cur /\ aged + 1 < MaxGen
  /\ aged' = aged + 1
  /\ UNCHANGED <<disk, mem, idpVars, verdict, budget, mutex, leaseVars, chain, sleep, enrich, events, hurt>>

VerdictAges(p) ==
  /\ verdict[p].kind = "aging"
  /\ verdict' = [verdict EXCEPT ![p] = NoVerdict]
  /\ UNCHANGED <<disk, mem, aged, idpVars, budget, mutex, leaseVars, chain, sleep, enrich, events, hurt>>

GraceEnds ==
  /\ grace
  /\ grace' = FALSE
  /\ hurt' = (hurt \/ disk # cur)
  /\ UNCHANGED <<disk, mem, aged, cur, revoked, verdict, budget, mutex, leaseVars, chain, sleep, enrich, events>>

Break ==
  /\ Event("break")
  /\ Lease!Break
  /\ hurt' = (hurt \/ (\E t \in Tasks : live = Chain(t) /\ chain[t].pc \in Exposed)
                    \/ (\E p \in Procs : live = Enrich(p)))
  /\ UNCHANGED <<disk, mem, aged, idpVars, verdict, budget, mutex, chain, sleep, enrich>>

\* remove_scope: the disk entry stays when the lock is busy.
Logout(p) ==
  /\ Event("logout")
  /\ disk' \in {disk, NoTok}
  /\ mem' = [mem EXCEPT ![p] = NoTok]
  /\ hurt' = TRUE
  /\ UNCHANGED <<aged, idpVars, verdict, budget, mutex, leaseVars, chain, sleep, enrich>>

Crash(p) ==
  /\ Event("crash")
  /\ LET mine == {t \in Tasks : ProcOf[t] = p}
     IN /\ chain' = [t \in Tasks |-> IF t \in mine THEN Idle ELSE chain[t]]
        /\ Lease!Drop(({"chain", "flow"} \X mine) \union {Enrich(p)})
  /\ mem' = [mem EXCEPT ![p] = disk]
  /\ verdict' = [verdict EXCEPT ![p] = NoVerdict]
  /\ budget' = [budget EXCEPT ![p] = NoFailures]
  /\ mutex' = [mutex EXCEPT ![p] = Nobody]
  /\ sleep' = [sleep EXCEPT ![p] = "awake"]
  /\ enrich' = [enrich EXCEPT ![p] = NoEnrich]
  /\ UNCHANGED <<disk, aged, idpVars, hurt>>

-----------------------------------------------------------------------------
Step(t) ==
  \/ Reload(t) \/ StartupLock(t) \/ TakeMutex(t) \/ GetLock(t) \/ LockTimeout(t) \/ AdoptLate(t)
  \/ Defer(t) \/ Revalidate(t) \/ Claim(t) \/ GateCheck(t) \/ ResolveCredential(t)
  \/ Exchange(t) \/ RequestFails(t) \/ ResponseLost(t) \/ ClientRejected(t)
  \/ Persist(t) \/ GiveUp(t) \/ (chain[t].pc = "start" /\ Dispatch(t))

Next ==
  \/ \E t \in Tasks :
       \/ Dispatch(t) \/ Reject(t) \/ Reload(t) \/ Startup(t) \/ StartupLock(t)
       \/ TakeMutex(t) \/ GetLock(t) \/ LockTimeout(t) \/ AdoptLate(t)
       \/ Defer(t) \/ Revalidate(t) \/ Claim(t) \/ GateCheck(t) \/ ResolveCredential(t)
       \/ Exchange(t) \/ RequestFails(t) \/ ResponseLost(t) \/ ClientRejected(t)
       \/ Persist(t) \/ GiveUp(t)
  \/ \E p \in Procs :
       \/ EnrichRead(p) \/ EnrichWrite(p) \/ PickUpSiblingToken(p)
       \/ WillSleep(p) \/ SleepAck(p) \/ Wake(p)
       \/ VerdictAges(p) \/ Logout(p) \/ Crash(p)
  \/ Expire \/ GraceEnds \/ Break

Spec == Init /\ [][Next]_vars

\* Every await of a call ends: the lock by its timeout, the exchange by its own,
\* and refresh_lock is a FIFO mutex.
FairSpec == Spec /\ \A t \in Tasks : SF_vars(TakeMutex(t)) /\ WF_vars(Step(t))

-----------------------------------------------------------------------------
\* No interleaving of processes, tasks, expiries, lost answers and broken locks
\* makes the code present a spent refresh token: the family is revoked only
\* after a logout, or when a successor stayed off the disk for the whole grace
\* window, or the lock was broken after revalidate_lock_or_reacquire or under an
\* enrichment, which writes without looking at the lock again, or an enrichment
\* without the lock overwrote a newer token (refresh_chain, "only one participant
\* ever spends a given refresh token").
FamilySafe == revoked => hurt

\* A user is locked out until the next login only when the credential is dead at
\* the identity provider: a sticky permanent_failure never stands on a
\* credential that could still be exchanged (record_permanent_failure is keyed
\* on the credential that was sent).
LockoutIsReal == \A p \in Procs : verdict[p].kind = "sticky" => Dead(verdict[p].key)

\* Once the sleep handler has let the system sleep without a timeout, no exchange
\* of that process is on the wire until the gate is lowered
\* (set_system_sleep_imminent against step 3c of refresh_chain).
NoStraddle ==
  \A t \in Tasks : sleep[ProcOf[t]] = "acked" => chain[t].pc \notin Exchanging

\* Every call of auth() and of the 401 recovery returns, whatever became of the
\* lock's holder, of the exchange and of the other tasks of the process.
CallsReturn == \A t \in Tasks : chain[t].pc # "idle" ~> chain[t].pc = "idle"

\* auth.json always holds a credential the identity provider accepts, unless a
\* token was lost as above: no rotation is persisted late or out of order, and
\* no enrichment writes an older credential back (update(), "disk write before
\* any network I/O", and the sibling-stomp guard).
DiskUsable == hurt \/ ~Dead(disk)

\* A call never waits for a lock its own task holds: the error it returns after
\* the timeout says that a "sibling may be mid-refresh".
NoSelfWait ==
  \A t \in Tasks : chain[t].pc \in {"lock", "relock"} => live # Flow(t)
=============================================================================
