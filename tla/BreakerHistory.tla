---------------------------- MODULE BreakerHistory ----------------------------
(***************************************************************************)
(* CircuitBreaker with history variables: what an observer of all threads   *)
(* would note down.  They observe the code and constrain nothing.  With them*)
(* a property can say how far a race between calls reaches, and what holds   *)
(* in spite of it, for any number of threads.                               *)
(***************************************************************************)
EXTENDS CircuitBreaker

VARIABLES
    admitted,   \* probes admitted in this half-open period, up to MaxProbes
    openSince,  \* clock when `state` last became Open
    torn,       \* `state` was last stored while a move to another state was unfinished
    calm,       \* calls begun after every move was finished, `state` unchanged since
    claims,     \* slots handed out since half_open_probes was last zeroed
    owed,       \* refused claims that had not been subtracted at that moment
    lag         \* the longest a record() waited for the window and was overtaken

history == <<admitted, openSince, torn, calm, claims, owed, lag>>
hvars == <<vars, history>>

\* Thread t returns Ok from try_half_open_probe().
ProbeAdmitted(t) == pc[t] \in {"probe_claim", "probe_cas"} /\ inFlight' > inFlight

\* The stores of trip(), of check_open() and of close() that follow the one of
\* `state`: the move to Open, HalfOpen, Closed is published and unfinished.
Opening == {"trip_now", "trip_opened", "trip_probes", "trip_fast"}
Halving == {"open_fast"}
Closing == {"close_window", "close_probes", "close_fast"}
Moving == Opening \cup Halving \cup Closing

Target(at) == IF at \in Opening THEN "Open"
              ELSE IF at \in Halving THEN "HalfOpen" ELSE "Closed"

Settled == \A t \in Threads : pc[t] \notin Moving

\* Thread t stores `state`; zeroes the probe counter; pushes a sample.
Publishes(t) == pc[t] \notin Moving /\ pc'[t] \in Moving
Zeroes(t) == pc[t] \in {"trip_probes", "close_probes"} /\ pc'[t] # pc[t]
Pushes(t) == pc[t] \in {"rec_closed", "rec_open"} /\ pc'[t] # pc[t]
Overtaken(t) == Pushes(t) /\ \E i \in 1..Len(entries) : entries[i].at > local[t].now

Refused == {t \in Threads : pc[t] = "probe_sub"}

HInit ==
    /\ Init
    /\ admitted = 0 /\ openSince = 0 /\ torn = FALSE /\ calm = {}
    /\ claims = 0 /\ owed = 0 /\ lag = 0

NoteAdmitted ==
    admitted' = IF state = "Open" /\ state' = "HalfOpen" THEN 0
                ELSE IF admitted < MaxProbes /\ \E t \in Threads : ProbeAdmitted(t)
                     THEN admitted + 1
                     ELSE admitted

\* A store of `state` while a move to elsewhere is unfinished tears; one that
\* meets only moves to the same state does not; one that meets none repairs.
NoteMoves ==
    /\ openSince' = IF state # "Open" /\ state' = "Open" THEN now ELSE openSince
    /\ torn' = IF \E t \in Threads : Publishes(t)
               THEN \E u \in Threads : pc[u] \in Moving /\ (torn \/ Target(pc[u]) # state')
               ELSE torn
    /\ calm' = IF state' # state THEN {}
               ELSE {t \in Threads : /\ pc'[t] # "idle"
                                     /\ t \in calm \/ (pc[t] = "idle" /\ Settled /\ ~torn)}

NoteSlots ==
    IF \E t \in Threads : Zeroes(t)
    THEN claims' = 0 /\ owed' = Cardinality(Refused)
    ELSE /\ claims' = IF \E t \in Threads : pc[t] = "probe_add" /\ pc'[t] = "probe_claim"
                      THEN claims + 1 ELSE claims
         /\ UNCHANGED owed

\* Thread t pushes a sample behind a younger one, after a longer wait than any.
LagsBehind(t) == Overtaken(t) /\ now - local[t].now > lag

NoteLag ==
    IF \E t \in Threads : LagsBehind(t)
    THEN \E t \in Threads : LagsBehind(t) /\ lag' = now - local[t].now
    ELSE UNCHANGED lag

HNext == Next /\ NoteAdmitted /\ NoteMoves /\ NoteSlots /\ NoteLag

HSpec == HInit /\ [][HNext]_hvars

HFairSpec == HSpec /\ Fairness

-----------------------------------------------------------------------------
(* Properties.                                                             *)

\* While the breaker is half open it admits half_open_max_probes requests, and
\* one more each time the youngest claim is a whole lease old: "only one
\* takeover per expired lease".
ProbeSpacing ==
    [][\A t \in Threads :
          ProbeAdmitted(t) /\ admitted = MaxProbes => SatSub(local[t].now, claimedAt) >= OpenDuration]_hvars

\* However calls interleave, is_open() answers what `state` says once the moves
\* under way are finished, unless `state` was last stored in the middle of a move
\* to another state; the next move that meets none repairs the mirror.
MirrorExact == Settled /\ ~torn => (fast <=> state = "Open")

\* However calls interleave, an open breaker stays shut for a whole open_duration
\* to every call that begins after trip() has returned: no check() of theirs moves
\* it to HalfOpen, and no late answer they record closes it.
CoolDownKept ==
    [][\A t \in calm : state = "Open" /\ state' # "Open" /\ pc'[t] # pc[t]
          => now - openSince >= OpenDuration]_hvars

\* However calls interleave, and although fetch_sub may wrap below zero, the counter
\* hands out at most half_open_max_probes slots between two resets, and one more for
\* each refused claim that the reset caught between its fetch_add and its fetch_sub.
SlotsBounded == claims <= MaxProbes + owed

\* However calls interleave, after record() or error_rate() has evicted, no sample in
\* the window is older than the window by more than the time a record() has waited
\* for the mutex after reading the clock, and only if another overtook it there.
RateTimely ==
    [][\A t \in Threads : (Pushes(t) \/ (pc[t] = "rate_evict" /\ pc'[t] = "idle")) =>
          \A i \in 1..Len(entries') :
             entries'[i].at + lag' >= SatSub(local[t].now, WindowDuration)]_hvars
=============================================================================
