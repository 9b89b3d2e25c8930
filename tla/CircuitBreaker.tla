---------------------------- MODULE CircuitBreaker ----------------------------
(***************************************************************************)
(* The lock-free circuit breaker of the crate xai-circuit-breaker, one TLA+ *)
(* step per access to a shared atomic.                                      *)
(*                                                                         *)
(* Threads run check() before a request and record() after it.  A request   *)
(* that was admitted may also never reach record(): its future is dropped,  *)
(* or the caller does not count the answer.  The shared words are `state`,  *)
(* `openedAt`, `probes`, `claimedAt` and `fast`; `entries` and `failures`   *)
(* are the sliding window, touched only under its mutex, so that a critical *)
(* section is one step.                                                     *)
(***************************************************************************)
EXTENDS Naturals, Sequences, FiniteSets

CONSTANTS
    Threads,          \* threads that call check() and record()
    Readers,          \* those of them that also call error_rate()
    OpenDuration,     \* config.open_duration, also the lease of a probe slot
    WindowDuration,   \* config.window_duration
    MinSamples,       \* config.min_samples
    RateNum, RateDen, \* config.error_rate_threshold = RateNum / RateDen
    MaxProbes,        \* config.half_open_max_probes, after the clamp to >= 1
    MaxWindowEntries, \* MAX_WINDOW_ENTRIES
    UsizeMod,         \* 2^w for the usize counter half_open_probes
    MaxInFlight,      \* bound: requests admitted and not yet ended
    MaxFailures,      \* bound: requests that fail
    MaxLosses,        \* bound: requests that never reach record()
    FreeTime          \* bound: ticks the clock makes with no deadline pending

ASSUME BreakerAssumption ==
    /\ Readers \subseteq Threads
    /\ OpenDuration \in Nat \ {0}
    /\ WindowDuration \in Nat
    /\ MinSamples \in Nat
    /\ RateNum \in Nat
    /\ RateDen \in Nat \ {0}
    /\ MaxProbes \in Nat \ {0}
    /\ MaxWindowEntries \in Nat \ {0}
    /\ UsizeMod \in Nat
    /\ IsFiniteSet(Threads)
    /\ UsizeMod > MaxProbes + Cardinality(Threads)
    /\ MaxInFlight \in Nat
    /\ MaxFailures \in Nat
    /\ MaxLosses \in Nat
    /\ FreeTime \in Nat

VARIABLES
    now,        \* the monotonic clock, in offsets from `baseline`
    state,      \* state: AtomicU8
    openedAt,   \* opened_at_millis
    probes,     \* half_open_probes, modulo UsizeMod
    claimedAt,  \* probe_claimed_at_millis
    fast,       \* is_open_fast
    entries,    \* SlidingWindow.entries
    failures,   \* SlidingWindow.failures
    pc,         \* where each thread is inside check(), record(), error_rate()
    local,      \* the locals of each thread
    inFlight,   \* requests admitted by check() and not yet ended
    badLeft, lossesLeft \* what is left of MaxFailures and MaxLosses

shared == <<state, openedAt, probes, claimedAt, fast>>
window == <<entries, failures>>
env == <<inFlight, badLeft, lossesLeft>>
vars == <<now, shared, window, pc, local, env>>

BreakerState == {"Closed", "Open", "HalfOpen"}

NoLocals == [now |-> 0, opened |-> 0, claimed |-> 0, fails |-> FALSE]

Init ==
    /\ now = 0
    /\ state = "Closed"
    /\ openedAt = 0
    /\ probes = 0
    /\ claimedAt = 0
    /\ fast = FALSE
    /\ entries = <<>>
    /\ failures = 0
    /\ pc = [t \in Threads |-> "idle"]
    /\ local = [t \in Threads |-> NoLocals]
    /\ inFlight = 0
    /\ badLeft = MaxFailures
    /\ lossesLeft = MaxLosses

-----------------------------------------------------------------------------
(* Helpers.                                                                *)

\* u64::saturating_sub and Duration::saturating_sub.
SatSub(a, b) == IF a >= b THEN a - b ELSE 0

\* The thread leaves `from` for `to` and forgets nothing.
Goto(t, from, to) ==
    /\ pc[t] = from
    /\ pc' = [pc EXCEPT ![t] = to]

\* The call returns: its locals die.
Return(t) ==
    /\ pc' = [pc EXCEPT ![t] = "idle"]
    /\ local' = [local EXCEPT ![t] = NoLocals]

SetLocal(t, field, value) == local' = [local EXCEPT ![t][field] = value]

FailureCount(es) == Cardinality({i \in 1..Len(es) : es[i].fails})

\* Mutant of Pushed: the cap is not applied.
PushedUncapped(es, fails, at) == Append(es, [at |-> at, fails |-> fails])

\* push: at the cap the oldest sample goes first.
Pushed(es, fails, at) ==
    Append(IF Len(es) >= MaxWindowEntries THEN Tail(es) ELSE es,
           [at |-> at, fails |-> fails])

\* Mutant of Evicted: the cutoff is one unit late.
EvictedLate(es, at) ==
    LET young == {i \in 1..Len(es) : es[i].at + 1 + WindowDuration >= at}
    IN  IF young = {} THEN <<>>
        ELSE SubSeq(es, CHOOSE i \in young : \A j \in young : i <= j, Len(es))

\* evict: drops samples from the front up to the first one that is young
\* enough.  Instant::checked_sub returns None before the window has passed.
Evicted(es, at) ==
    IF at < WindowDuration THEN es
    ELSE LET young == {i \in 1..Len(es) : es[i].at >= at - WindowDuration}
         IN  IF young = {} THEN <<>>
             ELSE SubSeq(es, CHOOSE i \in young : \A j \in young : i <= j, Len(es))

\* Mutant of RecordSample: the sample dropped at the cap is not subtracted.
RecordSampleLeaky(t) ==
    LET pushed == Pushed(entries, local[t].fails, local[t].now)
        after  == Evicted(pushed, local[t].now)
        added  == IF local[t].fails THEN 1 ELSE 0
        aged   == FailureCount(SubSeq(pushed, 1, Len(pushed) - Len(after)))
    IN  /\ entries' = after
        /\ failures' = failures + added - aged

\* push() and evict() together; the counter moves by what enters and leaves.
RecordSample(t) ==
    LET pushed == Pushed(entries, local[t].fails, local[t].now)
        after  == Evicted(pushed, local[t].now)
        capped == /\ Len(entries) >= MaxWindowEntries
                  /\ Head(entries).fails
        added  == IF local[t].fails THEN 1 ELSE 0
        aged   == FailureCount(SubSeq(pushed, 1, Len(pushed) - Len(after)))
    IN  /\ entries' = after
        /\ failures' = failures - (IF capped THEN 1 ELSE 0) + added - aged

\* error_rate() >= error_rate_threshold, without the division.
RateReached(count, size) ==
    IF size = 0 THEN RateNum = 0 ELSE count * RateDen >= RateNum * size

-----------------------------------------------------------------------------
(* check().                                                                *)

\* check() loads `state` and dispatches; Closed admits at once.
Check(t) ==
    /\ pc[t] = "idle"
    /\ inFlight < MaxInFlight
    /\ \/ /\ state = "Closed"
          /\ inFlight' = inFlight + 1
          /\ UNCHANGED pc
       \/ /\ state = "Open"
          /\ pc' = [pc EXCEPT ![t] = "open_load"]
          /\ UNCHANGED inFlight
       \/ /\ state = "HalfOpen"
          /\ pc' = [pc EXCEPT ![t] = "probe_now"]
          /\ UNCHANGED inFlight
    /\ UNCHANGED <<now, shared, window, local, badLeft, lossesLeft>>

\* check_open() loads opened_at_millis ...
CheckOpenLoad(t) ==
    /\ Goto(t, "open_load", "open_now")
    /\ SetLocal(t, "opened", openedAt)
    /\ UNCHANGED <<now, shared, window, env>>

\* ... then reads the clock; within the cool-down the call is rejected.
CheckOpenNow(t) ==
    /\ pc[t] = "open_now"
    /\ IF SatSub(now, local[t].opened) >= OpenDuration
       THEN /\ pc' = [pc EXCEPT ![t] = "open_cas"]
            /\ UNCHANGED local
       ELSE Return(t)
    /\ UNCHANGED <<now, shared, window, env>>

\* cas_state(Open, HalfOpen).  The probe counter is deliberately not reset.
CheckOpenCas(t) ==
    /\ pc[t] = "open_cas"
    /\ IF state = "Open"
       THEN /\ state' = "HalfOpen"
            /\ pc' = [pc EXCEPT ![t] = "open_fast"]
       ELSE /\ pc' = [pc EXCEPT ![t] = "open_lost"]
            /\ UNCHANGED state
    /\ UNCHANGED <<now, openedAt, probes, claimedAt, fast, window, local, env>>

\* Mutant of CheckOpenFast: the mirror is not cleared.
CheckOpenFastSkipped(t) ==
    /\ Goto(t, "open_fast", "probe_now")
    /\ UNCHANGED <<now, shared, window, local, env>>

\* The winner clears the mirror and goes through the probe accounting.
CheckOpenFast(t) ==
    /\ Goto(t, "open_fast", "probe_now")
    /\ fast' = FALSE
    /\ UNCHANGED <<now, state, openedAt, probes, claimedAt, window, local, env>>

\* The loser re-reads `state`: admitted, probing, or rejected.
CheckOpenLost(t) ==
    /\ pc[t] = "open_lost"
    /\ \/ /\ state = "Closed"
          /\ inFlight' = inFlight + 1
          /\ Return(t)
       \/ /\ state = "HalfOpen"
          /\ pc' = [pc EXCEPT ![t] = "probe_now"]
          /\ UNCHANGED <<inFlight, local>>
       \/ /\ state = "Open"
          /\ Return(t)
          /\ UNCHANGED inFlight
    /\ UNCHANGED <<now, shared, window, badLeft, lossesLeft>>

-----------------------------------------------------------------------------
(* try_half_open_probe().                                                  *)

ProbeNow(t) ==
    /\ Goto(t, "probe_now", "probe_add")
    /\ SetLocal(t, "now", now)
    /\ UNCHANGED <<now, shared, window, env>>

\* Mutant of ProbeAdd: one slot too many.
ProbeAddLate(t) ==
    /\ Goto(t, "probe_add", IF probes <= MaxProbes THEN "probe_claim" ELSE "probe_sub")
    /\ probes' = (probes + 1) % UsizeMod
    /\ UNCHANGED <<now, state, openedAt, claimedAt, fast, window, local, env>>

\* half_open_probes.fetch_add(1): below the limit the slot is ours.
ProbeAdd(t) ==
    /\ Goto(t, "probe_add", IF probes < MaxProbes THEN "probe_claim" ELSE "probe_sub")
    /\ probes' = (probes + 1) % UsizeMod
    /\ UNCHANGED <<now, state, openedAt, claimedAt, fast, window, local, env>>

\* The call returns Ok as a probe.
AdmitProbe(t) ==
    /\ claimedAt' = local[t].now
    /\ inFlight' = inFlight + 1
    /\ Return(t)

ProbeClaim(t) ==
    /\ pc[t] = "probe_claim"
    /\ AdmitProbe(t)
    /\ UNCHANGED <<now, state, openedAt, probes, fast, window, badLeft, lossesLeft>>

\* half_open_probes.fetch_sub(1), which wraps at zero.
ProbeSub(t) ==
    /\ Goto(t, "probe_sub", "probe_load")
    /\ probes' = (probes + UsizeMod - 1) % UsizeMod
    /\ UNCHANGED <<now, state, openedAt, claimedAt, fast, window, local, env>>

\* Mutant of ProbeLoad: every claim counts as abandoned.
ProbeLoadAlwaysStale(t) ==
    /\ Goto(t, "probe_load", "probe_cas")
    /\ SetLocal(t, "claimed", claimedAt)
    /\ UNCHANGED <<now, shared, window, env>>

\* Mutant of ProbeLoad: no claim is ever taken over.
ProbeLoadNoLease(t) ==
    /\ pc[t] = "probe_load"
    /\ Return(t)
    /\ UNCHANGED <<now, shared, window, env>>

\* Is the youngest claim older than the lease?
ProbeLoad(t) ==
    /\ pc[t] = "probe_load"
    /\ IF SatSub(local[t].now, claimedAt) >= OpenDuration
       THEN /\ pc' = [pc EXCEPT ![t] = "probe_cas"]
            /\ SetLocal(t, "claimed", claimedAt)
       ELSE Return(t)
    /\ UNCHANGED <<now, shared, window, env>>

\* The compare_exchange that takes over an abandoned claim.
ProbeCas(t) ==
    /\ pc[t] = "probe_cas"
    /\ IF claimedAt = local[t].claimed
       THEN AdmitProbe(t)
       ELSE /\ Return(t)
            /\ UNCHANGED <<claimedAt, inFlight>>
    /\ UNCHANGED <<now, state, openedAt, probes, fast, window, badLeft, lossesLeft>>

-----------------------------------------------------------------------------
(* record(outcome).                                                        *)

\* A request ends and record() reads the clock.
RecordNow(t, fails) ==
    /\ Goto(t, "idle", "rec_state")
    /\ inFlight > 0
    /\ inFlight' = inFlight - 1
    /\ fails => badLeft > 0
    /\ badLeft' = IF fails THEN badLeft - 1 ELSE badLeft
    /\ local' = [local EXCEPT ![t] = [NoLocals EXCEPT !.now = now, !.fails = fails]]
    /\ UNCHANGED <<now, shared, window, lossesLeft>>

\* record() loads `state` once and dispatches on it.
RecordState(t) ==
    /\ Goto(t, "rec_state",
            CASE state = "Closed" -> "rec_closed"
              [] state = "Open" -> "rec_open"
              [] state = "HalfOpen" -> IF local[t].fails THEN "trip_state" ELSE "close_state")
    /\ UNCHANGED <<now, shared, window, local, env>>

\* Closed: push, evict and decide under the window mutex.
RecordClosed(t) ==
    /\ pc[t] = "rec_closed"
    /\ RecordSample(t)
    /\ IF Len(entries') >= MinSamples /\ RateReached(failures', Len(entries'))
       THEN /\ pc' = [pc EXCEPT ![t] = "trip_state"]
            /\ UNCHANGED local
       ELSE Return(t)
    /\ UNCHANGED <<now, shared, env>>

\* Open: the sample is kept, nothing is decided.
RecordOpen(t) ==
    /\ pc[t] = "rec_open"
    /\ RecordSample(t)
    /\ Return(t)
    /\ UNCHANGED <<now, shared, env>>

\* trip(): the four stores in program order, with the clock read between.
TripState(t) ==
    /\ Goto(t, "trip_state", "trip_now")
    /\ state' = "Open"
    /\ UNCHANGED <<now, openedAt, probes, claimedAt, fast, window, local, env>>

TripNow(t) ==
    /\ Goto(t, "trip_now", "trip_opened")
    /\ SetLocal(t, "now", now)
    /\ UNCHANGED <<now, shared, window, env>>

\* Mutant of TripOpened: the opening is not stamped.
TripOpenedSkipped(t) ==
    /\ Goto(t, "trip_opened", "trip_probes")
    /\ UNCHANGED <<now, shared, window, local, env>>

TripOpened(t) ==
    /\ Goto(t, "trip_opened", "trip_probes")
    /\ openedAt' = local[t].now
    /\ UNCHANGED <<now, state, probes, claimedAt, fast, window, local, env>>

TripProbes(t) ==
    /\ Goto(t, "trip_probes", "trip_fast")
    /\ probes' = 0
    /\ UNCHANGED <<now, state, openedAt, claimedAt, fast, window, local, env>>

TripFast(t) ==
    /\ pc[t] = "trip_fast"
    /\ fast' = TRUE
    /\ Return(t)
    /\ UNCHANGED <<now, state, openedAt, probes, claimedAt, window, env>>

\* close(): the three stores and the window's critical section.
CloseState(t) ==
    /\ Goto(t, "close_state", "close_window")
    /\ state' = "Closed"
    /\ UNCHANGED <<now, openedAt, probes, claimedAt, fast, window, local, env>>

CloseWindow(t) ==
    /\ Goto(t, "close_window", "close_probes")
    /\ entries' = <<>>
    /\ failures' = 0
    /\ UNCHANGED <<now, shared, local, env>>

CloseProbes(t) ==
    /\ Goto(t, "close_probes", "close_fast")
    /\ probes' = 0
    /\ UNCHANGED <<now, state, openedAt, claimedAt, fast, window, local, env>>

CloseFast(t) ==
    /\ pc[t] = "close_fast"
    /\ fast' = FALSE
    /\ Return(t)
    /\ UNCHANGED <<now, state, openedAt, probes, claimedAt, window, env>>

-----------------------------------------------------------------------------
(* error_rate(), and the environment.                                      *)

ErrorRateNow(t) ==
    /\ t \in Readers
    /\ Goto(t, "idle", "rate_evict")
    /\ entries # <<>>
    /\ SetLocal(t, "now", now)
    /\ UNCHANGED <<now, shared, window, env>>

ErrorRateEvict(t) ==
    /\ pc[t] = "rate_evict"
    /\ LET after == Evicted(entries, local[t].now)
       IN  /\ entries' = after
           /\ failures' = failures
                 - FailureCount(SubSeq(entries, 1, Len(entries) - Len(after)))
    /\ Return(t)
    /\ UNCHANGED <<now, shared, env>>

\* An admitted request ends without record(): its future was dropped, or the
\* answer was one the client does not count.
LoseRequest ==
    /\ inFlight > 0
    /\ lossesLeft > 0
    /\ inFlight' = inFlight - 1
    /\ lossesLeft' = lossesLeft - 1
    /\ UNCHANGED <<now, shared, window, pc, local, badLeft>>

\* The clock moves freely up to FreeTime and, after that, only towards the end
\* of the cool-down or of the lease that is running.
Tick ==
    /\ \/ now < FreeTime
       \/ state = "Open" /\ SatSub(now, openedAt) < OpenDuration
       \/ state = "HalfOpen" /\ SatSub(now, claimedAt) < OpenDuration
    /\ now' = now + 1
    /\ UNCHANGED <<shared, window, pc, local, env>>

\* The steps of a call that has begun: a thread inside a call keeps running.
CallStep(t) ==
    \/ CheckOpenLoad(t) \/ CheckOpenNow(t) \/ CheckOpenCas(t)
    \/ CheckOpenFast(t) \/ CheckOpenLost(t)
    \/ ProbeNow(t) \/ ProbeAdd(t) \/ ProbeClaim(t)
    \/ ProbeSub(t) \/ ProbeLoad(t) \/ ProbeCas(t)
    \/ RecordState(t) \/ RecordClosed(t) \/ RecordOpen(t)
    \/ TripState(t) \/ TripNow(t) \/ TripOpened(t) \/ TripProbes(t) \/ TripFast(t)
    \/ CloseState(t) \/ CloseWindow(t) \/ CloseProbes(t) \/ CloseFast(t)
    \/ ErrorRateEvict(t)

Next ==
    \/ \E t \in Threads :
          \/ Check(t)
          \/ \E fails \in BOOLEAN : RecordNow(t, fails)
          \/ ErrorRateNow(t)
          \/ CallStep(t)
    \/ LoseRequest
    \/ Tick

Spec == Init /\ [][Next]_vars

\* The scheduler runs every thread, callers keep retrying, an answer comes back
\* for a request that is not lost, and time passes.
Fairness ==
    /\ \A t \in Threads :
          /\ WF_vars(CallStep(t))
          /\ SF_vars(Check(t))
          /\ SF_vars(RecordNow(t, FALSE))
    /\ WF_vars(Tick)

FairSpec == Spec /\ Fairness

-----------------------------------------------------------------------------
(* Properties.                                                             *)

PC == {"idle", "open_load", "open_now", "open_cas", "open_fast", "open_lost",
       "probe_now", "probe_add", "probe_claim", "probe_sub", "probe_load", "probe_cas",
       "rec_state", "rec_closed", "rec_open",
       "trip_state", "trip_now", "trip_opened", "trip_probes", "trip_fast",
       "close_state", "close_window", "close_probes", "close_fast", "rate_evict"}

Locals == [now : Nat, opened : Nat, claimed : Nat, fails : BOOLEAN]

Sample == [at : Nat, fails : BOOLEAN]

\* Every variable of the breaker has its type; the window never outgrows
\* MAX_WINDOW_ENTRIES and its failure counter never goes below zero.
TypeOK ==
    /\ now \in Nat
    /\ state \in BreakerState
    /\ openedAt \in Nat
    /\ probes \in 0..UsizeMod - 1
    /\ claimedAt \in Nat
    /\ fast \in BOOLEAN
    /\ entries \in Seq(Sample)
    /\ Len(entries) <= MaxWindowEntries
    /\ failures \in 0..MaxWindowEntries
    /\ pc \in [Threads -> PC]
    /\ local \in [Threads -> Locals]
    /\ inFlight \in Nat
    /\ badLeft \in 0..MaxFailures
    /\ lossesLeft \in 0..MaxLosses

\* The incremental counter `failures` that error_rate() divides is the number of
\* failed samples in the window, through cap eviction, time eviction and clear().
WindowCountExact == failures = FailureCount(entries)

\* Once requests stop failing and stop getting lost, the breaker closes for good,
\* whatever the interleaving did to the probe counter: a lost probe or a wrapped
\* counter never strands it in HalfOpen.
Recovers == <>[](state = "Closed")
=============================================================================
