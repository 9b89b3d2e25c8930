# A TLA+ model of groky: session turns, token refresh, leader election, circuit breaker

groky is a coding agent for the terminal: about 1.3 million lines of Rust in some
75 crates. This directory holds TLA+ modules for the parts whose correctness rests on
the order in which concurrent tasks and processes act, the TLC configurations that check them, and
TLAPS proofs of the results that hold for every size. `PROJECT.json` lists components,
runs, mutants, the map from definitions to source lines, hazards, findings and
theorems.

Paths below are relative to `src/crates/`; `session/` is
`codegen/xai-grok-shell/src/session/` and `impl/` is `session/acp_session_impl/`.

## 1. The system

| component | state it keeps | operations | what is hard |
|---|---|---|---|
| **session actor** (`session/acp_session.rs`, `impl/*`) | `State`: pending_inputs, running_task, rewindable, notifications_suppressed, pending_notifications; beside it the pin `current_prompt_id`, the tools' `CurrentPromptIdResource`, `pending_interjections`, the monitor buffer, `blocking_wait_depth` | prompts, cancels, interjections, notifications, queue edits, turn completions | handlers release the state mutex between steps; turns, starters and the loop interleave at every await; completions arrive late |
| **circuit breaker** (`common/xai-circuit-breaker`) | state, opened_at, probe counter, probe claim time, open mirror (atomics); a sliding window behind a mutex | check, record, error_rate | lock-free transitions of several words, probe leases, lost requests, counter wrap |
| **auth** (`xai-grok-shell/src/auth`) | the credential in `auth.json` and in each process, `permanent_failure`, the transient budget, `refresh_lock`, the sleep gate; the lock file `auth.json.lock` with its holder info | `auth()`, 401 recovery, start-up flow, enrichment, logout; acquire, break and release the lock | rotating refresh tokens shared by processes: a token spent twice ends the login; locks that are broken under their holder; answers that are lost; a suspend in the middle |
| **leader election** (`xai-grok-shell/src/leader`, `agent/app.rs`) | `leader.lock` with the leader's pid, `leader.sock`, the server task | connect, spawn, hand the lock over, adopt, evict, stop | the lock is an flock on an inode whose path others unlink; crashes leave pid and socket behind; decisions from two separate looks |
| leader IPC server (`leader/server.rs`, `leader/client.rs`) | attached clients, sessions they own | route, forward, reconnect | ownership of sessions across reconnects |
| sampler (`xai-grok-sampler`) | in-flight requests | sample, retry, cancel | cancel racing an answer |
| upload queue (`xai-file-utils/src/queue.rs`) | a persistent queue | enqueue, upload, retry | crash between upload and removal |
| catalog (`xai-grok-catalog`) | cached and dynamic model lists | refresh, look up | a stale refresh overwriting a newer one |
| computer hub SDK (`common/xai-computer-hub-*`) | pooled connections, reference counts, pending calls | admit, call, cancel, reconnect | demultiplexing late answers |
| goal tracker, plan mode, subagents (`session/goal_*`, `session/plan_mode.rs`) | a goal's state, a plan awaiting approval | start, pause, continue, approve | they start turns of their own |
| chat state, hunk tracker, worktree pool | conversation; edit attribution; prepared worktrees | append, rewind, compact; attribute; hand out | rewinds against concurrent appends |
| tools, MCP, hooks, memory, sandbox | mostly the world outside | run | I/O |
| terminal UI, rendering, markdown | view state | draw, edit text | size, no shared state |

How they interact: the UI (or a leader's client) sends `SessionCommand`s to a session
actor over a channel. The actor queues prompts and spawns one task per turn on the same
single-threaded LocalSet. A turn samples the model through the sampler, runs tools, and
reports over the completion channel. Tools, monitors and subagents feed notifications
and completions back as commands. Every attached client sees the queue through
`x.ai/queue/changed` broadcasts and turns through durable `TurnCompleted` events.
HTTP clients guard remote services with circuit breakers. All clients of a user on a
machine talk to one leader process, which they find or start through `leader.lock` and
`leader.sock`; every process refreshes the user's token through `auth.json`, under
`auth.json.lock`.

What makes each correct is listed with the hazards in `PROJECT.json`; section 3 says
which properties state it.

## 2. The modules

| module | models | kind |
|---|---|---|
| `PromptQueue` | the queue operations as pure operators on a sequence of items | operators |
| `SessionTurns` | the session actor's turn lifecycle | state machine |
| `SessionHistory` | the same with one observing variable: the prompts another task promoted while a handler was about to reset | state machine |
| `PromptQueueProofs` | what the operators preserve | lemmas |
| `SessionTurnsProofs` | type correctness | theorem |
| `SessionQueueProofs` | the running front, no duplicates, one spawn per prompt | theorems |
| `SessionCancelProofs` | turns, cancels, interjections, waits, notifications, send-nows, the clients' mirror | theorems |
| `CircuitBreaker` | the breaker, one step per atomic access | state machine |
| `BreakerHistory` | the same with seven observing variables: how far a race reaches | state machine |
| `CircuitBreakerProofs` | window, mirror, cool-down and slots for racing threads; the spacing of probes for calls that do not overlap | theorems |
| `FileLease` | what `auth.json.lock` promises to the code that takes it | abstract specification |
| `AuthLock` | the lock file, one system call per step | state machine |
| `AuthLockLease` | the refinement mapping from `AuthLock` to `FileLease`, and liveness | refinement |
| `AuthRefresh` | token refresh by several processes, on top of `FileLease` | state machine, composed |
| `AuthLockProofs` | the lock's inductive invariant and the refinement | theorems |
| `AuthRefreshProofs` | sleep, lockout and the token family | theorems |
| `LeaderElection` | `connect_or_spawn` against `run_leader`, one system call per step | state machine |
| `LeaderElectionProofs` | whose pid is in a lock file, and what displaces a leader | theorems |
| `MC*` | names for TLC to instantiate | instances |

Definitions called *Faulty* or *Mutant* are one-edit faults of the definition that
follows them. No specification uses them: they show, substituted for their original,
that a property can fail.

### SessionTurns and the code

The actor runs on a LocalSet with one thread, so code between two awaits is atomic and
the model's steps are the stretches between awaits that other tasks can observe.

- `pc["loop"]` is where the actor's own task is inside a handler; `job` holds that
  handler's locals (the taken task `cur`, the pin snapshot `pinned`, the prompts to
  resolve `held`, the cancel mode, the interjections still to queue).
- The select in `run_loop.rs` is `biased`, with the completion channel first. Commands
  are therefore guarded by `Ready`: the loop is idle and no completion waits.
- `phase[p]` is the turn task of prompt p. A cancel's `abort()` only marks a task; the
  LocalSet drops it, with its scope guard and its `TurnActiveGuard`, in a later step
  (`TurnDropped`). A freshly spawned task is polled after it, because the LocalSet's
  queue is FIFO (`TurnBegin`).
- `mcp` and `resume` are the two other tasks that call `maybe_start_running_task`
  (`run_loop.rs:138`, `tool_calls.rs:1513`). That function holds the state mutex across
  its `update_resource` await, and it is the only place that does: `lock` records who
  is there, and every other locked region requires `Unlocked`.
- Cancelling is `CancelBegin` (interjections cleared, pin read), `CancelTake` (the
  locked region), `CancelClear`, `CancelAbort`, `CancelSettle` (pin, terminal, answers),
  `CancelRelease` for a send-now. Completing is `Completion`, `CompletionUnset`, `Pop`,
  `Terminal`, `Sweep`, `TurnEnd`, `Strand`, `Flush`. Both end in `StartCheck` and
  `StartSpawn`; a completion then drains notifications.
- Queue edits (`RemoveRow`, `PromoteRow`, `EditRow`, `ReorderRows`, `ClearRows`) are
  single locked regions; versions and owners are compared as in the code.

Abstractions: a prompt is its id, origin, send-now flag, owner and version. Contents,
telemetry, persistence and usage accounting are dropped. Interjections and
notifications are counted, since the code treats them alike. A goal may or may not
queue a continuation (`CompletionTurnEnd`), and may or may not swallow notifications
(`Drain`): the classifier's verdict is nondeterministic. A turn has at most one wait
tool open at a time. The reset of `notifications_suppressed` by a user prompt and the
queueing of it are one step. Prompt ids are unique, as the clients' UUIDs are. Section 5
lists the awaits that are merged.

### CircuitBreaker and the code

`check`, `record`, `trip`, `close`, `check_open` and `try_half_open_probe` are split at
every access to an atomic; a window critical section is one step, since it is under a
mutex. `usize` wraps at `UsizeMod`. A request that was admitted may fail, succeed, or be
lost. The clock ticks while a deadline is pending, and `FreeTime` ticks beyond it.
The interleaving of atomic accesses is sequentially consistent; the code uses
acquire/release orderings, so reorderings of stores to different words by weaker
hardware are not explored. `enabled = false` turns every call into a no-op and is left
out. `record()` carries no identity of the request: in the model as in the code a late
answer that is recorded while HalfOpen counts as the probe's.

`BreakerHistory` adds what an observer of all threads would note: whether `state` was last
stored in the middle of a move to another state (`torn`), which calls began after the last
move was finished (`calm`), how many slots the counter handed out since it was zeroed and
how many refused claims that reset met half done (`claims`, `owed`), how long an overtaken
`record()` had waited for the window (`lag`), and, for the probes of one half-open period,
`admitted` and `openSince`. The variables constrain nothing. Each property names its race
by one of them instead of excluding races.

### AuthLock, FileLease and the code

`auth.json.lock` is an flock on an inode, with `PID:TIMESTAMP` in the file, that a waiter
may unlink when the holder looks dead or stuck. `AuthLock` has one step for each of
open, flock, the write of the holder info, the stat that compares inodes, the judgement of
a busy lock and the unlink, for the three phases of `try_lock_auth_file_async` ("p1",
"p2", and "p3", "p4" for the two rounds of the last phase) and for
`try_lock_auth_file_nonblocking` ("once"). The thread of a phase 2 that timed out goes on
as a member of `threads`: it can still get the flock, for nobody. Holder info grows old
under a slow holder, I/O fails, processes die.

`FileLease` is what is left for the callers: of the guards at most one is `still_live`, a
guard that lost the path never gets it back, and a waiting acquire succeeds only when no
live guard exists. That is weaker than mutual exclusion, and `AuthRefresh` uses nothing
else: its lock steps are the lease's actions. `Implements` in `AuthLockLease` is the
refinement, with `live` mapped to the holder whose inode the path names.

### AuthRefresh and the code

A credential is its generation. The identity provider, external to the repository,
rotates at each exchange, answers a repeated exchange in its grace window with the same
successor, and revokes the family when a spent token comes later; that is how the code's
comments and retries use it. `chain[t]` is where task t is in `auth()` or in the 401
recovery: reload from disk, `refresh_lock`, the file lock and its timeout,
revalidation after a wait (`revalidate_lock_or_reacquire`), the sleep gate's slot
(`Claim`, `GateCheck`), resolve, send with its retries, and `apply_refresh_outcome`.
Around it run the start-up flow (which holds the lock itself), enrichment
(read-modify-write of `auth.json`, with the lock or without), the sleep handler, logout,
crash and expiry. What comes from outside is drawn from `Events` and counted: a broken
lock, a crash, a request or an answer lost, a rejected client, a failed write. `hurt`
records that an event cost a token: the answer was lost or the write failed and the grace
window closed, the lock broke after the last check or under an enrichment, or an
enrichment without the lock overwrote a newer token. The properties say that nothing else does.

### LeaderElection and the code

Inodes are explicit: `lockPath` is the inode `leader.lock` names, `flock[i]` its holder,
`pid[i]` the pid in it, `fd[p]` what process p has open. `Drop` of an unreleased
`LeaderLock` is three steps, unlink, unlink, close, because others act in between. A
client goes through the fast path, the lock, the recheck under the lock (adopt, evict,
or spawn), the wait for the socket, the release, and the wait branch; the wait for the
listener times out while there is none, the wait for a connection and the wait for
`LeaderReady` whenever they are entered. A leader goes through `run_leader`'s phases;
its server task removes, binds, serves and finally unlinks the socket path on its own.
A leader is up for a client (`ConnectOk`) when it has the lock; that `LeaderReady` comes
only after authentication and prefetch is the timeout's nondeterminism (`ConnectErr`). `Old` leaders
are below the clients' version and are evicted. A process number is used once: a process
that is restarted is another member of `Leaders` or `Clients`, so pid reuse is not
modelled.

## 3. The runs

| run | shows | size |
|---|---|---|
| `turn_queue` | Two clients send, promote, edit, reorder, remove and clear while turns run, with and without a goal, and the two other tasks start turns. `NoDuplicates`, `NeverStalled` (between handlers a non-empty queue runs), `ClientsSeeQueue` (the last broadcast is the queue), `SpawnedOnce`, `SendNowFifo` (a send-now is queued behind the send-nows before it, unless a reorder put an ordinary prompt between them). | 3 prompts, one of them a resumed plan's, 2 edits, 2.8 million states |
| `turn_cancel` | Plain, rewind, teardown and send-now cancels against completions and both starters. `FrontIsRunning`, `ClientsNotForgotten`, `TerminalPerTurn` (exactly one per turn that ran), `LiveTurnOwned`, `PinAgrees` (a `debug_assert` of the code), `ToolsSeeTurn` (the tools see the running turn's prompt id, but for a turn another task promoted while a handler was about to reset) and the liveness property `EveryPromptAnswered`. | 3 prompts, 2 cancels, 840 thousand states |
| `turn_inbox` | Interjections, notifications, waits, auto-wakes and goals around one cancel. `TypeOK`, `InterjectionsKept`, `StaleNeverFlushes`, `QuietAfterCancel`, `NotificationsDrained`, `WaitIsReal`. | 5 prompts, 4.7 million states |
| `breaker_calls` | Calls that do not overlap, two requests in flight, one of which may be lost. `TypeOK`, `ProbeSpacing` (a half-open breaker admits its probes and then one per expired lease), and `Recovers` (the breaker always closes again). | 1 thread, window of 2, 520 thousand states |
| `breaker_race` | Two threads interleaved at every atomic access, with a failure and a lost request. `WindowCountExact`, `MirrorExact` (the mirror is right after a move that met no other), `CoolDownKept` (no call that begins after a trip is finished ends its cool-down), `SlotsBounded` (what the counter hands out, also when it wraps below zero), `RateTimely` (old samples stay only as long as an overtaken `record()` waited) and `Recovers`. | 2 threads, 760 thousand states |
| `auth_lock` | Two processes take, break, abandon and release the lock with a slow holder and one crash or I/O error. `TypeOK`, `Implements` (it is a `FileLease`), and liveness: `AttemptsEnd` (no acquire hangs behind a holder that never releases) and `StuckHolderBroken` (such a holder loses the lock to whoever keeps asking). | 2 inodes, 1 abandoned thread, 380 thousand states |
| `auth_refresh` | Two processes refresh a shared credential, one with the start-up flow and a power listener, with any one of nine events. `TypeOK`, `FamilySafe` (the family is revoked only after a named loss), `DiskUsable` (so is `auth.json` dead), `LockoutIsReal` (a sticky verdict stands on a dead credential), `NoStraddle` (no exchange after an acknowledged sleep) and the liveness property `CallsReturn`. | 3 generations, 330 thousand states |
| `leader_election` | Two clients, an old leader started by hand and one that may be spawned, with two crashes or planned stops. `PidIsHolder` (a live pid in a lock file is its holder's) and `SettledStays` (what can displace a leader that has lock and socket). | 4 inodes, 3.3 million states |
| `turn_wake_unmark` | violation, finding 1 | |
| `breaker_probe_race` | violation, finding 2 | |
| `auth_self_wait` | violation, finding 3 | |
| `leader_one` | violation, finding 4 | |

**Bounds.** Three prompts are a running one, the next, and one behind it, which is what
a misplaced insertion, a second promotion or a lost row needs; two clients are needed
for owner checks, two edits for a version that changed. Two cancels reach a cancel of
the turn that the first one promoted. In `turn_inbox` each kind of input arrives once
around one cancel, with a user and a wake prompt, which gives each of them every
position relative to the turn's last drain. In the breaker one slot, a window of two
samples and two threads are enough for a late store of `trip()` to meet a checker, for a
lost CAS, for a slot claimed between an add and a subtract, for a push overtaken at the
mutex and for a sample dropped at the cap; the clock ticks whenever a deadline is
pending, and `FreeTime` more. The race is checked with a single failure, which is enough
for a torn move and for the counter to wrap; a second trip out of HalfOpen is covered by
the calls that do not overlap, and by the proofs for any number. In `auth_lock` two
inodes are the file that was unlinked and its successor, and one abandoned thread is
enough to hold an inode for nobody. In `auth_refresh` three generations are a spent
token, its successor and the next, one event at a time keeps what the properties blame
on an event apart from what the code does alone; the proofs cover any number. In
`leader_election` every process can have an inode of its own, so `MaxIno` never binds;
the second leader lets an eviction end in a replacement, and two events let a crash
follow a planned stop. Command budgets are named constants and appear in guards only.
The runs of turns, refresh and election disable deadlock checking, because a session
with no commands left, or an election whose calls have all returned, is legitimately
idle; that a session is idle for a good reason is what `NeverStalled`,
`InterjectionsKept` and `NotificationsDrained` say.

**Fairness.** For the session: weak fairness of the loop's handlers, of each starter and
of the steps that end a turn. A LocalSet polls every ready task; a turn is bounded by
its own turn and time limits, which is not modelled and therefore assumed. No fairness
is assumed of commands. For the breaker: weak fairness of a call's steps and of the
clock, strong fairness of checking and of a successful answer: callers keep retrying,
and requests eventually succeed (`MaxFailures` ends the failures). Nothing is assumed
about who wins a CAS. For the lock file: every system call of an attempt returns, time
passes, and the timer of phase 2 fires (strong fairness, because polling enables and
disables it); nothing makes a holder release. For a refresh: a task that is not blocked
goes on, network calls have timeouts, and tokio's mutex is fair, so a task that waits for
`refresh_lock` gets it (strong fairness). The election is checked for safety only.

### What the code does not keep

1. `turn_wake_unmark`: a preempted auto-wake is un-marked in one of the two sets that
   suppress its completion reminder; the model never hears of the completion.
2. `breaker_probe_race`: `trip()` publishes Open before it resets the probe counter, so
   a slot claimed in the gap is cleared and a second probe is admitted.
3. `auth_self_wait`: the start-up flow calls `auth()` while it holds `auth.json.lock`,
   and the refresh chain waits for the same lock until the timeout, then blames a sibling.
4. `leader_one`: a client that gives up on a slow leader after ten seconds unlinks
   `leader.lock` while the leader or another client has the old file open. Whoever comes
   next makes a new file, two processes hold "the" lock, and two leaders lead.

Eight more facts about the modelled code have no run of their own. `handle_completion` and
a cancel decide before an await that the session is idle and reset the tools' prompt id
after it (`turn_end.rs:172`, `tasks_cancel.rs:412`); a turn that the MCP task or a resumed
plan promotes in between loses its prompt id. `raced` names these turns; without that
exception TLC refutes `ToolsSeeTurn`. Two moves of the breaker that overlap can leave the
mirror wrong until the next move, and a call that began before a trip was finished can end
its cool-down early, since `trip()` publishes Open before `opened_at`; `torn` and `calm`
are these exceptions. `cancel_running_task` unlocks the state before it aborts the task,
so a starter can spawn the next turn while the cancelled one is still polled;
`LiveTurnOwned` shows that the cancel always closes the window. And the adoption under
the lock in `connect_or_spawn` (`leader/mod.rs:1250`) looks for a live pid in the lock
file, which by `AdoptsOnlyReplaced` is never there while the client's own file is in
place: a leader that has bound its socket and waits for the handoff is not seen, its
socket is removed and a second leader is spawned. A teardown cancel empties the queue
without a broadcast, so `ClientsSeeQueue` holds of every other way to change it. And the
Cancel arm of the loop calls no drain: after a rewind, which does not suppress
notifications, an idle session may have some waiting (`NotificationsDrained` is about
the other cancels). Last, the scan that places a send-now stops at the
first item that is not one (`prompt_queue.rs:185`), so after a client has moved an
ordinary prompt in front of a queued send-now a later send-now overtakes it, which
`acp_session.rs:208` does not say. TLC finds it with four prompts and one reorder under a
goal when the hypothesis `NowsLead` of `SendNowFifo` is dropped; the hypothesis is the one
the proof asked for. And two leaders that both look while a spawner has the lock and no
socket exists yet both go on (`agent/app.rs:970`); the later one's `cleanup_socket` removes
the socket of the earlier one. `Settled` begins when nobody is between those looks and
their consequence.

## 4. What is proved

The proofs hold for every value of the constants that satisfies the named assumptions of
the module (`SessionAssumption`, `TasksAssumption`, `ProcsAssumption` and the like, all
about types and disjointness; `BreakerAssumption` adds that a breaker has an open
duration and a probe slot, and that its counter has room for the slots and one claim of
every thread): any number of
prompts, processes, threads, tasks, inodes, crashes. Where a theorem has a further
hypothesis it is in its statement and below. Every safety property of the passing runs is
stated by a theorem.

- `PromptQueueProofs`: filtering a queue by positions yields a queue of those items in
  order (`KeepSeq`, through a bijection between positions and ranks); and each operation
  of the queue, `Sweep`, `Remove`, `Clear`, `Insert` at or behind `FrontSlot`, `Promote`,
  `Edit`, `Reorder`, keeps a running front in front, keeps ids distinct and brings in no
  new id (`Derived`, `Inserted`). For the clients' mirror it also shows that `Keep` is
  monotone in rank (`RankTells`, `NthMonotone`, `CarriedKeep`) and, from that, what each
  operation does to `Wire`: a step that drops, adds or moves only items without a row
  leaves the mirror as it is (`WireKeep`, `WireInsert`, `WireTail`, `WireMoved`).
- `TypeCorrect`: `Spec => []TypeOK`. The inductive invariant adds `LockInv` (whoever is
  between the halves of `maybe_start_running_task` holds the mutex, with a non-empty
  queue and nothing running) and `JobInv` (handler locals that are set when read).
- `FrontIsRunningCorrect`, `NoDuplicatesCorrect`, `SpawnedOnceCorrect`: from
  `Inv /\ QueueInv`. `QueueInv` says that the running turn is the front, ids are distinct
  and below `nextId`, and a queued prompt that is not running, or one not created yet,
  has never had a task. Each part needs the others: a task leaves the running slot
  together with its item only if it is the front; no copy stays only if ids are distinct;
  a new id is distinct only if it is fresh; and a spawn finds an unborn prompt only
  because everything that ever ran has left the queue or is still running. In particular
  a stale completion that does not own the front cannot own the running slot, which is
  why the ownership test at `turn_end.rs:231` is enough.
- The cancel theorems of `SessionCancelProofs` follow from
  `Inv /\ QueueInv /\ CancelInv`, one part of `CancelInv` for each question.
  - `LiveTurnOwnedCorrect` from `TaskInv`: a completion, in the channel or in its
    handler, names a task that has ended, so no handler frees the slot of a live one.
  - `PinAgreesCorrect` from `PinInv`: the pin names the running turn or nothing, and the
    front while it is being promoted. A cancel's snapshot may be older than the task it
    takes only by a promotion already under way when it was read.
  - `ClientsNotForgottenCorrect` from `ClientInv`: the open calls are those of the queued
    user prompts and of the prompts a cancel holds, and these are disjoint.
  - `TerminalPerTurnCorrect` from `TermInv`: a turn that is answered has its terminal, or
    the completion handler is about to write it; of the prompts a cancel holds one at
    most has run, and it is the one the cancel names.
  - `NeverStalledCorrect` from `StallInv`, which also covers the handler before its last
    drain, where a waiting prompt may be left to a starter on its way.
  - `StaleNeverFlushesCorrect` and `InterjectionsKeptCorrect` from `StaleInv` and
    `KeptInv`: while an interjection is buffered every completion in the channel is the
    running turn's, because a cancel empties the buffer first and the biased select lets
    no interjection in while a completion waits.
  - `WaitIsRealCorrect` from `WaitInv`: outside two steps of a cancel the depth counts the
    running turn's wait and no other.
  - `QuietAfterCancelCorrect` from `DrainInv`: a notification turn is queued only into an
    empty queue and is running, or being promoted, by the time a cancel can arrive.
- `SendNowFifoCorrect`: the insertion scan walks the block of send-nows behind the
  running turn, and no item of the block is behind the slot it stops at; filters and
  promotions keep the others in order.
- `ToolsSeeTurnCorrect` has no hypothesis: any tasks start turns. `RacedInv`: a turn that a
  cancel finds in the slot after its locked region, a pinned turn that a completion finds
  when it is about to reset, and a promotion under way in either case, are in `raced`. What
  makes it inductive is `PinInv`: a promotion pins the front before it unlocks, so a
  completion that found no pin found no promotion either.
- `NotificationsDrainedCorrect` assumes `Starters = {}` and no rewind cancels.
  `HeldInv`: a cancel leaves notifications suppressed, and a send-now cancel that lifts
  that has its prompt in the queue, so the session is not idle. `ActiveInv`:
  `is_turn_active` is owed to a turn that has begun, and an idle session has none; with
  another starter an aborted task's flag can outlast the slot. `NotesInv`: a completion
  ends in a drain, and every other way to the loop's rest leaves nothing waiting.
- `ClientsSeeQueueCorrect` assumes no teardown cancels. `WireInv` is stronger than the
  property: the mirror equals the queue at every step and not only between handlers,
  because each locked region broadcasts before it unlocks or touches no row. `RowsInv`
  (an idle queue has no client's prompt) is needed for a cancel that finds no turn.
- `BreakerTyped` and `WindowCounted` hold for any number of racing threads, from `TypeOK`
  and `WindowCountExact` together: the counter stays a natural number because it counts
  the failed samples, through pushes, the cap, the eviction by age and `clear()`. The
  window lemmas say how the set of failed positions moves under each.
- `MirrorExactCorrect`, `CoolDownKeptCorrect`, `SlotsBoundedCorrect` and
  `RateTimelyCorrect` also hold for any number of racing threads, with no hypothesis on
  how calls overlap. `MoveInv`: while no move is torn, all unfinished moves go to the
  published state, and when none is left the mirror is right. `StampInv`
  and `CalmInv`: a finished trip has left a stamp not older than `openSince`, and a calm
  call that has read `Open` reads that stamp or a later one. `SlotInv`: the counter is the
  slots handed out plus the refused claims not yet subtracted, less those a reset caught,
  modulo the `usize`; the room for a claim of every thread is what keeps a wrapped counter
  from looking free. `LagInv`: samples are at most `lag` out of order, so the eviction,
  which stops at the first young one, leaves none older than that.
- `ProbeSpacingCorrect` assumes `[]OneAtATime`, that at most one thread is inside a call,
  with any number of requests in flight between `check()` and `record()`, lost probes and
  expired leases; `breaker_probe_race` shows it false of overlapping calls. `SoloInv` says
  what the state, the slots and the stamps are at each step of a call, and that the probe
  counter is the number of probes admitted, but for the thread between its claim and its
  admission (`AdmittedAt`). The history variables only watch: `HSpec => Spec` carries the
  invariants over.

- `LockFileTyped`, `LockFileIsLease`: the lock file is well typed and implements
  `FileLease`. The inductive invariant `LockInv` adds to the types that whoever has
  passed flock owns the inode's lock, so a release frees nobody else's, and that two live
  guards cannot exist because both would own the inode at the path. Each step is then a
  step of the lease or a stutter: an unlink is `Break`, a dropped guard or a death `Drop`,
  and the inode check, the last step of a waiting attempt, is `Acquire`.
- `RefreshTyped`; `SleepNeverStraddled` (`NoStraddle` is inductive: claim, then look,
  against raise, then count); `LockoutsAreReal`, from `LockoutInv` (dead credentials stay
  dead, and a rejection on its way names a dead one); `FamilyIsSafe` and
  `DiskStaysUsable`, from `FamilyInv`: unless `hurt`, the disk has the provider's current
  credential or its predecessor in grace (`DiskFresh`); only the holder of the live guard
  is past the last `still_live` (`ExposedHolds`); what it sends is the disk credential
  (`SendsDisk`), what it persists is the disk's or the current one (`PersistsFresh`); an
  enrichment with the lock writes back what it read (`EnrichHolds`). Without
  `ExposedHolds` two processes could each send a fresh credential; without `SendsDisk` a
  holder could send one that it read before it had the lock.
- `PidIsHolderCorrect`, from `Inv`: `write_pid` finds its file open (`OpenSteps`) and
  locked (`LockedSteps`), and no old file names a process that has not started
  (`PidStarted`). `AdoptsOnlyReplacedCorrect` and `SettledStaysCorrect` follow from the
  same invariant: while a leader is settled every other process opens its lock file,
  finds it locked and its socket there, and leaves or waits.

Model-checked only: liveness, which rests on fairness and ENABLED and is beyond the
prover (`Recovers`, `EveryPromptAnswered`, `AttemptsEnd`, `StuckHolderBroken`,
`CallsReturn`); and the races outside a theorem's hypothesis, where a run either passes
for its bounds or is a finding.

## 5. Not modelled

The components whose status in `PROJECT.json` is `not_modelled`, with reasons there: most
of the program's lines are user interface, tools and I/O. Inside the session: `Shutdown`
(which may drop the running slot), the deferred exit of plan mode,
`DropMonitorNotifications`, `RecordGoalTurnTaskIds`, persistence acknowledgements, and
the reminder's own pass over tasks. A rewind cancel leaves notifications undelivered
until the next event, and does not un-mark wake ids. Inside auth: login by browser and
device code, API keys and external token providers, and the proactive refresh timer,
which calls `auth()` like any other task. Inside the election: Windows named pipes, pid
reuse, I/O errors other than a failed spawn, the moment between the truncation and the
write in `write_pid`, the IPC routing, `leader kill`, and `LeaderReconnector`, which calls
`connect_or_spawn` again after a back-off.

Where a step of the model stands for several stretches of code with an await or a system
call between them, or a case is left out:

- `CancelSettle` is the pin's reset, the awaited `emit_turn_completed` and the un-marks and
  answers (`tasks_cancel.rs:510-606`). A promotion between them is a promotion after the
  step in the model, with the terminal and the answers already out.
- `QueueInput` is one locked region; the awaits before its lock are merged into it, and the
  delivered mark, which `notification_bridge.rs:349` sets before it sends the wake prompt,
  is set with it. `AutoWakeDeliveredIds.drain` (`task_completion.rs:631`), by which the
  reminder's pass takes the ids, is not modelled.
- `TurnConsumes` drops any number of waiting notifications, since notifications have no
  task id in the model, and is taken only for a task whose wake prompt is queued.
- `Wire` has the rows and not `running_prompt_id` (`prompt_queue.rs:314`).
- `AuthLock`: the phase 2 deadline falls at the open (then no thread is followed), at the
  flock or after the write of the holder info, not between flock and write; an abandoned
  thread's flock and write are one step; holder info that cannot be read falls back to the
  file's age, but an unreadable age (taken for a live holder) and a reused pid are left out.
- `AuthRefresh`: an enrichment takes the lock and reads the disk in one step, and
  `is_gated` reads and clears an expired gate in one (`sleep_gate.rs:148-162`).
- `LeaderElection`: a process ends with the close of its lock, although it lives on for a
  moment after `run_leader` returns, so `PidIsHolder` is exact for the file at the path and
  idealised for one already unlinked; `cleanup_socket` and the spawn are one step; SIGTERM
  takes effect at once.

## 6. Plan

1. An abstract specification of a session as its clients see it (each prompt is asked,
   perhaps run once, answered once) and the refinement from `SessionTurns`.
2. Liveness of the election: under which timing every client ends up with a leader.
3. `UploadQueue`: persistence and retry with crashes; property: nothing is lost, and what
   is uploaded twice is only what a crash left undecided.
4. The leader's IPC server: sessions owned by clients that disconnect and come back.
5. `SubagentGoal`: goal tracker and plan mode composed with `SessionTurns`.
6. The hub SDK's connection pool, the catalog refresh and the breaker registry.
