---------------------------- MODULE SessionTurns ----------------------------
(***************************************************************************)
(* The turn lifecycle of one session: how prompts are queued, promoted to  *)
(* the running turn, completed, cancelled, interjected into and edited.    *)
(* (crates/codegen/xai-grok-shell/src/session/acp_session_impl: run_loop,  *)
(* prompt_queue, tasks_cancel, turn_end, notification_drain, interjection, *)
(* tool_calls)                                                             *)
(*                                                                         *)
(* A SessionActor lives on a single-threaded LocalSet: code between two    *)
(* awaits is atomic, and tasks interleave only at awaits.  The tasks are   *)
(*   - "loop", the actor's select loop, which runs one handler at a time   *)
(*     and takes a completion before any command (the select is biased);   *)
(*   - one task per spawned turn (phase[id]);                              *)
(*   - the Starters, the tasks besides the loop that call                  *)
(*     maybe_start_running_task: "mcp" (MCP initialisation finished) and   *)
(*     "resume" (a restored plan approval was decided).                    *)
(* The state mutex (tokio) guards queue, running, suppressed, rewindable   *)
(* and notifs.  It is held across an await only inside                     *)
(* maybe_start_running_task, so `lock' names the task that is there.       *)
(***************************************************************************)
EXTENDS PromptQueue

CONSTANTS
  MaxPrompts,     \* prompt ids that are ever created
  Starters,       \* subset of {"mcp", "resume"}
  Owners,         \* clients that own queue rows
  PromptKinds,    \* origins of Prompt commands, subset of {"user", "wake", "sched"}
  SendNow,        \* values of Prompt.send_now a client uses, subset of BOOLEAN
  CancelModes,    \* subset of {"plain", "rewind", "teardown"}
  EditKinds,      \* queue-edit commands, subset of EditNames
  Features,       \* subset of {"goal", "wait"}: what turns may do
  NotifCap,       \* MAX_PENDING_NOTIFICATIONS and MAX_BUFFER_EVENTS
  MaxSends, MaxCancels, MaxEdits, MaxInterjects, MaxNotifs,  \* command budgets
  MaxGoals        \* goal continuation turns

EditNames == {"remove", "promote", "reorder", "clear", "edit"}

ASSUME SessionAssumption ==
  /\ MaxPrompts \in Nat
  /\ MaxPrompts >= MaxSends + MaxInterjects + MaxNotifs + MaxGoals
                     + (IF "resume" \in Starters THEN 1 ELSE 0)
  /\ Starters \subseteq {"mcp", "resume"}
  /\ "any" \notin Owners /\ Owners # {}
  /\ PromptKinds \subseteq {"user", "wake", "sched"}
  /\ SendNow \subseteq BOOLEAN
  /\ CancelModes \subseteq {"plain", "rewind", "teardown"}
  /\ EditKinds \subseteq EditNames
  /\ NotifCap \in Nat \ {0}
  /\ MaxSends \in Nat /\ MaxCancels \in Nat /\ MaxEdits \in Nat
  /\ MaxInterjects \in Nat /\ MaxNotifs \in Nat /\ MaxGoals \in Nat

VARIABLES
  queue,        \* State.pending_inputs
  running,      \* State.running_task's prompt id, or None
  suppressed,   \* State.notifications_suppressed
  rewindable,   \* State.rewindable
  notifs,       \* number of State.pending_notifications
  lock,         \* holder of the state mutex across an await, or "free"
  pin,          \* current_prompt_id, or None
  resource,     \* CurrentPromptIdResource seen by tools, or None
  goalGate,     \* goal_loop_active_gate
  depth,        \* blocking_wait_depth
  orphans,      \* BlockingWaitGuards of aborted turns not dropped yet
  active,       \* is_turn_active
  buffer,       \* number of MonitorEventBuffer events
  interj,       \* number of pending_interjections
  phase,        \* where each prompt's turn task is
  completions,  \* the completion channel
  pc,           \* program counter of the loop and of each starter
  job,          \* the loop handler's local variables
  nextId,       \* the next fresh prompt id
  spent,        \* commands received so far, by kind
  outcome,      \* how each prompt's respond_to was resolved
  terminals,    \* TurnCompleted events on the durable rail, in order
  wire,         \* the last x.ai/queue/changed broadcast
  delivered,    \* AutoWakeDeliveredIds
  reported,     \* ReportedTaskCompletions
  told          \* completions the model learned of from a tool call

stateVars == <<queue, running, suppressed, rewindable, notifs, lock>>
turnVars == <<pin, resource, goalGate, depth, orphans, active, phase, completions>>
inboxVars == <<buffer, interj>>
loopVars == <<pc, job, nextId, spent>>
outVars == <<outcome, terminals, wire>>
wakeVars == <<delivered, reported, told>>
vars == <<stateVars, turnVars, inboxVars, loopVars, outVars, wakeVars>>

Prompts == 1..MaxPrompts
Procs == {"loop"} \cup Starters
Item == [id : Prompts, kind : Kinds, sendNow : BOOLEAN, owner : Owners \cup {"any"},
         version : Nat]

\* Phases of a turn task.  "final": past the last interjection drain;
\* "unpinned": its TurnSubagentScopeGuard is dropped; "aborted": abort() was
\* called and the task's guards are not dropped yet.
Live == {"spawned", "loop", "wait", "final", "unpinned"}
Phases == Live \cup {"unborn", "aborted", "ended"}

\* "waiting" is a client's session/prompt call that is still open; the other
\* values are how it was answered.  Nobody waits for a synthetic prompt.
Outcomes == {"none", "waiting", "turn", "cancelled", "rewound", "removed"}
Answer(ps, how) == [p \in Prompts |-> IF p \in ps THEN how ELSE outcome[p]]

PCs == {"idle", "start", "spawn", "cancel", "take", "clear", "abort", "settle",
        "release", "unset", "pop", "terminal", "sweep", "turnend", "strand",
        "flush", "fallback", "drain", "init", "done"}

NoJob == [cur |-> None, pinned |-> None, held |-> {}, mode |-> "none",
          left |-> 0, next |-> "idle"]
Jobs == [cur : Prompts \cup {None}, pinned : Prompts \cup {None},
         held : SUBSET Prompts,
         mode : {"none", "sendnow", "plain", "rewind", "teardown"},
         left : Nat, next : {"idle", "drain"}]

\* The budgets of what the environment starts.
Budget == [send |-> MaxSends, cancel |-> MaxCancels, edit |-> MaxEdits,
           interject |-> MaxInterjects, notify |-> MaxNotifs, goal |-> MaxGoals]
Spend(c) == spent[c] < Budget[c] /\ spent' = [spent EXCEPT ![c] = @ + 1]

-----------------------------------------------------------------------------
Init ==
  /\ queue = <<>> /\ running = None /\ suppressed = FALSE /\ rewindable = FALSE
  /\ notifs = 0 /\ lock = "free" /\ pin = None /\ resource = None
  /\ goalGate = FALSE /\ depth = 0 /\ orphans = 0 /\ active = FALSE
  /\ buffer = 0 /\ interj = 0
  /\ phase = [p \in Prompts |-> "unborn"] /\ completions = <<>>
  /\ pc = [p \in Procs |-> IF p = "loop" THEN "idle" ELSE "init"]
  /\ job = NoJob /\ nextId = 1 /\ spent = [c \in DOMAIN Budget |-> 0]
  /\ outcome = [p \in Prompts |-> "none"] /\ terminals = <<>> /\ wire = <<>>
  /\ delivered = {} /\ reported = {} /\ told = {}

Goto(p, l) == pc' = [pc EXCEPT ![p] = l]
At(l) == pc["loop"] = l
Unlocked == lock = "free"

\* Faulty: an unbiased select.
ReadyUnbiased == At("idle")

\* The biased select: a command is taken only when no completion is waiting.
Ready == At("idle") /\ completions = <<>>

Fresh(kind, now, owner) ==
  [id |-> nextId, kind |-> kind, sendNow |-> now, owner |-> owner, version |-> 0]

\* Faulty: notifications_suppressed not consulted.
IdleUnsuppressed == running = None /\ queue = <<>>

\* State.is_session_idle_for_injection
IdleForInjection == running = None /\ queue = <<>> /\ ~suppressed

\* Faulty: the task is taken but never aborted.
NoAbort(p) == phase

\* AgentTask::abort: a task that was never polled has nothing to drop, and a
\* finished one is left alone.
Abort(p) ==
  IF p # None /\ phase[p] \in Live
    THEN [phase EXCEPT ![p] = IF @ = "spawned" THEN "ended" ELSE "aborted"]
    ELSE phase

-----------------------------------------------------------------------------
(***************************************************************************)
(* queue_input, common to the Prompt command and to a resumed plan.        *)
(***************************************************************************)
Preempted(kind) ==
  {i \in 1..Len(queue) :
     /\ kind = "user"
     /\ \E j \in 1..Len(queue) : HasCompletion(queue[j]) /\ queue[j].id # running
     /\ Synthetic(queue[i]) /\ queue[i].id # running}

\* A user prompt becomes a send-now when the client asks, or when the turn
\* is blocked in a wait and no other user prompt is held behind it.
IsSendNow(kind, want, base) ==
  /\ kind = "user"
  /\ \/ want
     \/ /\ running # None /\ depth > 0
        /\ \A i \in 1..Len(base) : Synthetic(base[i]) \/ base[i].id = running

QueueInput(kind, want, owner) ==
  LET base == Sweep(queue, running, Preempted(kind))
      now == IsSendNow(kind, want, base)
      it == Fresh(kind, now, owner)
  IN  /\ Unlocked
      /\ nextId <= MaxPrompts
      /\ nextId' = nextId + 1
      /\ queue' = IF now THEN Insert(base, SendNowSlot(base, running), it)
                         ELSE Append(base, it)
      /\ wire' = Wire(queue', running)
      /\ outcome' = IF kind = "user" THEN Answer({nextId}, "waiting") ELSE outcome
      /\ delivered' = (IF kind = "wake" THEN delivered \cup {nextId} ELSE delivered)
                        \ {queue[i].id : i \in Preempted(kind)}
      /\ reported' = IF kind = "wake" THEN reported \cup {nextId} ELSE reported
      /\ UNCHANGED told

\* SessionCommand::Prompt
Prompt(kind, want, owner) ==
  /\ Ready /\ Spend("send")
  /\ QueueInput(kind, want, owner)
  /\ suppressed' = (suppressed /\ kind # "user")
  /\ LET base == Sweep(queue, running, Preempted(kind))
         cancels == IsSendNow(kind, want, base) /\ running # None /\ ~goalGate
     IN  /\ Goto("loop", IF cancels THEN "cancel" ELSE "start")
         /\ job' = [NoJob EXCEPT !.mode = IF cancels THEN "sendnow" ELSE "none"]
  /\ UNCHANGED <<running, rewindable, notifs, lock, turnVars, inboxVars,
                 terminals>>

\* start_resume_turn, up to its maybe_start_running_task
ResumeQueues ==
  /\ "resume" \in Starters /\ pc["resume"] = "init"
  /\ QueueInput("resume", FALSE, "any")
  /\ Goto("resume", "start")
  /\ UNCHANGED <<running, suppressed, rewindable, notifs, lock, turnVars,
                 inboxVars, job, spent, terminals>>

\* The MCP task has finished ensure_mcp_tools_initialized.
McpReady ==
  /\ "mcp" \in Starters /\ pc["mcp"] = "init"
  /\ Goto("mcp", "start")
  /\ UNCHANGED <<stateVars, turnVars, inboxVars, job, nextId, spent, outVars,
                 wakeVars>>

-----------------------------------------------------------------------------
(***************************************************************************)
(* maybe_start_running_task, in two steps around its update_resource await *)
(* (the state mutex stays locked in between).                              *)
(***************************************************************************)
After(p) == IF p = "loop" THEN job.next ELSE "done"

StartCheck(p) ==
  /\ pc[p] = "start" /\ Unlocked
  /\ IF running # None \/ queue = <<>>
       THEN /\ Goto(p, After(p))
            /\ job' = IF p = "loop" THEN NoJob ELSE job
            /\ UNCHANGED <<pin, rewindable, lock>>
       ELSE /\ pin' = queue[1].id
            /\ rewindable' = TRUE
            /\ lock' = p
            /\ Goto(p, "spawn")
            /\ UNCHANGED job
  /\ UNCHANGED <<queue, running, suppressed, notifs, resource, goalGate, depth,
                 orphans, active, phase, completions, inboxVars, nextId, spent,
                 outVars, wakeVars>>

StartSpawn(p) ==
  /\ pc[p] = "spawn"
  /\ resource' = queue[1].id
  /\ running' = queue[1].id
  /\ phase' = [phase EXCEPT ![queue[1].id] = "spawned"]
  /\ wire' = Wire(queue, running')
  /\ lock' = "free"
  /\ Goto(p, After(p))
  /\ job' = IF p = "loop" THEN NoJob ELSE job
  /\ UNCHANGED <<queue, suppressed, rewindable, notifs, pin, goalGate, depth,
                 orphans, active, completions, inboxVars, nextId, spent,
                 outcome, terminals, wakeVars>>

-----------------------------------------------------------------------------
(***************************************************************************)
(* The turn task of prompt p (handle_prompt and run_task).                 *)
(***************************************************************************)

\* First poll.  The LocalSet queue is FIFO, so an aborted turn has been
\* dropped by then.
TurnBegin(p) ==
  /\ phase[p] = "spawned"
  /\ \A o \in Prompts : phase[o] # "aborted"
  /\ phase' = [phase EXCEPT ![p] = "loop"]
  /\ active' = TRUE
  /\ UNCHANGED <<stateVars, pin, resource, goalGate, depth, orphans, completions,
                 inboxVars, loopVars, outVars, wakeVars>>

\* The first outbound event closes the rewind window (close_rewind_window).
TurnEmit(p) ==
  /\ phase[p] = "loop" /\ Unlocked /\ rewindable
  /\ rewindable' = FALSE
  /\ UNCHANGED <<queue, running, suppressed, notifs, lock, turnVars, inboxVars,
                 loopVars, outVars, wakeVars>>

\* Safe point of the turn loop: drain_pending_interjections and
\* inject_pending_monitor_events.
TurnDrain(p) ==
  /\ phase[p] = "loop" /\ interj + buffer > 0
  /\ interj' = 0 /\ buffer' = 0
  /\ UNCHANGED <<stateVars, turnVars, loopVars, outVars, wakeVars>>

\* A goal turn sets goal_loop_active_gate while it loops.
TurnGoal(p) ==
  /\ "goal" \in Features /\ phase[p] = "loop" /\ ~goalGate
  /\ goalGate' = TRUE
  /\ UNCHANGED <<stateVars, pin, resource, depth, orphans, active, phase,
                 completions, inboxVars, loopVars, outVars, wakeVars>>

\* BlockingWaitGuard::enter and its drop
TurnWait(p) ==
  /\ "wait" \in Features /\ phase[p] = "loop"
  /\ phase' = [phase EXCEPT ![p] = "wait"]
  /\ depth' = depth + 1
  /\ UNCHANGED <<stateVars, pin, resource, goalGate, orphans, active, completions,
                 inboxVars, loopVars, outVars, wakeVars>>

\* Faulty: a plain decrement.
Plain(n) == n - 1

Saturating(n) == IF n = 0 THEN 0 ELSE n - 1

TurnResume(p) ==
  /\ phase[p] = "wait"
  /\ phase' = [phase EXCEPT ![p] = "loop"]
  /\ depth' = Saturating(depth)
  /\ UNCHANGED <<stateVars, pin, resource, goalGate, orphans, active, completions,
                 inboxVars, loopVars, outVars, wakeVars>>

OrphanDrop ==
  /\ orphans > 0
  /\ orphans' = orphans - 1
  /\ depth' = Saturating(depth)
  /\ UNCHANGED <<stateVars, pin, resource, goalGate, active, phase, completions,
                 inboxVars, loopVars, outVars, wakeVars>>

\* A tool result consumed the completion of wake prompt w
\* (drop_pending_items_for_consumed_completions).  The notifications of the
\* same task go with it; notifications carry no task id here, so it is any
\* number of them.
TurnConsumes(p, w) ==
  LET drop == {i \in 1..Len(queue) : HasCompletion(queue[i]) /\ queue[i].id = w}
  IN  /\ phase[p] = "loop" /\ Unlocked
      /\ w \notin told
      /\ \E i \in 1..Len(queue) : HasCompletion(queue[i]) /\ queue[i].id = w
      /\ queue' = Sweep(queue, running, drop)
      /\ notifs' \in 0..notifs
      /\ told' = told \cup {w}
      /\ UNCHANGED <<running, suppressed, rewindable, lock, turnVars,
                     inboxVars, loopVars, outVars, delivered, reported>>

\* The turn is over, by success or by error; an error skips the last
\* interjection drain.
TurnFinal(p) ==
  /\ phase[p] = "loop"
  /\ phase' = [phase EXCEPT ![p] = "final"]
  /\ UNCHANGED <<stateVars, pin, resource, goalGate, depth, orphans, active,
                 completions, inboxVars, loopVars, outVars, wakeVars>>

\* Faulty: nobody clears the pin of a finished turn.
PinStays(p) == pin

\* TurnSubagentScopeGuard::drop
Unpin(p) == IF pin = p THEN None ELSE pin

TurnUnpin(p) ==
  /\ phase[p] = "final"
  /\ phase' = [phase EXCEPT ![p] = "unpinned"]
  /\ pin' = Unpin(p)
  /\ UNCHANGED <<stateVars, resource, goalGate, depth, orphans, active, completions,
                 inboxVars, loopVars, outVars, wakeVars>>

\* run_task sends the completion.  A turn that returned before its scope
\* guard existed completes with the pin still set.
TurnComplete(p) ==
  /\ phase[p] \in {"final", "unpinned"}
  /\ phase' = [phase EXCEPT ![p] = "ended"]
  /\ active' = FALSE
  /\ completions' = Append(completions, p)
  /\ UNCHANGED <<stateVars, pin, resource, goalGate, depth, orphans, inboxVars,
                 loopVars, outVars, wakeVars>>

\* The LocalSet drops an aborted task, and its guards with it.
TurnDropped(p) ==
  /\ phase[p] = "aborted"
  /\ phase' = [phase EXCEPT ![p] = "ended"]
  /\ active' = FALSE
  /\ pin' = Unpin(p)
  /\ UNCHANGED <<stateVars, resource, goalGate, depth, orphans, completions,
                 inboxVars, loopVars, outVars, wakeVars>>

-----------------------------------------------------------------------------
(***************************************************************************)
(* SessionCommand::Cancel and the send-now cancel (cancel_turn_for_send_   *)
(* now, cancel_running_task).  mode "rewind" is rewind_if_pristine,        *)
(* "teardown" is kill_background_tasks.                                    *)
(***************************************************************************)
CancelCommand(mode) ==
  /\ Ready /\ Spend("cancel")
  /\ Goto("loop", "cancel")
  /\ job' = [NoJob EXCEPT !.mode = mode]
  /\ UNCHANGED <<stateVars, turnVars, inboxVars, nextId, outVars, wakeVars>>

\* Interjections are cleared and the pin is read in one go.
CancelBegin ==
  /\ At("cancel")
  /\ interj' = 0
  /\ job' = [job EXCEPT !.pinned = pin]
  /\ Goto("loop", "take")
  /\ UNCHANGED <<stateVars, turnVars, buffer, nextId, spent, outVars, wakeVars>>

\* The locked region: the running task is taken out of the state and the
\* prompts to resolve out of the queue.
\*
\* CancelHeld: the prompts to resolve, the front even when no task runs.
\* Faulty: a teardown drops the prompts behind the front unanswered.
HeldFront == {queue[i].id : i \in {j \in 1..Len(queue) : j = 1}}

CancelHeld ==
  IF job.mode = "teardown" THEN Ids(queue)
  ELSE {queue[i].id : i \in {j \in 1..Len(queue) : j = 1}}

\* Faulty: the terminal is keyed on the pin snapshot alone.
PinnedId == job.pinned

\* The identity of the cancelled turn: the task torn down, else the pin.
CancelledId == IF running # None THEN running ELSE job.pinned

CancelTake ==
  LET rewound == job.mode = "rewind" /\ rewindable /\ queue # <<>>
  IN  /\ At("take") /\ Unlocked
      /\ notifs' = IF job.mode = "teardown" THEN 0 ELSE notifs + buffer
      /\ buffer' = 0
      /\ queue' = IF queue = <<>> \/ job.mode = "teardown" THEN <<>> ELSE Tail(queue)
      /\ running' = None
      /\ suppressed' = ~rewound
      /\ rewindable' = (rewindable /\ job.mode # "rewind")
      /\ phase' = IF rewound THEN Abort(running) ELSE phase
      /\ orphans' = IF rewound /\ running # None /\ phase[running] = "wait"
                      THEN orphans + 1 ELSE orphans
      /\ job' = [job EXCEPT
                   !.held = CancelHeld,
                   !.mode = IF rewound THEN "rewind"
                            ELSE IF job.mode = "rewind" THEN "plain" ELSE job.mode,
                   !.cur = IF rewound THEN None ELSE running,
                   !.pinned = IF rewound THEN None ELSE CancelledId]
      /\ Goto("loop", "clear")
      /\ UNCHANGED <<lock, pin, resource, goalGate, depth, active, completions,
                     interj, nextId, spent, outVars, wakeVars>>

\* CurrentPromptIdResource and the goal flag, with the state unlocked.
CancelClear ==
  /\ At("clear")
  /\ resource' = None /\ goalGate' = FALSE
  /\ Goto("loop", "abort")
  /\ UNCHANGED <<stateVars, pin, depth, orphans, active, phase, completions,
                 inboxVars, job, nextId, spent, outVars, wakeVars>>

\* Faulty: the wait depth is left to the guards' own drops.
CancelAbortKeepsDepth ==
  /\ At("abort")
  /\ phase' = Abort(job.cur)
  /\ orphans' = IF job.cur # None /\ phase[job.cur] = "wait"
                  THEN orphans + 1 ELSE orphans
  /\ Goto("loop", "settle")
  /\ UNCHANGED <<stateVars, pin, resource, goalGate, depth, active, completions,
                 inboxVars, job, nextId, spent, outVars, wakeVars>>

CancelAbort ==
  /\ At("abort")
  /\ phase' = Abort(job.cur)
  /\ orphans' = IF job.cur # None /\ phase[job.cur] = "wait"
                  THEN orphans + 1 ELSE orphans
  /\ depth' = 0
  /\ Goto("loop", "settle")
  /\ UNCHANGED <<stateVars, pin, resource, goalGate, active, completions,
                 inboxVars, job, nextId, spent, outVars, wakeVars>>

\* The pin is cleared, the durable terminal is emitted (which also closes the
\* rewind window), and the taken prompts are answered.  A rewind answers
\* without a terminal, after a chat-state round trip that lets the aborted
\* task be dropped; only the other modes un-mark auto-wake ids.
CancelSettle ==
  LET rewound == job.mode = "rewind"
  IN  /\ At("settle") /\ Unlocked
      /\ rewound => \A p \in job.held : phase[p] # "aborted"
      /\ pin' = None
      /\ IF job.pinned # None
           THEN terminals' = Append(terminals, job.pinned) /\ rewindable' = FALSE
           ELSE UNCHANGED <<terminals, rewindable>>
      /\ outcome' = Answer(job.held, IF rewound THEN "rewound" ELSE "cancelled")
      /\ delivered' = IF rewound THEN delivered ELSE delivered \ job.held
      /\ Goto("loop", IF job.mode = "sendnow" THEN "release" ELSE "start")
      /\ job' = NoJob
      /\ UNCHANGED <<queue, running, suppressed, notifs, lock, resource, goalGate,
                     depth, orphans, active, phase, completions, inboxVars,
                     nextId, spent, wire, reported, told>>

\* Faulty: the send-now handler returns without starting the prompt.
CancelReleaseOnly ==
  /\ At("release") /\ Unlocked
  /\ suppressed' = FALSE
  /\ Goto("loop", "idle")
  /\ UNCHANGED <<queue, running, rewindable, notifs, lock, turnVars, inboxVars,
                 job, nextId, spent, outVars, wakeVars>>

\* A send-now re-enables notification drains.
CancelRelease ==
  /\ At("release") /\ Unlocked
  /\ suppressed' = FALSE
  /\ Goto("loop", "start")
  /\ UNCHANGED <<queue, running, rewindable, notifs, lock, turnVars, inboxVars,
                 job, nextId, spent, outVars, wakeVars>>

-----------------------------------------------------------------------------
(***************************************************************************)
(* The completion arm of the loop: handle_completion and what follows it.  *)
(***************************************************************************)
\* Faulty: every completion resets the tools' prompt id.
AlwaysUnset(pinned) == "unset"

\* Tool resources are reset only if no other turn has the pin.
CompletionNext(pinned) == IF pinned = None THEN "unset" ELSE "pop"

\* Faulty: no notification drain after a completion.
CompletionNoDrain ==
  /\ At("idle") /\ completions # <<>>
  /\ completions' = Tail(completions)
  /\ pin' = Unpin(Head(completions))
  /\ job' = [NoJob EXCEPT !.cur = Head(completions)]
  /\ Goto("loop", CompletionNext(pin'))
  /\ UNCHANGED <<stateVars, resource, goalGate, depth, orphans, active, phase,
                 inboxVars, nextId, spent, outVars, wakeVars>>

Completion ==
  /\ At("idle") /\ completions # <<>>
  /\ completions' = Tail(completions)
  /\ pin' = Unpin(Head(completions))
  /\ job' = [NoJob EXCEPT !.cur = Head(completions), !.next = "drain"]
  /\ Goto("loop", CompletionNext(pin'))
  /\ UNCHANGED <<stateVars, resource, goalGate, depth, orphans, active, phase,
                 inboxVars, nextId, spent, outVars, wakeVars>>

\* Idle when the pin was examined: after the skill-reminder flush the tools'
\* prompt id and the goal flag are reset.
CompletionUnset ==
  /\ At("unset")
  /\ resource' = None /\ goalGate' = FALSE
  /\ Goto("loop", "pop")
  /\ UNCHANGED <<stateVars, pin, depth, orphans, active, phase, completions,
                 inboxVars, job, nextId, spent, outVars, wakeVars>>

\* The locked region: only a completion that owns the front pops it, is
\* answered and gets a terminal.
Owned == queue # <<>> /\ queue[1].id = job.cur
\* Faulty: any completion clears the running slot.
RunningCleared == None
\* Ownership-gated: a stale completion leaves the promoted turn's task alone.
RunningAfter == IF running = job.cur \/ Owned THEN None ELSE running

CompletionPop ==
  /\ At("pop") /\ Unlocked
  /\ queue' = IF Owned THEN Tail(queue) ELSE queue
  /\ outcome' = IF Owned THEN Answer({job.cur}, "turn") ELSE outcome
  /\ running' = RunningAfter
  /\ wire' = IF Owned /\ IsRow(queue[1]) THEN Wire(queue', running') ELSE wire
  /\ Goto("loop", IF Owned THEN "terminal" ELSE "sweep")
  /\ UNCHANGED <<suppressed, rewindable, notifs, lock, turnVars, inboxVars, job,
                 nextId, spent, terminals, wakeVars>>

\* emit_turn_completed
CompletionTerminal ==
  /\ At("terminal") /\ Unlocked
  /\ terminals' = Append(terminals, job.cur)
  /\ rewindable' = FALSE
  /\ Goto("loop", "sweep")
  /\ UNCHANGED <<queue, running, suppressed, notifs, lock, turnVars, inboxVars,
                 job, nextId, spent, outcome, wire, wakeVars>>

\* drain_monitor_buffer_to_pending
CompletionSweep ==
  /\ At("sweep") /\ Unlocked
  /\ notifs' = notifs + buffer /\ buffer' = 0
  /\ Goto("loop", "turnend")
  /\ UNCHANGED <<queue, running, suppressed, rewindable, lock, turnVars, interj,
                 job, nextId, spent, outVars, wakeVars>>

\* handle_turn_end: an active goal queues one continuation turn.
CompletionTurnEnd ==
  /\ At("turnend") /\ Unlocked
  /\ \/ /\ "goal" \in Features /\ nextId <= MaxPrompts
        /\ \A i \in 1..Len(queue) : queue[i].kind # "goal"
        /\ Spend("goal")
        /\ queue' = Append(queue, Fresh("goal", FALSE, "any"))
        /\ nextId' = nextId + 1
     \/ UNCHANGED <<queue, nextId, spent>>
  /\ Goto("loop", "strand")
  /\ UNCHANGED <<running, suppressed, rewindable, notifs, lock, turnVars, inboxVars,
                 job, outVars, wakeVars>>

\* Faulty: late interjections stay in the buffer.
StrandSkipped ==
  /\ At("strand")
  /\ Goto("loop", "start")
  /\ UNCHANGED <<stateVars, turnVars, inboxVars, job, nextId, spent, outVars,
                 wakeVars>>

\* Faulty: the next prompt is not started when nothing was stranded.
StrandForgetsStart ==
  /\ At("strand")
  /\ interj' = 0
  /\ job' = [job EXCEPT !.left = interj]
  /\ Goto("loop", IF interj = 0 THEN "drain" ELSE "flush")
  /\ UNCHANGED <<stateVars, turnVars, buffer, nextId, spent, outVars, wakeVars>>

\* flush_stranded_interjections takes the whole buffer, then queues the
\* entries one by one, last first.
CompletionStrand ==
  /\ At("strand")
  /\ interj' = 0
  /\ job' = [job EXCEPT !.left = interj]
  /\ Goto("loop", IF interj = 0 THEN "start" ELSE "flush")
  /\ UNCHANGED <<stateVars, turnVars, buffer, nextId, spent, outVars, wakeVars>>

\* queue_interjection_fallback_prompt with front = true
QueueFallback ==
  /\ Unlocked /\ nextId <= MaxPrompts
  /\ queue' = Insert(queue, FrontSlot(queue, running), Fresh("fallback", TRUE, "any"))
  /\ nextId' = nextId + 1
  /\ UNCHANGED <<running, suppressed, rewindable, notifs, lock, turnVars, inboxVars,
                 spent, outVars, wakeVars>>

CompletionFlush ==
  /\ At("flush")
  /\ QueueFallback
  /\ job' = [job EXCEPT !.left = @ - 1]
  /\ Goto("loop", IF job.left = 1 THEN "start" ELSE "flush")

(***************************************************************************)
(* maybe_drain_notifications: pending notifications become one turn, or    *)
(* are dropped while a goal is active or complete.                         *)
(***************************************************************************)
Drain ==
  /\ At("drain") /\ Unlocked
  /\ IF ~IdleForInjection
       THEN Goto("loop", "idle") /\ UNCHANGED <<queue, notifs, buffer, nextId>>
       ELSE /\ notifs' = 0 /\ buffer' = 0
            /\ \/ /\ notifs + buffer > 0 /\ nextId <= MaxPrompts
                  /\ queue' = <<Fresh("drain", FALSE, "any")>>
                  /\ nextId' = nextId + 1
                  /\ Goto("loop", "start")
               \/ /\ notifs + buffer = 0 \/ "goal" \in Features
                  /\ Goto("loop", "idle")
                  /\ UNCHANGED <<queue, nextId>>
  /\ job' = NoJob
  /\ UNCHANGED <<running, suppressed, rewindable, lock, turnVars, interj, spent,
                 outVars, wakeVars>>

-----------------------------------------------------------------------------
(***************************************************************************)
(* The other commands.                                                     *)
(***************************************************************************)

\* SessionCommand::Interject reads the pin, not running_task.
Interject ==
  /\ Ready /\ Spend("interject")
  /\ IF pin # None
       THEN interj' = interj + 1 /\ UNCHANGED pc
       ELSE Goto("loop", "fallback") /\ UNCHANGED interj
  /\ UNCHANGED <<stateVars, turnVars, buffer, job, nextId, outVars, wakeVars>>

InterjectFallback ==
  /\ At("fallback")
  /\ QueueFallback
  /\ Goto("loop", "start")
  /\ UNCHANGED job

Capped(n) == IF n > NotifCap THEN NotifCap ELSE n

\* SessionCommand::InjectNotification with priority Next or Later.
Notify(next) ==
  /\ Ready /\ Spend("notify")
  /\ IF active /\ next
       THEN /\ buffer' = Capped(buffer + 1)
            /\ UNCHANGED <<notifs, pc>>
       ELSE /\ Unlocked
            /\ notifs' = Capped(notifs + 1)
            /\ Goto("loop", "drain")
            /\ UNCHANGED buffer
  /\ UNCHANGED <<queue, running, suppressed, rewindable, lock, turnVars, interj,
                 job, nextId, outVars, wakeVars>>

\* Faulty: the edit is not broadcast.
EditFrameSilent ==
  UNCHANGED <<wire, running, suppressed, rewindable, notifs, lock, turnVars,
              inboxVars, nextId, terminals, wakeVars>>

\* What every queue edit leaves alone; the queue is always rebroadcast.
EditFrame ==
  /\ wire' = Wire(queue', running)
  /\ UNCHANGED <<running, suppressed, rewindable, notifs, lock, turnVars,
                 inboxVars, nextId, terminals, wakeVars>>

RemoveRow(id, version, owner) ==
  LET at == RowAt(queue, running, id, version, owner)
  IN  /\ "remove" \in EditKinds /\ Ready /\ Unlocked /\ Spend("edit")
      /\ \/ at = {} /\ UNCHANGED <<queue, outcome>>
         \/ \E i \in at : /\ queue' = Remove(queue, i)
                          /\ outcome' = Answer({queue[i].id}, "removed")
      /\ EditFrame /\ UNCHANGED <<pc, job>>

PromoteRow(id, version, owner) ==
  LET at == RowAt(queue, running, id, version, owner)
      cancels == at # {} /\ running # None /\ ~goalGate
  IN  /\ "promote" \in EditKinds /\ Ready /\ Unlocked /\ Spend("edit")
      /\ \/ at = {} /\ UNCHANGED queue
         \/ \E i \in at : \/ queue' = Promote(queue, running, i)
                          \/ queue' = Promote(Edit(queue, i), running, i)
      /\ Goto("loop", IF cancels THEN "cancel" ELSE "start")
      /\ job' = [NoJob EXCEPT !.mode = IF cancels THEN "sendnow" ELSE "none"]
      /\ EditFrame /\ UNCHANGED outcome

EditRow(id) ==
  /\ "edit" \in EditKinds /\ Ready /\ Unlocked /\ Spend("edit")
  /\ \E i \in Rows(queue, running) : queue[i].id = id /\ queue' = Edit(queue, i)
  /\ EditFrame /\ UNCHANGED <<pc, job, outcome>>

ReorderRows ==
  /\ "reorder" \in EditKinds /\ Ready /\ Unlocked /\ Spend("edit")
  /\ \E f \in Orders(queue, running) : queue' = Reorder(queue, running, f)
  /\ EditFrame /\ UNCHANGED <<pc, job, outcome>>

ClearRows(owner) ==
  /\ "clear" \in EditKinds /\ Ready /\ Unlocked /\ Spend("edit")
  /\ queue' = Clear(queue, running, owner)
  /\ outcome' = Answer({queue[i].id : i \in Cleared(queue, running, owner)},
                       "removed")
  /\ EditFrame /\ UNCHANGED <<pc, job>>

-----------------------------------------------------------------------------
Commands ==
  \/ \E kind \in PromptKinds, now \in SendNow, o \in Owners : Prompt(kind, now, o)
  \/ \E mode \in CancelModes : CancelCommand(mode)
  \/ Interject
  \/ \E next \in BOOLEAN : Notify(next)
  \/ \E id \in Prompts, v \in 0..MaxEdits, o \in Owners \cup {"any"} :
       RemoveRow(id, v, o) \/ PromoteRow(id, v, o)
  \/ \E id \in Prompts : EditRow(id)
  \/ ReorderRows
  \/ \E o \in Owners \cup {"any"} : ClearRows(o)

Handlers ==
  \/ CancelBegin \/ CancelTake \/ CancelClear \/ CancelAbort \/ CancelSettle
  \/ CancelRelease
  \/ Completion \/ CompletionUnset \/ CompletionPop \/ CompletionTerminal
  \/ CompletionSweep \/ CompletionTurnEnd \/ CompletionStrand \/ CompletionFlush
  \/ Drain \/ InterjectFallback

Start(p) == StartCheck(p) \/ StartSpawn(p)

Turn(p) ==
  \/ TurnBegin(p) \/ TurnEmit(p) \/ TurnDrain(p) \/ TurnGoal(p) \/ TurnWait(p)
  \/ TurnResume(p) \/ TurnFinal(p) \/ TurnUnpin(p) \/ TurnComplete(p)
  \/ TurnDropped(p)
  \/ \E w \in Prompts : TurnConsumes(p, w)

Next ==
  \/ Commands \/ Handlers
  \/ \E p \in Procs : Start(p)
  \/ \E p \in Prompts : Turn(p)
  \/ OrphanDrop \/ ResumeQueues \/ McpReady

Spec == Init /\ [][Next]_vars

-----------------------------------------------------------------------------
(***************************************************************************)
(* Properties.                                                             *)
(***************************************************************************)

\* Every variable keeps the type the code gives it: counters stay natural,
\* ids name prompts.
StateType ==
  /\ queue \in Seq(Item) /\ running \in Prompts \cup {None}
  /\ suppressed \in BOOLEAN /\ rewindable \in BOOLEAN /\ notifs \in Nat
  /\ lock \in Procs \cup {"free"}

TurnType ==
  /\ pin \in Prompts \cup {None} /\ resource \in Prompts \cup {None}
  /\ goalGate \in BOOLEAN /\ depth \in Nat /\ orphans \in Nat /\ active \in BOOLEAN
  /\ phase \in [Prompts -> Phases] /\ completions \in Seq(Prompts)

InboxType == buffer \in Nat /\ interj \in Nat

LoopType ==
  /\ pc \in [Procs -> PCs] /\ job \in Jobs
  /\ nextId \in 1..(MaxPrompts + 1) /\ spent \in [DOMAIN Budget -> Nat]

OutType ==
  /\ outcome \in [Prompts -> Outcomes] /\ terminals \in Seq(Prompts)
  /\ delivered \subseteq Prompts /\ reported \subseteq Prompts /\ told \subseteq Prompts

TypeOK == StateType /\ TurnType /\ InboxType /\ LoopType /\ OutType

\* The in-flight turn is always the front of the queue ("The in-flight turn is
\* always pending_inputs.front()", tasks_cancel.rs:361): cancel resolves index
\* 0 and handle_completion pops the front on the strength of it.
FrontIsRunning == running # None => queue # <<>> /\ queue[1].id = running

\* No prompt is in the queue twice.
NoDuplicates ==
  \A i, j \in 1..Len(queue) : queue[i].id = queue[j].id => i = j

\* A client's session/prompt call is never forgotten: while it is open its
\* prompt is in the queue or in the hands of a cancel, and an answered prompt
\* is never left in the queue to run (respond_removed_queued_prompt,
\* sweep_pending_inputs: an unresolved sender hangs the client).
ClientsNotForgotten ==
  /\ \A p \in Prompts : outcome[p] = "waiting" => p \in Ids(queue) \cup job.held
  /\ \A i \in 1..Len(queue) : outcome[queue[i].id] \in {"none", "waiting"}

\* Every turn that ran is closed by exactly one TurnCompleted on the durable
\* rail, whether it finished, was cancelled, or did both at once; a rewound or
\* removed prompt gets none (turn_end.rs:264, tasks_cancel.rs:416).
TerminalPerTurn ==
  LET closed == {terminals[i] : i \in 1..Len(terminals)}
  IN  /\ \A i, j \in 1..Len(terminals) : terminals[i] = terminals[j] => i = j
      /\ \A p \in closed : phase[p] # "unborn" /\ outcome[p] \in {"turn", "cancelled"}
      /\ At("idle") => \A p \in Prompts :
           phase[p] # "unborn" /\ outcome[p] \in {"turn", "cancelled"} => p \in closed

\* A turn task that is still polled belongs to the running slot, or to a
\* cancel that has taken it and is about to abort it.
LiveTurnOwned ==
  \A p \in Prompts : phase[p] \in Live =>
    p = running \/ (p = job.cur /\ pc["loop"] \in {"clear", "abort"})

\* No prompt is spawned twice ("a stale completion must not null the promoted
\* turn's task, or maybe_start_running_task would double-spawn the prompt",
\* turn_end.rs:229).
SpawnedOnce ==
  [][\A p \in Prompts : phase'[p] = "spawned" => phase[p] \in {"unborn", "spawned"}]_vars

\* The debug_assert of cancel_running_task (tasks_cancel.rs:303): the pin
\* snapshot taken before the awaits agrees with the running task.
PinAgrees ==
  At("take") /\ Unlocked => \/ job.pinned = None \/ running = None
                            \/ running = job.pinned

\* The queue never stalls: between handlers, a non-empty queue has a running
\* turn, unless a starter has yet to promote the front.
NeverStalled ==
  /\ At("idle") /\ queue # <<>>
  => running # None \/ \E s \in Starters : pc[s] \in {"start", "spawn"}

\* Between handlers the clients' mirror of the queue is the queue: every
\* change of the rows was broadcast.
ClientsSeeQueue == At("idle") /\ Unlocked => wire = Wire(queue, running)

\* A prompt that becomes a send-now item, other than an interjection fallback
\* (which goes to the front on purpose, interjection.rs:79).
IsNow(q, id) == \E k \in 1..Len(q) : q[k].id = id /\ q[k].sendNow
BecomesNow(it) == it.sendNow /\ ~IsNow(queue, it.id) /\ it.kind # "fallback"

\* The send-now items of q stand together, right behind the running turn.
NowsLead(q, run) ==
  \A i, j \in 1..Len(q) : i < j /\ q[j].sendNow /\ q[i].id # run => q[i].sendNow

\* A prompt that becomes a send-now item is queued behind every send-now item
\* already there ("Send-now inserts land behind earlier still-queued send-now
\* prompts so stacked sends ... run FIFO", acp_session.rs:208), unless a
\* client's reorder has put an ordinary prompt in front of one: the insertion
\* scan (prompt_queue.rs:185) stops there.
SendNowFifo ==
  [][NowsLead(queue, running) =>
       \A i, j \in 1..Len(queue') :
         IsNow(queue, queue'[i].id) /\ BecomesNow(queue'[j]) => i < j]_vars

\* An interjection is never stranded: while one is buffered there is a turn
\* to merge it, or a completion whose handler will queue it.
InterjectionsKept ==
  At("idle") /\ interj > 0 => running # None \/ completions # <<>> \/ ~Unlocked

\* A stale completion of a cancelled turn never takes the interjections meant
\* for the turn promoted after it.
StaleNeverFlushes == At("strand") /\ interj > 0 => outcome[job.cur] = "turn"

\* After a cancel no notification turn is queued or running until the user
\* sends another prompt (acp_session.rs:272).
QuietAfterCancel == suppressed => \A i \in 1..Len(queue) : queue[i].kind # "drain"

\* A session that is idle and not suppressed has no notification waiting, not
\* even one that reached the mid-turn buffer after the turn's last drain.
NotificationsDrained == At("idle") /\ IdleForInjection => notifs + buffer = 0

\* blocking_wait_depth is positive only while the running turn waits, so a
\* user prompt never cancels the next turn on a stale count
\* (tasks_cancel.rs:487).
WaitIsReal ==
  At("idle") /\ Unlocked /\ running # None /\ depth > 0 => phase[running] = "wait"

\* An auto-wake prompt dropped before it ran leaves its completion reportable
\* ("Un-mark preempted IDs so TaskCompletionReminder can report them on the
\* next pass instead of permanently suppressing them", prompt_queue.rs:97).
DroppedWakeReportable ==
  \A p \in reported \cup delivered :
    p \in Ids(queue) \cup job.held \cup told \/ phase[p] # "unborn"

(***************************************************************************)
(* Liveness.  Tasks on a LocalSet are polled until done, and a turn is     *)
(* bounded by its own limits, so each step of a handler, of a starter and  *)
(* of a turn that is ending is taken eventually.                           *)
(***************************************************************************)
TurnEnds(p) ==
  TurnBegin(p) \/ TurnResume(p) \/ TurnFinal(p) \/ TurnComplete(p) \/ TurnDropped(p)

Fairness ==
  /\ WF_vars(Handlers)
  /\ \A p \in Procs : WF_vars(Start(p))
  /\ \A p \in Prompts : WF_vars(TurnEnds(p))

FairSpec == Spec /\ Fairness

\* Every prompt a client sends is answered.
EveryPromptAnswered ==
  \A p \in Prompts : outcome[p] = "waiting" ~> outcome[p] # "waiting"
=============================================================================
