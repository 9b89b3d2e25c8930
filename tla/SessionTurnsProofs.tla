------------------------- MODULE SessionTurnsProofs -------------------------
(***************************************************************************)
(* Type correctness of SessionTurns for every value of its constants.      *)
(*                                                                         *)
(* TypeOK is not inductive: StartSpawn reads queue[1], which is an item    *)
(* only because nobody can empty the queue between the two halves of       *)
(* maybe_start_running_task (LockInv), and the completion handler reads    *)
(* locals that an earlier part of it has set (JobInv).                     *)
(***************************************************************************)
EXTENDS SessionTurns, PromptQueueProofs

\* The task between the halves of maybe_start_running_task holds the state
\* mutex, and while it does the front it is about to spawn stays.
LockInv ==
  /\ \A p \in Procs : pc[p] = "spawn" => lock = p
  /\ lock # "free" => queue # <<>> /\ running = None

\* emit_turn_completed has a prompt to name, and the flush of stranded
\* interjections has one left to queue.
JobInv ==
  /\ pc["loop"] = "terminal" => job.cur # None
  /\ pc["loop"] = "flush" => job.left # 0

\* The inductive invariant.
Inv == TypeOK /\ LockInv /\ JobInv

\* No prompt has the id None, and "free" is no task.
LEMMA NoneFresh == None \notin Prompts /\ "free" \notin Procs /\ "loop" \in Procs
BY SessionAssumption DEF None, Prompts, Procs

\* A new SessionActor satisfies the invariant.
LEMMA TInit == Init => Inv
<1> SUFFICES ASSUME Init PROVE Inv
  OBVIOUS
<1>1. StateType
  <2>1. queue \in Seq(Item)
    BY DEF Init
  <2>2. running \in Prompts \cup {None}
    BY DEF Init
  <2>3. suppressed \in BOOLEAN /\ rewindable \in BOOLEAN
    BY DEF Init
  <2>4. notifs \in Nat
    BY DEF Init
  <2>5. lock \in Procs \cup {"free"}
    BY DEF Init
  <2> QED
    BY <2>1, <2>2, <2>3, <2>4, <2>5 DEF StateType
<1>2. TurnType
  <2>1. completions \in Seq(Prompts)
    BY DEF Init
  <2>2. pin \in Prompts \cup {None} /\ resource \in Prompts \cup {None}
    BY DEF Init
  <2>3. goalGate \in BOOLEAN /\ active \in BOOLEAN
    BY DEF Init
  <2>4. depth \in Nat /\ orphans \in Nat
    BY DEF Init
  <2>5. phase \in [Prompts -> Phases]
    BY DEF Init, Phases
  <2> QED
    BY <2>1, <2>2, <2>3, <2>4, <2>5 DEF TurnType
<1>3. InboxType
  BY DEF Init, InboxType
<1>4. LoopType
  <2>1. job \in Jobs
    BY DEF Init, NoJob, Jobs
  <2>2. pc \in [Procs -> PCs]
    BY DEF Init, PCs
  <2>3. nextId \in 1..(MaxPrompts + 1)
    BY SessionAssumption DEF Init
  <2>4. spent \in [DOMAIN Budget -> Nat]
    BY DEF Init
  <2> QED
  BY <2>1, <2>2, <2>3, <2>4 DEF LoopType
<1>5. OutType
  BY DEF Init, OutType, Outcomes
<1>6. LockInv
  BY DEF Init, LockInv
<1>7. JobInv
  BY NoneFresh DEF Init, JobInv
<1> QED
  BY <1>1, <1>2, <1>3, <1>4, <1>5, <1>6, <1>7 DEF Inv, TypeOK

-----------------------------------------------------------------------------
(* Facts that every action uses.                                           *)

\* A step that leaves a group of variables alone keeps its part of TypeOK.
LEMMA Frames ==
  ASSUME Inv
  PROVE  /\ UNCHANGED stateVars => StateType'
         /\ UNCHANGED turnVars => TurnType'
         /\ UNCHANGED inboxVars => InboxType'
         /\ UNCHANGED loopVars => LoopType' /\ JobInv'
         /\ UNCHANGED outVars /\ UNCHANGED wakeVars => OutType'
         /\ UNCHANGED stateVars /\ UNCHANGED loopVars => LockInv'
<1>1. UNCHANGED stateVars => StateType'
  BY DEF Inv, TypeOK, StateType, stateVars
<1>2. UNCHANGED turnVars => TurnType'
  BY DEF Inv, TypeOK, TurnType, turnVars
<1>3. UNCHANGED inboxVars => InboxType'
  BY DEF Inv, TypeOK, InboxType, inboxVars
<1>4. UNCHANGED loopVars => LoopType' /\ JobInv'
  BY DEF Inv, TypeOK, LoopType, JobInv, loopVars
<1>5. UNCHANGED outVars /\ UNCHANGED wakeVars => OutType'
  BY DEF Inv, TypeOK, OutType, outVars, wakeVars
<1>6. UNCHANGED stateVars /\ UNCHANGED loopVars => LockInv'
  BY DEF Inv, LockInv, stateVars, loopVars
<1> QED
  BY <1>1, <1>2, <1>3, <1>4, <1>5, <1>6

\* The actor's loop moves on while the state mutex is free.
LEMMA LoopMoves ==
  ASSUME Inv, NEW l \in PCs \ {"spawn", "terminal", "flush"}, Goto("loop", l),
         UNCHANGED lock, Unlocked \/ UNCHANGED <<queue, running>>
  PROVE  pc' \in [Procs -> PCs] /\ LockInv' /\ JobInv'
<1>1. pc' \in [Procs -> PCs] /\ pc'["loop"] = l
  BY NoneFresh DEF Inv, TypeOK, LoopType, Goto
<1>2. \A p \in Procs : pc'[p] = "spawn" => pc[p] = "spawn"
  BY <1>1 DEF Inv, TypeOK, LoopType, Goto
<1>3. LockInv'
  BY <1>2 DEF Inv, LockInv, Unlocked
<1>4. JobInv'
  BY <1>1 DEF JobInv
<1> QED
  BY <1>1, <1>3, <1>4

\* The command counters stay natural numbers.
LEMMA SpendType ==
  ASSUME LoopType, NEW c \in DOMAIN Budget, Spend(c)
  PROVE  spent' \in [DOMAIN Budget -> Nat]
BY DEF LoopType, Spend

\* A new InputItem has a prompt id that was not used before.
LEMMA FreshItem ==
  ASSUME LoopType, nextId <= MaxPrompts, NEW kind \in Kinds, NEW now \in BOOLEAN,
         NEW owner \in Owners \cup {"any"}
  PROVE  /\ Fresh(kind, now, owner) \in Item /\ Fresh(kind, now, owner).id = nextId
         /\ nextId \in Prompts /\ nextId + 1 \in 1..(MaxPrompts + 1)
<1>1. nextId \in Prompts /\ nextId + 1 \in 1..(MaxPrompts + 1)
  BY SessionAssumption DEF LoopType, Prompts
<1> QED
  BY <1>1 DEF Fresh, Item

\* Resolving respond_to senders keeps outcome a function of the prompts.
LEMMA AnswerType ==
  ASSUME OutType, NEW ps, NEW how \in Outcomes
  PROVE  Answer(ps, how) \in [Prompts -> Outcomes]
BY DEF OutType, Answer

\* AgentTask::abort leaves every task in a phase.
LEMMA AbortType ==
  ASSUME TurnType, NEW p \in Prompts \cup {None}
  PROVE  Abort(p) \in [Prompts -> Phases]
BY DEF TurnType, Abort, Phases, Live

-----------------------------------------------------------------------------
(* The turn tasks.                                                         *)

\* The steps of a turn task (run_task, handle_prompt and their guards).
LEMMA TurnStep ==
  ASSUME Inv, NEW p \in Prompts, Turn(p)
  PROVE  Inv'
<1> USE DEF Inv, TypeOK
<1>1. CASE TurnBegin(p)
  <2>1. TurnType'
    BY <1>1 DEF TurnBegin, TurnType, Phases, Live
  <2> QED
    BY <1>1, <2>1, Frames DEF TurnBegin
<1>2. CASE TurnEmit(p)
  <2>1. StateType' /\ LockInv'
    BY <1>2 DEF TurnEmit, StateType, LockInv, loopVars
  <2> QED
    BY <1>2, <2>1, Frames DEF TurnEmit
<1>3. CASE TurnDrain(p)
  <2>1. InboxType'
    BY <1>3 DEF TurnDrain, InboxType
  <2> QED
    BY <1>3, <2>1, Frames DEF TurnDrain
<1>4. CASE TurnGoal(p)
  <2>1. TurnType'
    BY <1>4 DEF TurnGoal, TurnType
  <2> QED
    BY <1>4, <2>1, Frames DEF TurnGoal
<1>5. CASE TurnWait(p)
  <2>1. TurnType'
    BY <1>5 DEF TurnWait, TurnType, Phases, Live
  <2> QED
    BY <1>5, <2>1, Frames DEF TurnWait
<1>6. CASE TurnResume(p)
  <2>1. TurnType'
    BY <1>6 DEF TurnResume, TurnType, Phases, Live, Saturating
  <2> QED
    BY <1>6, <2>1, Frames DEF TurnResume
<1>7. CASE TurnFinal(p)
  <2>1. TurnType'
    BY <1>7 DEF TurnFinal, TurnType, Phases, Live
  <2> QED
    BY <1>7, <2>1, Frames DEF TurnFinal
<1>8. CASE TurnUnpin(p)
  <2>1. TurnType'
    BY <1>8 DEF TurnUnpin, TurnType, Phases, Live, Unpin
  <2> QED
    BY <1>8, <2>1, Frames DEF TurnUnpin
<1>9. CASE TurnComplete(p)
  <2>1. TurnType'
    <3>1. completions' \in Seq(Prompts)
      BY <1>9 DEF TurnComplete, TurnType
    <3>2. phase' \in [Prompts -> Phases]
      BY <1>9 DEF TurnComplete, TurnType, Phases
    <3> QED
      BY <1>9, <3>1, <3>2 DEF TurnComplete, TurnType
  <2> QED
    BY <1>9, <2>1, Frames DEF TurnComplete
<1>10. CASE TurnDropped(p)
  <2>1. TurnType'
    BY <1>10 DEF TurnDropped, TurnType, Phases, Unpin
  <2> QED
    BY <1>10, <2>1, Frames DEF TurnDropped
<1>11. ASSUME NEW w \in Prompts, TurnConsumes(p, w) PROVE Inv'
  <2> DEFINE drop == {i \in 1..Len(queue) : HasCompletion(queue[i]) /\ queue[i].id = w}
  <2>0. queue' = Sweep(queue, running, drop)
    BY <1>11 DEF TurnConsumes
  <2> HIDE DEF drop
  <2>1. queue' \in Seq(Item)
    BY <2>0, SweepDerived DEF StateType
  <2>2. StateType'
    BY <1>11, <2>1 DEF TurnConsumes, StateType
  <2>3. LockInv'
    BY <1>11 DEF TurnConsumes, LockInv, loopVars, Unlocked
  <2>4. OutType'
    BY <1>11 DEF TurnConsumes, OutType, outVars
  <2> QED
    BY <1>11, <2>2, <2>3, <2>4, Frames DEF TurnConsumes
<1> QED
  BY <1>1, <1>2, <1>3, <1>4, <1>5, <1>6, <1>7, <1>8, <1>9, <1>10, <1>11 DEF Turn

\* An aborted turn's wait guard is dropped.
LEMMA OrphanStep ==
  ASSUME Inv, OrphanDrop
  PROVE  Inv'
<1>1. TurnType'
  BY DEF OrphanDrop, Inv, TypeOK, TurnType, Saturating
<1> QED
  BY <1>1, Frames DEF OrphanDrop, Inv, TypeOK

-----------------------------------------------------------------------------
(* maybe_start_running_task.                                               *)

\* maybe_start_running_task, whoever calls it.
LEMMA StartStep ==
  ASSUME Inv, NEW p \in Procs, Start(p)
  PROVE  Inv'
<1> USE DEF Inv, TypeOK
<1>0. After(p) \in PCs \ {"spawn", "terminal", "flush"} /\ NoJob \in Jobs
  BY DEF LoopType, After, Jobs, NoJob, PCs
<1>1. CASE StartCheck(p)
  <2>1. CASE running # None \/ queue = <<>>
    <3>1. pc' = [pc EXCEPT ![p] = After(p)] /\ UNCHANGED <<stateVars, turnVars, lock>>
      BY <1>1, <2>1 DEF StartCheck, Goto, stateVars, turnVars
    <3>2. LoopType'
      <4>1. pc' \in [Procs -> PCs]
        BY <1>0, <3>1 DEF LoopType
      <4>2. job' \in Jobs
        BY <1>0, <1>1, <2>1 DEF StartCheck, LoopType
      <4> QED
        BY <1>1, <4>1, <4>2 DEF StartCheck, LoopType
    <3>3. LockInv'
      BY <1>0, <3>1 DEF LockInv, LoopType, stateVars
    <3>4. JobInv'
      <4>1. CASE p = "loop"
        BY <1>0, <3>1, <4>1 DEF JobInv, LoopType
      <4>2. CASE p # "loop"
        BY <1>1, <2>1, <3>1, <4>2, NoneFresh DEF JobInv, LoopType, StartCheck
      <4> QED
        BY <4>1, <4>2
    <3> QED
      BY <1>1, <3>1, <3>2, <3>3, <3>4, Frames DEF StartCheck
  <2>2. CASE ~(running # None \/ queue = <<>>)
    <3>1. /\ pc' = [pc EXCEPT ![p] = "spawn"] /\ pin' = queue[1].id
          /\ rewindable' = TRUE /\ lock' = p /\ UNCHANGED job /\ Unlocked
      BY <1>1, <2>2 DEF StartCheck, Goto
    <3>2. queue[1] \in Item /\ queue[1].id \in Prompts
      <4>1. queue[1] \in Item
        BY <2>2 DEF StateType
      <4> QED
        BY <4>1 DEF Item
    <3>3. StateType'
      BY <1>1, <3>1 DEF StartCheck, StateType
    <3>4. TurnType'
      BY <1>1, <3>1, <3>2 DEF StartCheck, TurnType
    <3>5. LoopType'
      BY <1>1, <3>1 DEF StartCheck, LoopType, PCs
    <3>6. LockInv'
      <4>1. \A r \in Procs : pc[r] # "spawn"
        BY <3>1, NoneFresh DEF LockInv, Unlocked
      <4> QED
        BY <1>1, <2>2, <3>1, <4>1 DEF StartCheck, LockInv, LoopType
    <3>7. JobInv'
      BY <3>1, NoneFresh DEF JobInv, LoopType
    <3> QED
      BY <1>1, <3>3, <3>4, <3>5, <3>6, <3>7, Frames DEF StartCheck
  <2> QED
    BY <2>1, <2>2
<1>2. CASE StartSpawn(p)
  <2>1. lock = p /\ queue # <<>> /\ running = None
    BY <1>2, NoneFresh DEF StartSpawn, LockInv
  <2>2. queue[1] \in Item /\ queue[1].id \in Prompts
    <3>1. queue[1] \in Item
      BY <2>1 DEF StateType
    <3> QED
      BY <3>1 DEF Item
  <2>3. StateType'
    BY <1>2, <2>2 DEF StartSpawn, StateType
  <2>4. TurnType'
    <3>1. phase' \in [Prompts -> Phases]
      BY <1>2, <2>2 DEF StartSpawn, TurnType, Phases, Live
    <3> QED
      BY <1>2, <2>2, <3>1 DEF StartSpawn, TurnType
  <2>5. pc' = [pc EXCEPT ![p] = After(p)]
    BY <1>2 DEF StartSpawn, Goto
  <2>6. LoopType'
    <3>1. pc' \in [Procs -> PCs]
      BY <1>0, <2>5 DEF LoopType
    <3>2. job' \in Jobs
      BY <1>0, <1>2 DEF StartSpawn, LoopType
    <3> QED
      BY <1>2, <3>1, <3>2 DEF StartSpawn, LoopType
  <2>7. OutType'
    BY <1>2 DEF StartSpawn, OutType, wakeVars
  <2>8. LockInv'
    BY <1>0, <1>2, <2>1, <2>5 DEF StartSpawn, LockInv, LoopType
  <2>9. JobInv'
    <3>1. CASE p = "loop"
      BY <1>0, <2>5, <3>1 DEF JobInv, LoopType
    <3>2. CASE p # "loop"
      BY <1>2, <2>5, <3>2, NoneFresh DEF JobInv, LoopType, StartSpawn
    <3> QED
      BY <3>1, <3>2
  <2> QED
    BY <1>2, <2>3, <2>4, <2>6, <2>7, <2>8, <2>9, Frames DEF StartSpawn
<1> QED
  BY <1>1, <1>2 DEF Start

\* MCP initialisation finishes.
LEMMA McpStep ==
  ASSUME Inv, McpReady
  PROVE  Inv'
<1> USE DEF Inv, TypeOK
<1>1. "mcp" \in Procs /\ pc' = [pc EXCEPT !["mcp"] = "start"]
  BY DEF McpReady, Goto, Procs
<1>2. LoopType'
  BY <1>1 DEF McpReady, LoopType, PCs
<1>3. LockInv'
  BY <1>1 DEF McpReady, LockInv, LoopType, stateVars
<1>4. JobInv'
  BY <1>1, NoneFresh DEF McpReady, JobInv, LoopType
<1> QED
  BY <1>2, <1>3, <1>4, Frames DEF McpReady

-----------------------------------------------------------------------------
(* queue_input and the commands that queue a prompt.                       *)

\* push_back keeps the queue a queue.
LEMMA AppendSeq ==
  ASSUME NEW S, NEW q \in Seq(S), NEW it \in S
  PROVE  Append(q, it) \in Seq(S)
OBVIOUS

\* queue_input: the new queue, the outcomes and the wake id sets.
LEMMA QueueInputType ==
  ASSUME Inv, NEW kind \in Kinds, NEW want \in BOOLEAN, NEW owner \in Owners \cup {"any"},
         QueueInput(kind, want, owner)
  PROVE  /\ queue' \in Seq(Item) /\ nextId' \in 1..(MaxPrompts + 1)
         /\ outcome' \in [Prompts -> Outcomes]
         /\ delivered' \subseteq Prompts /\ reported' \subseteq Prompts /\ told' \subseteq Prompts
<1> USE DEF Inv, TypeOK
<1> DEFINE base == Sweep(queue, running, Preempted(kind))
           now == IsSendNow(kind, want, base)
           it == Fresh(kind, now, owner)
<1>1. base \in Seq(Item)
  BY SweepDerived DEF StateType
<1> HIDE DEF base
<1>2. now \in BOOLEAN
  BY DEF IsSendNow
<1> HIDE DEF now
<1>3. nextId <= MaxPrompts
  BY DEF QueueInput
<1>4. it \in Item /\ nextId \in Prompts /\ nextId + 1 \in 1..(MaxPrompts + 1)
  BY <1>2, <1>3, FreshItem
<1> HIDE DEF it
<1>5. queue' = IF now THEN Insert(base, SendNowSlot(base, running), it) ELSE Append(base, it)
  BY DEF QueueInput, base, now, it
<1>6. SendNowSlot(base, running) \in FrontSlot(base, running)..Len(base)
  BY <1>1, SendNowSlotRange
<1>7. Insert(base, SendNowSlot(base, running), it) \in Seq(Item)
  BY <1>1, <1>4, <1>6, InsertDerived
<1>8. queue' \in Seq(Item)
  BY <1>1, <1>4, <1>5, <1>7, AppendSeq
<1>9. outcome' \in [Prompts -> Outcomes]
  <2>1. Answer({nextId}, "waiting") \in [Prompts -> Outcomes]
    BY AnswerType DEF Outcomes
  <2> QED
    BY <2>1 DEF QueueInput, OutType
<1>10. delivered' \subseteq Prompts /\ reported' \subseteq Prompts /\ told' \subseteq Prompts
  BY <1>4 DEF QueueInput, OutType
<1>11. nextId' = nextId + 1
  BY DEF QueueInput
<1> QED
  BY <1>4, <1>8, <1>9, <1>10, <1>11

\* start_resume_turn queues a resumed plan.
LEMMA ResumeStep ==
  ASSUME Inv, ResumeQueues
  PROVE  Inv'
<1> USE DEF Inv, TypeOK
<1>1. "resume" \in Procs /\ pc' = [pc EXCEPT !["resume"] = "start"] /\ Unlocked /\ UNCHANGED lock
  BY DEF ResumeQueues, QueueInput, Goto, Procs
<1>2. /\ queue' \in Seq(Item) /\ nextId' \in 1..(MaxPrompts + 1)
      /\ outcome' \in [Prompts -> Outcomes]
      /\ delivered' \subseteq Prompts /\ reported' \subseteq Prompts /\ told' \subseteq Prompts
  <2>1. QueueInput("resume", FALSE, "any") /\ "resume" \in Kinds
    BY DEF ResumeQueues, Kinds
  <2> QED
    BY <2>1, QueueInputType
<1>3. StateType'
  BY <1>2 DEF ResumeQueues, StateType
<1>4. LoopType'
  BY <1>1, <1>2 DEF ResumeQueues, LoopType, PCs
<1>5. OutType'
  BY <1>2 DEF ResumeQueues, OutType
<1>6. LockInv'
  BY <1>1 DEF LockInv, LoopType, Unlocked
<1>7. JobInv'
  BY <1>1, NoneFresh DEF ResumeQueues, JobInv, LoopType
<1> QED
  BY <1>3, <1>4, <1>5, <1>6, <1>7, Frames DEF ResumeQueues

\* SessionCommand::Prompt.
LEMMA PromptStep ==
  ASSUME Inv, NEW kind \in PromptKinds, NEW want \in SendNow, NEW owner \in Owners,
         Prompt(kind, want, owner)
  PROVE  Inv'
<1> USE DEF Inv, TypeOK
<1> DEFINE cancels == /\ IsSendNow(kind, want, Sweep(queue, running, Preempted(kind)))
                      /\ running # None /\ ~goalGate
           l == IF cancels THEN "cancel" ELSE "start"
<1>1. Unlocked /\ UNCHANGED lock /\ Goto("loop", l) /\ Spend("send")
  BY DEF Prompt, QueueInput
<1>2. job' = [NoJob EXCEPT !.mode = IF cancels THEN "sendnow" ELSE "none"]
  BY DEF Prompt
<1> HIDE DEF cancels
<1>3. pc' \in [Procs -> PCs] /\ LockInv' /\ JobInv'
  <2>1. l \in PCs \ {"spawn", "terminal", "flush"}
    BY DEF PCs
  <2> QED
    BY <1>1, <2>1, LoopMoves
<1>4. /\ queue' \in Seq(Item) /\ nextId' \in 1..(MaxPrompts + 1)
      /\ outcome' \in [Prompts -> Outcomes]
      /\ delivered' \subseteq Prompts /\ reported' \subseteq Prompts /\ told' \subseteq Prompts
  <2>1. QueueInput(kind, want, owner) /\ kind \in Kinds /\ want \in BOOLEAN
    BY SessionAssumption DEF Prompt, Kinds
  <2> QED
    BY <2>1, QueueInputType
<1>5. StateType'
  <2>1. suppressed' \in BOOLEAN
    BY DEF Prompt, StateType
  <2> QED
    BY <1>4, <2>1 DEF Prompt, StateType
<1>6. LoopType'
  <2>1. job' \in Jobs
    BY <1>2 DEF NoJob, Jobs
  <2>2. spent' \in [DOMAIN Budget -> Nat]
    BY <1>1, SpendType DEF Budget
  <2> QED
    BY <1>3, <1>4, <2>1, <2>2 DEF LoopType
<1>7. OutType'
  BY <1>4 DEF Prompt, OutType
<1> QED
  BY <1>3, <1>5, <1>6, <1>7, Frames DEF Prompt

-----------------------------------------------------------------------------
(* Cancel.                                                                 *)

\* Every queued item is an item, and its id a prompt.
LEMMA IdsInPrompts ==
  ASSUME Inv
  PROVE  /\ \A i \in 1..Len(queue) : queue[i] \in Item /\ queue[i].id \in Prompts
         /\ Len(queue) \in Nat
<1>1. \A i \in 1..Len(queue) : queue[i] \in Item
  BY DEF Inv, TypeOK, StateType
<1>2. Len(queue) \in Nat
  BY DEF Inv, TypeOK, StateType
<1> QED
  BY <1>1, <1>2 DEF Item

\* SessionCommand::Cancel and cancel_running_task.
LEMMA CancelStep ==
  ASSUME Inv,
         \/ \E mode \in CancelModes : CancelCommand(mode)
         \/ CancelBegin \/ CancelTake \/ CancelClear \/ CancelAbort
         \/ CancelSettle \/ CancelRelease
  PROVE  Inv'
<1> USE DEF Inv, TypeOK
<1>0. NoJob \in Jobs /\ job.cur \in Prompts \cup {None} /\ job.pinned \in Prompts \cup {None}
      /\ job.held \subseteq Prompts
  BY DEF LoopType, Jobs, NoJob
<1>1. ASSUME NEW mode \in CancelModes, CancelCommand(mode) PROVE Inv'
  <2>1. pc' \in [Procs -> PCs] /\ LockInv' /\ JobInv'
    <3>1. "cancel" \in PCs \ {"spawn", "terminal", "flush"}
      BY DEF PCs
    <3> QED
      BY <1>1, <3>1, LoopMoves DEF CancelCommand, stateVars
  <2>2. LoopType'
    <3>1. job' \in Jobs
      BY <1>1, SessionAssumption DEF CancelCommand, NoJob, Jobs
    <3>2. spent' \in [DOMAIN Budget -> Nat]
      BY <1>1, SpendType DEF CancelCommand, Budget
    <3> QED
      BY <1>1, <2>1, <3>1, <3>2 DEF CancelCommand, LoopType
  <2> QED
    BY <1>1, <2>1, <2>2, Frames DEF CancelCommand
<1>2. CASE CancelBegin
  <2>1. pc' \in [Procs -> PCs] /\ LockInv' /\ JobInv'
    <3>1. "take" \in PCs \ {"spawn", "terminal", "flush"}
      BY DEF PCs
    <3> QED
      BY <1>2, <3>1, LoopMoves DEF CancelBegin, stateVars
  <2>2. LoopType'
    <3>1. job' \in Jobs
      BY <1>2 DEF CancelBegin, LoopType, TurnType, Jobs
    <3> QED
      BY <1>2, <2>1, <3>1 DEF CancelBegin, LoopType
  <2>3. InboxType'
    BY <1>2 DEF CancelBegin, InboxType
  <2> QED
    BY <1>2, <2>1, <2>2, <2>3, Frames DEF CancelBegin
<1>3. CASE CancelTake
  <2> DEFINE rewound == job.mode = "rewind" /\ rewindable /\ queue # <<>>
  <2>1. pc' \in [Procs -> PCs] /\ LockInv' /\ JobInv'
    <3>1. "clear" \in PCs \ {"spawn", "terminal", "flush"}
      BY DEF PCs
    <3> QED
      BY <1>3, <3>1, LoopMoves DEF CancelTake
  <2>2. queue' \in Seq(Item)
    <3>1. queue' = IF queue = <<>> \/ job.mode = "teardown" THEN <<>> ELSE Tail(queue)
      BY <1>3 DEF CancelTake
    <3>2. queue # <<>> => Tail(queue) \in Seq(Item)
      BY DEF StateType
    <3> QED
      BY <3>1, <3>2
  <2>3. suppressed' \in BOOLEAN /\ rewindable' \in BOOLEAN
    BY <1>3 DEF CancelTake, StateType
  <2>4. notifs' \in Nat
    BY <1>3 DEF CancelTake, StateType, InboxType
  <2>5. StateType'
    BY <1>3, <2>2, <2>3, <2>4 DEF CancelTake, StateType
  <2>6. InboxType'
    BY <1>3 DEF CancelTake, InboxType
  <2>7. TurnType'
    <3>1. phase' \in [Prompts -> Phases]
      BY <1>3, AbortType DEF CancelTake, StateType, TurnType
    <3>2. orphans' \in Nat
      BY <1>3 DEF CancelTake, TurnType
    <3> QED
      BY <1>3, <3>1, <3>2 DEF CancelTake, TurnType
  <2>8. LoopType'
    <3>1. CancelHeld \in SUBSET Prompts
      BY IdsInPrompts DEF CancelHeld, Ids
    <3>2. CancelledId \in Prompts \cup {None}
      BY <1>0 DEF CancelledId, StateType
    <3>3. job' = [job EXCEPT
                   !.held = CancelHeld,
                   !.mode = IF rewound THEN "rewind"
                            ELSE IF job.mode = "rewind" THEN "plain" ELSE job.mode,
                   !.cur = IF rewound THEN None ELSE running,
                   !.pinned = IF rewound THEN None ELSE CancelledId]
      BY <1>3 DEF CancelTake
    <3> HIDE DEF rewound
    <3>4. job' \in Jobs
      BY <3>1, <3>2, <3>3 DEF Jobs, LoopType, StateType
    <3> QED
      BY <1>3, <2>1, <3>4 DEF CancelTake, LoopType
  <2> QED
    BY <1>3, <2>1, <2>5, <2>6, <2>7, <2>8, Frames DEF CancelTake
<1>4. CASE CancelClear
  <2>1. pc' \in [Procs -> PCs] /\ LockInv' /\ JobInv'
    <3>1. "abort" \in PCs \ {"spawn", "terminal", "flush"}
      BY DEF PCs
    <3> QED
      BY <1>4, <3>1, LoopMoves DEF CancelClear, stateVars
  <2>2. LoopType'
    BY <1>4, <2>1 DEF CancelClear, LoopType
  <2>3. TurnType'
    BY <1>4 DEF CancelClear, TurnType
  <2> QED
    BY <1>4, <2>1, <2>2, <2>3, Frames DEF CancelClear
<1>5. CASE CancelAbort
  <2>1. pc' \in [Procs -> PCs] /\ LockInv' /\ JobInv'
    <3>1. "settle" \in PCs \ {"spawn", "terminal", "flush"}
      BY DEF PCs
    <3> QED
      BY <1>5, <3>1, LoopMoves DEF CancelAbort, stateVars
  <2>2. LoopType'
    BY <1>5, <2>1 DEF CancelAbort, LoopType
  <2>3. TurnType'
    <3>1. phase' \in [Prompts -> Phases]
      BY <1>0, <1>5, AbortType DEF CancelAbort
    <3>2. orphans' \in Nat /\ depth' \in Nat
      BY <1>5 DEF CancelAbort, TurnType
    <3> QED
      BY <1>5, <3>1, <3>2 DEF CancelAbort, TurnType
  <2> QED
    BY <1>5, <2>1, <2>2, <2>3, Frames DEF CancelAbort
<1>6. CASE CancelSettle
  <2> DEFINE l == IF job.mode = "sendnow" THEN "release" ELSE "start"
             how == IF job.mode = "rewind" THEN "rewound" ELSE "cancelled"
  <2>1. pc' \in [Procs -> PCs] /\ LockInv' /\ JobInv'
    <3>1. l \in PCs \ {"spawn", "terminal", "flush"}
      BY DEF PCs
    <3>2. Goto("loop", l) /\ UNCHANGED <<lock, queue, running>>
      BY <1>6 DEF CancelSettle
    <3> HIDE DEF l
    <3> QED
      BY <3>1, <3>2, LoopMoves
  <2>2. StateType'
    <3>1. rewindable' \in BOOLEAN
      BY <1>6 DEF CancelSettle, StateType
    <3> QED
      BY <1>6, <3>1 DEF CancelSettle, StateType
  <2>3. TurnType'
    BY <1>6 DEF CancelSettle, TurnType
  <2>4. LoopType'
    BY <1>0, <1>6, <2>1 DEF CancelSettle, LoopType
  <2>5. OutType'
    <3>1. outcome' = Answer(job.held, how) /\ how \in Outcomes
      BY <1>6 DEF CancelSettle, Outcomes
    <3>2. outcome' \in [Prompts -> Outcomes]
      BY <3>1, AnswerType
    <3>3. terminals' \in Seq(Prompts)
      <4>1. CASE job.pinned # None
        BY <1>0, <1>6, <4>1 DEF CancelSettle, OutType
      <4>2. CASE job.pinned = None
        BY <1>6, <4>2 DEF CancelSettle, OutType
      <4> QED
        BY <4>1, <4>2
    <3>4. delivered' \subseteq Prompts /\ UNCHANGED <<reported, told>>
      BY <1>6 DEF CancelSettle, OutType
    <3> QED
      BY <3>2, <3>3, <3>4 DEF OutType
  <2> QED
    BY <1>6, <2>1, <2>2, <2>3, <2>4, <2>5, Frames DEF CancelSettle
<1>7. CASE CancelRelease
  <2>1. pc' \in [Procs -> PCs] /\ LockInv' /\ JobInv'
    <3>1. "start" \in PCs \ {"spawn", "terminal", "flush"}
      BY DEF PCs
    <3> QED
      BY <1>7, <3>1, LoopMoves DEF CancelRelease
  <2>2. StateType'
    BY <1>7 DEF CancelRelease, StateType
  <2>3. LoopType'
    BY <1>7, <2>1 DEF CancelRelease, LoopType
  <2> QED
    BY <1>7, <2>1, <2>2, <2>3, Frames DEF CancelRelease
<1> QED
  BY <1>1, <1>2, <1>3, <1>4, <1>5, <1>6, <1>7

-----------------------------------------------------------------------------
(* Completion.                                                             *)

\* queue_interjection_fallback_prompt keeps the queue a queue.
LEMMA FallbackType ==
  ASSUME Inv, QueueFallback
  PROVE  /\ StateType' /\ nextId' \in 1..(MaxPrompts + 1)
         /\ TurnType' /\ InboxType' /\ OutType'
         /\ Unlocked /\ UNCHANGED <<lock, spent>>
<1> USE DEF Inv, TypeOK
<1> DEFINE it == Fresh("fallback", TRUE, "any")
<1>1. it \in Item /\ nextId + 1 \in 1..(MaxPrompts + 1)
  BY FreshItem DEF QueueFallback, Kinds
<1> HIDE DEF it
<1>2. queue \in Seq(Item) /\ FrontSlot(queue, running) \in FrontSlot(queue, running)..Len(queue)
  BY FrontSlotRange DEF StateType
<1>3. Insert(queue, FrontSlot(queue, running), it) \in Seq(Item)
  BY <1>1, <1>2, InsertDerived
<1>4. queue' \in Seq(Item)
  BY <1>3 DEF QueueFallback, it
<1>5. StateType'
  BY <1>4 DEF QueueFallback, StateType
<1> QED
  BY <1>1, <1>5, Frames DEF QueueFallback

\* handle_completion and the rest of the loop's completion arm.
LEMMA CompletionStep ==
  ASSUME Inv,
         \/ Completion \/ CompletionUnset \/ CompletionPop \/ CompletionTerminal
         \/ CompletionSweep \/ CompletionTurnEnd \/ CompletionStrand \/ CompletionFlush
  PROVE  Inv'
<1> USE DEF Inv, TypeOK
<1>1. CASE Completion
  <2> DEFINE l == CompletionNext(pin')
  <2>1. pc' \in [Procs -> PCs] /\ LockInv' /\ JobInv'
    <3>1. l \in PCs \ {"spawn", "terminal", "flush"}
      BY DEF PCs, CompletionNext
    <3>2. Goto("loop", l) /\ UNCHANGED <<lock, queue, running>>
      BY <1>1 DEF Completion, stateVars
    <3> HIDE DEF l
    <3> QED
      BY <3>1, <3>2, LoopMoves
  <2>2. Head(completions) \in Prompts /\ completions' \in Seq(Prompts)
    BY <1>1 DEF Completion, TurnType
  <2>3. TurnType'
    BY <1>1, <2>2 DEF Completion, TurnType, Unpin
  <2>4. LoopType'
    <3>1. job' \in Jobs
      BY <1>1, <2>2 DEF Completion, NoJob, Jobs
    <3> QED
      BY <1>1, <2>1, <3>1 DEF Completion, LoopType
  <2> QED
    BY <1>1, <2>1, <2>3, <2>4, Frames DEF Completion
<1>2. CASE CompletionUnset
  <2>1. pc' \in [Procs -> PCs] /\ LockInv' /\ JobInv'
    <3>1. "pop" \in PCs \ {"spawn", "terminal", "flush"}
      BY DEF PCs
    <3> QED
      BY <1>2, <3>1, LoopMoves DEF CompletionUnset, stateVars
  <2>2. TurnType'
    BY <1>2 DEF CompletionUnset, TurnType
  <2>3. LoopType'
    BY <1>2, <2>1 DEF CompletionUnset, LoopType
  <2> QED
    BY <1>2, <2>1, <2>2, <2>3, Frames DEF CompletionUnset
<1>3. CASE CompletionPop
  <2> DEFINE l == IF Owned THEN "terminal" ELSE "sweep"
  <2>1. pc' = [pc EXCEPT !["loop"] = l] /\ Unlocked /\ UNCHANGED lock
    BY <1>3 DEF CompletionPop, Goto
  <2>2. Owned => job.cur \in Prompts
    <3>1. Owned => 1 \in 1..Len(queue) /\ queue[1].id = job.cur
      BY DEF Owned, StateType
    <3> QED
      BY <3>1, IdsInPrompts
  <2>3. StateType'
    <3>1. queue' \in Seq(Item)
      BY <1>3 DEF CompletionPop, Owned, StateType
    <3>2. running' \in Prompts \cup {None}
      BY <1>3 DEF CompletionPop, RunningAfter, StateType
    <3> QED
      BY <1>3, <3>1, <3>2 DEF CompletionPop, StateType
  <2>4. LoopType'
    <3>1. pc' \in [Procs -> PCs]
      BY <2>1 DEF LoopType, PCs
    <3> QED
      BY <1>3, <3>1 DEF CompletionPop, LoopType
  <2>5. OutType'
    <3>1. Answer({job.cur}, "turn") \in [Prompts -> Outcomes]
      BY AnswerType DEF Outcomes
    <3> QED
      BY <1>3, <3>1 DEF CompletionPop, OutType, wakeVars
  <2>6. LockInv'
    BY <2>1 DEF LockInv, LoopType, Unlocked
  <2>7. JobInv'
    <3>1. pc'["loop"] = l /\ UNCHANGED job
      BY <1>3, <2>1, NoneFresh DEF CompletionPop, LoopType
    <3> QED
      BY <2>2, <3>1, NoneFresh DEF JobInv
  <2> QED
    BY <1>3, <2>3, <2>4, <2>5, <2>6, <2>7, Frames DEF CompletionPop
<1>4. CASE CompletionTerminal
  <2>1. pc' \in [Procs -> PCs] /\ LockInv' /\ JobInv'
    <3>1. "sweep" \in PCs \ {"spawn", "terminal", "flush"}
      BY DEF PCs
    <3> QED
      BY <1>4, <3>1, LoopMoves DEF CompletionTerminal
  <2>2. job.cur \in Prompts
    BY <1>4 DEF CompletionTerminal, At, JobInv, LoopType, Jobs
  <2>3. StateType'
    BY <1>4 DEF CompletionTerminal, StateType
  <2>4. LoopType'
    BY <1>4, <2>1 DEF CompletionTerminal, LoopType
  <2>5. OutType'
    <3>1. terminals' \in Seq(Prompts)
      BY <1>4, <2>2 DEF CompletionTerminal, OutType
    <3> QED
      BY <1>4, <3>1 DEF CompletionTerminal, OutType, wakeVars
  <2> QED
    BY <1>4, <2>1, <2>3, <2>4, <2>5, Frames DEF CompletionTerminal
<1>5. CASE CompletionSweep
  <2>1. pc' \in [Procs -> PCs] /\ LockInv' /\ JobInv'
    <3>1. "turnend" \in PCs \ {"spawn", "terminal", "flush"}
      BY DEF PCs
    <3> QED
      BY <1>5, <3>1, LoopMoves DEF CompletionSweep
  <2>2. StateType' /\ InboxType'
    <3>1. notifs' \in Nat /\ InboxType'
      BY <1>5 DEF CompletionSweep, StateType, InboxType
    <3> QED
      BY <1>5, <3>1 DEF CompletionSweep, StateType
  <2>3. LoopType'
    BY <1>5, <2>1 DEF CompletionSweep, LoopType
  <2> QED
    BY <1>5, <2>1, <2>2, <2>3, Frames DEF CompletionSweep
<1>6. CASE CompletionTurnEnd
  <2>1. pc' \in [Procs -> PCs] /\ LockInv' /\ JobInv'
    <3>1. "strand" \in PCs \ {"spawn", "terminal", "flush"}
      BY DEF PCs
    <3> QED
      BY <1>6, <3>1, LoopMoves DEF CompletionTurnEnd
  <2>2. /\ queue' \in Seq(Item) /\ nextId' \in 1..(MaxPrompts + 1)
        /\ spent' \in [DOMAIN Budget -> Nat]
    <3>1. CASE UNCHANGED <<queue, nextId, spent>>
      BY <3>1 DEF StateType, LoopType
    <3>2. CASE /\ nextId <= MaxPrompts /\ Spend("goal")
               /\ queue' = Append(queue, Fresh("goal", FALSE, "any"))
               /\ nextId' = nextId + 1
      <4>1. Fresh("goal", FALSE, "any") \in Item /\ nextId + 1 \in 1..(MaxPrompts + 1)
        BY <3>2, FreshItem DEF Kinds
      <4>2. queue' \in Seq(Item)
        BY <3>2, <4>1, AppendSeq DEF StateType
      <4>3. spent' \in [DOMAIN Budget -> Nat]
        BY <3>2, SpendType DEF Budget
      <4> QED
        BY <3>2, <4>1, <4>2, <4>3
    <3> QED
      BY <1>6, <3>1, <3>2 DEF CompletionTurnEnd
  <2>3. StateType'
    BY <1>6, <2>2 DEF CompletionTurnEnd, StateType
  <2>4. LoopType'
    BY <1>6, <2>1, <2>2 DEF CompletionTurnEnd, LoopType
  <2> QED
    BY <1>6, <2>1, <2>3, <2>4, Frames DEF CompletionTurnEnd
<1>7. CASE CompletionStrand
  <2> DEFINE l == IF interj = 0 THEN "start" ELSE "flush"
  <2>1. pc' = [pc EXCEPT !["loop"] = l] /\ job' = [job EXCEPT !.left = interj]
    BY <1>7 DEF CompletionStrand, Goto
  <2>2. InboxType' /\ interj \in Nat
    BY <1>7 DEF CompletionStrand, InboxType
  <2>3. LoopType'
    <3>1. pc' \in [Procs -> PCs]
      BY <2>1 DEF LoopType, PCs
    <3>2. job' \in Jobs
      BY <2>1, <2>2 DEF LoopType, Jobs
    <3> QED
      BY <1>7, <3>1, <3>2 DEF CompletionStrand, LoopType
  <2>4. LockInv'
    BY <1>7, <2>1 DEF CompletionStrand, LockInv, LoopType, stateVars
  <2>5. JobInv'
    <3>1. pc'["loop"] = l
      BY <2>1, NoneFresh DEF LoopType
    <3>2. job'.left = interj
      BY <2>1 DEF LoopType, Jobs
    <3> QED
      BY <3>1, <3>2 DEF JobInv
  <2> QED
    BY <1>7, <2>2, <2>3, <2>4, <2>5, Frames DEF CompletionStrand
<1>8. CASE CompletionFlush
  <2> DEFINE l == IF job.left = 1 THEN "start" ELSE "flush"
  <2>1. pc' = [pc EXCEPT !["loop"] = l] /\ job' = [job EXCEPT !.left = @ - 1]
    BY <1>8 DEF CompletionFlush, Goto
  <2>2. job.left \in Nat /\ job.left # 0
    BY <1>8 DEF CompletionFlush, At, JobInv, LoopType, Jobs
  <2>3. /\ StateType' /\ nextId' \in 1..(MaxPrompts + 1)
        /\ TurnType' /\ InboxType' /\ OutType'
        /\ Unlocked /\ UNCHANGED <<lock, spent>>
    BY <1>8, FallbackType DEF CompletionFlush
  <2>4. LoopType'
    <3>1. pc' \in [Procs -> PCs]
      BY <2>1 DEF LoopType, PCs
    <3>2. job' \in Jobs
      BY <2>1, <2>2 DEF LoopType, Jobs
    <3> QED
      BY <2>3, <3>1, <3>2 DEF LoopType
  <2>5. LockInv'
    BY <2>1, <2>3 DEF LockInv, LoopType, Unlocked
  <2>6. JobInv'
    <3>1. pc'["loop"] = l
      BY <2>1, NoneFresh DEF LoopType
    <3>2. job'.left = job.left - 1
      BY <2>1 DEF LoopType, Jobs
    <3> QED
      BY <2>2, <3>1, <3>2 DEF JobInv
  <2> QED
    BY <2>3, <2>4, <2>5, <2>6
<1> QED
  BY <1>1, <1>2, <1>3, <1>4, <1>5, <1>6, <1>7, <1>8

-----------------------------------------------------------------------------
(* Interjections and notifications.                                        *)

\* Interjections, notifications and their drain.
LEMMA InboxStep ==
  ASSUME Inv,
         \/ Drain \/ Interject \/ InterjectFallback
         \/ \E next \in BOOLEAN : Notify(next)
  PROVE  Inv'
<1> USE DEF Inv, TypeOK
<1>0. \A l \in {"idle", "start", "drain", "fallback"} : l \in PCs \ {"spawn", "terminal", "flush"}
  BY DEF PCs
<1>1. CASE Drain
  <2>1. Unlocked /\ UNCHANGED lock /\ (Goto("loop", "idle") \/ Goto("loop", "start"))
    BY <1>1 DEF Drain
  <2>2. pc' \in [Procs -> PCs] /\ LockInv' /\ JobInv'
    BY <1>0, <2>1, LoopMoves
  <2>3. queue' \in Seq(Item) /\ nextId' \in 1..(MaxPrompts + 1)
    <3>1. CASE UNCHANGED <<queue, nextId>>
      BY <3>1 DEF StateType, LoopType
    <3>2. CASE /\ nextId <= MaxPrompts /\ nextId' = nextId + 1
               /\ queue' = <<Fresh("drain", FALSE, "any")>>
      <4>1. Fresh("drain", FALSE, "any") \in Item /\ nextId + 1 \in 1..(MaxPrompts + 1)
        BY <3>2, FreshItem DEF Kinds
      <4>2. \A it \in Item : <<it>> \in Seq(Item)
        OBVIOUS
      <4> QED
        BY <3>2, <4>1, <4>2
    <3> QED
      BY <1>1, <3>1, <3>2 DEF Drain
  <2>4. notifs' \in Nat /\ buffer' \in Nat
    <3>1. UNCHANGED <<notifs, buffer>> \/ (notifs' = 0 /\ buffer' = 0)
      BY <1>1 DEF Drain
    <3>2. notifs \in Nat /\ buffer \in Nat
      BY DEF StateType, InboxType
    <3> QED
      BY <3>1, <3>2
  <2>5. StateType'
    BY <1>1, <2>3, <2>4 DEF Drain, StateType
  <2>6. InboxType'
    BY <1>1, <2>4 DEF Drain, InboxType
  <2>7. LoopType'
    <3>1. job' \in Jobs
      BY <1>1 DEF Drain, NoJob, Jobs
    <3> QED
      BY <1>1, <2>2, <2>3, <3>1 DEF Drain, LoopType
  <2> QED
    BY <1>1, <2>2, <2>5, <2>6, <2>7, Frames DEF Drain
<1>2. CASE Interject
  <2>1. InboxType'
    BY <1>2 DEF Interject, InboxType
  <2>2. spent' \in [DOMAIN Budget -> Nat]
    BY <1>2, SpendType DEF Interject, Budget
  <2>3. pc' \in [Procs -> PCs] /\ LockInv' /\ JobInv'
    <3>1. CASE UNCHANGED pc
      BY <1>2, <3>1 DEF Interject, LoopType, LockInv, JobInv, stateVars
    <3>2. CASE Goto("loop", "fallback")
      BY <1>0, <1>2, <3>2, LoopMoves DEF Interject, stateVars
    <3> QED
      BY <1>2, <3>1, <3>2 DEF Interject
  <2>4. LoopType'
    BY <1>2, <2>2, <2>3 DEF Interject, LoopType
  <2> QED
    BY <1>2, <2>1, <2>3, <2>4, Frames DEF Interject
<1>3. CASE InterjectFallback
  <2>1. /\ StateType' /\ nextId' \in 1..(MaxPrompts + 1)
        /\ TurnType' /\ InboxType' /\ OutType'
        /\ Unlocked /\ UNCHANGED <<lock, spent>>
    BY <1>3, FallbackType DEF InterjectFallback
  <2>2. pc' \in [Procs -> PCs] /\ LockInv' /\ JobInv'
    BY <1>0, <1>3, <2>1, LoopMoves DEF InterjectFallback
  <2>3. LoopType'
    BY <1>3, <2>1, <2>2 DEF InterjectFallback, LoopType
  <2> QED
    BY <2>1, <2>2, <2>3
<1>4. ASSUME NEW next \in BOOLEAN, Notify(next) PROVE Inv'
  <2>1. buffer' \in Nat /\ notifs' \in Nat
    BY <1>4, SessionAssumption DEF Notify, Capped, StateType, InboxType
  <2>2. spent' \in [DOMAIN Budget -> Nat]
    BY <1>4, SpendType DEF Notify, Budget
  <2>3. pc' \in [Procs -> PCs] /\ LockInv' /\ JobInv'
    <3>1. CASE UNCHANGED pc
      BY <1>4, <3>1 DEF Notify, LoopType, LockInv, JobInv
    <3>2. CASE Goto("loop", "drain")
      BY <1>0, <1>4, <3>2, LoopMoves DEF Notify
    <3> QED
      BY <1>4, <3>1, <3>2 DEF Notify
  <2>4. LoopType'
    BY <1>4, <2>2, <2>3 DEF Notify, LoopType
  <2>5. StateType'
    BY <1>4, <2>1 DEF Notify, StateType
  <2>6. InboxType'
    BY <1>4, <2>1 DEF Notify, InboxType
  <2> QED
    BY <1>4, <2>3, <2>4, <2>5, <2>6, Frames DEF Notify
<1> QED
  BY <1>1, <1>2, <1>3, <1>4

-----------------------------------------------------------------------------
(* Queue edits.                                                            *)

\* A row keeps its type when it is promoted or edited.
LEMMA RowType ==
  ASSUME NEW it \in Item
  PROVE  /\ [it EXCEPT !.sendNow = TRUE] \in Item /\ [it EXCEPT !.sendNow = TRUE].id = it.id
         /\ [it EXCEPT !.version = @ + 1] \in Item /\ [it EXCEPT !.version = @ + 1].id = it.id
<1>1. [it EXCEPT !.sendNow = TRUE] \in Item
  BY DEF Item
<1>2. [it EXCEPT !.sendNow = TRUE].id = it.id
  BY DEF Item
<1>3. [it EXCEPT !.version = @ + 1] \in Item
  BY DEF Item
<1>4. [it EXCEPT !.version = @ + 1].id = it.id
  BY DEF Item
<1> QED
  BY <1>1, <1>2, <1>3, <1>4

\* EditDerived for the queue's items.
LEMMA EditSafe ==
  ASSUME NEW q \in Seq(Item), NEW run, NEW i \in 1..Len(q)
  PROVE  /\ Edit(q, i) \in Seq(Item) /\ Derived(Edit(q, i), q, run)
         /\ Len(Edit(q, i)) = Len(q) /\ Edit(q, i)[i].id = q[i].id
<1>1. q[i] \in Item
  OBVIOUS
<1>2. [q[i] EXCEPT !.version = @ + 1] \in Item /\ [q[i] EXCEPT !.version = @ + 1].id = q[i].id
  BY <1>1, RowType, Zenon
<1> QED
  BY <1>1, <1>2, EditDerived, Zenon

\* PromoteDerived for the queue's items.
LEMMA PromoteSafe ==
  ASSUME NEW q \in Seq(Item), NEW run, NEW i \in 1..Len(q), q[i].id # run
  PROVE  Promote(q, run, i) \in Seq(Item) /\ Derived(Promote(q, run, i), q, run)
<1>1. q[i] \in Item
  OBVIOUS
<1> QED
  BY <1>1, RowType, PromoteDerived

\* What an edit of the queue preserves, given the queue it produces.
LEMMA EditType ==
  ASSUME Inv, EditFrame, Unlocked, Spend("edit"), queue' \in Seq(Item),
         outcome' \in [Prompts -> Outcomes],
         \/ UNCHANGED <<pc, job>>
         \/ /\ Goto("loop", "cancel") \/ Goto("loop", "start")
            /\ job' \in Jobs
  PROVE  Inv'
<1> USE DEF Inv, TypeOK
<1>1. StateType' /\ TurnType' /\ InboxType' /\ OutType'
  <2>1. StateType'
    BY DEF EditFrame, StateType
  <2>2. OutType'
    BY DEF EditFrame, OutType, wakeVars
  <2> QED
    BY <2>1, <2>2, Frames DEF EditFrame
<1>2. spent' \in [DOMAIN Budget -> Nat]
  BY SpendType DEF Budget
<1>3. pc' \in [Procs -> PCs] /\ LockInv' /\ JobInv'
  <2>1. CASE UNCHANGED <<pc, job>>
    BY <2>1 DEF EditFrame, Unlocked, LoopType, LockInv, JobInv
  <2>2. CASE Goto("loop", "cancel") \/ Goto("loop", "start")
    <3>1. \A l \in {"cancel", "start"} : l \in PCs \ {"spawn", "terminal", "flush"}
      BY DEF PCs
    <3> QED
      BY <2>2, <3>1, LoopMoves DEF EditFrame
  <2> QED
    BY <2>1, <2>2
<1>4. LoopType'
  BY <1>2, <1>3 DEF EditFrame, LoopType
<1> QED
  BY <1>1, <1>3, <1>4

\* The queue edits of a client.
LEMMA EditStep ==
  ASSUME Inv,
         \/ \E id \in Prompts, v \in 0..MaxEdits, o \in Owners \cup {"any"} :
              RemoveRow(id, v, o) \/ PromoteRow(id, v, o)
         \/ \E id \in Prompts : EditRow(id)
         \/ ReorderRows
         \/ \E o \in Owners \cup {"any"} : ClearRows(o)
  PROVE  Inv'
<1> USE DEF Inv, TypeOK
<1>0. /\ queue \in Seq(Item) /\ outcome \in [Prompts -> Outcomes]
      /\ \A ps : Answer(ps, "removed") \in [Prompts -> Outcomes]
  BY AnswerType DEF StateType, OutType, Outcomes
<1>1. ASSUME NEW id \in Prompts, NEW v \in 0..MaxEdits, NEW o \in Owners \cup {"any"},
             RemoveRow(id, v, o)
      PROVE  Inv'
  <2>1. \A i \in RowAt(queue, running, id, v, o) : i \in 1..Len(queue) /\ queue[i].id # running
    BY DEF RowAt
  <2>2. queue' \in Seq(Item) /\ outcome' \in [Prompts -> Outcomes]
    BY <1>0, <1>1, <2>1, RemoveDerived DEF RemoveRow
  <2> QED
    BY <1>1, <2>2, EditType DEF RemoveRow
<1>2. ASSUME NEW id \in Prompts, NEW v \in 0..MaxEdits, NEW o \in Owners \cup {"any"},
             PromoteRow(id, v, o)
      PROVE  Inv'
  <2>1. \A i \in RowAt(queue, running, id, v, o) : i \in 1..Len(queue) /\ queue[i].id # running
    BY DEF RowAt
  <2>2. ASSUME NEW q \in Seq(Item), NEW i \in 1..Len(q), q[i].id # running
        PROVE  Promote(q, running, i) \in Seq(Item)
    <3>1. q[i] \in Item
      BY <2>2
    <3> QED
      BY <2>2, <3>1, RowType, PromoteDerived
  <2>3. ASSUME NEW i \in 1..Len(queue), queue[i].id # running
        PROVE  /\ Edit(queue, i) \in Seq(Item) /\ i \in 1..Len(Edit(queue, i))
               /\ Edit(queue, i)[i].id # running
    <3>1. /\ Edit(queue, i) \in Seq(Item) /\ Len(Edit(queue, i)) = Len(queue)
          /\ Edit(queue, i)[i].id = queue[i].id
      BY <1>0, EditSafe
    <3> QED
      BY <2>3, <3>1
  <2>4. queue' \in Seq(Item)
    BY <1>0, <1>2, <2>1, <2>2, <2>3 DEF PromoteRow
  <2>5. job' \in Jobs /\ (Goto("loop", "cancel") \/ Goto("loop", "start"))
    BY <1>2 DEF PromoteRow, NoJob, Jobs
  <2>6. outcome' \in [Prompts -> Outcomes]
    BY <1>0, <1>2 DEF PromoteRow
  <2> QED
    BY <1>2, <2>4, <2>5, <2>6, EditType DEF PromoteRow
<1>3. ASSUME NEW id \in Prompts, EditRow(id) PROVE Inv'
  <2>1. PICK i \in Rows(queue, running) : queue' = Edit(queue, i)
    BY <1>3 DEF EditRow
  <2>2. i \in 1..Len(queue) /\ queue[i] \in Item
    BY <1>0 DEF Rows
  <2>3. queue' \in Seq(Item)
    BY <1>0, <2>1, <2>2, RowType, EditDerived
  <2>4. outcome' \in [Prompts -> Outcomes]
    BY <1>0, <1>3 DEF EditRow
  <2> QED
    BY <1>3, <2>3, <2>4, EditType DEF EditRow
<1>4. CASE ReorderRows
  <2>1. queue' \in Seq(Item)
    BY <1>0, <1>4, ReorderDerived DEF ReorderRows
  <2>2. outcome' \in [Prompts -> Outcomes]
    BY <1>0, <1>4 DEF ReorderRows
  <2> QED
    BY <1>4, <2>1, <2>2, EditType DEF ReorderRows
<1>5. ASSUME NEW o \in Owners \cup {"any"}, ClearRows(o) PROVE Inv'
  <2>1. queue' \in Seq(Item)
    BY <1>0, <1>5, ClearDerived DEF ClearRows
  <2>2. outcome' \in [Prompts -> Outcomes]
    BY <1>0, <1>5 DEF ClearRows
  <2> QED
    BY <1>5, <2>1, <2>2, EditType DEF ClearRows
<1> QED
  BY <1>1, <1>2, <1>3, <1>4, <1>5

-----------------------------------------------------------------------------
\* Every step of the session preserves the invariant.
LEMMA NextStep ==
  ASSUME Inv, [Next]_vars
  PROVE  Inv'
<1>1. CASE UNCHANGED vars
  BY <1>1, Frames DEF Inv, TypeOK, vars
<1>2. CASE Commands
  BY <1>2, PromptStep, CancelStep, InboxStep, EditStep DEF Commands
<1>3. CASE Handlers
  BY <1>3, CancelStep, CompletionStep, InboxStep DEF Handlers
<1>4. CASE \E p \in Procs : Start(p)
  BY <1>4, StartStep
<1>5. CASE \E p \in Prompts : Turn(p)
  BY <1>5, TurnStep
<1>6. CASE OrphanDrop \/ ResumeQueues \/ McpReady
  BY <1>6, OrphanStep, ResumeStep, McpStep
<1> QED
  BY <1>1, <1>2, <1>3, <1>4, <1>5, <1>6 DEF Next

\* Every reachable state of a session is well typed: the wait depth and the
\* other counters never go below zero, and ids name prompts.
THEOREM TypeCorrect == Spec => []TypeOK
<1>1. Inv => TypeOK
  BY DEF Inv
<1> QED
  BY <1>1, TInit, NextStep, PTL DEF Spec
=============================================================================
