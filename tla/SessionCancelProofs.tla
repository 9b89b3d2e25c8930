------------------------ MODULE SessionCancelProofs ------------------------
(***************************************************************************)
(* What survives the race of a cancel with the turn it cancels, with the   *)
(* starters and with late completions, for any number of prompts, clients  *)
(* and commands: who owns a live turn, what the pin names, that every open *)
(* client call is answered once, and what becomes of interjections,        *)
(* notifications and waits.                                                *)
(*                                                                         *)
(* The properties speak of the moments between handlers; the invariants    *)
(* below say, for every program point of the loop's two long handlers, how *)
(* far the handler has got (CancelArm: the task is taken and not settled;  *)
(* FinishArm: a completion was received and its tail is not done).         *)
(***************************************************************************)
EXTENDS SessionQueueProofs, SessionHistory

CancelArm == {"clear", "abort", "settle"}
FinishArm == {"unset", "pop", "terminal", "sweep", "turnend", "strand"}

\* A completion names a task that has ended, in the channel and in the handler.
EndedInv ==
  /\ \A i \in 1..Len(completions) : phase[completions[i]] = "ended"
  /\ pc["loop"] \in FinishArm => job.cur # None /\ phase[job.cur] = "ended"

TaskInv == LiveTurnOwned /\ EndedInv

\* The pin names the running turn or nothing, the front while it is being
\* promoted, and nothing at rest; a cancel's snapshot of it can only fall
\* behind a promotion that was already under way.
PinInv ==
  /\ running # None => pin \in {running, None}
  /\ lock # "free" => pin = queue[1].id
  /\ running = None /\ lock = "free" /\ pc["loop"] \notin CancelArm => pin = None
  /\ pc["loop"] \in {"unset", "pop"} /\ running = job.cur => pin = None
  /\ At("take") => \/ job.pinned = None \/ running = job.pinned
                   \/ lock # "free" /\ queue[1].id = job.pinned

-----------------------------------------------------------------------------
(* How steps move the loop.                                                *)

\* A step of the loop leaves the starters where they are.
LEMMA GotoLoop ==
  ASSUME Inv, NEW l, Goto("loop", l)
  PROVE  pc'["loop"] = l /\ \A s \in Starters : pc'[s] = pc[s]
BY NoneFresh, SessionAssumption DEF Goto, Inv, TypeOK, LoopType, Procs

\* A step of a starter leaves the loop where it is.
LEMMA GotoStarter ==
  ASSUME Inv, NEW s \in Starters, NEW l, Goto(s, l)
  PROVE  /\ pc'["loop"] = pc["loop"] /\ pc'[s] = l
         /\ \A r \in Starters \ {s} : pc'[r] = pc[r]
BY NoneFresh, SessionAssumption DEF Goto, Inv, TypeOK, LoopType, Procs

\* The types the proofs below use, in one place.
LEMMA Types ==
  ASSUME Inv
  PROVE  /\ running \in Prompts \cup {None} /\ pin \in Prompts \cup {None}
         /\ job.cur \in Prompts \cup {None} /\ job.pinned \in Prompts \cup {None}
         /\ job.held \subseteq Prompts /\ job \in Jobs
         /\ phase \in [Prompts -> Phases] /\ outcome \in [Prompts -> Outcomes]
         /\ completions \in Seq(Prompts) /\ terminals \in Seq(Prompts)
         /\ Len(completions) \in Nat /\ Len(terminals) \in Nat
         /\ depth \in Nat /\ interj \in Nat /\ nextId \in Nat
         /\ queue \in Seq(Item) /\ Len(queue) \in Nat
         /\ suppressed \in BOOLEAN
<1>1. /\ running \in Prompts \cup {None} /\ queue \in Seq(Item) /\ suppressed \in BOOLEAN
  BY DEF Inv, TypeOK, StateType
<1>2. /\ pin \in Prompts \cup {None} /\ phase \in [Prompts -> Phases]
      /\ completions \in Seq(Prompts) /\ depth \in Nat
  BY DEF Inv, TypeOK, TurnType
<1>3. job \in Jobs /\ nextId \in Nat /\ interj \in Nat
  BY SessionAssumption DEF Inv, TypeOK, LoopType, InboxType
<1>4. outcome \in [Prompts -> Outcomes] /\ terminals \in Seq(Prompts)
  BY DEF Inv, TypeOK, OutType
<1>5. Len(completions) \in Nat /\ Len(terminals) \in Nat /\ Len(queue) \in Nat
  BY <1>1, <1>2, <1>4
<1>6. /\ job.cur \in Prompts \cup {None} /\ job.pinned \in Prompts \cup {None}
      /\ job.held \subseteq Prompts
  BY <1>3 DEF Jobs
<1> QED
  BY <1>1, <1>2, <1>3, <1>4, <1>5, <1>6

\* A command, or a handler that only queues a prompt, neither runs in one of
\* the two arms nor enters it, and touches no task.
LEMMA CommandFrame ==
  ASSUME Inv, Commands \/ InterjectFallback \/ Drain
  PROVE  /\ UNCHANGED <<running, lock, turnVars, terminals>>
         /\ pc["loop"] \in {"idle", "fallback", "drain"}
         /\ pc'["loop"] \in {"idle", "fallback", "drain", "start", "cancel"}
         /\ \A s \in Starters : pc'[s] = pc[s]
         /\ \/ job' = job
            \/ job'.cur = None /\ job'.pinned = None /\ job'.held = {}
<1>1. ASSUME NEW kind \in PromptKinds, NEW now \in SendNow, NEW o \in Owners,
             Prompt(kind, now, o)
      PROVE  /\ UNCHANGED <<running, lock, turnVars, terminals>>
             /\ pc["loop"] = "idle" /\ pc'["loop"] \in {"start", "cancel"}
             /\ \A s \in Starters : pc'[s] = pc[s]
             /\ job'.cur = None /\ job'.pinned = None /\ job'.held = {}
  <2>1. PICK l \in {"start", "cancel"} : Goto("loop", l)
    BY <1>1 DEF Prompt
  <2>2. PICK m : job' = [NoJob EXCEPT !.mode = m]
    BY <1>1 DEF Prompt
  <2>3. job'.cur = None /\ job'.pinned = None /\ job'.held = {}
    BY <2>2 DEF NoJob
  <2> QED
    BY <1>1, <2>1, <2>3, GotoLoop DEF Prompt, Ready, At
<1>2. ASSUME NEW mode \in CancelModes, CancelCommand(mode)
      PROVE  /\ UNCHANGED <<running, lock, turnVars, terminals>>
             /\ pc["loop"] = "idle" /\ pc'["loop"] = "cancel"
             /\ \A s \in Starters : pc'[s] = pc[s]
             /\ job'.cur = None /\ job'.pinned = None /\ job'.held = {}
  <2>1. Goto("loop", "cancel")
    BY <1>2 DEF CancelCommand
  <2>2. job'.cur = None /\ job'.pinned = None /\ job'.held = {}
    BY <1>2 DEF CancelCommand, NoJob
  <2> QED
    BY <1>2, <2>1, <2>2, GotoLoop DEF CancelCommand, Ready, At, stateVars, outVars
<1>3. ASSUME Interject \/ InterjectFallback \/ Drain \/ \E next \in BOOLEAN : Notify(next)
      PROVE  /\ UNCHANGED <<running, lock, turnVars, terminals>>
             /\ pc["loop"] \in {"idle", "fallback", "drain"}
             /\ pc'["loop"] \in {"idle", "fallback", "drain", "start"}
             /\ \A s \in Starters : pc'[s] = pc[s]
             /\ job' \in {job, NoJob}
  <2>1. UNCHANGED <<running, lock, turnVars, terminals>> /\ job' \in {job, NoJob}
    BY <1>3 DEF Interject, InterjectFallback, QueueFallback, Drain, Notify, stateVars,
                outVars
  <2>2. pc["loop"] \in {"idle", "fallback", "drain"}
    BY <1>3 DEF Interject, InterjectFallback, Drain, Notify, Ready, At
  <2>3. pc' = pc \/ \E l \in {"idle", "fallback", "drain", "start"} : Goto("loop", l)
    BY <1>3 DEF Interject, InterjectFallback, Drain, Notify
  <2> QED
    BY <2>1, <2>2, <2>3, GotoLoop
<1>4. ASSUME NEW id \in Prompts, NEW v \in 0..MaxEdits, NEW o \in Owners \cup {"any"},
             PromoteRow(id, v, o)
      PROVE  /\ UNCHANGED <<running, lock, turnVars, terminals>>
             /\ pc["loop"] = "idle" /\ pc'["loop"] \in {"start", "cancel"}
             /\ \A s \in Starters : pc'[s] = pc[s]
             /\ job'.cur = None /\ job'.pinned = None /\ job'.held = {}
  <2>1. PICK l \in {"start", "cancel"} : Goto("loop", l)
    BY <1>4 DEF PromoteRow
  <2>2. PICK m : job' = [NoJob EXCEPT !.mode = m]
    BY <1>4 DEF PromoteRow
  <2>3. job'.cur = None /\ job'.pinned = None /\ job'.held = {}
    BY <2>2 DEF NoJob
  <2> QED
    BY <1>4, <2>1, <2>3, GotoLoop DEF PromoteRow, Ready, At, EditFrame
<1>5. ASSUME \/ \E id \in Prompts, v \in 0..MaxEdits, o \in Owners \cup {"any"} :
                  RemoveRow(id, v, o)
             \/ \E id \in Prompts : EditRow(id)
             \/ ReorderRows
             \/ \E o \in Owners \cup {"any"} : ClearRows(o)
      PROVE  UNCHANGED <<running, lock, turnVars, terminals, pc, job>> /\ At("idle")
  BY <1>5 DEF RemoveRow, EditRow, ReorderRows, ClearRows, EditFrame, Ready
<1>6. NoJob.cur = None /\ NoJob.pinned = None /\ NoJob.held = {}
  BY DEF NoJob
<1> QED
  BY <1>1, <1>2, <1>3, <1>4, <1>5, <1>6 DEF Commands, At

\* A starter that becomes ready touches neither the loop nor a task.
LEMMA ArrivalFrame ==
  ASSUME Inv, ResumeQueues \/ McpReady
  PROVE  /\ UNCHANGED <<running, lock, turnVars, terminals, job, outcome, interj, suppressed>>
         /\ pc'["loop"] = pc["loop"]
         /\ \E s \in Starters : /\ pc[s] = "init" /\ pc'[s] = "start"
                                /\ \A r \in Starters \ {s} : pc'[r] = pc[r]
<1>1. UNCHANGED <<running, lock, turnVars, terminals, job, outcome, interj, suppressed>>
  BY DEF ResumeQueues, McpReady, QueueInput, stateVars, outVars, inboxVars
<1>2. PICK s \in Starters : pc[s] = "init" /\ Goto(s, "start")
  BY DEF ResumeQueues, McpReady
<1> QED
  BY <1>1, <1>2, GotoStarter

\* What a step of a turn task does to the tasks, the pin and the channel.
LEMMA TurnFrame ==
  ASSUME Inv, NEW p \in Prompts, Turn(p)
  PROVE  /\ UNCHANGED <<running, lock, loopVars, outVars, suppressed>>
         /\ \A o \in Prompts \ {p} : phase'[o] = phase[o]
         /\ phase'[p] # phase[p] =>
              phase[p] \in Live \cup {"aborted"} /\ phase'[p] # "unborn"
         /\ phase'[p] \in Live => phase[p] \in Live \/ phase'[p] = phase[p]
         /\ \/ pin' = pin
            \/ pin = p /\ pin' = None /\ phase[p] \in {"final", "aborted"}
         /\ \/ completions' = completions
            \/ /\ phase[p] \in Live /\ phase'[p] = "ended"
               /\ completions' = Append(completions, p)
         /\ queue' = queue \/ Unlocked
         /\ interj' \in {interj, 0}
<1> USE Types
<1>1. CASE TurnBegin(p) \/ TurnWait(p) \/ TurnResume(p) \/ TurnFinal(p)
  BY <1>1 DEF TurnBegin, TurnWait, TurnResume, TurnFinal, Live, stateVars, inboxVars
<1>2. CASE TurnEmit(p) \/ TurnDrain(p) \/ TurnGoal(p) \/ \E w \in Prompts : TurnConsumes(p, w)
  BY <1>2 DEF TurnEmit, TurnDrain, TurnGoal, TurnConsumes, stateVars, turnVars, inboxVars
<1>3. CASE TurnUnpin(p) \/ TurnDropped(p)
  BY <1>3 DEF TurnUnpin, TurnDropped, Unpin, Live, stateVars, inboxVars
<1>4. CASE TurnComplete(p)
  BY <1>4 DEF TurnComplete, Live, stateVars, inboxVars
<1> QED
  BY <1>1, <1>2, <1>3, <1>4 DEF Turn

\* An abort ends or dooms a live task and leaves every other task alone.
LEMMA AbortFrame ==
  ASSUME Inv, NEW p \in Prompts \cup {None}, NEW o \in Prompts
  PROVE  /\ \/ Abort(p)[o] = phase[o]
            \/ o = p /\ phase[o] \in Live /\ Abort(p)[o] \in {"ended", "aborted"}
         /\ o = p => Abort(p)[o] \notin Live
<1>1. CASE p # None /\ phase[p] \in Live
  <2>1. Abort(p) = [phase EXCEPT ![p] = IF @ = "spawned" THEN "ended" ELSE "aborted"]
    BY <1>1 DEF Abort
  <2> QED
    BY <1>1, <2>1, Types DEF Live
<1>2. CASE ~(p # None /\ phase[p] \in Live)
  <2>1. Abort(p) = phase
    BY <1>2 DEF Abort
  <2> QED
    BY <1>2, <2>1, NoneFresh
<1> QED
  BY <1>1, <1>2

-----------------------------------------------------------------------------
(* Ownership of live turns, and completions of ended ones.                 *)

\* Turn tasks.
LEMMA TurnTask ==
  ASSUME Inv, TaskInv, NEW p \in Prompts, Turn(p)
  PROVE  TaskInv'
<1>1. LiveTurnOwned'
  BY TurnFrame, Types DEF TaskInv, LiveTurnOwned, loopVars
<1>2. \A o \in Prompts : phase[o] = "ended" => phase'[o] = "ended"
  BY TurnFrame, Types DEF Live
<1>3. \A i \in 1..Len(completions') : phase'[completions'[i]] = "ended"
  <2>1. CASE completions' = completions
    BY <1>2, <2>1, Types DEF TaskInv, EndedInv
  <2>2. CASE completions' = Append(completions, p) /\ phase'[p] = "ended"
    <3>1. \A i \in 1..Len(completions') :
            \/ i \in 1..Len(completions) /\ completions'[i] = completions[i]
            \/ completions'[i] = p
      BY <2>2, Types
    <3> QED
      BY <1>2, <2>2, <3>1, Types DEF TaskInv, EndedInv
  <2> QED
    BY <2>1, <2>2, TurnFrame
<1>4. pc'["loop"] \in FinishArm => job'.cur # None /\ phase'[job'.cur] = "ended"
  BY <1>2, TurnFrame, Types DEF TaskInv, EndedInv, loopVars
<1> QED
  BY <1>1, <1>3, <1>4 DEF TaskInv, EndedInv

\* Steps that touch neither a task nor an arm.
LEMMA IdleTask ==
  ASSUME Inv, TaskInv, UNCHANGED <<running, phase, completions>>,
         \/ UNCHANGED job /\ pc'["loop"] = pc["loop"]
         \/ /\ pc["loop"] \notin CancelArm \cup FinishArm
            /\ pc'["loop"] \notin CancelArm \cup FinishArm
  PROVE  TaskInv'
<1>1. LiveTurnOwned'
  BY DEF TaskInv, LiveTurnOwned, CancelArm
<1>2. EndedInv'
  BY DEF TaskInv, EndedInv
<1> QED
  BY <1>1, <1>2 DEF TaskInv

\* A queued front has no task, so promoting it disturbs no ended one.
LEMMA FrontUnborn ==
  ASSUME Inv, QueueInv, queue # <<>>, running = None
  PROVE  queue[1].id \in Prompts /\ phase[queue[1].id] = "unborn"
<1>1. 1 \in 1..Len(queue) /\ queue[1].id \in Prompts
  BY IdsInPrompts, Types
<1> QED
  BY <1>1, NoneFresh DEF QueueInv, WaitingUnborn

\* maybe_start_running_task gives the task it spawns the running slot.
LEMMA StartTask ==
  ASSUME Inv, QueueInv, TaskInv, NEW p \in Procs, Start(p)
  PROVE  TaskInv'
<1>0. p = "loop" \/ p \in Starters
  BY DEF Procs
<1>1. p # "loop" => UNCHANGED job /\ pc'["loop"] = pc["loop"]
  <2> SUFFICES ASSUME p # "loop" PROVE UNCHANGED job /\ pc'["loop"] = pc["loop"]
    OBVIOUS
  <2>1. \E l : Goto(p, l)
    BY DEF Start, StartCheck, StartSpawn
  <2>2. UNCHANGED job
    BY DEF Start, StartCheck, StartSpawn
  <2> QED
    BY <1>0, <2>1, <2>2, GotoStarter
<1>2. p = "loop" => pc["loop"] \in {"start", "spawn"} /\ pc'["loop"] \in {"spawn", "idle", "drain"}
  <2> SUFFICES ASSUME p = "loop"
               PROVE  pc["loop"] \in {"start", "spawn"} /\ pc'["loop"] \in {"spawn", "idle", "drain"}
    OBVIOUS
  <2>1. After(p) \in {"idle", "drain"}
    BY Types DEF After, Jobs
  <2>2. Goto("loop", "spawn") \/ Goto("loop", After(p))
    BY DEF Start, StartCheck, StartSpawn
  <2> QED
    BY <2>1, <2>2, GotoLoop DEF Start, StartCheck, StartSpawn
<1>3. CASE StartCheck(p)
  BY <1>1, <1>2, <1>3, IdleTask DEF StartCheck, CancelArm, FinishArm
<1>4. CASE StartSpawn(p)
  <2>1. queue # <<>> /\ running = None
    BY <1>4, NoneFresh DEF StartSpawn, Inv, LockInv
  <2>2. /\ queue[1].id \in Prompts /\ phase[queue[1].id] = "unborn" /\ running' = queue[1].id
        /\ phase' = [phase EXCEPT ![queue[1].id] = "spawned"] /\ UNCHANGED completions
    BY <1>4, <2>1, FrontUnborn DEF StartSpawn
  <2>3. \A o \in Prompts : o # queue[1].id => phase'[o] = phase[o]
    BY <2>2, Types
  <2>4. LiveTurnOwned'
    BY <1>1, <1>2, <2>1, <2>2, <2>3, NoneFresh DEF TaskInv, LiveTurnOwned
  <2>5. \A o \in Prompts : phase[o] = "ended" => phase'[o] = "ended"
    BY <2>2, <2>3
  <2>6. EndedInv'
    <3>1. \A i \in 1..Len(completions) : phase'[completions[i]] = "ended"
      BY <2>5, Types DEF TaskInv, EndedInv
    <3>2. pc'["loop"] \in FinishArm => job'.cur # None /\ phase'[job'.cur] = "ended"
      BY <1>1, <1>2, <2>5, Types DEF TaskInv, EndedInv, FinishArm
    <3> QED
      BY <2>2, <3>1, <3>2 DEF EndedInv
  <2> QED
    BY <2>4, <2>6 DEF TaskInv
<1> QED
  BY <1>3, <1>4 DEF Start

\* cancel_running_task: the task is taken out of the slot and aborted.
LEMMA CancelTask ==
  ASSUME Inv, TaskInv,
         \/ CancelBegin \/ CancelTake \/ CancelClear \/ CancelAbort \/ CancelSettle
         \/ CancelRelease
  PROVE  TaskInv'
<1>1. CASE CancelBegin \/ CancelRelease
  <2>1. \E l \in {"take", "start"} : Goto("loop", l)
    BY <1>1 DEF CancelBegin, CancelRelease
  <2>2. /\ UNCHANGED <<running, phase, completions>>
        /\ pc["loop"] \in {"cancel", "release"} /\ pc'["loop"] \in {"take", "start"}
    BY <1>1, <2>1, GotoLoop DEF CancelBegin, CancelRelease, At, stateVars, turnVars
  <2> QED
    BY <2>2, IdleTask DEF CancelArm, FinishArm
<1>2. CASE CancelTake
  <2> DEFINE rewound == job.mode = "rewind" /\ rewindable /\ queue # <<>>
  <2>1. /\ pc["loop"] = "take" /\ pc'["loop"] = "clear" /\ UNCHANGED completions
        /\ phase' = IF rewound THEN Abort(running) ELSE phase
        /\ job'.cur = IF rewound THEN None ELSE running
    <3>1. job'.cur = IF rewound THEN None ELSE running
      BY <1>2, Types DEF CancelTake, Jobs
    <3>2. Goto("loop", "clear")
      BY <1>2 DEF CancelTake
    <3> QED
      BY <1>2, <3>1, <3>2, GotoLoop DEF CancelTake, At
  <2> HIDE DEF rewound
  <2>2. \A o \in Prompts : phase[o] \in Live => o = running
    BY <2>1 DEF TaskInv, LiveTurnOwned
  <2>3. LiveTurnOwned'
    <3> SUFFICES ASSUME NEW o \in Prompts, phase'[o] \in Live
                 PROVE  o = job'.cur
      BY <2>1 DEF LiveTurnOwned
    <3>1. ~rewound
      BY <2>1, <2>2, AbortFrame, Types
    <3> QED
      BY <2>1, <2>2, <3>1
  <2>4. \A o \in Prompts : phase[o] = "ended" => phase'[o] = "ended"
    BY <2>1, AbortFrame, Types DEF Live
  <2>5. EndedInv'
    BY <2>1, <2>4, Types DEF TaskInv, EndedInv, FinishArm
  <2> QED
    BY <2>3, <2>5 DEF TaskInv
<1>3. CASE CancelClear
  <2>1. /\ pc["loop"] = "clear" /\ pc'["loop"] = "abort"
        /\ UNCHANGED <<running, phase, completions, job>>
    BY <1>3, GotoLoop DEF CancelClear, At, stateVars
  <2>2. LiveTurnOwned'
    BY <2>1 DEF TaskInv, LiveTurnOwned
  <2>3. EndedInv'
    BY <2>1 DEF TaskInv, EndedInv, FinishArm
  <2> QED
    BY <2>2, <2>3 DEF TaskInv
<1>4. CASE CancelAbort
  <2>1. /\ pc["loop"] = "abort" /\ pc'["loop"] = "settle" /\ UNCHANGED <<running, completions>>
        /\ phase' = Abort(job.cur)
    BY <1>4, GotoLoop DEF CancelAbort, At, stateVars
  <2>2. LiveTurnOwned'
    BY <2>1, AbortFrame, Types DEF TaskInv, LiveTurnOwned
  <2>3. \A o \in Prompts : phase[o] = "ended" => phase'[o] = "ended"
    BY <2>1, AbortFrame, Types DEF Live
  <2>4. EndedInv'
    BY <2>1, <2>3, Types DEF TaskInv, EndedInv, FinishArm
  <2> QED
    BY <2>2, <2>4 DEF TaskInv
<1>5. CASE CancelSettle
  <2>1. \E l \in {"release", "start"} : Goto("loop", l)
    BY <1>5 DEF CancelSettle
  <2>2. /\ pc["loop"] = "settle" /\ pc'["loop"] \in {"release", "start"}
        /\ UNCHANGED <<running, phase, completions>>
    BY <1>5, <2>1, GotoLoop DEF CancelSettle, At
  <2>3. LiveTurnOwned'
    BY <2>2 DEF TaskInv, LiveTurnOwned
  <2>4. EndedInv'
    BY <2>2 DEF TaskInv, EndedInv, FinishArm
  <2> QED
    BY <2>3, <2>4 DEF TaskInv
<1> QED
  BY <1>1, <1>2, <1>3, <1>4, <1>5

\* The steps of the completion arm after the running slot was settled.
LEMMA TailFrame ==
  ASSUME Inv,
         \/ CompletionUnset \/ CompletionTerminal \/ CompletionSweep \/ CompletionTurnEnd
         \/ CompletionStrand
  PROVE  /\ UNCHANGED <<running, lock, pin, phase, completions, outcome, suppressed, depth>>
         /\ job'.cur = job.cur /\ job'.pinned = job.pinned /\ job'.held = job.held
         /\ \A s \in Starters : pc'[s] = pc[s]
         /\ <<pc["loop"], pc'["loop"]>> \in
              {<<"unset", "pop">>, <<"terminal", "sweep">>, <<"sweep", "turnend">>,
               <<"turnend", "strand">>, <<"strand", "start">>, <<"strand", "flush">>}
<1>1. UNCHANGED <<running, lock, pin, phase, completions, outcome, suppressed, depth>>
  BY DEF CompletionUnset, CompletionTerminal, CompletionSweep, CompletionTurnEnd,
         CompletionStrand, stateVars, turnVars, outVars
<1>2. job' = job \/ job' = [job EXCEPT !.left = interj]
  BY DEF CompletionUnset, CompletionTerminal, CompletionSweep, CompletionTurnEnd,
         CompletionStrand
<1>3. job'.cur = job.cur /\ job'.pinned = job.pinned /\ job'.held = job.held
  BY <1>2, Types DEF Jobs
<1>4. PICK l : /\ Goto("loop", l)
               /\ <<pc["loop"], l>> \in
                    {<<"unset", "pop">>, <<"terminal", "sweep">>, <<"sweep", "turnend">>,
                     <<"turnend", "strand">>, <<"strand", "start">>, <<"strand", "flush">>}
  BY DEF CompletionUnset, CompletionTerminal, CompletionSweep, CompletionTurnEnd,
         CompletionStrand, At
<1> QED
  BY <1>1, <1>3, <1>4, GotoLoop

\* The flush of stranded interjections.
LEMMA FlushFrame ==
  ASSUME Inv, CompletionFlush
  PROVE  /\ UNCHANGED <<running, lock, turnVars, outVars, suppressed, interj>> /\ Unlocked
         /\ job'.cur = job.cur /\ job'.pinned = job.pinned /\ job'.held = job.held
         /\ \A s \in Starters : pc'[s] = pc[s]
         /\ pc["loop"] = "flush" /\ pc'["loop"] \in {"start", "flush"}
<1>1. UNCHANGED <<running, lock, turnVars, outVars, suppressed, interj>> /\ Unlocked
  BY DEF CompletionFlush, QueueFallback, inboxVars
<1>2. job'.cur = job.cur /\ job'.pinned = job.pinned /\ job'.held = job.held
  BY Types DEF CompletionFlush, Jobs
<1>3. PICK l \in {"start", "flush"} : Goto("loop", l)
  BY DEF CompletionFlush
<1> QED
  BY <1>1, <1>2, <1>3, GotoLoop DEF CompletionFlush, At

\* The receipt of a completion.
LEMMA ReceiveFrame ==
  ASSUME Inv, Completion
  PROVE  /\ UNCHANGED <<queue, running, lock, phase, outcome, terminals, interj, depth, suppressed, nextId>>
         /\ completions # <<>> /\ completions' = Tail(completions)
         /\ pin' = (IF pin = completions[1] THEN None ELSE pin)
         /\ job'.cur = completions[1] /\ completions[1] \in Prompts
         /\ job'.pinned = None /\ job'.held = {}
         /\ \A s \in Starters : pc'[s] = pc[s]
         /\ pc["loop"] = "idle" /\ pc'["loop"] \in {"unset", "pop"}
<1>1. completions # <<>> /\ completions' = Tail(completions)
  BY DEF Completion
<1>2. Head(completions) = completions[1] /\ completions[1] \in Prompts
  BY <1>1, Types
<1>3. job'.cur = completions[1] /\ job'.pinned = None /\ job'.held = {}
  BY <1>2 DEF Completion, NoJob
<1>4. pin' = (IF pin = completions[1] THEN None ELSE pin)
  BY <1>2 DEF Completion, Unpin
<1>5. PICK l \in {"unset", "pop"} : Goto("loop", l)
  BY DEF Completion, CompletionNext
<1> QED
  BY <1>1, <1>2, <1>3, <1>4, <1>5, GotoLoop DEF Completion, At, stateVars, outVars, inboxVars

\* The locked region of handle_completion.
LEMMA PopFrame ==
  ASSUME Inv, CompletionPop
  PROVE  /\ UNCHANGED <<lock, turnVars, job, terminals, interj, suppressed, nextId>> /\ Unlocked
         /\ \A s \in Starters : pc'[s] = pc[s]
         /\ pc["loop"] = "pop" /\ pc'["loop"] = (IF Owned THEN "terminal" ELSE "sweep")
         /\ running' = RunningAfter
         /\ outcome' = IF Owned THEN Answer({job.cur}, "turn") ELSE outcome
         /\ queue' = IF Owned THEN Tail(queue) ELSE queue
<1>1. Goto("loop", IF Owned THEN "terminal" ELSE "sweep")
  BY DEF CompletionPop
<1> QED
  BY <1>1, GotoLoop DEF CompletionPop, At, inboxVars

\* The completion arm: what leaves the running slot has ended.
LEMMA CompletionTask ==
  ASSUME Inv, QueueInv, TaskInv,
         \/ Completion \/ CompletionUnset \/ CompletionPop \/ CompletionTerminal
         \/ CompletionSweep \/ CompletionTurnEnd \/ CompletionStrand \/ CompletionFlush
  PROVE  TaskInv'
<1>1. CASE Completion
  <2>1. LiveTurnOwned'
    BY <1>1, ReceiveFrame DEF TaskInv, LiveTurnOwned
  <2>2. /\ phase[completions[1]] = "ended"
        /\ \A i \in 1..Len(Tail(completions)) : phase[Tail(completions)[i]] = "ended"
    <3>1. /\ 1 \in 1..Len(completions)
          /\ \A i \in 1..Len(Tail(completions)) :
               i + 1 \in 1..Len(completions) /\ Tail(completions)[i] = completions[i + 1]
      BY <1>1, ReceiveFrame, Types
    <3> QED
      BY <3>1 DEF TaskInv, EndedInv
  <2>3. EndedInv'
    BY <1>1, <2>2, ReceiveFrame, NoneFresh DEF EndedInv
  <2> QED
    BY <2>1, <2>3 DEF TaskInv
<1>2. CASE CompletionPop
  <2>1. job.cur # None /\ phase[job.cur] = "ended"
    BY <1>2, PopFrame DEF TaskInv, EndedInv, FinishArm
  <2>2. Owned /\ running # None => running = job.cur
    BY DEF Owned, QueueInv, Fronted
  <2>3. \A o \in Prompts : phase[o] \in Live => o = running'
    BY <1>2, <2>1, <2>2, PopFrame DEF TaskInv, LiveTurnOwned, RunningAfter, Live
  <2>4. LiveTurnOwned'
    BY <1>2, <2>3, PopFrame DEF LiveTurnOwned, turnVars
  <2>5. EndedInv'
    BY <1>2, <2>1, PopFrame DEF TaskInv, EndedInv, turnVars
  <2> QED
    BY <2>4, <2>5 DEF TaskInv
<1>3. CASE CompletionUnset \/ CompletionTerminal \/ CompletionSweep \/ CompletionTurnEnd
           \/ CompletionStrand
  <2>1. pc["loop"] \in FinishArm /\ pc'["loop"] \notin CancelArm
    BY <1>3, TailFrame DEF FinishArm, CancelArm
  <2>2. LiveTurnOwned'
    BY <1>3, <2>1, TailFrame DEF TaskInv, LiveTurnOwned, FinishArm
  <2>3. EndedInv'
    BY <1>3, <2>1, TailFrame DEF TaskInv, EndedInv
  <2> QED
    BY <2>2, <2>3 DEF TaskInv
<1>4. CASE CompletionFlush
  BY <1>4, FlushFrame, IdleTask DEF turnVars, CancelArm, FinishArm
<1> QED
  BY <1>1, <1>2, <1>3, <1>4

\* Every step preserves the ownership of live turns.
LEMMA TaskStep ==
  ASSUME Inv, QueueInv, TaskInv, [Next]_vars
  PROVE  TaskInv'
<1>1. CASE UNCHANGED vars \/ OrphanDrop
  BY <1>1, IdleTask DEF vars, OrphanDrop, stateVars, turnVars, loopVars
<1>2. CASE Commands \/ InterjectFallback \/ Drain
  BY <1>2, CommandFrame, IdleTask DEF turnVars, CancelArm, FinishArm
<1>3. CASE ResumeQueues \/ McpReady
  BY <1>3, ArrivalFrame, IdleTask DEF turnVars
<1>4. CASE Handlers /\ ~(InterjectFallback \/ Drain)
  BY <1>4, CancelTask, CompletionTask DEF Handlers
<1>5. CASE \E p \in Procs : Start(p)
  BY <1>5, StartTask
<1>6. CASE \E p \in Prompts : Turn(p)
  BY <1>6, TurnTask
<1> QED
  BY <1>1, <1>2, <1>3, <1>4, <1>5, <1>6 DEF Next

-----------------------------------------------------------------------------
(* The pin.                                                                *)

\* Steps that leave the pin, the slot and the mutex alone, outside the arms.
LEMMA IdlePin ==
  ASSUME Inv, PinInv, UNCHANGED <<running, lock, pin>>, queue' = queue \/ Unlocked,
         \/ UNCHANGED job /\ pc'["loop"] = pc["loop"]
         \/ /\ pc["loop"] \notin CancelArm
            /\ pc'["loop"] \notin CancelArm \cup {"unset", "pop", "take"}
  PROVE  PinInv'
BY DEF PinInv, At, Unlocked

\* Turn tasks let go of the pin they hold.
LEMMA TurnPin ==
  ASSUME Inv, QueueInv, PinInv, NEW p \in Prompts, Turn(p)
  PROVE  PinInv'
<1>1. UNCHANGED <<running, lock, pc, job>> /\ (queue' = queue \/ Unlocked)
  BY TurnFrame DEF loopVars
<1>2. CASE pin' = pin
  BY <1>1, <1>2, IdlePin
<1>3. CASE pin = p /\ pin' = None /\ phase[p] \in {"final", "aborted"}
  <2>1. lock = "free"
    <3> SUFFICES ASSUME lock # "free" PROVE FALSE
      OBVIOUS
    <3>1. phase[queue[1].id] = "unborn" /\ pin = queue[1].id
      BY FrontUnborn DEF PinInv, Inv, LockInv
    <3> QED
      BY <1>3, <3>1
  <2> QED
    BY <1>1, <1>3, <2>1 DEF PinInv, At
<1> QED
  BY <1>2, <1>3, TurnFrame

\* maybe_start_running_task pins the front and then gives it the slot.
LEMMA StartPin ==
  ASSUME Inv, QueueInv, TaskInv, PinInv, NEW p \in Procs, Start(p)
  PROVE  PinInv'
<1>0. p = "loop" \/ p \in Starters
  BY DEF Procs
<1>1. CASE StartCheck(p) /\ (running # None \/ queue = <<>>)
  <2>1. UNCHANGED <<running, lock, pin, queue>> /\ Goto(p, After(p))
    BY <1>1 DEF StartCheck
  <2>2. CASE p = "loop"
    <3>1. pc["loop"] = "start" /\ pc'["loop"] \in {"idle", "drain"}
      BY <1>1, <2>1, <2>2, GotoLoop, Types DEF StartCheck, After, Jobs
    <3> QED
      BY <2>1, <3>1, IdlePin DEF CancelArm
  <2>3. CASE p # "loop"
    <3>1. UNCHANGED job /\ pc'["loop"] = pc["loop"]
      BY <1>0, <1>1, <2>1, <2>3, GotoStarter DEF StartCheck
    <3> QED
      BY <2>1, <3>1, IdlePin
  <2> QED
    BY <2>2, <2>3
<1>2. CASE StartCheck(p) /\ ~(running # None \/ queue = <<>>)
  <2>1. /\ lock = "free" /\ lock' = p /\ pin' = queue[1].id /\ UNCHANGED <<running, queue, job>>
        /\ Goto(p, "spawn")
    BY <1>2 DEF StartCheck, Unlocked
  <2>2. running = None /\ lock' # "free"
    BY <1>2, <2>1, NoneFresh
  <2>3. pc["loop"] \in {"unset", "pop"} => job.cur # None
    BY DEF TaskInv, EndedInv, FinishArm
  <2>4. pc'["loop"] = pc["loop"] \/ pc'["loop"] = "spawn"
    BY <1>0, <2>1, GotoLoop, GotoStarter
  <2> QED
    BY <2>1, <2>2, <2>3, <2>4 DEF PinInv, At
<1>3. CASE StartSpawn(p)
  <2>1. lock = p /\ queue # <<>> /\ running = None
    BY <1>3, NoneFresh DEF StartSpawn, Inv, LockInv
  <2>2. queue[1].id \in Prompts /\ phase[queue[1].id] = "unborn"
    BY <2>1, FrontUnborn
  <2>3. /\ lock' = "free" /\ running' = queue[1].id /\ UNCHANGED <<pin, queue>>
        /\ pin = queue[1].id /\ Goto(p, After(p)) /\ lock # "free"
    BY <1>3, <2>1, NoneFresh DEF StartSpawn, PinInv
  <2>4. CASE p = "loop"
    <3>1. pc'["loop"] \in {"idle", "drain"}
      BY <2>3, <2>4, GotoLoop, Types DEF After, Jobs
    <3> QED
      BY <2>2, <2>3, <3>1, NoneFresh DEF PinInv, At, CancelArm
  <2>5. CASE p # "loop"
    <3>1. UNCHANGED job /\ pc'["loop"] = pc["loop"]
      BY <1>0, <1>3, <2>3, <2>5, GotoStarter DEF StartSpawn
    <3>2. pc["loop"] \in {"unset", "pop"} => job.cur # queue[1].id
      BY <2>2 DEF TaskInv, EndedInv, FinishArm
    <3> QED
      BY <2>1, <2>2, <2>3, <3>1, <3>2, NoneFresh DEF PinInv, At
  <2> QED
    BY <2>4, <2>5
<1> QED
  BY <1>1, <1>2, <1>3 DEF Start

\* cancel_running_task: the snapshot of the pin, and its reset at the end.
LEMMA CancelPin ==
  ASSUME Inv, PinInv,
         \/ CancelBegin \/ CancelTake \/ CancelClear \/ CancelAbort \/ CancelSettle
         \/ CancelRelease
  PROVE  PinInv'
<1>1. CASE CancelBegin
  <2>1. /\ pc["loop"] = "cancel" /\ pc'["loop"] = "take" /\ job'.pinned = pin
        /\ UNCHANGED <<running, lock, pin, queue>>
    BY <1>1, GotoLoop, Types DEF CancelBegin, At, Jobs, stateVars, turnVars
  <2>2. pin = None \/ running = pin \/ (lock # "free" /\ queue[1].id = pin)
    BY <2>1 DEF PinInv, CancelArm
  <2> QED
    BY <2>1, <2>2 DEF PinInv, At, CancelArm
<1>2. CASE CancelTake
  <2>1. pc'["loop"] = "clear" /\ running' = None /\ UNCHANGED <<lock, pin>> /\ lock = "free"
    BY <1>2, GotoLoop DEF CancelTake, Unlocked
  <2> QED
    BY <2>1 DEF PinInv, At, CancelArm
<1>3. CASE CancelClear \/ CancelAbort
  <2>1. \E l \in {"abort", "settle"} : Goto("loop", l)
    BY <1>3 DEF CancelClear, CancelAbort
  <2>2. pc'["loop"] \in {"abort", "settle"} /\ UNCHANGED <<running, lock, pin, queue>>
    BY <1>3, <2>1, GotoLoop DEF CancelClear, CancelAbort, stateVars
  <2> QED
    BY <2>2 DEF PinInv, At, CancelArm
<1>4. CASE CancelSettle
  <2>1. \E l \in {"release", "start"} : Goto("loop", l)
    BY <1>4 DEF CancelSettle
  <2>2. pc'["loop"] \in {"release", "start"} /\ pin' = None /\ lock' = "free"
    BY <1>4, <2>1, GotoLoop DEF CancelSettle, Unlocked
  <2> QED
    BY <2>2 DEF PinInv, At
<1>5. CASE CancelRelease
  <2>1. /\ pc["loop"] = "release" /\ pc'["loop"] = "start"
        /\ UNCHANGED <<running, lock, pin, queue>>
    BY <1>5, GotoLoop DEF CancelRelease, At, turnVars
  <2> QED
    BY <2>1, IdlePin DEF CancelArm
<1> QED
  BY <1>1, <1>2, <1>3, <1>4, <1>5

\* The completion arm releases the pin of the turn it is about.
LEMMA CompletionPin ==
  ASSUME Inv, QueueInv, TaskInv, PinInv,
         \/ Completion \/ CompletionUnset \/ CompletionPop \/ CompletionTerminal
         \/ CompletionSweep \/ CompletionTurnEnd \/ CompletionStrand \/ CompletionFlush
  PROVE  PinInv'
<1>1. CASE Completion
  <2>1. phase[completions[1]] = "ended"
    BY <1>1, ReceiveFrame, Types DEF TaskInv, EndedInv
  <2>2. lock # "free" => queue[1].id # completions[1]
    BY <2>1, FrontUnborn DEF Inv, LockInv
  <2> QED
    BY <1>1, <2>2, ReceiveFrame, NoneFresh DEF PinInv, At, CancelArm
<1>2. CASE CompletionPop
  <2>1. Owned /\ running # None => running = job.cur
    BY DEF Owned, QueueInv, Fronted
  <2>2. lock = "free" /\ pc["loop"] = "pop" /\ pc'["loop"] \in {"terminal", "sweep"}
        /\ UNCHANGED <<lock, pin>>
    BY <1>2, PopFrame DEF Unlocked, turnVars
  <2>3. running' = None => pin = None
    BY <1>2, <2>1, <2>2, PopFrame DEF PinInv, RunningAfter, CancelArm
  <2>4. running' # None => running' = running
    BY <1>2, PopFrame DEF RunningAfter
  <2> QED
    BY <2>2, <2>3, <2>4 DEF PinInv, At, CancelArm
<1>3. CASE CompletionUnset
  <2>1. queue' = queue
    BY <1>3 DEF CompletionUnset, stateVars
  <2>2. pc["loop"] = "unset" /\ pc'["loop"] = "pop"
    BY <1>3, GotoLoop DEF CompletionUnset, At
  <2> QED
    BY <1>3, <2>1, <2>2, TailFrame DEF PinInv, At, CancelArm
<1>4. CASE CompletionTerminal \/ CompletionSweep \/ CompletionTurnEnd \/ CompletionStrand
  <2>1. queue' = queue \/ Unlocked
    BY <1>4 DEF CompletionTerminal, CompletionSweep, CompletionTurnEnd, CompletionStrand,
                stateVars
  <2>2. pc["loop"] # "unset"
    BY <1>4 DEF CompletionTerminal, CompletionSweep, CompletionTurnEnd, CompletionStrand, At
  <2> QED
    BY <1>4, <2>1, <2>2, TailFrame, IdlePin DEF CancelArm
<1>5. CASE CompletionFlush
  BY <1>5, FlushFrame, IdlePin DEF turnVars, CancelArm
<1> QED
  BY <1>1, <1>2, <1>3, <1>4, <1>5

\* Commands and arrivals change the queue only under the mutex.
LEMMA QueueUnderLock ==
  ASSUME Inv, Commands \/ InterjectFallback \/ Drain \/ ResumeQueues \/ McpReady
  PROVE  queue' = queue \/ Unlocked
BY DEF Commands, Prompt, CancelCommand, Interject, Notify, RemoveRow, PromoteRow, EditRow,
       ReorderRows, ClearRows, InterjectFallback, QueueFallback, Drain, ResumeQueues,
       McpReady, QueueInput, stateVars

\* Every step preserves the pin invariant.
LEMMA PinStep ==
  ASSUME Inv, QueueInv, TaskInv, PinInv, [Next]_vars
  PROVE  PinInv'
<1>1. CASE UNCHANGED vars \/ OrphanDrop
  BY <1>1, IdlePin DEF vars, OrphanDrop, stateVars, turnVars, loopVars
<1>2. CASE Commands \/ InterjectFallback \/ Drain
  BY <1>2, CommandFrame, QueueUnderLock, IdlePin DEF turnVars, CancelArm
<1>3. CASE ResumeQueues \/ McpReady
  BY <1>3, ArrivalFrame, QueueUnderLock, IdlePin DEF turnVars
<1>4. CASE Handlers /\ ~(InterjectFallback \/ Drain)
  BY <1>4, CancelPin, CompletionPin DEF Handlers
<1>5. CASE \E p \in Procs : Start(p)
  BY <1>5, StartPin
<1>6. CASE \E p \in Prompts : Turn(p)
  BY <1>6, TurnPin
<1> QED
  BY <1>1, <1>2, <1>3, <1>4, <1>5, <1>6 DEF Next

-----------------------------------------------------------------------------
(* What the steps do to the contents of the queue.                         *)

\* The result of queueing one new prompt: every other item was there before,
\* and only synthetic items may have been swept.
Queued(new, q, id, kind) ==
  /\ \A i \in 1..Len(new) :
       \/ new[i].id = id /\ new[i].kind = kind
       \/ \E k \in 1..Len(q) : new[i].id = q[k].id /\ new[i].kind = q[k].kind
  /\ \A k \in 1..Len(q) : q[k].kind = "user" => Holds(new, q[k].id)
  /\ Holds(new, id)

\* The result of a sweep: only synthetic items are gone.
Swept(new, q) ==
  Copied(new, q) /\ \A k \in 1..Len(q) : q[k].kind = "user" => Holds(new, q[k].id)

\* One more item on a swept queue.
LEMMA QueuedByInsert ==
  ASSUME NEW q, NEW base \in Seq(Item), Swept(base, q), NEW it \in Item, NEW run, NEW new,
         Inserted(new, base, it, run), Holds(new, it.id),
         \A k \in 1..Len(base) : Holds(new, base[k].id)
  PROVE  Queued(new, q, it.id, it.kind)
<1>1. \A i \in 1..Len(new) :
        \/ new[i].id = it.id /\ new[i].kind = it.kind
        \/ \E k \in 1..Len(q) : new[i].id = q[k].id /\ new[i].kind = q[k].kind
  BY DEF Inserted, Swept, Copied
<1>2. \A k \in 1..Len(q) : q[k].kind = "user" => Holds(new, q[k].id)
  BY DEF Swept, Holds
<1> QED
  BY <1>1, <1>2 DEF Queued

\* queue_input preempts wake prompts only.
LEMMA QueueInputQueued ==
  ASSUME Inv, NEW kind \in Kinds, NEW want \in BOOLEAN, NEW owner \in Owners \cup {"any"},
         QueueInput(kind, want, owner)
  PROVE  Queued(queue', queue, nextId, kind) /\ nextId' = nextId + 1 /\ nextId \in Prompts
<1> DEFINE base == Sweep(queue, running, Preempted(kind))
           now == IsSendNow(kind, want, base)
           it == Fresh(kind, now, owner)
<1>0. \A k \in 1..Len(queue) : queue[k].kind = "user" => k \notin Preempted(kind)
  BY DEF Preempted, Synthetic
<1>1. base \in Seq(Item) /\ Swept(base, queue)
  <2>1. base \in Seq(Item)
    BY SweepDerived, Types
  <2> QED
    BY <1>0, <2>1, SweepCopied, Types DEF Swept
<1> HIDE DEF base
<1>2. now \in BOOLEAN
  BY DEF IsSendNow
<1> HIDE DEF now
<1>3. it \in Item /\ it.id = nextId /\ it.kind = kind /\ nextId \in Prompts
  <2>1. it \in Item /\ nextId \in Prompts
    BY <1>2, FreshItem DEF QueueInput, Inv, TypeOK
  <2> QED
    BY <2>1 DEF Fresh
<1> HIDE DEF it
<1>4. queue' = IF now THEN Insert(base, SendNowSlot(base, running), it) ELSE Append(base, it)
  BY DEF QueueInput, base, now, it
<1>5. CASE now
  <2> DEFINE n == SendNowSlot(base, running)
  <2>1. n \in FrontSlot(base, running)..Len(base) /\ n \in 0..Len(base)
    BY <1>1, SendNowSlotRange, FrontSlotRange
  <2> HIDE DEF n
  <2>2. queue' = Insert(base, n, it)
    BY <1>4, <1>5 DEF n
  <2>3. Inserted(queue', base, it, running)
    BY <1>1, <1>3, <2>1, <2>2, InsertDerived
  <2>4. Holds(queue', it.id) /\ \A k \in 1..Len(base) : Holds(queue', base[k].id)
    BY <1>1, <1>3, <2>1, <2>2, InsertHolds
  <2>5. Queued(queue', queue, it.id, it.kind)
    BY <1>1, <1>3, <2>3, <2>4, QueuedByInsert
  <2> QED
    BY <1>3, <2>5 DEF QueueInput
<1>6. CASE ~now
  <2>1. queue' = Append(base, it)
    BY <1>4, <1>6
  <2>2. Inserted(queue', base, it, running)
    BY <1>1, <1>3, <2>1, AppendInserted
  <2>3. Holds(queue', it.id) /\ \A k \in 1..Len(base) : Holds(queue', base[k].id)
    BY <1>1, <1>3, <2>1, AppendHolds
  <2>4. Queued(queue', queue, it.id, it.kind)
    BY <1>1, <1>3, <2>2, <2>3, QueuedByInsert
  <2> QED
    BY <1>3, <2>4 DEF QueueInput
<1> QED
  BY <1>5, <1>6

\* A queue is a sweep of itself.
LEMMA SweptSelf ==
  ASSUME NEW q
  PROVE  Swept(q, q)
BY DEF Swept, Copied, Holds

\* The synthetic prompts: interjection fallbacks, goal continuations and
\* notification turns.
LEMMA SyntheticQueued ==
  ASSUME Inv,
         \/ QueueFallback
         \/ CompletionTurnEnd /\ queue' # queue
         \/ Drain /\ queue' # queue
  PROVE  /\ \E kind \in {"fallback", "goal", "drain"} : Queued(queue', queue, nextId, kind)
         /\ nextId' = nextId + 1 /\ nextId \in Prompts
<1>0. queue \in Seq(Item) /\ Swept(queue, queue)
  BY Types, SweptSelf
<1>1. CASE QueueFallback
  <2> DEFINE it == Fresh("fallback", TRUE, "any")
             n == FrontSlot(queue, running)
  <2>1. it \in Item /\ nextId \in Prompts
    BY <1>1, FreshItem DEF QueueFallback, Inv, TypeOK, Kinds
  <2>2. it.id = nextId /\ it.kind = "fallback"
    BY DEF Fresh
  <2>3. queue' = Insert(queue, n, it) /\ nextId' = nextId + 1
    BY <1>1 DEF QueueFallback
  <2> HIDE DEF it
  <2>4. n \in FrontSlot(queue, running)..Len(queue) /\ n \in 0..Len(queue)
    BY <1>0, FrontSlotRange
  <2> HIDE DEF n
  <2>5. Inserted(queue', queue, it, running)
    BY <1>0, <2>1, <2>3, <2>4, InsertDerived
  <2>6. Holds(queue', it.id) /\ \A k \in 1..Len(queue) : Holds(queue', queue[k].id)
    BY <1>0, <2>1, <2>3, <2>4, InsertHolds
  <2>7. Queued(queue', queue, it.id, it.kind)
    BY <1>0, <2>1, <2>5, <2>6, QueuedByInsert
  <2> QED
    BY <2>1, <2>2, <2>3, <2>7
<1>2. CASE (CompletionTurnEnd \/ Drain) /\ queue' # queue
  <2>1. PICK kind \in {"goal", "drain"} :
          /\ queue' = Append(queue, Fresh(kind, FALSE, "any"))
          /\ nextId <= MaxPrompts /\ nextId' = nextId + 1
    <3>1. CASE CompletionTurnEnd
      BY <1>2, <3>1 DEF CompletionTurnEnd
    <3>2. CASE Drain
      <4>1. /\ queue = <<>> /\ queue' = <<Fresh("drain", FALSE, "any")>>
            /\ nextId <= MaxPrompts /\ nextId' = nextId + 1
        BY <1>2, <3>2 DEF Drain, IdleForInjection
      <4>2. Append(<<>>, Fresh("drain", FALSE, "any")) = <<Fresh("drain", FALSE, "any")>>
        OBVIOUS
      <4> QED
        BY <4>1, <4>2
    <3> QED
      BY <1>2, <3>1, <3>2
  <2> DEFINE it == Fresh(kind, FALSE, "any")
  <2>2. it \in Item /\ nextId \in Prompts
    BY <2>1, FreshItem DEF Inv, TypeOK, Kinds
  <2>3. it.id = nextId /\ it.kind = kind
    BY DEF Fresh
  <2>4. queue' = Append(queue, it)
    BY <2>1
  <2> HIDE DEF it
  <2>5. Inserted(queue', queue, it, running)
    BY <1>0, <2>2, <2>4, AppendInserted
  <2>6. Holds(queue', it.id) /\ \A k \in 1..Len(queue) : Holds(queue', queue[k].id)
    BY <1>0, <2>2, <2>4, AppendHolds
  <2>7. Queued(queue', queue, it.id, it.kind)
    BY <1>0, <2>2, <2>5, <2>6, QueuedByInsert
  <2> QED
    BY <2>1, <2>2, <2>3, <2>7
<1> QED
  BY <1>1, <1>2

\* A promoted or edited row keeps its origin.
LEMMA RowKind ==
  ASSUME NEW it \in Item
  PROVE  [it EXCEPT !.sendNow = TRUE].kind = it.kind /\ [it EXCEPT !.version = @ + 1].kind = it.kind
BY DEF Item

\* PromoteRow, EditRow and ReorderRows move and change rows and lose none.
LEMMA EditsCopied ==
  ASSUME Inv,
         \/ \E id \in Prompts, v \in 0..MaxEdits, o \in Owners \cup {"any"} : PromoteRow(id, v, o)
         \/ \E id \in Prompts : EditRow(id)
         \/ ReorderRows
  PROVE  Copied(queue', queue) /\ \A k \in 1..Len(queue) : Holds(queue', queue[k].id)
<1> DEFINE Kept(new, q) == Copied(new, q) /\ \A k \in 1..Len(q) : Holds(new, q[k].id)
<1>0. queue \in Seq(Item)
  BY Types
<1>1. ASSUME NEW q \in Seq(Item), NEW i \in 1..Len(q) PROVE Kept(Promote(q, running, i), q)
  <2>1. q[i] \in Item
    BY <1>1
  <2>2. /\ [q[i] EXCEPT !.sendNow = TRUE] \in Item
        /\ [q[i] EXCEPT !.sendNow = TRUE].id = q[i].id
        /\ [q[i] EXCEPT !.sendNow = TRUE].kind = q[i].kind
    BY <2>1, RowType, RowKind, Zenon
  <2> QED
    BY <2>1, <2>2, PromoteCopied, Zenon
<1>2. ASSUME NEW q \in Seq(Item), NEW i \in 1..Len(q)
      PROVE  Edit(q, i) \in Seq(Item) /\ Kept(Edit(q, i), q) /\ Len(Edit(q, i)) = Len(q)
  <2>1. q[i] \in Item
    BY <1>2
  <2>2. /\ [q[i] EXCEPT !.version = @ + 1] \in Item
        /\ [q[i] EXCEPT !.version = @ + 1].id = q[i].id
        /\ [q[i] EXCEPT !.version = @ + 1].kind = q[i].kind
    BY <2>1, RowType, RowKind, Zenon
  <2>3. /\ Edit(q, i) \in Seq(Item) /\ Copied(Edit(q, i), q)
        /\ \A k \in 1..Len(q) : Holds(Edit(q, i), q[k].id)
        /\ Len(Edit(q, i)) = Len(q)
    BY <1>2, <2>2, EditCopied, Zenon
  <2> QED
    BY <2>3
<1>3. ASSUME NEW i \in 1..Len(queue) PROVE Kept(Promote(Edit(queue, i), running, i), queue)
  <2>1. /\ Edit(queue, i) \in Seq(Item) /\ Kept(Edit(queue, i), queue)
        /\ i \in 1..Len(Edit(queue, i))
    BY <1>0, <1>2
  <2>2. Kept(Promote(Edit(queue, i), running, i), Edit(queue, i))
    BY <1>1, <2>1
  <2>3. ASSUME NEW a, NEW b, Kept(a, b), Kept(b, queue) PROVE Kept(a, queue)
    <3>1. Copied(a, queue)
      BY <2>3 DEF Copied
    <3>2. \A k \in 1..Len(queue) : Holds(a, queue[k].id)
      BY <2>3 DEF Holds
    <3> QED
      BY <3>1, <3>2
  <2> HIDE DEF Kept
  <2> QED
    BY <2>1, <2>2, <2>3
<1>4. Kept(queue, queue)
  BY DEF Copied, Holds
<1>5. ASSUME NEW f \in Orders(queue, running) PROVE Kept(Reorder(queue, running, f), queue)
  BY <1>0, ReorderCopied
<1>6. ASSUME NEW id \in Prompts, NEW v \in 0..MaxEdits, NEW o \in Owners \cup {"any"},
             PromoteRow(id, v, o)
      PROVE  Kept(queue', queue)
  <2>1. \/ queue' = queue
        \/ \E i \in 1..Len(queue) : \/ queue' = Promote(queue, running, i)
                                    \/ queue' = Promote(Edit(queue, i), running, i)
    BY <1>6 DEF PromoteRow, RowAt
  <2> HIDE DEF Kept
  <2> QED
    BY <1>0, <1>1, <1>3, <1>4, <2>1
<1>7. ASSUME NEW id \in Prompts, EditRow(id) PROVE Kept(queue', queue)
  <2>1. \E i \in 1..Len(queue) : queue' = Edit(queue, i)
    BY <1>7 DEF EditRow, Rows
  <2> HIDE DEF Kept
  <2> QED
    BY <1>0, <1>2, <2>1
<1>8. CASE ReorderRows
  <2>1. \E f \in Orders(queue, running) : queue' = Reorder(queue, running, f)
    BY <1>8 DEF ReorderRows
  <2> QED
    BY <1>5, <2>1
<1> QED
  BY <1>6, <1>7, <1>8

\* RemoveRow and ClearRows answer exactly the prompts they take out.
LEMMA RemovalsAnswered ==
  ASSUME Inv, QueueInv,
         \/ \E id \in Prompts, v \in 0..MaxEdits, o \in Owners \cup {"any"} : RemoveRow(id, v, o)
         \/ \E o \in Owners \cup {"any"} : ClearRows(o)
  PROVE  \E D \in SUBSET (1..Len(queue)) :
           /\ Copied(queue', queue)
           /\ \A k \in D : Absent(queue[k].id, queue')
           /\ \A k \in (1..Len(queue)) \ D : Holds(queue', queue[k].id)
           /\ outcome' = Answer({queue[k].id : k \in D}, "removed")
<1>0. queue \in Seq(Item) /\ Distinct(queue)
  BY Types DEF QueueInv
<1>1. ASSUME NEW id \in Prompts, NEW v \in 0..MaxEdits, NEW o \in Owners \cup {"any"},
             RemoveRow(id, v, o), queue' = queue, outcome' = outcome
      PROVE  /\ Copied(queue', queue)
             /\ \A k \in 1..Len(queue) : Holds(queue', queue[k].id)
             /\ outcome' = Answer({queue[k].id : k \in {}}, "removed")
  <2>1. Copied(queue', queue) /\ \A k \in 1..Len(queue) : Holds(queue', queue[k].id)
    BY <1>1 DEF Copied, Holds
  <2>2. {queue[k].id : k \in {}} = {}
    OBVIOUS
  <2>3. outcome' = Answer({}, "removed")
    BY <1>1, Types DEF Answer
  <2> QED
    BY <2>1, <2>2, <2>3
<1>2. ASSUME NEW id \in Prompts, NEW v \in 0..MaxEdits, NEW o \in Owners \cup {"any"},
             RemoveRow(id, v, o), NEW i \in RowAt(queue, running, id, v, o),
             queue' = Remove(queue, i), outcome' = Answer({queue[i].id}, "removed")
      PROVE  /\ Copied(queue', queue) /\ i \in 1..Len(queue)
             /\ \A k \in {i} : Absent(queue[k].id, queue')
             /\ \A k \in (1..Len(queue)) \ {i} : Holds(queue', queue[k].id)
             /\ outcome' = Answer({queue[k].id : k \in {i}}, "removed")
  <2>1. i \in 1..Len(queue)
    BY <1>2 DEF RowAt
  <2>2. {queue[k].id : k \in {i}} = {queue[i].id}
    OBVIOUS
  <2>3. /\ Copied(Remove(queue, i), queue) /\ Absent(queue[i].id, Remove(queue, i))
        /\ \A k \in (1..Len(queue)) \ {i} : Holds(Remove(queue, i), queue[k].id)
    BY <1>0, <2>1, RemoveCopied
  <2> QED
    BY <1>2, <2>1, <2>2, <2>3
<1>3. ASSUME NEW o \in Owners \cup {"any"}, ClearRows(o)
      PROVE  LET D == Cleared(queue, running, o)
             IN  /\ Copied(queue', queue) /\ D \subseteq 1..Len(queue)
                 /\ \A k \in D : Absent(queue[k].id, queue')
                 /\ \A k \in (1..Len(queue)) \ D : Holds(queue', queue[k].id)
                 /\ outcome' = Answer({queue[k].id : k \in D}, "removed")
  <2> DEFINE D == Cleared(queue, running, o)
  <2>1. D \subseteq 1..Len(queue)
    BY DEF Cleared
  <2>2. queue' = Clear(queue, running, o) /\ outcome' = Answer({queue[k].id : k \in D}, "removed")
    BY <1>3 DEF ClearRows
  <2>3. /\ Copied(queue', queue)
        /\ \A k \in D : Absent(queue[k].id, queue')
        /\ \A k \in (1..Len(queue)) \ D : Holds(queue', queue[k].id)
    BY <1>0, <2>2, ClearCopied
  <2> HIDE DEF D
  <2> QED
    BY <2>1, <2>2, <2>3 DEF D
<1>4. CASE \E id \in Prompts, v \in 0..MaxEdits, o \in Owners \cup {"any"} : RemoveRow(id, v, o)
  <2>1. PICK id \in Prompts, v \in 0..MaxEdits, o \in Owners \cup {"any"} : RemoveRow(id, v, o)
    BY <1>4
  <2>2. CASE queue' = queue /\ outcome' = outcome
    <3> WITNESS {} \in SUBSET (1..Len(queue))
    <3> QED
      BY <1>1, <2>1, <2>2
  <2>3. ASSUME NEW i \in RowAt(queue, running, id, v, o),
               queue' = Remove(queue, i), outcome' = Answer({queue[i].id}, "removed")
        PROVE  \E D \in SUBSET (1..Len(queue)) :
                 /\ Copied(queue', queue)
                 /\ \A k \in D : Absent(queue[k].id, queue')
                 /\ \A k \in (1..Len(queue)) \ D : Holds(queue', queue[k].id)
                 /\ outcome' = Answer({queue[k].id : k \in D}, "removed")
    <3>1. {i} \in SUBSET (1..Len(queue))
      BY <1>2, <2>1, <2>3
    <3> WITNESS {i} \in SUBSET (1..Len(queue))
    <3> QED
      BY <1>2, <2>1, <2>3
  <2> QED
    BY <2>1, <2>2, <2>3 DEF RemoveRow
<1>5. CASE \E o \in Owners \cup {"any"} : ClearRows(o)
  <2>1. PICK o \in Owners \cup {"any"} : ClearRows(o)
    BY <1>5
  <2>2. Cleared(queue, running, o) \in SUBSET (1..Len(queue))
    BY DEF Cleared
  <2> WITNESS Cleared(queue, running, o) \in SUBSET (1..Len(queue))
  <2> QED
    BY <1>3, <2>1
<1> QED
  BY <1>4, <1>5

\* A tool call that consumes a completion drops wake prompts only.
LEMMA ConsumesSwept ==
  ASSUME Inv, NEW p \in Prompts, Turn(p)
  PROVE  Swept(queue', queue)
<1>1. CASE \E w \in Prompts : TurnConsumes(p, w)
  <2>1. PICK w \in Prompts : TurnConsumes(p, w)
    BY <1>1
  <2> DEFINE drop == {i \in 1..Len(queue) : HasCompletion(queue[i]) /\ queue[i].id = w}
  <2>2. \A k \in 1..Len(queue) : queue[k].kind = "user" => k \notin drop
    BY DEF HasCompletion
  <2>3. queue' = Sweep(queue, running, drop)
    BY <2>1 DEF TurnConsumes
  <2> HIDE DEF drop
  <2> QED
    BY <2>2, <2>3, SweepCopied, Types DEF Swept
<1>2. CASE queue' = queue
  BY <1>2, SweptSelf
<1> QED
  BY <1>1, <1>2 DEF Turn, TurnBegin, TurnEmit, TurnDrain, TurnGoal, TurnWait, TurnResume,
       TurnFinal, TurnUnpin, TurnComplete, TurnDropped, stateVars

-----------------------------------------------------------------------------
(* Open client calls.                                                      *)

\* Whose call is open: the queued prompts a client sent, and those a cancel
\* holds; nobody waits for a prompt that is neither.
ClientInv ==
  /\ \A i \in 1..Len(queue) :
       outcome[queue[i].id] = IF queue[i].kind = "user" THEN "waiting" ELSE "none"
  /\ \A p \in Prompts : outcome[p] = "waiting" => p \in Ids(queue) \cup job.held
  /\ \A p \in Prompts : p >= nextId => outcome[p] = "none"
  /\ \A p \in job.held :
       p < nextId /\ outcome[p] \in {"none", "waiting"} /\ p \notin Ids(queue)
  /\ pc["loop"] \notin CancelArm => job.held = {}

\* Steps that answer nobody and lose no client's prompt.
LEMMA ClientKeep ==
  ASSUME Inv, ClientInv, Swept(queue', queue), UNCHANGED <<outcome, nextId>>,
         job'.held = job.held, pc'["loop"] \notin CancelArm => job.held = {}
  PROVE  ClientInv'
<1> USE IdsInPrompts
<1>1. \A i \in 1..Len(queue') : \E k \in 1..Len(queue) :
        queue'[i].id = queue[k].id /\ queue'[i].kind = queue[k].kind
  BY DEF Swept, Copied
<1>2. \A p \in Prompts : outcome[p] = "waiting" => p \in Ids(queue') \cup job.held
  <2> SUFFICES ASSUME NEW p \in Prompts, outcome[p] = "waiting", p \notin job.held
               PROVE  p \in Ids(queue')
    OBVIOUS
  <2>1. PICK k \in 1..Len(queue) : queue[k].id = p
    BY DEF ClientInv, Ids
  <2>2. queue[k].kind = "user"
    BY <2>1 DEF ClientInv
  <2> QED
    BY <2>1, <2>2 DEF Swept, Holds, Ids
<1>3. Ids(queue') \subseteq Ids(queue)
  BY <1>1 DEF Ids
<1>4. \A i \in 1..Len(queue') :
        outcome[queue'[i].id] = IF queue'[i].kind = "user" THEN "waiting" ELSE "none"
  BY <1>1 DEF ClientInv
<1> QED
  BY <1>2, <1>3, <1>4 DEF ClientInv

\* A new prompt opens its call with its place in the queue.
LEMMA ClientNew ==
  ASSUME Inv, QueueInv, ClientInv, NEW kind, Queued(queue', queue, nextId, kind),
         nextId' = nextId + 1, nextId \in Prompts,
         outcome' = IF kind = "user" THEN Answer({nextId}, "waiting") ELSE outcome,
         job'.held = job.held, pc'["loop"] \notin CancelArm => job.held = {}
  PROVE  ClientInv'
<1> USE IdsInPrompts
<1>0. nextId \in Nat /\ job.held \subseteq Prompts /\ Prompts \subseteq Nat
  BY Types DEF Prompts
<1>1. \A p \in Prompts : p # nextId => outcome'[p] = outcome[p]
  BY DEF Answer
<1>2. outcome'[nextId] = IF kind = "user" THEN "waiting" ELSE "none"
  BY <1>0 DEF Answer, ClientInv
<1>3. \A i \in 1..Len(queue) : queue[i].id # nextId
  BY <1>0 DEF QueueInv, IdsFresh
<1>4. \A i \in 1..Len(queue') :
        outcome'[queue'[i].id] = IF queue'[i].kind = "user" THEN "waiting" ELSE "none"
  <2> TAKE i \in 1..Len(queue')
  <2>1. CASE queue'[i].id = nextId /\ queue'[i].kind = kind
    BY <1>2, <2>1
  <2>2. ASSUME NEW k \in 1..Len(queue), queue'[i].id = queue[k].id, queue'[i].kind = queue[k].kind
        PROVE  outcome'[queue'[i].id] = IF queue'[i].kind = "user" THEN "waiting" ELSE "none"
    <3>1. outcome'[queue[k].id] = outcome[queue[k].id]
      BY <1>1, <1>3
    <3>2. outcome[queue[k].id] = IF queue[k].kind = "user" THEN "waiting" ELSE "none"
      BY DEF ClientInv
    <3> QED
      BY <2>2, <3>1, <3>2
  <2> QED
    BY <2>1, <2>2 DEF Queued
<1>5. Holds(queue', nextId) /\ \A i \in 1..Len(queue') : queue'[i].id \in Ids(queue) \cup {nextId}
  BY DEF Queued, Ids
<1>6. \A p \in Prompts : outcome'[p] = "waiting" => p \in Ids(queue') \cup job'.held
  <2> SUFFICES ASSUME NEW p \in Prompts, outcome'[p] = "waiting", p \notin job.held
               PROVE  p \in Ids(queue')
    OBVIOUS
  <2>1. CASE p = nextId
    BY <2>1, <1>5 DEF Holds, Ids
  <2>2. CASE p # nextId
    <3>1. PICK k \in 1..Len(queue) : queue[k].id = p
      BY <1>1, <2>2 DEF ClientInv, Ids
    <3>2. queue[k].kind = "user"
      BY <1>1, <2>2, <3>1 DEF ClientInv
    <3> QED
      BY <3>1, <3>2 DEF Queued, Holds, Ids
  <2> QED
    BY <2>1, <2>2
<1>7. \A p \in Prompts : p >= nextId' => outcome'[p] = "none"
  <2> SUFFICES ASSUME NEW p \in Prompts, p >= nextId' PROVE outcome'[p] = "none"
    OBVIOUS
  <2>1. p # nextId /\ p >= nextId
    BY <1>0
  <2> QED
    BY <1>1, <2>1 DEF ClientInv
<1>8. \A p \in job'.held :
        p < nextId' /\ outcome'[p] \in {"none", "waiting"} /\ p \notin Ids(queue')
  <2> SUFFICES ASSUME NEW p \in job.held
               PROVE  p < nextId' /\ outcome'[p] \in {"none", "waiting"} /\ p \notin Ids(queue')
    OBVIOUS
  <2>1. p < nextId /\ p \in Nat /\ outcome[p] \in {"none", "waiting"} /\ p \notin Ids(queue)
    BY <1>0 DEF ClientInv
  <2>2. p # nextId /\ p < nextId' /\ outcome'[p] = outcome[p]
    <3>1. p \in Prompts /\ p # nextId /\ p < nextId'
      BY <1>0, <2>1
    <3> QED
      BY <1>1, <3>1
  <2>3. p \notin Ids(queue')
    <3> SUFFICES ASSUME NEW i \in 1..Len(queue'), queue'[i].id = p PROVE FALSE
      BY DEF Ids
    <3> QED
      BY <1>5, <2>1, <2>2
  <2> QED
    BY <2>1, <2>2, <2>3
<1> QED
  BY <1>4, <1>6, <1>7, <1>8 DEF ClientInv

\* Prompts that leave the queue for good are answered as they leave.
LEMMA ClientAnswer ==
  ASSUME Inv, QueueInv, ClientInv, NEW D \in SUBSET (1..Len(queue)),
         NEW how \in Outcomes \ {"none", "waiting"}, Copied(queue', queue),
         \A k \in D : Absent(queue[k].id, queue'),
         \A k \in (1..Len(queue)) \ D : Holds(queue', queue[k].id),
         outcome' = Answer({queue[k].id : k \in D}, how), UNCHANGED nextId,
         job.held = {}, job'.held = {}
  PROVE  ClientInv'
<1> USE IdsInPrompts
<1> DEFINE gone == {queue[k].id : k \in D}
<1>0. nextId \in Nat /\ Prompts \subseteq Nat
  BY Types DEF Prompts
<1>1. \A p \in Prompts : outcome'[p] = IF p \in gone THEN how ELSE outcome[p]
  BY DEF Answer
<1>2. \A i \in 1..Len(queue') : queue'[i].id \notin gone
  BY DEF Absent
<1>3. \A p \in gone : p < nextId
  BY DEF QueueInv, IdsFresh
<1>4. \A k \in 1..Len(queue) : queue[k].id \in gone \/ Holds(queue', queue[k].id)
  OBVIOUS
<1> HIDE DEF gone
<1>5. \A i \in 1..Len(queue') :
        outcome'[queue'[i].id] = IF queue'[i].kind = "user" THEN "waiting" ELSE "none"
  BY <1>1, <1>2 DEF Copied, ClientInv
<1>6. \A p \in Prompts : outcome'[p] = "waiting" => p \in Ids(queue')
  <2> SUFFICES ASSUME NEW p \in Prompts, outcome'[p] = "waiting" PROVE p \in Ids(queue')
    OBVIOUS
  <2>1. p \notin gone /\ outcome[p] = "waiting"
    BY <1>1
  <2>2. PICK k \in 1..Len(queue) : queue[k].id = p
    BY <2>1 DEF ClientInv, Ids
  <2> QED
    BY <1>4, <2>1, <2>2 DEF Holds, Ids
<1>7. \A p \in Prompts : p >= nextId => outcome'[p] = "none"
  BY <1>0, <1>1, <1>3 DEF ClientInv
<1> QED
  BY <1>5, <1>6, <1>7 DEF ClientInv

\* Commands, and the handlers that only queue a prompt.
LEMMA CommandClient ==
  ASSUME Inv, QueueInv, ClientInv, Commands \/ InterjectFallback \/ Drain
  PROVE  ClientInv'
<1>0. /\ job.held = {} /\ job'.held = {} /\ pc'["loop"] \notin CancelArm
  BY CommandFrame DEF ClientInv, CancelArm
<1>1. ASSUME NEW kind \in PromptKinds, NEW now \in SendNow, NEW o \in Owners,
             Prompt(kind, now, o)
      PROVE  ClientInv'
  <2>1. kind \in Kinds /\ now \in BOOLEAN /\ o \in Owners \cup {"any"} /\ QueueInput(kind, now, o)
    BY <1>1, SessionAssumption DEF Prompt, Kinds
  <2>2. Queued(queue', queue, nextId, kind) /\ nextId' = nextId + 1 /\ nextId \in Prompts
    BY <2>1, QueueInputQueued
  <2>3. outcome' = IF kind = "user" THEN Answer({nextId}, "waiting") ELSE outcome
    BY <2>1 DEF QueueInput
  <2> QED
    BY <1>0, <2>2, <2>3, ClientNew
<1>2. CASE (InterjectFallback \/ Drain) /\ queue' # queue
  <2>1. PICK kind \in {"fallback", "goal", "drain"} : Queued(queue', queue, nextId, kind)
    BY <1>2, SyntheticQueued DEF InterjectFallback
  <2>2. nextId' = nextId + 1 /\ nextId \in Prompts
    BY <1>2, SyntheticQueued DEF InterjectFallback
  <2>3. outcome' = outcome
    BY <1>2 DEF InterjectFallback, QueueFallback, Drain, outVars
  <2> QED
    BY <1>0, <2>1, <2>2, <2>3, ClientNew
<1>3. CASE /\ queue' = queue
           /\ \/ InterjectFallback \/ Drain \/ Interject
              \/ \E mode \in CancelModes : CancelCommand(mode)
              \/ \E next \in BOOLEAN : Notify(next)
  <2>1. nextId' = nextId /\ outcome' = outcome
    <3>1. ~InterjectFallback
      <4> SUFFICES ASSUME InterjectFallback PROVE FALSE
        OBVIOUS
      <4>1. Queued(queue', queue, nextId, "fallback") \/ Queued(queue', queue, nextId, "goal")
            \/ Queued(queue', queue, nextId, "drain")
        BY SyntheticQueued DEF InterjectFallback
      <4>2. Holds(queue, nextId)
        BY <1>3, <4>1 DEF Queued
      <4> QED
        BY <4>2, IdsInPrompts, Types DEF Holds, QueueInv, IdsFresh, Prompts
    <3>2. CASE Drain
      <4>1. queue = <<>> => <<Fresh("drain", FALSE, "any")>> # queue
        OBVIOUS
      <4> QED
        BY <1>3, <3>2, <4>1 DEF Drain, IdleForInjection, outVars
    <3> QED
      BY <1>3, <3>1, <3>2 DEF Interject, CancelCommand, Notify, stateVars, outVars
  <2> QED
    BY <1>0, <1>3, <2>1, SweptSelf, ClientKeep
<1>4. CASE \/ Interject
           \/ \E mode \in CancelModes : CancelCommand(mode)
           \/ \E next \in BOOLEAN : Notify(next)
  <2>1. queue' = queue
    BY <1>4 DEF Interject, CancelCommand, Notify, stateVars
  <2> QED
    BY <1>3, <1>4, <2>1
<1>5. CASE \/ \E id \in Prompts, v \in 0..MaxEdits, o \in Owners \cup {"any"} : PromoteRow(id, v, o)
           \/ \E id \in Prompts : EditRow(id)
           \/ ReorderRows
  <2>1. Swept(queue', queue)
    BY <1>5, EditsCopied DEF Swept
  <2>2. UNCHANGED <<nextId, outcome>>
    BY <1>5 DEF PromoteRow, EditRow, ReorderRows, EditFrame
  <2> QED
    BY <1>0, <2>1, <2>2, ClientKeep
<1>6. CASE \/ \E id \in Prompts, v \in 0..MaxEdits, o \in Owners \cup {"any"} : RemoveRow(id, v, o)
           \/ \E o \in Owners \cup {"any"} : ClearRows(o)
  <2>1. "removed" \in Outcomes \ {"none", "waiting"} /\ UNCHANGED nextId
    BY <1>6 DEF Outcomes, RemoveRow, ClearRows, EditFrame
  <2>2. PICK D \in SUBSET (1..Len(queue)) :
           /\ Copied(queue', queue)
           /\ \A k \in D : Absent(queue[k].id, queue')
           /\ \A k \in (1..Len(queue)) \ D : Holds(queue', queue[k].id)
           /\ outcome' = Answer({queue[k].id : k \in D}, "removed")
    BY <1>6, RemovalsAnswered
  <2> QED
    BY <1>0, <2>1, <2>2, ClientAnswer
<1> QED
  BY <1>1, <1>2, <1>3, <1>4, <1>5, <1>6 DEF Commands

\* Steps outside the cancel arm that leave the queue and the calls alone.
LEMMA ClientIdle ==
  ASSUME Inv, ClientInv, UNCHANGED <<queue, outcome, nextId>>,
         \/ UNCHANGED job /\ pc'["loop"] = pc["loop"]
         \/ pc["loop"] \notin CancelArm /\ job'.held \in {job.held, {}}
  PROVE  ClientInv'
<1>1. Swept(queue', queue)
  BY SweptSelf
<1>2. job'.held = job.held
  BY DEF ClientInv
<1>3. pc'["loop"] \notin CancelArm => job.held = {}
  BY DEF ClientInv
<1> QED
  BY <1>1, <1>2, <1>3, ClientKeep

\* maybe_start_running_task.
LEMMA StartClient ==
  ASSUME Inv, ClientInv, NEW p \in Procs, Start(p)
  PROVE  ClientInv'
<1>0. p = "loop" \/ p \in Starters
  BY DEF Procs
<1>1. UNCHANGED <<queue, outcome, nextId>>
  BY DEF Start, StartCheck, StartSpawn, outVars
<1>2. CASE p = "loop"
  <2>1. pc["loop"] \in {"start", "spawn"}
    BY <1>2 DEF Start, StartCheck, StartSpawn
  <2>2. job' \in {job, NoJob}
    BY DEF Start, StartCheck, StartSpawn
  <2>3. job'.held \in {job.held, {}}
    BY <2>2 DEF NoJob
  <2> QED
    BY <1>1, <2>1, <2>3, ClientIdle DEF CancelArm
<1>3. CASE p # "loop"
  <2>1. UNCHANGED job /\ \E l : Goto(p, l)
    BY <1>3 DEF Start, StartCheck, StartSpawn
  <2>2. pc'["loop"] = pc["loop"]
    BY <1>0, <1>3, <2>1, GotoStarter
  <2> QED
    BY <1>1, <2>1, <2>2, ClientIdle
<1> QED
  BY <1>2, <1>3

\* The completion arm answers the prompt it pops.
LEMMA CompletionClient ==
  ASSUME Inv, QueueInv, ClientInv,
         \/ Completion \/ CompletionUnset \/ CompletionPop \/ CompletionTerminal
         \/ CompletionSweep \/ CompletionTurnEnd \/ CompletionStrand \/ CompletionFlush
  PROVE  ClientInv'
<1>1. CASE Completion
  BY <1>1, ReceiveFrame, ClientIdle DEF CancelArm
<1>2. CASE CompletionPop
  <2>0. pc["loop"] = "pop" /\ UNCHANGED <<job, nextId>> /\ job.held = {}
    BY <1>2, PopFrame DEF ClientInv, CancelArm
  <2>1. CASE Owned
    <3>0. 1 \in 1..Len(queue) /\ queue # <<>>
      BY <2>1, Types DEF Owned
    <3>1. queue' = Tail(queue) /\ outcome' = Answer({job.cur}, "turn") /\ job.cur = queue[1].id
      BY <1>2, <2>1, PopFrame DEF Owned
    <3>2. {queue[k].id : k \in {1}} = {job.cur}
      BY <3>1
    <3>3. Copied(queue', queue) /\ \A k \in (1..Len(queue)) \ {1} : Holds(queue', queue[k].id)
      BY <3>0, <3>1, TailCopied, Types
    <3>4. \A k \in {1} : Absent(queue[k].id, queue')
      BY <3>0, <3>1, TailDistinct, Types DEF QueueInv
    <3>5. "turn" \in Outcomes \ {"none", "waiting"} /\ {1} \in SUBSET (1..Len(queue))
      BY <3>0 DEF Outcomes
    <3>6. outcome' = Answer({queue[k].id : k \in {1}}, "turn")
      BY <3>1, <3>2
    <3> QED
      BY <2>0, <3>3, <3>4, <3>5, <3>6, ClientAnswer
  <2>2. CASE ~Owned
    BY <1>2, <2>0, <2>2, PopFrame, ClientIdle DEF CancelArm
  <2> QED
    BY <2>1, <2>2
<1>3. CASE CompletionFlush \/ (CompletionTurnEnd /\ queue' # queue)
  <2>1. PICK kind \in {"fallback", "goal", "drain"} : Queued(queue', queue, nextId, kind)
    BY <1>3, SyntheticQueued DEF CompletionFlush
  <2>2. nextId' = nextId + 1 /\ nextId \in Prompts
    BY <1>3, SyntheticQueued DEF CompletionFlush
  <2>3. outcome' = outcome /\ job'.held = job.held /\ job.held = {}
    BY <1>3, FlushFrame, TailFrame DEF outVars, ClientInv, CancelArm
  <2> QED
    BY <2>1, <2>2, <2>3, ClientNew
<1>4. CASE /\ queue' = queue
           /\ \/ CompletionUnset \/ CompletionTerminal \/ CompletionSweep \/ CompletionTurnEnd
              \/ CompletionStrand
  <2>1. nextId' = nextId
    <3>1. CASE CompletionTurnEnd
      <4>1. Append(queue, Fresh("goal", FALSE, "any")) # queue
        <5>1. /\ Len(Append(queue, Fresh("goal", FALSE, "any"))) = Len(queue) + 1
              /\ Len(queue) + 1 # Len(queue)
          BY Types
        <5> QED
          BY <5>1, Zenon
      <4> QED
        BY <1>4, <3>1, <4>1 DEF CompletionTurnEnd
    <3> QED
      BY <1>4, <3>1 DEF CompletionUnset, CompletionTerminal, CompletionSweep, CompletionStrand
  <2>2. outcome' = outcome /\ job'.held = job.held /\ pc["loop"] \notin CancelArm
    BY <1>4, TailFrame DEF CancelArm
  <2> QED
    BY <1>4, <2>1, <2>2, ClientIdle
<1>5. CASE CompletionUnset \/ CompletionTerminal \/ CompletionSweep \/ CompletionStrand
  <2>1. queue' = queue
    BY <1>5 DEF CompletionUnset, CompletionTerminal, CompletionSweep, CompletionStrand, stateVars
  <2> QED
    BY <1>4, <1>5, <2>1
<1> QED
  BY <1>1, <1>2, <1>3, <1>4, <1>5

\* The prompts a cancel takes out of the queue.
LEMMA CancelTakes ==
  ASSUME Inv, QueueInv, CancelTake
  PROVE  /\ job'.held = CancelHeld /\ CancelHeld \subseteq Ids(queue)
         /\ Ids(queue) \subseteq Ids(queue') \cup CancelHeld
         /\ Ids(queue') \cap CancelHeld = {}
         /\ Copied(queue', queue)
         /\ UNCHANGED <<outcome, terminals, nextId, lock>> /\ lock = "free"
         /\ pc["loop"] = "take" /\ pc'["loop"] = "clear"
<1>1. /\ job'.held = CancelHeld /\ UNCHANGED <<outcome, terminals, nextId, lock>> /\ lock = "free"
      /\ pc["loop"] = "take" /\ pc'["loop"] = "clear"
  <2>1. Goto("loop", "clear")
    BY DEF CancelTake
  <2>2. job'.held = CancelHeld
    BY Types DEF CancelTake, Jobs
  <2> QED
    BY <2>1, <2>2, GotoLoop DEF CancelTake, At, outVars, Unlocked
<1>2. CASE job.mode = "teardown" \/ queue = <<>>
  <2>1. queue' = <<>> /\ CancelHeld = Ids(queue)
    BY <1>2 DEF CancelTake, CancelHeld, Ids
  <2> QED
    BY <1>1, <2>1 DEF Ids, Copied
<1>3. CASE job.mode # "teardown" /\ queue # <<>>
  <2>0. 1 \in 1..Len(queue) /\ 1..Len(queue) = {1} \cup 2..Len(queue)
    BY <1>3, Types
  <2>1. queue' = Tail(queue) /\ CancelHeld = {queue[1].id}
    BY <1>3, <2>0 DEF CancelTake, CancelHeld
  <2>2. Copied(queue', queue) /\ \A k \in 2..Len(queue) : Holds(queue', queue[k].id)
    BY <1>3, <2>1, TailCopied, Types
  <2>3. Absent(queue[1].id, queue')
    BY <1>3, <2>1, TailDistinct, Types DEF QueueInv
  <2>4. Ids(queue) \subseteq Ids(queue') \cup CancelHeld
    <3> SUFFICES ASSUME NEW k \in 1..Len(queue) PROVE queue[k].id \in Ids(queue') \cup CancelHeld
      BY DEF Ids
    <3> QED
      BY <2>0, <2>1, <2>2 DEF Ids, Holds
  <2>5. Ids(queue') \cap CancelHeld = {}
    BY <2>1, <2>3 DEF Ids, Absent
  <2>6. CancelHeld \subseteq Ids(queue)
    BY <2>0, <2>1 DEF Ids
  <2> QED
    BY <1>1, <2>2, <2>4, <2>5, <2>6
<1> QED
  BY <1>2, <1>3

\* What the end of a cancel does to the calls it holds.
LEMMA SettleFrame ==
  ASSUME Inv, CancelSettle
  PROVE  /\ UNCHANGED <<queue, running, lock, phase, completions, suppressed, nextId, interj, depth>>
         /\ job'.held = {} /\ job'.cur = None /\ job'.pinned = None
         /\ lock = "free" /\ pin' = None
         /\ outcome' = Answer(job.held, IF job.mode = "rewind" THEN "rewound" ELSE "cancelled")
         /\ terminals' = IF job.pinned # None THEN Append(terminals, job.pinned) ELSE terminals
         /\ \A s \in Starters : pc'[s] = pc[s]
         /\ pc["loop"] = "settle"
         /\ pc'["loop"] = IF job.mode = "sendnow" THEN "release" ELSE "start"
<1>1. Goto("loop", IF job.mode = "sendnow" THEN "release" ELSE "start")
  BY DEF CancelSettle
<1>2. job'.held = {} /\ job'.cur = None /\ job'.pinned = None
  BY DEF CancelSettle, NoJob
<1> QED
  BY <1>1, <1>2, GotoLoop DEF CancelSettle, At, inboxVars, Unlocked

\* cancel_running_task takes prompts out of the queue and answers them all.
LEMMA CancelClient ==
  ASSUME Inv, QueueInv, ClientInv,
         \/ CancelBegin \/ CancelTake \/ CancelClear \/ CancelAbort \/ CancelSettle
         \/ CancelRelease
  PROVE  ClientInv'
<1>1. CASE CancelBegin \/ CancelRelease
  <2>1. UNCHANGED <<queue, outcome, nextId>> /\ pc["loop"] \notin CancelArm
    BY <1>1 DEF CancelBegin, CancelRelease, At, CancelArm, stateVars, outVars
  <2>2. job'.held = job.held
    BY <1>1, Types DEF CancelBegin, CancelRelease, Jobs
  <2> QED
    BY <2>1, <2>2, ClientIdle
<1>2. CASE CancelClear \/ CancelAbort
  <2>1. UNCHANGED <<queue, outcome, nextId, job>>
    BY <1>2 DEF CancelClear, CancelAbort, stateVars, outVars
  <2>2. \E l \in {"abort", "settle"} : Goto("loop", l)
    BY <1>2 DEF CancelClear, CancelAbort
  <2>3. pc'["loop"] \in CancelArm
    BY <2>2, GotoLoop DEF CancelArm
  <2> QED
    BY <2>1, <2>3, SweptSelf, ClientKeep
<1>3. CASE CancelTake
  <2>1. job.held = {}
    BY <1>3, CancelTakes DEF ClientInv, CancelArm
  <2>2. \A i \in 1..Len(queue') :
          outcome'[queue'[i].id] = IF queue'[i].kind = "user" THEN "waiting" ELSE "none"
    BY <1>3, CancelTakes DEF ClientInv, Copied
  <2>3. \A p \in Prompts : outcome'[p] = "waiting" => p \in Ids(queue') \cup job'.held
    BY <1>3, <2>1, CancelTakes DEF ClientInv
  <2>4. \A p \in Prompts : p >= nextId' => outcome'[p] = "none"
    BY <1>3, CancelTakes DEF ClientInv
  <2>5. \A p \in job'.held :
          p < nextId' /\ outcome'[p] \in {"none", "waiting"} /\ p \notin Ids(queue')
    <3> SUFFICES ASSUME NEW p \in CancelHeld
                 PROVE  p < nextId /\ outcome[p] \in {"none", "waiting"} /\ p \notin Ids(queue')
      BY <1>3, CancelTakes
    <3>1. PICK k \in 1..Len(queue) : p = queue[k].id
      BY <1>3, CancelTakes DEF Ids
    <3>2. p < nextId /\ outcome[p] \in {"none", "waiting"}
      BY <3>1 DEF QueueInv, IdsFresh, ClientInv
    <3> QED
      BY <1>3, <3>2, CancelTakes
  <2>6. pc'["loop"] \in CancelArm
    BY <1>3, CancelTakes DEF CancelArm
  <2> QED
    BY <2>2, <2>3, <2>4, <2>5, <2>6 DEF ClientInv
<1>4. CASE CancelSettle
  <2> DEFINE how == IF job.mode = "rewind" THEN "rewound" ELSE "cancelled"
  <2>0. nextId \in Nat /\ Prompts \subseteq Nat
    BY Types DEF Prompts
  <2>1. how \notin {"none", "waiting"}
    OBVIOUS
  <2>2. \A p \in Prompts : outcome'[p] = IF p \in job.held THEN how ELSE outcome[p]
    BY <1>4, SettleFrame DEF Answer
  <2> HIDE DEF how
  <2>3. \A i \in 1..Len(queue) :
          outcome'[queue[i].id] = IF queue[i].kind = "user" THEN "waiting" ELSE "none"
    <3> TAKE i \in 1..Len(queue)
    <3>1. queue[i].id \in Prompts /\ queue[i].id \in Ids(queue)
      BY IdsInPrompts DEF Ids
    <3>2. queue[i].id \notin job.held
      BY <3>1 DEF ClientInv
    <3> QED
      BY <2>2, <3>1, <3>2 DEF ClientInv
  <2>4. \A p \in Prompts : outcome'[p] = "waiting" => p \in Ids(queue)
    BY <2>1, <2>2 DEF ClientInv
  <2>5. \A p \in Prompts : p >= nextId => outcome'[p] = "none"
    BY <2>0, <2>2 DEF ClientInv
  <2> QED
    BY <1>4, <2>3, <2>4, <2>5, SettleFrame DEF ClientInv
<1> QED
  BY <1>1, <1>2, <1>3, <1>4

\* Every step preserves the open calls.
LEMMA ClientStep ==
  ASSUME Inv, QueueInv, ClientInv, [Next]_vars
  PROVE  ClientInv'
<1>1. CASE UNCHANGED vars \/ OrphanDrop \/ McpReady
  <2>1. UNCHANGED <<queue, outcome, nextId, job>>
    BY <1>1 DEF vars, OrphanDrop, McpReady, stateVars, loopVars, outVars
  <2>2. pc'["loop"] = pc["loop"]
    BY <1>1, ArrivalFrame DEF vars, OrphanDrop, loopVars
  <2> QED
    BY <2>1, <2>2, ClientIdle
<1>2. CASE Commands \/ InterjectFallback \/ Drain
  BY <1>2, CommandClient
<1>3. CASE ResumeQueues
  <2>1. QueueInput("resume", FALSE, "any") /\ "resume" \in Kinds
    BY <1>3 DEF ResumeQueues, Kinds
  <2>2. Queued(queue', queue, nextId, "resume") /\ nextId' = nextId + 1 /\ nextId \in Prompts
    BY <2>1, QueueInputQueued
  <2>3. outcome' = outcome /\ job' = job /\ pc'["loop"] = pc["loop"]
    BY <1>3, ArrivalFrame
  <2>4. pc'["loop"] \notin CancelArm => job.held = {}
    BY <2>3 DEF ClientInv
  <2> QED
    BY <2>2, <2>3, <2>4, ClientNew
<1>4. CASE Handlers /\ ~(InterjectFallback \/ Drain)
  BY <1>4, CancelClient, CompletionClient DEF Handlers
<1>5. CASE \E p \in Procs : Start(p)
  BY <1>5, StartClient
<1>6. CASE \E p \in Prompts : Turn(p)
  <2>1. PICK p \in Prompts : Turn(p)
    BY <1>6
  <2>2. Swept(queue', queue)
    BY <2>1, ConsumesSwept
  <2>3. UNCHANGED <<outcome, nextId, job, pc>>
    BY <2>1, TurnFrame DEF loopVars, outVars
  <2>4. pc'["loop"] \notin CancelArm => job.held = {}
    BY <2>3 DEF ClientInv
  <2> QED
    BY <2>2, <2>3, <2>4, ClientKeep
<1> QED
  BY <1>1, <1>2, <1>3, <1>4, <1>5, <1>6 DEF Next

-----------------------------------------------------------------------------
(* Durable terminals.                                                      *)

Closed == {terminals[i] : i \in 1..Len(terminals)}
Once == \A i, j \in 1..Len(terminals) : terminals[i] = terminals[j] => i = j
Final == {"turn", "cancelled"}

\* Which turns are still to be closed, and by whom: the prompt a completion
\* has just answered, or the one turn among the prompts a cancel holds.
TermInv ==
  /\ running # None => phase[running] # "unborn"
  /\ Once
  /\ \A p \in Closed : phase[p] # "unborn" /\ outcome[p] \in Final
  /\ \A p \in Prompts : phase[p] # "unborn" /\ outcome[p] \in Final =>
       p \in Closed \/ (pc["loop"] = "terminal" /\ p = job.cur)
  /\ pc["loop"] = "terminal" => job.cur \notin Closed /\ outcome[job.cur] = "turn"
  /\ pc["loop"] \in CancelArm /\ job.pinned # None =>
       job.pinned \in job.held /\ phase[job.pinned] # "unborn" /\ job.mode # "rewind"
  /\ pc["loop"] \in CancelArm /\ job.mode # "rewind" =>
       \A p \in job.held : phase[p] # "unborn" => p = job.pinned

\* One more terminal.
LEMMA ClosedAppend ==
  ASSUME Inv, NEW p \in Prompts, terminals' = Append(terminals, p), Once, p \notin Closed
  PROVE  Once' /\ Closed' = Closed \cup {p}
<1>1. /\ Len(terminals') = Len(terminals) + 1 /\ Len(terminals) \in Nat
      /\ \A i \in 1..Len(terminals) : terminals'[i] = terminals[i]
      /\ terminals'[Len(terminals) + 1] = p
  BY Types
<1>2. \A i \in 1..Len(terminals') : i \in 1..Len(terminals) \/ i = Len(terminals) + 1
  BY <1>1
<1>3. \A i \in 1..Len(terminals) : terminals[i] # p
  BY DEF Closed
<1>4. Once'
  <2> SUFFICES ASSUME NEW i \in 1..Len(terminals'), NEW j \in 1..Len(terminals'),
                      terminals'[i] = terminals'[j]
               PROVE  i = j
    BY DEF Once
  <2> QED
    BY <1>1, <1>2, <1>3 DEF Once
<1>5. Closed' = Closed \cup {p}
  <2>1. \A x \in Closed' : x \in Closed \cup {p}
    BY <1>1, <1>2 DEF Closed
  <2>2. \A x \in Closed : x \in Closed'
    BY <1>1 DEF Closed
  <2>3. p \in Closed'
    BY <1>1 DEF Closed
  <2> QED
    BY <2>1, <2>2, <2>3
<1> QED
  BY <1>4, <1>5

\* Terminals name prompts.
LEMMA ClosedPrompts ==
  ASSUME Inv
  PROVE  Closed \subseteq Prompts
BY Types DEF Closed

\* Steps that close no turn: whatever they answer was neither finished nor
\* cancelled, and whatever they spawn was queued.
LEMMA TermKeep ==
  ASSUME Inv, ClientInv, TermInv, UNCHANGED terminals,
         running' # None => running' = running \/ phase'[running'] # "unborn",
         \A p \in Prompts : outcome'[p] = outcome[p] \/ (outcome[p] \notin Final /\ outcome'[p] \notin Final),
         \A p \in Prompts : (phase'[p] = "unborn" <=> phase[p] = "unborn") \/ p \in Ids(queue),
         \A p \in Prompts : phase'[p] = "unborn" => phase[p] = "unborn",
         \/ UNCHANGED job /\ pc'["loop"] = pc["loop"]
         \/ UNCHANGED job /\ pc["loop"] \in CancelArm /\ pc'["loop"] \in CancelArm
         \/ /\ pc["loop"] \notin CancelArm \cup {"terminal"}
            /\ pc'["loop"] \notin CancelArm \cup {"terminal"}
  PROVE  TermInv'
<1>0. Closed' = Closed /\ Closed \subseteq Prompts /\ Once'
  BY ClosedPrompts DEF Closed, TermInv, Once
<1>1. \A p \in Ids(queue) : outcome[p] \notin Final
  BY DEF Ids, ClientInv, Final
<1>2. \A p \in job.held : p \in Prompts /\ p \notin Ids(queue)
  BY Types DEF ClientInv
<1>3. running' # None => phase'[running'] # "unborn"
  BY Types DEF TermInv
<1>4. \A p \in Closed : phase'[p] # "unborn" /\ outcome'[p] \in Final
  BY <1>0 DEF TermInv
<1>5. \A p \in Prompts : phase'[p] # "unborn" /\ outcome'[p] \in Final =>
        p \in Closed \/ (pc["loop"] = "terminal" /\ p = job.cur)
  BY <1>1 DEF TermInv
<1>6. CASE pc["loop"] \notin CancelArm \cup {"terminal"} /\ pc'["loop"] \notin CancelArm \cup {"terminal"}
  BY <1>0, <1>3, <1>4, <1>5, <1>6 DEF TermInv
<1>7. CASE UNCHANGED job /\ pc["loop"] \in CancelArm /\ pc'["loop"] \in CancelArm
  <2>1. pc["loop"] # "terminal" /\ pc'["loop"] # "terminal"
    BY <1>7 DEF CancelArm
  <2>2. job.pinned # None =>
          job.pinned \in job.held /\ phase'[job.pinned] # "unborn" /\ job.mode # "rewind"
    BY <1>2, <1>7 DEF TermInv
  <2>3. job.mode # "rewind" => \A p \in job.held : phase'[p] # "unborn" => p = job.pinned
    BY <1>2, <1>7 DEF TermInv
  <2> QED
    BY <1>0, <1>3, <1>4, <1>5, <1>7, <2>1, <2>2, <2>3 DEF TermInv
<1>8. CASE UNCHANGED job /\ pc["loop"] = "terminal" /\ pc'["loop"] = "terminal"
  <2>1. "terminal" \notin CancelArm
    BY DEF CancelArm
  <2>2. job.cur \notin Closed /\ outcome'[job.cur] = "turn"
    <3>1. job.cur \in Prompts
      BY <1>8, Types DEF Inv, JobInv
    <3> QED
      BY <1>8, <3>1 DEF TermInv, Final
  <2> QED
    BY <1>0, <1>3, <1>4, <1>5, <1>8, <2>1, <2>2 DEF TermInv
<1> QED
  BY <1>6, <1>7, <1>8

\* What a command answers was open, or nobody's.
LEMMA CommandAnswers ==
  ASSUME Inv, QueueInv, ClientInv, Commands \/ InterjectFallback \/ Drain
  PROVE  \A p \in Prompts :
           outcome'[p] = outcome[p] \/ (outcome[p] \notin Final /\ outcome'[p] \notin Final)
<1>1. ASSUME NEW kind \in PromptKinds, NEW now \in SendNow, NEW o \in Owners,
             Prompt(kind, now, o), NEW p \in Prompts
      PROVE  outcome'[p] = outcome[p] \/ (outcome[p] \notin Final /\ outcome'[p] \notin Final)
  <2>1. outcome' = outcome \/ outcome' = Answer({nextId}, "waiting")
    BY <1>1 DEF Prompt, QueueInput
  <2>2. p = nextId => outcome[p] = "none"
    BY Types DEF ClientInv
  <2> QED
    BY <2>1, <2>2 DEF Answer, Final
<1>2. CASE \/ \E id \in Prompts, v \in 0..MaxEdits, o \in Owners \cup {"any"} : RemoveRow(id, v, o)
           \/ \E o \in Owners \cup {"any"} : ClearRows(o)
  <2>1. PICK D \in SUBSET (1..Len(queue)) :
           outcome' = Answer({queue[k].id : k \in D}, "removed")
    BY <1>2, RemovalsAnswered
  <2>2. \A p \in {queue[k].id : k \in D} : outcome[p] \notin Final
    BY DEF ClientInv, Final
  <2> QED
    BY <2>1, <2>2 DEF Answer, Final
<1>3. CASE outcome' = outcome
  BY <1>3
<1> QED
  BY <1>1, <1>2, <1>3 DEF Commands, CancelCommand, Interject, Notify, PromoteRow, EditRow,
       ReorderRows, InterjectFallback, QueueFallback, Drain, outVars

\* What a start does to the tasks: it may spawn the front of the queue.
LEMMA StartFrame ==
  ASSUME Inv, QueueInv, NEW p \in Procs, Start(p)
  PROVE  /\ UNCHANGED <<queue, suppressed, completions, terminals, outcome, interj, depth, nextId>>
         /\ \/ UNCHANGED <<running, phase>>
            \/ /\ running = None /\ queue # <<>> /\ lock = p /\ pc[p] = "spawn"
               /\ running' = queue[1].id /\ running' \in Prompts /\ running' \in Ids(queue)
               /\ phase[running'] = "unborn" /\ phase'[running'] = "spawned"
               /\ \A o \in Prompts : o # running' => phase'[o] = phase[o]
         /\ \/ /\ p # "loop" /\ UNCHANGED job /\ pc'["loop"] = pc["loop"]
            \/ /\ p = "loop" /\ pc["loop"] \in {"start", "spawn"}
               /\ pc'["loop"] \in {"spawn", "idle", "drain"}
<1>0. p = "loop" \/ p \in Starters
  BY DEF Procs
<1>1. /\ UNCHANGED <<queue, suppressed, completions, terminals, outcome, interj, depth, nextId>>
  BY DEF Start, StartCheck, StartSpawn, outVars, inboxVars
<1>2. ASSUME p # "loop" PROVE UNCHANGED job /\ pc'["loop"] = pc["loop"]
  <2>1. UNCHANGED job /\ \E l : Goto(p, l)
    BY <1>2 DEF Start, StartCheck, StartSpawn
  <2> QED
    BY <1>0, <1>2, <2>1, GotoStarter
<1>3. ASSUME p = "loop"
      PROVE  pc["loop"] \in {"start", "spawn"} /\ pc'["loop"] \in {"spawn", "idle", "drain"}
  <2>1. After(p) \in {"idle", "drain"}
    BY <1>3, Types DEF After, Jobs
  <2>2. Goto("loop", "spawn") \/ Goto("loop", After(p))
    BY <1>3 DEF Start, StartCheck, StartSpawn
  <2> QED
    BY <1>3, <2>1, <2>2, GotoLoop DEF Start, StartCheck, StartSpawn
<1>4. \/ UNCHANGED <<running, phase>>
      \/ /\ running = None /\ queue # <<>> /\ lock = p /\ pc[p] = "spawn"
         /\ running' = queue[1].id /\ running' \in Prompts /\ running' \in Ids(queue)
         /\ phase[running'] = "unborn" /\ phase'[running'] = "spawned"
         /\ \A o \in Prompts : o # running' => phase'[o] = phase[o]
  <2>1. CASE StartCheck(p)
    BY <2>1 DEF StartCheck
  <2>2. CASE StartSpawn(p)
    <3>1. queue # <<>> /\ running = None /\ lock = p /\ pc[p] = "spawn"
      BY <2>2, NoneFresh DEF StartSpawn, Inv, LockInv
    <3>2. queue[1].id \in Prompts /\ phase[queue[1].id] = "unborn"
      BY <3>1, FrontUnborn
    <3>3. /\ running' = queue[1].id
          /\ phase' = [phase EXCEPT ![queue[1].id] = "spawned"]
      BY <2>2 DEF StartSpawn
    <3>4. 1 \in 1..Len(queue)
      BY <3>1, Types
    <3>5. queue[1].id \in Ids(queue)
      BY <3>4 DEF Ids
    <3> QED
      BY <3>1, <3>2, <3>3, <3>5, Types
  <2> QED
    BY <2>1, <2>2 DEF Start
<1> QED
  BY <1>1, <1>2, <1>3, <1>4

\* What a cancel does to the tasks, apart from its locked region and its end.
LEMMA CancelFrame ==
  ASSUME Inv, CancelBegin \/ CancelClear \/ CancelAbort \/ CancelRelease
  PROVE  /\ UNCHANGED <<queue, running, lock, pin, completions, terminals, outcome, nextId>>
         /\ job'.cur = job.cur /\ job'.held = job.held
         /\ \A s \in Starters : pc'[s] = pc[s]
         /\ \/ CancelBegin /\ pc["loop"] = "cancel" /\ pc'["loop"] = "take"
               /\ UNCHANGED <<phase, suppressed, depth>> /\ interj' = 0
            \/ CancelClear /\ pc["loop"] = "clear" /\ pc'["loop"] = "abort"
               /\ UNCHANGED <<job, phase, suppressed, depth, interj>>
            \/ CancelAbort /\ pc["loop"] = "abort" /\ pc'["loop"] = "settle"
               /\ UNCHANGED <<job, suppressed, interj>> /\ depth' = 0 /\ phase' = Abort(job.cur)
            \/ CancelRelease /\ pc["loop"] = "release" /\ pc'["loop"] = "start"
               /\ UNCHANGED <<job, phase, depth, interj>> /\ suppressed' = FALSE
<1>1. CASE CancelBegin
  <2>1. job'.cur = job.cur /\ job'.held = job.held
    BY <1>1, Types DEF CancelBegin, Jobs
  <2> QED
    BY <1>1, <2>1, GotoLoop DEF CancelBegin, At, stateVars, turnVars, outVars
<1>2. CASE CancelClear
  BY <1>2, GotoLoop DEF CancelClear, At, stateVars, outVars, inboxVars
<1>3. CASE CancelAbort
  BY <1>3, GotoLoop DEF CancelAbort, At, stateVars, outVars, inboxVars
<1>4. CASE CancelRelease
  BY <1>4, GotoLoop DEF CancelRelease, At, turnVars, outVars, inboxVars
<1> QED
  BY <1>1, <1>2, <1>3, <1>4

\* The identity the locked region of a cancel settles on is the turn it takes.
LEMMA TakeIdentity ==
  ASSUME Inv, QueueInv, PinInv, CancelTake
  PROVE  /\ \/ job'.mode = "rewind" /\ job'.pinned = None /\ job'.cur = None /\ phase' = Abort(running)
            \/ job'.mode # "rewind" /\ job'.pinned = running /\ job'.cur = running /\ phase' = phase
         /\ running' = None /\ UNCHANGED <<completions, interj, depth>>
         /\ \A s \in Starters : pc'[s] = pc[s]
         /\ running # None => running \in CancelHeld
<1>1. CancelledId = running
  BY DEF PinInv, CancelTake, Unlocked, At, CancelledId
<1>2. PICK r \in BOOLEAN :
        /\ phase' = IF r THEN Abort(running) ELSE phase
        /\ job' = [job EXCEPT !.held = CancelHeld,
                     !.mode = IF r THEN "rewind" ELSE IF job.mode = "rewind" THEN "plain" ELSE job.mode,
                     !.cur = IF r THEN None ELSE running,
                     !.pinned = IF r THEN None ELSE CancelledId]
  BY DEF CancelTake
<1>3. \/ job'.mode = "rewind" /\ job'.pinned = None /\ job'.cur = None /\ phase' = Abort(running)
      \/ job'.mode # "rewind" /\ job'.pinned = running /\ job'.cur = running /\ phase' = phase
  <2>1. CASE r
    BY <1>2, <2>1, Types DEF Jobs
  <2>2. CASE ~r
    BY <1>1, <1>2, <2>2, Types DEF Jobs
  <2> QED
    BY <2>1, <2>2
<1>4. running # None => running \in CancelHeld
  <2> SUFFICES ASSUME running # None PROVE running \in CancelHeld
    OBVIOUS
  <2>1. queue # <<>> /\ queue[1].id = running
    BY DEF QueueInv, Fronted
  <2>2. 1 \in 1..Len(queue)
    BY <2>1, Types
  <2> QED
    BY <2>1, <2>2 DEF CancelHeld, Ids
<1>5. Goto("loop", "clear") /\ running' = None /\ UNCHANGED <<completions, interj, depth>>
  BY DEF CancelTake
<1> QED
  BY <1>3, <1>4, <1>5, GotoLoop

\* cancel_running_task closes the one turn it took.
LEMMA CancelTerm ==
  ASSUME Inv, QueueInv, PinInv, ClientInv, TermInv,
         \/ CancelBegin \/ CancelTake \/ CancelClear \/ CancelAbort \/ CancelSettle
         \/ CancelRelease
  PROVE  TermInv'
<1>1. CASE CancelBegin \/ CancelClear \/ CancelAbort \/ CancelRelease
  <2>1. \A p \in Prompts : phase'[p] = "unborn" <=> phase[p] = "unborn"
    <3>1. phase' = phase \/ phase' = Abort(job.cur)
      BY <1>1, CancelFrame
    <3> QED
      BY <3>1, AbortFrame, Types DEF Live
  <2>2. UNCHANGED <<terminals, running, outcome>>
    BY <1>1, CancelFrame
  <2>3. \/ UNCHANGED job /\ pc["loop"] \in CancelArm /\ pc'["loop"] \in CancelArm
        \/ /\ pc["loop"] \notin CancelArm \cup {"terminal"}
           /\ pc'["loop"] \notin CancelArm \cup {"terminal"}
    BY <1>1, CancelFrame DEF CancelArm
  <2> QED
    BY <2>1, <2>2, <2>3, TermKeep
<1>2. CASE CancelTake
  <2>1. /\ UNCHANGED <<terminals, outcome>> /\ job'.held = CancelHeld
        /\ pc["loop"] = "take" /\ pc'["loop"] = "clear" /\ running' = None
    BY <1>2, CancelTakes, TakeIdentity
  <2>2. \A p \in Prompts : phase'[p] = "unborn" <=> phase[p] = "unborn"
    <3>1. phase' = phase \/ phase' = Abort(running)
      BY <1>2, TakeIdentity
    <3> QED
      BY <3>1, AbortFrame, Types DEF Live
  <2>3. Once' /\ Closed' = Closed /\ Closed \subseteq Prompts
    BY <2>1, ClosedPrompts DEF Once, Closed, TermInv
  <2>4. \A p \in CancelHeld : p \in Prompts /\ (phase[p] # "unborn" => p = running)
    <3> TAKE p \in CancelHeld
    <3>1. PICK k \in 1..Len(queue) : queue[k].id = p
      BY <1>2, CancelTakes DEF Ids
    <3> QED
      BY <3>1, IdsInPrompts DEF QueueInv, WaitingUnborn
  <2>5. job'.pinned # None =>
          job'.pinned \in job'.held /\ phase'[job'.pinned] # "unborn" /\ job'.mode # "rewind"
    <3> SUFFICES ASSUME job'.pinned # None
                 PROVE  /\ job'.pinned \in job'.held /\ phase'[job'.pinned] # "unborn"
                        /\ job'.mode # "rewind"
      OBVIOUS
    <3>1. job'.mode # "rewind" /\ job'.pinned = running /\ phase' = phase /\ running \in CancelHeld
      BY <1>2, TakeIdentity
    <3> QED
      BY <2>1, <3>1 DEF TermInv
  <2>6. job'.mode # "rewind" => \A p \in job'.held : phase'[p] # "unborn" => p = job'.pinned
    BY <1>2, <2>1, <2>4, TakeIdentity
  <2>7. \A p \in Closed : phase'[p] # "unborn" /\ outcome'[p] \in Final
    BY <2>1, <2>2, <2>3 DEF TermInv
  <2>8. \A p \in Prompts : phase'[p] # "unborn" /\ outcome'[p] \in Final => p \in Closed
    BY <2>1, <2>2 DEF TermInv
  <2> QED
    BY <2>1, <2>3, <2>5, <2>6, <2>7, <2>8 DEF TermInv
<1>3. CASE CancelSettle
  <2>0. /\ pc["loop"] = "settle" /\ pc["loop"] \in CancelArm
        /\ pc'["loop"] \notin CancelArm \cup {"terminal"} /\ UNCHANGED <<phase, running>>
    BY <1>3, SettleFrame DEF CancelArm
  <2>1. /\ \A p \in Prompts : p \notin job.held => outcome'[p] = outcome[p]
        /\ \A p \in job.held :
             outcome'[p] = IF job.mode = "rewind" THEN "rewound" ELSE "cancelled"
    BY <1>3, SettleFrame, Types DEF Answer
  <2>2. \A p \in job.held : p \in Prompts /\ p \notin Closed
    BY Types DEF ClientInv, TermInv, Final
  <2>3. \A p \in job.held : phase[p] # "unborn" /\ outcome'[p] \in Final => p = job.pinned
    BY <2>0, <2>1 DEF TermInv, Final
  <2>4. \A p \in Closed : p \in Prompts /\ p \notin job.held
    BY <2>2, ClosedPrompts
  <2>5. CASE job.pinned = None
    <3>1. terminals' = terminals
      BY <1>3, <2>5, SettleFrame
    <3>2. Closed' = Closed /\ Once'
      BY <3>1 DEF Closed, Once, TermInv
    <3>3. \A p \in Closed : phase[p] # "unborn" /\ outcome'[p] \in Final
      BY <2>1, <2>4 DEF TermInv
    <3>4. \A p \in Prompts : phase[p] # "unborn" /\ outcome'[p] \in Final => p \in Closed
      BY <2>0, <2>1, <2>3, <2>5, NoneFresh DEF TermInv
    <3> QED
      BY <2>0, <3>2, <3>3, <3>4 DEF TermInv
  <2>6. CASE job.pinned # None
    <3>1. terminals' = Append(terminals, job.pinned)
      BY <1>3, <2>6, SettleFrame
    <3>2. job.pinned \in job.held /\ phase[job.pinned] # "unborn" /\ job.mode # "rewind"
      BY <2>0, <2>6 DEF TermInv
    <3>3. Closed' = Closed \cup {job.pinned} /\ Once'
      BY <2>2, <3>1, <3>2, ClosedAppend DEF TermInv
    <3>4. \A p \in Closed' : phase[p] # "unborn" /\ outcome'[p] \in Final
      <4>1. \A p \in Closed : phase[p] # "unborn" /\ outcome'[p] \in Final
        BY <2>1, <2>4 DEF TermInv
      <4>2. outcome'[job.pinned] \in Final
        BY <2>1, <3>2 DEF Final
      <4> QED
        BY <3>2, <3>3, <4>1, <4>2
    <3>5. \A p \in Prompts : phase[p] # "unborn" /\ outcome'[p] \in Final => p \in Closed'
      BY <2>0, <2>1, <2>3, <3>3 DEF TermInv
    <3> QED
      BY <2>0, <3>3, <3>4, <3>5 DEF TermInv
  <2> QED
    BY <2>5, <2>6
<1> QED
  BY <1>1, <1>2, <1>3

\* The completion arm closes the turn it answered.
LEMMA CompletionTerm ==
  ASSUME Inv, QueueInv, TaskInv, ClientInv, TermInv,
         \/ Completion \/ CompletionUnset \/ CompletionPop \/ CompletionTerminal
         \/ CompletionSweep \/ CompletionTurnEnd \/ CompletionStrand \/ CompletionFlush
  PROVE  TermInv'
<1>1. CASE Completion
  BY <1>1, ReceiveFrame, TermKeep DEF CancelArm
<1>2. CASE CompletionPop
  <2>0. /\ pc["loop"] = "pop" /\ UNCHANGED <<job, phase, terminals>> /\ running' \in {running, None}
    BY <1>2, PopFrame DEF turnVars, RunningAfter
  <2>1. CASE Owned
    <3>1. /\ pc'["loop"] = "terminal" /\ outcome' = Answer({job.cur}, "turn")
      BY <1>2, <2>1, PopFrame
    <3>2. queue # <<>> /\ queue[1].id = job.cur /\ job.cur \in Prompts /\ outcome[job.cur] \notin Final
      <4>1. queue # <<>> /\ queue[1].id = job.cur
        BY <2>1 DEF Owned
      <4>2. 1 \in 1..Len(queue)
        BY <4>1, Types
      <4> QED
        BY <4>1, <4>2, IdsInPrompts DEF ClientInv, Final
    <3>3. job.cur \notin Closed /\ Closed' = Closed /\ Closed \subseteq Prompts /\ Once'
      BY <2>0, <3>2, ClosedPrompts DEF TermInv, Closed, Once
    <3>4. /\ outcome'[job.cur] = "turn"
          /\ \A p \in Prompts : p # job.cur => outcome'[p] = outcome[p]
      BY <3>1, <3>2 DEF Answer
    <3>5. \A p \in Closed : phase[p] # "unborn" /\ outcome'[p] \in Final
      BY <3>3, <3>4 DEF TermInv
    <3>6. \A p \in Prompts : phase[p] # "unborn" /\ outcome'[p] \in Final =>
            p \in Closed \/ p = job.cur
      BY <2>0, <3>4 DEF TermInv
    <3>7. running' # None => phase[running'] # "unborn"
      BY <2>0 DEF TermInv
    <3>8. "terminal" \notin CancelArm
      BY DEF CancelArm
    <3> QED
      BY <2>0, <3>1, <3>3, <3>4, <3>5, <3>6, <3>7, <3>8 DEF TermInv
  <2>2. CASE ~Owned
    <3>1. pc'["loop"] = "sweep" /\ outcome' = outcome
      BY <1>2, <2>2, PopFrame
    <3> QED
      BY <2>0, <3>1, TermKeep DEF CancelArm
  <2> QED
    BY <2>1, <2>2
<1>3. CASE CompletionTerminal
  <2>1. /\ pc["loop"] = "terminal" /\ pc'["loop"] = "sweep" /\ terminals' = Append(terminals, job.cur)
        /\ UNCHANGED <<running, phase, outcome, job>>
    BY <1>3, GotoLoop DEF CompletionTerminal, At, turnVars
  <2>2. job.cur \in Prompts /\ phase[job.cur] = "ended"
    BY <2>1, Types DEF TaskInv, EndedInv, FinishArm
  <2>3. Once' /\ Closed' = Closed \cup {job.cur}
    BY <2>1, <2>2, ClosedAppend DEF TermInv
  <2>4. \A p \in Closed' : phase[p] # "unborn" /\ outcome[p] \in Final
    BY <2>1, <2>2, <2>3 DEF TermInv, Final
  <2>5. \A p \in Prompts : phase[p] # "unborn" /\ outcome[p] \in Final => p \in Closed'
    BY <2>1, <2>3 DEF TermInv
  <2>6. "sweep" \notin CancelArm
    BY DEF CancelArm
  <2> QED
    BY <2>1, <2>3, <2>4, <2>5, <2>6 DEF TermInv
<1>4. CASE CompletionUnset \/ CompletionSweep \/ CompletionTurnEnd \/ CompletionStrand
  <2>1. terminals' = terminals /\ pc["loop"] # "terminal"
    BY <1>4 DEF CompletionUnset, CompletionSweep, CompletionTurnEnd, CompletionStrand, outVars, At
  <2>2. UNCHANGED <<running, phase, outcome>> /\ pc["loop"] \notin CancelArm \cup {"terminal"}
        /\ pc'["loop"] \notin CancelArm \cup {"terminal"}
    BY <1>4, <2>1, TailFrame DEF CancelArm
  <2> QED
    BY <2>1, <2>2, TermKeep
<1>5. CASE CompletionFlush
  <2>1. UNCHANGED <<running, phase, outcome, terminals>> /\ pc["loop"] \notin CancelArm \cup {"terminal"}
        /\ pc'["loop"] \notin CancelArm \cup {"terminal"}
    BY <1>5, FlushFrame DEF CancelArm, turnVars, outVars
  <2> QED
    BY <2>1, TermKeep
<1> QED
  BY <1>1, <1>2, <1>3, <1>4, <1>5

\* Every step preserves the terminal invariant.
LEMMA TermStep ==
  ASSUME Inv, QueueInv, TaskInv, PinInv, ClientInv, TermInv, [Next]_vars
  PROVE  TermInv'
<1>1. CASE UNCHANGED vars \/ OrphanDrop
  BY <1>1, TermKeep DEF vars, OrphanDrop, stateVars, turnVars, loopVars, outVars
<1>2. CASE Commands \/ InterjectFallback \/ Drain
  <2>1. UNCHANGED <<running, phase, terminals>> /\ pc["loop"] \notin CancelArm \cup {"terminal"}
        /\ pc'["loop"] \notin CancelArm \cup {"terminal"}
    BY <1>2, CommandFrame DEF CancelArm, turnVars
  <2> QED
    BY <1>2, <2>1, CommandAnswers, TermKeep
<1>3. CASE ResumeQueues \/ McpReady
  BY <1>3, ArrivalFrame, TermKeep DEF turnVars
<1>4. CASE Handlers /\ ~(InterjectFallback \/ Drain)
  BY <1>4, CancelTerm, CompletionTerm DEF Handlers
<1>5. CASE \E p \in Procs : Start(p)
  <2>1. PICK p \in Procs : Start(p)
    BY <1>5
  <2>2. /\ UNCHANGED <<terminals, outcome>>
        /\ \/ UNCHANGED job /\ pc'["loop"] = pc["loop"]
           \/ /\ pc["loop"] \notin CancelArm \cup {"terminal"}
              /\ pc'["loop"] \notin CancelArm \cup {"terminal"}
    BY <2>1, StartFrame DEF CancelArm
  <2>3. CASE UNCHANGED <<running, phase>>
    BY <2>2, <2>3, TermKeep
  <2>4. CASE /\ running' \in Ids(queue) /\ phase[running'] = "unborn" /\ phase'[running'] = "spawned"
             /\ \A o \in Prompts : o # running' => phase'[o] = phase[o]
    BY <2>2, <2>4, TermKeep
  <2> QED
    BY <2>1, <2>3, <2>4, StartFrame
<1>6. CASE \E p \in Prompts : Turn(p)
  <2>1. PICK p \in Prompts : Turn(p)
    BY <1>6
  <2>2. \A o \in Prompts : phase'[o] = "unborn" <=> phase[o] = "unborn"
    BY <2>1, TurnFrame DEF Live
  <2>3. UNCHANGED <<running, terminals, outcome, job, pc>>
    BY <2>1, TurnFrame DEF loopVars, outVars
  <2> QED
    BY <2>2, <2>3, TermKeep
<1> QED
  BY <1>1, <1>2, <1>3, <1>4, <1>5, <1>6 DEF Next

-----------------------------------------------------------------------------
(* The queue is never left without a turn.                                 *)

\* At rest, and before the last step of a completion, a non-empty queue has a
\* turn or a starter on its way to give it one.
StallInv ==
  pc["loop"] \in {"idle", "drain"} /\ queue # <<>> =>
    running # None \/ \E s \in Starters : pc[s] \in {"start", "spawn"}

\* What is copied from an empty queue is empty.
LEMMA CopiedEmpty ==
  ASSUME NEW S, NEW q \in Seq(S), NEW new \in Seq(S), Copied(new, q), new # <<>>
  PROVE  q # <<>>
<1>1. 1 \in 1..Len(new)
  OBVIOUS
<1>2. PICK k \in 1..Len(q) : new[1].id = q[k].id
  BY <1>1 DEF Copied
<1> QED
  BY <1>2

\* A command after which the loop rests has queued nothing.
LEMMA CommandRest ==
  ASSUME Inv, QueueInv, Commands \/ InterjectFallback \/ Drain,
         pc'["loop"] \in {"idle", "drain"}
  PROVE  Copied(queue', queue) /\ pc["loop"] \in {"idle", "drain"}
<1>1. ASSUME NEW l \in {"start", "cancel"}, Goto("loop", l) PROVE FALSE
  BY <1>1, GotoLoop
<1>2. ~InterjectFallback
  BY <1>1 DEF InterjectFallback
<1>3. ~ \E kind \in PromptKinds, now \in SendNow, o \in Owners : Prompt(kind, now, o)
  BY <1>1 DEF Prompt
<1>4. pc["loop"] \in {"idle", "drain"}
  BY <1>2, CommandFrame DEF Commands, Drain, CancelCommand, Interject, Notify, RemoveRow,
       PromoteRow, EditRow, ReorderRows, ClearRows, Prompt, Ready, At
<1>5. CASE queue' = queue
  BY <1>4, <1>5, SweptSelf DEF Swept
<1>6. CASE \/ \E id \in Prompts, v \in 0..MaxEdits, o \in Owners \cup {"any"} : RemoveRow(id, v, o)
           \/ \E o \in Owners \cup {"any"} : ClearRows(o)
  BY <1>4, <1>6, RemovalsAnswered
<1>7. CASE \/ \E id \in Prompts, v \in 0..MaxEdits, o \in Owners \cup {"any"} : PromoteRow(id, v, o)
           \/ \E id \in Prompts : EditRow(id)
           \/ ReorderRows
  BY <1>4, <1>7, EditsCopied
<1>8. CASE Drain
  BY <1>1, <1>5, <1>8 DEF Drain
<1> QED
  BY <1>2, <1>3, <1>5, <1>6, <1>7, <1>8 DEF Commands, CancelCommand, Interject, Notify, stateVars

\* Every step keeps the queue served.
LEMMA StallStep ==
  ASSUME Inv, Inv', QueueInv, StallInv, [Next]_vars
  PROVE  StallInv'
<1> DEFINE Resting == pc["loop"] \in {"idle", "drain"}
<1>0. queue \in Seq(Item) /\ queue' \in Seq(Item)
  BY DEF Inv, TypeOK, StateType
<1>1. ASSUME running' = running, \A s \in Starters : pc'[s] = pc[s],
             pc'["loop"] \in {"idle", "drain"} => Resting /\ Copied(queue', queue)
      PROVE  StallInv'
  <2>1. pc'["loop"] \in {"idle", "drain"} /\ queue' # <<>> => Resting /\ queue # <<>>
    BY <1>0, <1>1, CopiedEmpty
  <2> QED
    BY <1>1, <2>1 DEF StallInv
<1>2. CASE UNCHANGED vars \/ OrphanDrop
  <2>1. UNCHANGED <<queue, running, pc>>
    BY <1>2 DEF vars, OrphanDrop, stateVars, loopVars
  <2> QED
    BY <2>1 DEF StallInv
<1>3. CASE Commands \/ InterjectFallback \/ Drain
  BY <1>1, <1>3, CommandFrame, CommandRest
<1>4. CASE ResumeQueues \/ McpReady
  <2>1. \E s \in Starters : pc'[s] \in {"start", "spawn"}
    BY <1>4, ArrivalFrame
  <2> QED
    BY <2>1 DEF StallInv
<1>5. CASE Handlers /\ ~(InterjectFallback \/ Drain)
  <2>1. ASSUME NEW l \in PCs \ {"idle", "drain"}, Goto("loop", l) PROVE StallInv'
    BY <2>1, GotoLoop DEF StallInv
  <2>2. \E l \in PCs \ {"idle", "drain"} : Goto("loop", l)
    BY <1>5 DEF Handlers, CancelBegin, CancelTake, CancelClear, CancelAbort, CancelSettle,
         CancelRelease, Completion, CompletionNext, CompletionUnset, CompletionPop,
         CompletionTerminal, CompletionSweep, CompletionTurnEnd, CompletionStrand,
         CompletionFlush, PCs
  <2> QED
    BY <2>1, <2>2
<1>6. CASE \E p \in Procs : Start(p)
  <2>0. PICK p \in Procs : Start(p)
    BY <1>6
  <2>1. p = "loop" \/ p \in Starters
    BY DEF Procs
  <2>2. CASE StartSpawn(p)
    <3>1. running' \in Prompts
      BY <2>2, IdsInPrompts, NoneFresh DEF StartSpawn, Inv, LockInv
    <3> QED
      BY <3>1, NoneFresh DEF StallInv
  <2>3. CASE StartCheck(p) /\ (running # None \/ queue = <<>>)
    BY <2>3 DEF StartCheck, StallInv
  <2>4. CASE StartCheck(p) /\ ~(running # None \/ queue = <<>>)
    <3>1. Goto(p, "spawn")
      BY <2>4 DEF StartCheck
    <3>2. CASE p = "loop"
      BY <3>1, <3>2, GotoLoop DEF StallInv
    <3>3. CASE p \in Starters
      BY <3>1, <3>3, GotoStarter DEF StallInv
    <3> QED
      BY <2>1, <3>2, <3>3
  <2> QED
    BY <2>0, <2>2, <2>3, <2>4 DEF Start
<1>7. CASE \E p \in Prompts : Turn(p)
  <2>1. UNCHANGED <<running, pc>> /\ Copied(queue', queue)
    BY <1>7, TurnFrame, ConsumesSwept DEF loopVars, Swept
  <2> QED
    BY <1>1, <2>1
<1> QED
  BY <1>2, <1>3, <1>4, <1>5, <1>6, <1>7 DEF Next

-----------------------------------------------------------------------------
(* Interjections.                                                          *)

CancelTail == {"take", "clear", "abort", "settle", "release"}
FinishTail == {"terminal", "sweep", "turnend", "strand"}

\* While an interjection is buffered every completion under way is that of
\* the turn it was meant for, so none of them is stale.
StaleInv ==
  /\ \A i, j \in 1..Len(completions) : completions[i] = completions[j] => i = j
  /\ pc["loop"] \in {"unset", "pop"} => \A i \in 1..Len(completions) : completions[i] # job.cur
  /\ pc["loop"] \in CancelTail => interj = 0
  /\ \A i \in 1..Len(completions) : completions[i] = running \/ interj = 0
  /\ pc["loop"] \in {"unset", "pop"} => job.cur = running \/ interj = 0
  /\ pc["loop"] \in FinishTail => outcome[job.cur] = "turn" \/ interj = 0

\* A buffered interjection has a turn, one being promoted, or the handler of
\* its turn's completion.
KeptInv ==
  interj > 0 => running # None \/ lock # "free" \/ pc["loop"] \in FinishTail

\* An interjection is buffered by its command only, while a turn is pinned and
\* no completion waits.
LEMMA CommandInbox ==
  ASSUME Inv, Commands \/ InterjectFallback \/ Drain
  PROVE  /\ \/ interj' = interj
            \/ interj' = interj + 1 /\ pin # None /\ completions = <<>> /\ pc["loop"] = "idle"
         /\ suppressed' => suppressed
<1>1. CASE Interject
  BY <1>1 DEF Interject, Ready, At, stateVars
<1>2. CASE \E kind \in PromptKinds, now \in SendNow, o \in Owners : Prompt(kind, now, o)
  BY <1>2, Types DEF Prompt, inboxVars
<1>3. CASE UNCHANGED <<interj, suppressed>>
  BY <1>3
<1> QED
  BY <1>1, <1>2, <1>3 DEF Commands, CancelCommand, Notify, RemoveRow, PromoteRow, EditRow,
       ReorderRows, ClearRows, InterjectFallback, QueueFallback, Drain, EditFrame,
       stateVars, inboxVars

\* The tail of a completion flushes the buffer or leaves it.
LEMMA TailInbox ==
  ASSUME Inv,
         \/ CompletionUnset \/ CompletionTerminal \/ CompletionSweep \/ CompletionTurnEnd
         \/ CompletionStrand
  PROVE  interj' = interj \/ (interj' = 0 /\ pc["loop"] = "strand")
BY DEF CompletionUnset, CompletionTerminal, CompletionSweep, CompletionTurnEnd,
       CompletionStrand, At, inboxVars

\* Steps that buffer no interjection, receive no completion and neither enter
\* nor move an arm.
LEMMA StaleKeep ==
  ASSUME Inv, TaskInv, StaleInv, UNCHANGED completions, interj' = interj \/ interj' = 0,
         running' = running \/ running = None \/ interj = 0,
         \/ UNCHANGED <<job, outcome>> /\ pc'["loop"] = pc["loop"]
         \/ pc'["loop"] \notin CancelTail \cup FinishTail \cup {"unset", "pop"}
         \/ interj' = 0 /\ pc'["loop"] \notin {"unset", "pop"}
  PROVE  StaleInv'
<1>1. \A i \in 1..Len(completions) : completions[i] \in Prompts /\ completions[i] # None
  BY Types, NoneFresh
<1>2. \A i \in 1..Len(completions) : completions[i] = running' \/ interj' = 0
  BY <1>1 DEF StaleInv
<1>3. pc["loop"] \in {"unset", "pop"} => job.cur = running' \/ interj' = 0
  BY DEF StaleInv, TaskInv, EndedInv, FinishArm
<1> QED
  BY <1>2, <1>3 DEF StaleInv

\* Turn tasks: a task completes once, and only the running one with a buffer.
LEMMA TurnStale ==
  ASSUME Inv, TaskInv, StaleInv, NEW p \in Prompts, Turn(p)
  PROVE  StaleInv'
<1>0. UNCHANGED <<running, job, outcome, pc>> /\ interj' \in {interj, 0}
  BY TurnFrame DEF loopVars, outVars
<1>1. CASE completions' = completions
  BY <1>0, <1>1, StaleKeep
<1>2. CASE phase[p] \in Live /\ phase'[p] = "ended" /\ completions' = Append(completions, p)
  <2>1. /\ Len(completions') = Len(completions) + 1 /\ Len(completions) \in Nat
        /\ \A i \in 1..Len(completions) : completions'[i] = completions[i]
        /\ completions'[Len(completions) + 1] = p
    BY <1>2, Types
  <2>2. \A i \in 1..Len(completions') : i \in 1..Len(completions) \/ i = Len(completions) + 1
    BY <2>1
  <2>3. \A i \in 1..Len(completions) : completions[i] # p
    BY <1>2 DEF TaskInv, EndedInv, Live
  <2>4. pc["loop"] \in {"unset", "pop"} => job.cur # p
    BY <1>2 DEF TaskInv, EndedInv, Live, FinishArm
  <2>5. p = running \/ interj = 0
    BY <1>2 DEF TaskInv, LiveTurnOwned, StaleInv, CancelTail
  <2>6. \A i, j \in 1..Len(completions') : completions'[i] = completions'[j] => i = j
    BY <2>1, <2>2, <2>3 DEF StaleInv
  <2>7. pc["loop"] \in {"unset", "pop"} => \A i \in 1..Len(completions') : completions'[i] # job.cur
    BY <2>1, <2>2, <2>4 DEF StaleInv
  <2>8. \A i \in 1..Len(completions') : completions'[i] = running \/ interj' = 0
    BY <1>0, <2>1, <2>2, <2>5 DEF StaleInv
  <2> QED
    BY <1>0, <2>6, <2>7, <2>8 DEF StaleInv
<1> QED
  BY <1>1, <1>2, TurnFrame

\* The completion arm: a stale completion finds an empty buffer.
LEMMA CompletionStale ==
  ASSUME Inv, QueueInv, TaskInv, StaleInv,
         \/ Completion \/ CompletionUnset \/ CompletionPop \/ CompletionTerminal
         \/ CompletionSweep \/ CompletionTurnEnd \/ CompletionStrand \/ CompletionFlush
  PROVE  StaleInv'
<1>1. CASE Completion
  <2>0. /\ UNCHANGED <<running, interj>> /\ job'.cur = completions[1]
        /\ completions' = Tail(completions) /\ pc'["loop"] \in {"unset", "pop"}
    BY <1>1, ReceiveFrame
  <2>1. /\ 1 \in 1..Len(completions) /\ Len(completions) \in Nat
        /\ Len(completions') = Len(completions) - 1
        /\ \A i \in 1..Len(completions') :
             /\ i + 1 \in 1..Len(completions) /\ i + 1 # 1 /\ i \in Nat
             /\ completions'[i] = completions[i + 1]
    <3>1. completions \in Seq(Prompts) /\ completions # <<>> /\ completions' = Tail(completions)
      BY <1>1, ReceiveFrame, Types
    <3>2. 1 \in 1..Len(completions) /\ Len(completions) \in Nat
      BY <3>1
    <3>3. /\ Len(Tail(completions)) = Len(completions) - 1
          /\ \A i \in 1..(Len(completions) - 1) : Tail(completions)[i] = completions[i + 1]
      BY <3>1
    <3> QED
      BY <3>1, <3>2, <3>3
  <2>2. \A i, j \in 1..Len(completions') : completions'[i] = completions'[j] => i = j
    BY <2>1 DEF StaleInv
  <2>3. \A i \in 1..Len(completions') : completions'[i] # completions[1]
    BY <2>1 DEF StaleInv
  <2>4. \A i \in 1..Len(completions') : completions'[i] = running \/ interj = 0
    BY <2>1 DEF StaleInv
  <2>5. completions[1] = running \/ interj = 0
    BY <2>1 DEF StaleInv
  <2> QED
    BY <2>0, <2>2, <2>3, <2>4, <2>5 DEF StaleInv, CancelTail, FinishTail
<1>2. CASE CompletionPop
  <2>0. /\ pc["loop"] = "pop" /\ UNCHANGED <<job, completions, interj>>
        /\ job.cur \in Prompts /\ job.cur # None /\ running' = RunningAfter
    BY <1>2, PopFrame, Types DEF turnVars, TaskInv, EndedInv, FinishArm
  <2>1. running # None => queue # <<>> /\ queue[1].id = running
    BY DEF QueueInv, Fronted
  <2>2. \A i \in 1..Len(completions) : completions[i] = running' \/ interj = 0
    <3> TAKE i \in 1..Len(completions)
    <3>1. completions[i] # job.cur /\ (completions[i] = running \/ interj = 0)
      BY <2>0 DEF StaleInv
    <3>2. running' = running \/ running = job.cur \/ running = None
      BY <2>0, <2>1 DEF RunningAfter, Owned
    <3>3. completions[i] # None
      BY Types, NoneFresh
    <3> QED
      BY <3>1, <3>2, <3>3
  <2>3. pc'["loop"] \in {"terminal", "sweep"}
    BY <1>2, PopFrame
  <2>4. outcome'[job.cur] = "turn" \/ interj = 0
    <3>1. CASE Owned
      BY <1>2, <2>0, <3>1, PopFrame DEF Answer
    <3>2. CASE ~Owned
      BY <2>0, <2>1, <3>2 DEF Owned, StaleInv
    <3> QED
      BY <3>1, <3>2
  <2> QED
    BY <2>0, <2>2, <2>3, <2>4 DEF StaleInv, CancelTail
<1>3. CASE CompletionUnset \/ CompletionTerminal \/ CompletionSweep \/ CompletionTurnEnd
           \/ CompletionStrand
  <2>1. /\ UNCHANGED <<running, completions, outcome>> /\ job'.cur = job.cur
        /\ interj' = interj \/ interj' = 0
    BY <1>3, TailFrame, TailInbox
  <2>2. \/ pc["loop"] = "unset" /\ pc'["loop"] = "pop"
        \/ pc["loop"] \in FinishTail /\ pc'["loop"] \in FinishTail
        \/ pc'["loop"] \in {"start", "flush"}
    BY <1>3, TailFrame DEF FinishTail
  <2> QED
    BY <2>1, <2>2 DEF StaleInv, FinishTail, CancelTail
<1>4. CASE CompletionFlush
  BY <1>4, FlushFrame, StaleKeep DEF turnVars, CancelTail, FinishTail
<1> QED
  BY <1>1, <1>2, <1>3, <1>4

\* cancel_running_task empties the buffer before it takes the turn.
LEMMA CancelStale ==
  ASSUME Inv, QueueInv, PinInv, TaskInv, StaleInv,
         \/ CancelBegin \/ CancelTake \/ CancelClear \/ CancelAbort \/ CancelSettle
         \/ CancelRelease
  PROVE  StaleInv'
<1>1. CASE CancelBegin \/ CancelClear \/ CancelAbort \/ CancelRelease
  <2>1. /\ UNCHANGED <<running, completions>> /\ interj' = 0
        /\ pc'["loop"] \notin {"unset", "pop"}
    BY <1>1, CancelFrame DEF StaleInv, CancelTail
  <2> QED
    BY <2>1, StaleKeep
<1>2. CASE CancelTake
  <2>1. interj = 0 /\ UNCHANGED <<interj, completions>> /\ pc'["loop"] = "clear"
    BY <1>2, CancelTakes, TakeIdentity DEF StaleInv, CancelTail
  <2> QED
    BY <2>1, StaleKeep
<1>3. CASE CancelSettle
  <2>1. interj = 0 /\ UNCHANGED <<interj, completions, running>> /\ pc'["loop"] \notin {"unset", "pop"}
    BY <1>3, SettleFrame DEF StaleInv, CancelTail
  <2> QED
    BY <2>1, StaleKeep
<1> QED
  BY <1>1, <1>2, <1>3

\* Every step preserves the order of interjections and completions.
LEMMA StaleStep ==
  ASSUME Inv, QueueInv, TaskInv, PinInv, StaleInv, [Next]_vars
  PROVE  StaleInv'
<1>1. CASE UNCHANGED vars \/ OrphanDrop
  BY <1>1, StaleKeep DEF vars, OrphanDrop, stateVars, turnVars, inboxVars, loopVars, outVars
<1>2. CASE Commands \/ InterjectFallback \/ Drain
  <2>1. /\ UNCHANGED <<running, completions>>
        /\ pc'["loop"] \notin CancelTail \cup FinishTail \cup {"unset", "pop"}
    BY <1>2, CommandFrame DEF turnVars, CancelTail, FinishTail
  <2>2. CASE interj' = interj
    BY <2>1, <2>2, StaleKeep
  <2>3. CASE completions = <<>>
    BY <2>1, <2>3 DEF StaleInv
  <2> QED
    BY <1>2, <2>2, <2>3, CommandInbox
<1>3. CASE ResumeQueues \/ McpReady
  BY <1>3, ArrivalFrame, StaleKeep DEF turnVars
<1>4. CASE Handlers /\ ~(InterjectFallback \/ Drain)
  BY <1>4, CancelStale, CompletionStale DEF Handlers
<1>5. CASE \E p \in Procs : Start(p)
  <2>1. PICK p \in Procs : Start(p)
    BY <1>5
  <2> QED
    BY <2>1, StartFrame, StaleKeep DEF CancelTail, FinishTail
<1>6. CASE \E p \in Prompts : Turn(p)
  BY <1>6, TurnStale
<1> QED
  BY <1>1, <1>2, <1>3, <1>4, <1>5, <1>6 DEF Next

\* Every step keeps the buffered interjections in somebody's hands.
LEMMA KeptStep ==
  ASSUME Inv, QueueInv, TaskInv, PinInv, StaleInv, KeptInv, [Next]_vars
  PROVE  KeptInv'
<1> USE Types
<1>1. CASE UNCHANGED vars \/ OrphanDrop
  BY <1>1 DEF KeptInv, vars, OrphanDrop, stateVars, inboxVars, loopVars
<1>2. CASE Commands \/ InterjectFallback \/ Drain
  <2>1. UNCHANGED <<running, lock>> /\ pc["loop"] \in {"idle", "fallback", "drain"}
    BY <1>2, CommandFrame
  <2>2. CASE interj' = interj
    BY <2>1, <2>2 DEF KeptInv, FinishTail
  <2>3. CASE pin # None
    BY <2>1, <2>3 DEF KeptInv, PinInv, CancelArm
  <2> QED
    BY <1>2, <2>2, <2>3, CommandInbox
<1>3. CASE ResumeQueues \/ McpReady
  BY <1>3, ArrivalFrame DEF KeptInv
<1>4. CASE Completion
  BY <1>4, ReceiveFrame DEF KeptInv, FinishTail
<1>5. CASE CompletionPop
  BY <1>5, PopFrame DEF KeptInv, FinishTail
<1>6. CASE CompletionUnset \/ CompletionTerminal \/ CompletionSweep \/ CompletionTurnEnd
           \/ CompletionStrand
  <2>1. UNCHANGED <<running, lock>>
    BY <1>6, TailFrame
  <2>2. CASE CompletionStrand
    BY <2>2 DEF CompletionStrand, KeptInv
  <2>3. CASE ~CompletionStrand
    <3>1. interj' = interj /\ (pc["loop"] \in FinishTail => pc'["loop"] \in FinishTail)
      <4>1. pc["loop"] # "strand"
        BY <1>6, <2>3 DEF CompletionUnset, CompletionTerminal, CompletionSweep,
             CompletionTurnEnd, At
      <4> QED
        BY <1>6, <4>1, TailInbox, TailFrame DEF FinishTail
    <3> QED
      BY <2>1, <3>1 DEF KeptInv
  <2> QED
    BY <2>2, <2>3
<1>7. CASE CompletionFlush
  BY <1>7, FlushFrame DEF KeptInv, FinishTail
<1>8. CASE CancelBegin \/ CancelClear \/ CancelAbort \/ CancelRelease
  <2>1. pc["loop"] \notin FinishTail /\ UNCHANGED <<running, lock>>
    BY <1>8, CancelFrame DEF FinishTail
  <2>2. interj' = interj \/ interj' = 0
    BY <1>8, CancelFrame
  <2> QED
    BY <2>1, <2>2 DEF KeptInv
<1>9. CASE CancelTake \/ CancelSettle
  <2>1. pc["loop"] \in {"take", "settle"} /\ interj' = interj
    BY <1>9, CancelTakes, TakeIdentity, SettleFrame
  <2>2. interj' = 0
    BY <2>1 DEF StaleInv, CancelTail
  <2> QED
    BY <2>2 DEF KeptInv
<1>10. CASE \E p \in Procs : Start(p)
  <2>0. PICK p \in Procs : Start(p)
    BY <1>10
  <2>1. interj' = interj /\ (pc["loop"] \in FinishTail => pc'["loop"] \in FinishTail)
    BY <2>0, StartFrame DEF FinishTail
  <2>2. CASE StartSpawn(p)
    <3>1. running' \in Prompts
      BY <2>2, IdsInPrompts, NoneFresh DEF StartSpawn, Inv, LockInv
    <3> QED
      BY <3>1, NoneFresh DEF KeptInv
  <2>3. CASE StartCheck(p)
    <3>1. running' = running /\ (lock' = lock \/ lock' # "free")
      BY <2>3, NoneFresh DEF StartCheck
    <3> QED
      BY <2>1, <3>1 DEF KeptInv
  <2> QED
    BY <2>0, <2>2, <2>3 DEF Start
<1>11. CASE \E p \in Prompts : Turn(p)
  BY <1>11, TurnFrame DEF KeptInv, loopVars
<1> QED
  BY <1>1, <1>2, <1>3, <1>4, <1>5, <1>6, <1>7, <1>8, <1>9, <1>10, <1>11 DEF Next, Handlers

-----------------------------------------------------------------------------
(* Blocking waits.                                                         *)

\* Outside the two steps between the taking of a task and the reset of the
\* depth, the depth counts the running turn's wait and no other.
WaitInv ==
  pc["loop"] \notin {"clear", "abort"} =>
    depth <= 1 /\ (depth > 0 => running # None /\ phase[running] = "wait")

\* What a step of a turn task does to the depth.
LEMMA TurnDepth ==
  ASSUME Inv, NEW p \in Prompts, Turn(p)
  PROVE  \/ depth' = depth /\ (phase'[p] = phase[p] \/ phase[p] # "wait")
         \/ phase[p] = "loop" /\ phase'[p] = "wait" /\ depth' = depth + 1
         \/ phase[p] = "wait" /\ phase'[p] = "loop" /\ depth' = Saturating(depth)
<1>1. CASE TurnWait(p) \/ TurnResume(p)
  BY <1>1, Types DEF TurnWait, TurnResume
<1>2. CASE TurnBegin(p) \/ TurnFinal(p) \/ TurnUnpin(p) \/ TurnComplete(p) \/ TurnDropped(p)
  BY <1>2 DEF TurnBegin, TurnFinal, TurnUnpin, TurnComplete, TurnDropped
<1>3. CASE TurnEmit(p) \/ TurnDrain(p) \/ TurnGoal(p) \/ \E w \in Prompts : TurnConsumes(p, w)
  BY <1>3 DEF TurnEmit, TurnDrain, TurnGoal, TurnConsumes, turnVars
<1> QED
  BY <1>1, <1>2, <1>3 DEF Turn

\* Every step keeps the depth true to the running turn.
LEMMA WaitStep ==
  ASSUME Inv, QueueInv, TaskInv, PinInv, WaitInv, [Next]_vars
  PROVE  WaitInv'
<1> USE Types
<1>0. ASSUME UNCHANGED <<running, phase, depth>>,
             pc["loop"] \in {"clear", "abort"} => pc'["loop"] \in {"clear", "abort"}
      PROVE  WaitInv'
  BY <1>0 DEF WaitInv
<1>1. CASE UNCHANGED vars
  BY <1>0, <1>1 DEF vars, stateVars, turnVars, loopVars
<1>2. CASE OrphanDrop
  <2>1. UNCHANGED <<running, phase, pc>> /\ depth' = Saturating(depth)
    BY <1>2 DEF OrphanDrop, stateVars, loopVars
  <2>2. depth' \in Nat /\ depth' <= depth
    BY <2>1 DEF Saturating
  <2> QED
    BY <2>1, <2>2 DEF WaitInv
<1>3. CASE Commands \/ InterjectFallback \/ Drain
  BY <1>0, <1>3, CommandFrame DEF turnVars
<1>4. CASE ResumeQueues \/ McpReady
  BY <1>0, <1>4, ArrivalFrame DEF turnVars
<1>5. CASE Completion \/ CompletionFlush
  BY <1>0, <1>5, ReceiveFrame, FlushFrame DEF turnVars
<1>6. CASE CompletionUnset \/ CompletionTerminal \/ CompletionSweep \/ CompletionTurnEnd
           \/ CompletionStrand
  BY <1>0, <1>6, TailFrame
<1>7. CASE CompletionPop
  <2>1. /\ pc["loop"] = "pop" /\ UNCHANGED <<phase, depth>>
        /\ running' = RunningAfter /\ phase[job.cur] = "ended"
    BY <1>7, PopFrame DEF turnVars, TaskInv, EndedInv, FinishArm
  <2>2. running' = running \/ running = job.cur \/ running = None
    BY <2>1 DEF RunningAfter, Owned, QueueInv, Fronted
  <2> QED
    BY <2>1, <2>2 DEF WaitInv
<1>8. CASE CancelBegin \/ CancelClear \/ CancelRelease
  <2>1. UNCHANGED <<running, phase, depth>>
    BY <1>8 DEF CancelBegin, CancelClear, CancelRelease, stateVars, turnVars
  <2>2. pc["loop"] \in {"clear", "abort"} => pc'["loop"] \in {"clear", "abort"}
    BY <1>8, GotoLoop DEF CancelBegin, CancelClear, CancelRelease, At
  <2> QED
    BY <1>0, <2>1, <2>2
<1>9. CASE CancelAbort
  <2>1. depth' = 0
    BY <1>9 DEF CancelAbort
  <2> QED
    BY <2>1 DEF WaitInv
<1>10. CASE CancelTake
  BY <1>10, CancelTakes DEF WaitInv
<1>11. CASE CancelSettle
  BY <1>0, <1>11, SettleFrame
<1>12. CASE \E p \in Procs : Start(p)
  <2>0. PICK p \in Procs : Start(p)
    BY <1>12
  <2>1. /\ depth' = depth
        /\ pc["loop"] \in {"clear", "abort"} => pc'["loop"] \in {"clear", "abort"}
    BY <2>0, StartFrame
  <2>2. CASE UNCHANGED <<running, phase>>
    BY <1>0, <2>1, <2>2
  <2>3. CASE running = None
    BY <2>1, <2>3 DEF WaitInv
  <2> QED
    BY <2>0, <2>2, <2>3, StartFrame
<1>13. CASE \E p \in Prompts : Turn(p)
  <2>0. PICK p \in Prompts : Turn(p)
    BY <1>13
  <2> SUFFICES ASSUME pc'["loop"] \notin {"clear", "abort"}
               PROVE  depth' <= 1 /\ (depth' > 0 => running' # None /\ phase'[running'] = "wait")
    BY DEF WaitInv
  <2>1. /\ UNCHANGED <<running, pc>> /\ \A o \in Prompts \ {p} : phase'[o] = phase[o]
    BY <2>0, TurnFrame DEF loopVars
  <2>2. depth <= 1 /\ (depth > 0 => running # None /\ phase[running] = "wait")
    BY <2>1 DEF WaitInv
  <2>3. phase[p] \in Live => p = running
    BY <2>1 DEF TaskInv, LiveTurnOwned
  <2>4. CASE depth' = depth /\ (phase'[p] = phase[p] \/ phase[p] # "wait")
    BY <2>1, <2>2, <2>4
  <2>5. CASE phase[p] = "loop" /\ phase'[p] = "wait" /\ depth' = depth + 1
    BY <2>1, <2>2, <2>3, <2>5, NoneFresh DEF Live
  <2>6. CASE phase[p] = "wait" /\ phase'[p] = "loop" /\ depth' = Saturating(depth)
    BY <2>2, <2>6 DEF Saturating
  <2> QED
    BY <2>0, <2>4, <2>5, <2>6, TurnDepth
<1> QED
  BY <1>1, <1>2, <1>3, <1>4, <1>5, <1>6, <1>7, <1>8, <1>9, <1>10, <1>11, <1>12, <1>13
     DEF Next, Handlers

-----------------------------------------------------------------------------
(* Notification turns.                                                     *)

Promoting == pc["loop"] \in {"start", "spawn"} /\ running = None

\* A notification turn is queued when nothing is, and it is the running turn
\* as soon as the handler that queued it is done.
DrainInv ==
  \A i \in 1..Len(queue) : queue[i].kind = "drain" =>
    ~suppressed /\ (queue[i].id = running \/ (i = 1 /\ Promoting))

\* Steps that queue no notification turn, outside a promotion.
LEMMA DrainKeep ==
  ASSUME Inv, DrainInv, UNCHANGED running, suppressed' => suppressed, ~Promoting,
         \A i \in 1..Len(queue') : queue'[i].kind = "drain" =>
           \E k \in 1..Len(queue) : queue'[i].id = queue[k].id /\ queue'[i].kind = queue[k].kind
  PROVE  DrainInv'
BY DEF DrainInv

\* Steps that leave the queue alone and end no promotion.
LEMMA DrainSame ==
  ASSUME Inv, DrainInv, UNCHANGED <<queue, running>>, suppressed' => suppressed,
         Promoting => pc'["loop"] \in {"start", "spawn"}
  PROVE  DrainInv'
BY DEF DrainInv, Promoting

\* No notification turn is left when the front of the queue is gone.
LEMMA DrainGone ==
  ASSUME Inv, Inv', QueueInv, DrainInv, ~Promoting, queue # <<>>, Copied(queue', queue),
         Absent(queue[1].id, queue')
  PROVE  DrainInv'
<1> SUFFICES ASSUME NEW i \in 1..Len(queue'), queue'[i].kind = "drain" PROVE FALSE
  BY DEF DrainInv
<1>1. PICK k \in 1..Len(queue) : queue'[i].id = queue[k].id /\ queue'[i].kind = queue[k].kind
  BY DEF Copied
<1>2. queue[k].id = running /\ running # None
  BY <1>1, IdsInPrompts, NoneFresh DEF DrainInv
<1>3. queue[1].id = queue'[i].id
  BY <1>1, <1>2 DEF QueueInv, Fronted
<1> QED
  BY <1>3 DEF Absent

\* Commands.
LEMMA CommandDrain ==
  ASSUME Inv, QueueInv, DrainInv, Commands \/ InterjectFallback \/ Drain
  PROVE  DrainInv'
<1>0. ~Promoting /\ UNCHANGED running /\ (suppressed' => suppressed)
  BY CommandFrame, CommandInbox DEF Promoting
<1>1. ASSUME NEW kind \in PromptKinds, NEW now \in SendNow, NEW o \in Owners,
             Prompt(kind, now, o)
      PROVE  DrainInv'
  <2>1. kind \in Kinds /\ now \in BOOLEAN /\ o \in Owners \cup {"any"} /\ QueueInput(kind, now, o)
        /\ kind # "drain"
    BY <1>1, SessionAssumption DEF Prompt, Kinds
  <2>2. Queued(queue', queue, nextId, kind)
    BY <2>1, QueueInputQueued
  <2> QED
    BY <1>0, <2>1, <2>2, DrainKeep DEF Queued
<1>2. CASE Copied(queue', queue)
  BY <1>0, <1>2, DrainKeep DEF Copied
<1>3. CASE InterjectFallback
  <2> DEFINE it == Fresh("fallback", TRUE, "any")
  <2>2. /\ queue' = Insert(queue, FrontSlot(queue, running), it)
        /\ it \in Item /\ it.kind = "fallback"
    BY <1>3, FreshItem DEF InterjectFallback, QueueFallback, Inv, TypeOK, Kinds, Fresh
  <2> HIDE DEF it
  <2>3. \A i \in 1..Len(queue') : queue'[i] = it \/ \E k \in 1..Len(queue) : queue'[i] = queue[k]
    <3>1. FrontSlot(queue, running) \in FrontSlot(queue, running)..Len(queue)
      BY FrontSlotRange, Types
    <3> QED
      BY <2>2, <3>1, InsertDerived, Types DEF Inserted
  <2> QED
    BY <1>0, <2>2, <2>3, DrainKeep
<1>4. CASE Drain /\ queue' # queue
  <2>1. /\ queue' = <<Fresh("drain", FALSE, "any")>> /\ ~suppressed /\ running = None
        /\ Goto("loop", "start") /\ UNCHANGED <<running, suppressed>>
    BY <1>4 DEF Drain, IdleForInjection
  <2>2. pc'["loop"] = "start"
    BY <2>1, GotoLoop
  <2>3. \A i \in 1..Len(queue') : i = 1
    BY <2>1
  <2> QED
    BY <2>1, <2>2, <2>3 DEF DrainInv, Promoting
<1>5. CASE queue' = queue
  BY <1>2, <1>5, SweptSelf DEF Swept
<1>6. CASE \/ \E id \in Prompts, v \in 0..MaxEdits, o \in Owners \cup {"any"} : RemoveRow(id, v, o)
           \/ \E o \in Owners \cup {"any"} : ClearRows(o)
  BY <1>2, <1>6, RemovalsAnswered
<1>7. CASE \/ \E id \in Prompts, v \in 0..MaxEdits, o \in Owners \cup {"any"} : PromoteRow(id, v, o)
           \/ \E id \in Prompts : EditRow(id)
           \/ ReorderRows
  BY <1>2, <1>7, EditsCopied
<1> QED
  BY <1>1, <1>3, <1>4, <1>5, <1>6, <1>7 DEF Commands, CancelCommand, Interject, Notify, stateVars

\* A resumed plan queues behind a notification turn that is being promoted.
LEMMA ResumeDrain ==
  ASSUME Inv, Inv', QueueInv, QueueInv', DrainInv, ResumeQueues
  PROVE  DrainInv'
<1>0. /\ UNCHANGED <<running, suppressed>> /\ pc'["loop"] = pc["loop"]
      /\ QueueInput("resume", FALSE, "any") /\ "resume" \in Kinds
  BY ArrivalFrame DEF ResumeQueues, Kinds
<1>1. \A i \in 1..Len(queue') : queue'[i].kind = "drain" =>
        \E k \in 1..Len(queue) : queue'[i].id = queue[k].id /\ queue'[i].kind = queue[k].kind
  <2>1. Queued(queue', queue, nextId, "resume")
    BY <1>0, QueueInputQueued
  <2> QED
    BY <2>1 DEF Queued
<1>2. queue # <<>> => queue' # <<>> /\ queue'[1] = queue[1]
  <2> SUFFICES ASSUME queue # <<>> PROVE queue' # <<>> /\ queue'[1] = queue[1]
    OBVIOUS
  <2> DEFINE K == {i \in 1..Len(queue) : queue[i].id = running \/ i \notin Preempted("resume")}
             base == Keep(queue, K)
             it == Fresh("resume", FALSE, "any")
  <2>1. 1 \in K /\ K \in SUBSET (1..Len(queue))
    BY Types DEF Preempted
  <2>2. queue' = Append(base, it)
    BY <1>0 DEF QueueInput, IsSendNow, Sweep
  <2> HIDE DEF K
  <2>3. base \in Seq(Item) /\ base # <<>> /\ base[1] = queue[1]
    BY <2>1, KeepSeq, KeepFirst, Types
  <2> HIDE DEF base, it
  <2> QED
    BY <2>2, <2>3
<1>3. CASE ~Promoting
  BY <1>0, <1>1, <1>3, DrainKeep
<1>4. CASE Promoting
  <2> SUFFICES ASSUME NEW i \in 1..Len(queue'), queue'[i].kind = "drain"
               PROVE  ~suppressed' /\ i = 1 /\ Promoting'
    BY DEF DrainInv
  <2>1. PICK k \in 1..Len(queue) : queue'[i].id = queue[k].id /\ queue'[i].kind = queue[k].kind
    BY <1>1
  <2>2. ~suppressed /\ k = 1 /\ queue # <<>>
    BY <1>4, <2>1, IdsInPrompts, NoneFresh DEF DrainInv, Promoting
  <2>3. queue'[i].id = queue'[1].id /\ 1 \in 1..Len(queue')
    BY <1>2, <2>1, <2>2 DEF Inv, TypeOK, StateType
  <2>4. i = 1
    BY <2>3 DEF QueueInv, Distinct
  <2> QED
    BY <1>0, <1>4, <2>2, <2>4 DEF Promoting
<1> QED
  BY <1>3, <1>4

\* maybe_start_running_task promotes the notification turn that is in front.
LEMMA StartDrain ==
  ASSUME Inv, QueueInv, DrainInv, NEW p \in Procs, Start(p)
  PROVE  DrainInv'
<1>0. UNCHANGED <<queue, suppressed>>
  BY StartFrame
<1>1. CASE StartSpawn(p)
  <2>1. running = None /\ running' = queue[1].id
    BY <1>1, NoneFresh DEF StartSpawn, Inv, LockInv
  <2>2. \A i \in 1..Len(queue) : queue[i].kind = "drain" => ~suppressed /\ i = 1
    BY <2>1, IdsInPrompts, NoneFresh DEF DrainInv
  <2> QED
    BY <1>0, <2>1, <2>2 DEF DrainInv
<1>2. CASE StartCheck(p) /\ (running # None \/ queue = <<>>)
  <2>1. running' = running
    BY <1>2 DEF StartCheck
  <2>2. CASE running # None
    BY <1>0, <2>1, <2>2, DrainSame DEF Promoting
  <2>3. CASE queue = <<>>
    BY <1>0, <2>3 DEF DrainInv
  <2> QED
    BY <1>2, <2>2, <2>3
<1>3. CASE StartCheck(p) /\ ~(running # None \/ queue = <<>>)
  <2>1. running' = running /\ Goto(p, "spawn") /\ (p = "loop" \/ p \in Starters)
    BY <1>3 DEF StartCheck, Procs
  <2>2. pc'["loop"] \in {pc["loop"], "spawn"}
    BY <2>1, GotoLoop, GotoStarter
  <2> QED
    BY <1>0, <2>1, <2>2, DrainSame DEF Promoting
<1> QED
  BY <1>1, <1>2, <1>3 DEF Start

\* The completion arm takes the notification turn that ended off the front.
LEMMA CompletionDrain ==
  ASSUME Inv, Inv', QueueInv, TaskInv, DrainInv,
         \/ Completion \/ CompletionUnset \/ CompletionPop \/ CompletionTerminal
         \/ CompletionSweep \/ CompletionTurnEnd \/ CompletionStrand \/ CompletionFlush
  PROVE  DrainInv'
<1>1. CASE Completion
  BY <1>1, ReceiveFrame, DrainSame DEF Promoting
<1>2. CASE CompletionPop
  <2>0. /\ pc["loop"] = "pop" /\ UNCHANGED suppressed /\ ~Promoting
        /\ running' = RunningAfter /\ job.cur # None
    BY <1>2, PopFrame DEF Promoting, TaskInv, EndedInv, FinishArm
  <2>1. CASE Owned
    <3>1. queue # <<>> /\ queue' = Tail(queue)
      BY <1>2, <2>1, PopFrame DEF Owned
    <3>2. Copied(queue', queue) /\ Absent(queue[1].id, queue')
      BY <3>1, TailCopied, TailDistinct, Types DEF QueueInv
    <3> QED
      BY <2>0, <3>1, <3>2, DrainGone
  <2>2. CASE ~Owned
    <3>1. queue' = queue /\ running' = running
      BY <1>2, <2>0, <2>2, PopFrame DEF RunningAfter, Owned, QueueInv, Fronted
    <3> QED
      BY <2>0, <3>1, DrainSame
  <2> QED
    BY <2>1, <2>2
<1>3. CASE CompletionUnset \/ CompletionTerminal \/ CompletionSweep \/ CompletionTurnEnd
           \/ CompletionStrand
  <2>0. UNCHANGED <<running, suppressed>> /\ ~Promoting
    BY <1>3, TailFrame DEF Promoting
  <2>1. CASE queue' = queue
    BY <2>0, <2>1, DrainSame
  <2>2. CASE queue' # queue
    <3> DEFINE it == Fresh("goal", FALSE, "any")
    <3>1. queue' = Append(queue, it) /\ it.kind = "goal"
      BY <1>3, <2>2 DEF CompletionUnset, CompletionTerminal, CompletionSweep, CompletionTurnEnd,
           CompletionStrand, stateVars, Fresh
    <3> HIDE DEF it
    <3>2. \A i \in 1..Len(queue') : queue'[i] = it \/ \E k \in 1..Len(queue) : queue'[i] = queue[k]
      BY <3>1, Types
    <3> QED
      BY <2>0, <3>1, <3>2, DrainKeep
  <2> QED
    BY <2>1, <2>2
<1>4. CASE CompletionFlush
  <2>0. UNCHANGED <<running, suppressed>> /\ ~Promoting
    BY <1>4, FlushFrame DEF Promoting
  <2> DEFINE it == Fresh("fallback", TRUE, "any")
  <2>1. /\ queue' = Insert(queue, FrontSlot(queue, running), it)
        /\ it \in Item /\ it.kind = "fallback"
    BY <1>4, FreshItem DEF CompletionFlush, QueueFallback, Inv, TypeOK, Kinds, Fresh
  <2> HIDE DEF it
  <2>2. \A i \in 1..Len(queue') : queue'[i] = it \/ \E k \in 1..Len(queue) : queue'[i] = queue[k]
    <3>1. FrontSlot(queue, running) \in FrontSlot(queue, running)..Len(queue)
      BY FrontSlotRange, Types
    <3> QED
      BY <2>1, <3>1, InsertDerived, Types DEF Inserted
  <2> QED
    BY <2>0, <2>1, <2>2, DrainKeep
<1> QED
  BY <1>1, <1>2, <1>3, <1>4

\* A cancel takes the notification turn with the front before it suppresses.
LEMMA CancelDrain ==
  ASSUME Inv, Inv', QueueInv, DrainInv,
         \/ CancelBegin \/ CancelTake \/ CancelClear \/ CancelAbort \/ CancelSettle
         \/ CancelRelease
  PROVE  DrainInv'
<1>1. CASE CancelBegin \/ CancelClear \/ CancelAbort \/ CancelRelease
  <2>1. UNCHANGED <<queue, running>> /\ ~Promoting
    BY <1>1, CancelFrame DEF Promoting
  <2>2. suppressed' => suppressed
    BY <1>1, CancelFrame
  <2> QED
    BY <2>1, <2>2, DrainSame
<1>2. CASE CancelSettle
  BY <1>2, SettleFrame, DrainSame DEF Promoting
<1>3. CASE CancelTake
  <2>1. ~Promoting /\ Copied(queue', queue)
    BY <1>3, CancelTakes DEF Promoting
  <2>2. CASE queue = <<>>
    <3>1. queue' = <<>>
      BY <1>3, <2>2 DEF CancelTake
    <3> QED
      BY <3>1 DEF DrainInv
  <2>3. CASE queue # <<>>
    <3>1. 1 \in 1..Len(queue)
      BY <2>3, Types
    <3>2. queue[1].id \in CancelHeld
      BY <3>1 DEF CancelHeld, Ids
    <3>3. Absent(queue[1].id, queue')
      BY <1>3, <3>2, CancelTakes DEF Absent, Ids
    <3> QED
      BY <2>1, <2>3, <3>3, DrainGone
  <2> QED
    BY <2>2, <2>3
<1> QED
  BY <1>1, <1>2, <1>3

\* Every step preserves the quiet after a cancel.
LEMMA DrainStep ==
  ASSUME Inv, Inv', QueueInv, QueueInv', TaskInv, DrainInv, [Next]_vars
  PROVE  DrainInv'
<1>1. CASE UNCHANGED vars \/ OrphanDrop \/ McpReady
  <2>1. UNCHANGED <<queue, running, suppressed>>
    BY <1>1 DEF vars, OrphanDrop, McpReady, stateVars
  <2>2. pc'["loop"] = pc["loop"]
    BY <1>1, ArrivalFrame DEF vars, OrphanDrop, loopVars
  <2> QED
    BY <2>1, <2>2, DrainSame DEF Promoting
<1>2. CASE Commands \/ InterjectFallback \/ Drain
  BY <1>2, CommandDrain
<1>3. CASE ResumeQueues
  BY <1>3, ResumeDrain
<1>4. CASE Handlers /\ ~(InterjectFallback \/ Drain)
  BY <1>4, CancelDrain, CompletionDrain DEF Handlers
<1>5. CASE \E p \in Procs : Start(p)
  BY <1>5, StartDrain
<1>6. CASE \E p \in Prompts : Turn(p)
  <2>0. PICK p \in Prompts : Turn(p)
    BY <1>6
  <2>1. UNCHANGED <<running, suppressed, pc>> /\ Copied(queue', queue)
    BY <2>0, TurnFrame, ConsumesSwept DEF loopVars, Swept
  <2>2. CASE queue' = queue
    BY <2>1, <2>2, DrainSame DEF Promoting
  <2>3. CASE queue' # queue
    <3>1. phase[p] = "loop"
      BY <2>0, <2>3 DEF Turn, TurnBegin, TurnEmit, TurnDrain, TurnGoal, TurnWait, TurnResume,
           TurnFinal, TurnUnpin, TurnComplete, TurnDropped, TurnConsumes, stateVars
    <3>2. ~Promoting
      BY <3>1, NoneFresh DEF Promoting, TaskInv, LiveTurnOwned, Live
    <3> QED
      BY <2>1, <3>2, DrainKeep DEF Copied
  <2> QED
    BY <2>2, <2>3
<1> QED
  BY <1>1, <1>2, <1>3, <1>4, <1>5, <1>6 DEF Next

-----------------------------------------------------------------------------
(* The theorems.                                                           *)

CancelInv ==
  /\ TaskInv /\ PinInv /\ ClientInv /\ TermInv
  /\ StallInv /\ DrainInv /\ StaleInv /\ KeptInv /\ WaitInv

\* An empty session satisfies the invariant.
LEMMA CancelInit == Init => CancelInv
<1> SUFFICES ASSUME Init PROVE CancelInv
  OBVIOUS
<1>0. /\ queue = <<>> /\ running = None /\ lock = "free" /\ pin = None /\ interj = 0 /\ depth = 0
      /\ completions = <<>> /\ terminals = <<>> /\ pc["loop"] = "idle"
      /\ \A p \in Prompts : phase[p] = "unborn" /\ outcome[p] = "none"
  BY NoneFresh DEF Init
<1>1. job.cur = None /\ job.pinned = None /\ job.held = {}
  BY DEF Init, NoJob
<1>2. TaskInv
  BY <1>0 DEF TaskInv, LiveTurnOwned, EndedInv, FinishArm, Live
<1>3. PinInv
  BY <1>0 DEF PinInv, At
<1>4. ClientInv
  BY <1>0, <1>1 DEF ClientInv
<1>5. TermInv
  BY <1>0, <1>1 DEF TermInv, Once, Closed, Final, CancelArm
<1>6. StallInv /\ DrainInv
  BY <1>0 DEF StallInv, DrainInv
<1>7. StaleInv /\ KeptInv
  BY <1>0 DEF StaleInv, KeptInv, CancelTail, FinishTail
<1>8. WaitInv
  BY <1>0 DEF WaitInv
<1> QED
  BY <1>2, <1>3, <1>4, <1>5, <1>6, <1>7, <1>8 DEF CancelInv

\* The inductive invariant of the cancel and completion races.
LEMMA CancelCorrect == Spec => [](Inv /\ QueueInv /\ CancelInv)
<1>1. Init => Inv /\ QueueInv /\ CancelInv
  BY TInit, QueueInit, CancelInit
<1>2. ASSUME Inv, QueueInv, CancelInv, [Next]_vars PROVE Inv' /\ QueueInv' /\ CancelInv'
  <2>1. Inv' /\ QueueInv'
    BY <1>2, NextStep, QueueStep
  <2>2. TaskInv' /\ PinInv'
    BY <1>2, TaskStep, PinStep DEF CancelInv
  <2>3. ClientInv' /\ TermInv'
    BY <1>2, ClientStep, TermStep DEF CancelInv
  <2>4. StallInv' /\ DrainInv'
    BY <1>2, <2>1, StallStep, DrainStep DEF CancelInv
  <2>5. StaleInv' /\ KeptInv' /\ WaitInv'
    BY <1>2, StaleStep, KeptStep, WaitStep DEF CancelInv
  <2> QED
    BY <2>1, <2>2, <2>3, <2>4, <2>5 DEF CancelInv
<1> QED
  BY <1>1, <1>2, PTL DEF Spec

\* A turn task that is polled is the running one, or one that a cancel has
\* taken and is about to abort (AgentTask::abort, cancel_running_task).
THEOREM LiveTurnOwnedCorrect == Spec => []LiveTurnOwned
<1>1. Inv /\ QueueInv /\ CancelInv => LiveTurnOwned
  BY DEF CancelInv, TaskInv
<1> QED
  BY <1>1, CancelCorrect, PTL

\* The debug_assert of cancel_running_task never fires: the pin snapshot taken
\* before its awaits agrees with the task it takes, whatever the starters and
\* the turn did in between.
THEOREM PinAgreesCorrect == Spec => []PinAgrees
<1>1. Inv /\ QueueInv /\ CancelInv => PinAgrees
  BY DEF CancelInv, PinInv, PinAgrees, Unlocked, At
<1> QED
  BY <1>1, CancelCorrect, PTL

\* No client call is forgotten by a queue edit, a cancel of any mode, a stale
\* completion or a preemption, and no answered prompt is left to run.
THEOREM ClientsNotForgottenCorrect == Spec => []ClientsNotForgotten
<1>1. Inv /\ QueueInv /\ CancelInv => ClientsNotForgotten
  BY DEF CancelInv, ClientInv, ClientsNotForgotten
<1> QED
  BY <1>1, CancelCorrect, PTL

\* Every turn that ran gets exactly one TurnCompleted, from handle_completion
\* or from cancel_running_task but never from both, and never without one.
THEOREM TerminalPerTurnCorrect == Spec => []TerminalPerTurn
<1>1. Inv /\ QueueInv /\ CancelInv => TerminalPerTurn
  BY DEF CancelInv, TermInv, TerminalPerTurn, Once, Closed, Final, At
<1> QED
  BY <1>1, CancelCorrect, PTL

\* Every handler that may leave prompts behind also starts the next one
\* (maybe_start_running_task), unless a starter is about to.
THEOREM NeverStalledCorrect == Spec => []NeverStalled
<1>1. Inv /\ QueueInv /\ CancelInv => NeverStalled
  BY DEF CancelInv, StallInv, NeverStalled, At
<1> QED
  BY <1>1, CancelCorrect, PTL

\* notifications_suppressed excludes notification turns, queued or running.
THEOREM QuietAfterCancelCorrect == Spec => []QuietAfterCancel
<1>1. Inv /\ QueueInv /\ CancelInv => QuietAfterCancel
  BY DEF CancelInv, DrainInv, QuietAfterCancel
<1> QED
  BY <1>1, CancelCorrect, PTL

\* flush_stranded_interjections of a stale completion finds nothing to take
\* from the turn promoted after the cancel.
THEOREM StaleNeverFlushesCorrect == Spec => []StaleNeverFlushes
<1>1. Inv /\ QueueInv /\ CancelInv => StaleNeverFlushes
  BY Types DEF CancelInv, StaleInv, StaleNeverFlushes, FinishTail, At
<1> QED
  BY <1>1, CancelCorrect, PTL

\* A buffered interjection has a turn to merge it or a completion whose
\* handler queues it: the Interject command's test of the pin is enough.
THEOREM InterjectionsKeptCorrect == Spec => []InterjectionsKept
<1>1. Inv /\ QueueInv /\ CancelInv => InterjectionsKept
  BY DEF CancelInv, KeptInv, InterjectionsKept, FinishTail, At, Unlocked
<1> QED
  BY <1>1, CancelCorrect, PTL

\* The reset of blocking_wait_depth by a cancel and the late drops of the
\* aborted turns' guards leave no count behind for the next turn.
THEOREM WaitIsRealCorrect == Spec => []WaitIsReal
<1>1. Inv /\ QueueInv /\ CancelInv => WaitIsReal
  BY DEF CancelInv, WaitInv, WaitIsReal, At
<1> QED
  BY <1>1, CancelCorrect, PTL

-----------------------------------------------------------------------------
(* Send-now prompts stay in order.  A step either copies the flags it finds,  *)
(* or puts one new item behind all of them: the send-now items form a block   *)
(* behind the running turn, a filter keeps the block together, and the slot   *)
(* that the insertion scan stops at is its end.                               *)

SameFlags(new, q) ==
  \A i \in 1..Len(new) : \E k \in 1..Len(q) :
    new[i].id = q[k].id /\ new[i].sendNow = q[k].sendNow

\* What SendNowFifo says of one step.
Fifo(new, q) ==
  \A i, j \in 1..Len(new) :
    /\ IsNow(q, new[i].id)
    /\ new[j].sendNow /\ ~IsNow(q, new[j].id) /\ new[j].kind # "fallback"
    => i < j

\* A filter copies flags, and the send-now items still lead.
LEMMA KeepNows ==
  ASSUME NEW q \in Seq(Item), NEW K \in SUBSET (1..Len(q)), NEW run
  PROVE  /\ SameFlags(Keep(q, K), q)
         /\ NowsLead(q, run) => NowsLead(Keep(q, K), run)
<1>1. SameFlags(Keep(q, K), q)
  BY KeepSeq DEF SameFlags
<1>2. ASSUME NowsLead(q, run), NEW i \in 1..Len(Keep(q, K)), NEW j \in 1..Len(Keep(q, K)),
             i < j, Keep(q, K)[j].sendNow, Keep(q, K)[i].id # run
      PROVE  Keep(q, K)[i].sendNow
  <2>0. Len(q) \in Nat
    OBVIOUS
  <2>1. i \in 1..Cardinality(K) /\ j \in 1..Cardinality(K)
    BY KeepSeq
  <2>2. /\ Nth(K, i) \in 1..Len(q) /\ Keep(q, K)[i] = q[Nth(K, i)]
        /\ Nth(K, j) \in 1..Len(q) /\ Keep(q, K)[j] = q[Nth(K, j)]
    BY <2>1, KeepSeq
  <2>3. Nth(K, i) < Nth(K, j)
    BY <1>2, <2>0, <2>1, NthMonotone
  <2> QED
    BY <1>2, <2>2, <2>3 DEF NowsLead
<1> QED
  BY <1>1, <1>2 DEF NowsLead

\* The insertion scan passes every send-now item of a queue whose send-now
\* items lead.
LEMMA SlotBehindNows ==
  ASSUME NEW q \in Seq(Item), NEW run, Fronted(q, run), Distinct(q), NowsLead(q, run),
         NEW k \in 1..Len(q), q[k].sendNow
  PROVE  k <= SendNowSlot(q, run)
<1> DEFINE C == {m \in FrontSlot(q, run)..Len(q) : m = Len(q) \/ ~q[m + 1].sendNow}
           n == SendNowSlot(q, run)
<1>1. FrontSlot(q, run) \in 0..Len(q) /\ Len(q) \in Nat
  BY FrontSlotRange
<1>2. C \in SUBSET Nat /\ Len(q) \in C
  BY <1>1
<1>3. n \in C
  BY <1>2, LeastExists DEF SendNowSlot
<1>4. n \in 0..Len(q) /\ FrontSlot(q, run) <= n /\ (n = Len(q) \/ ~q[n + 1].sendNow)
  BY <1>1, <1>3
<1> HIDE DEF n, C
<1> SUFFICES ASSUME ~(k <= n) PROVE FALSE
  BY DEF n
<1>5. n + 1 \in 1..Len(q) /\ ~q[n + 1].sendNow /\ n + 1 < k
  <2>1. n # Len(q) /\ n + 1 \in 1..Len(q)
    BY <1>1, <1>4
  <2>2. ~q[n + 1].sendNow
    BY <1>4, <2>1
  <2>3. n + 1 # k
    BY <2>2
  <2> QED
    BY <1>4, <2>1, <2>2, <2>3
<1>6. q[n + 1].id = run
  BY <1>5 DEF NowsLead
<1>7. q[n + 1].id # None
  <2>1. q[n + 1] \in Item
    BY <1>5
  <2> QED
    BY <2>1, NoneFresh DEF Item
<1>8. q # <<>> /\ q[1].id = run /\ 1 \in 1..Len(q)
  BY <1>5, <1>6, <1>7 DEF Fronted
<1>9. FrontSlot(q, run) = 1 /\ n + 1 = 1
  BY <1>5, <1>6, <1>7, <1>8 DEF FrontSlot, Distinct
<1> QED
  BY <1>4, <1>9

\* One item at the end of the block of send-now items.
LEMMA NowBehind ==
  ASSUME NEW q \in Seq(Item), Distinct(q), NEW base \in Seq(Item), NEW run,
         Fronted(base, run), Distinct(base), NowsLead(base, run), SameFlags(base, q),
         NEW it \in Item
  PROVE  Fifo(Insert(base, SendNowSlot(base, run), it), q)
<1> DEFINE n == SendNowSlot(base, run)
           new == Insert(base, n, it)
<1>1. n \in 0..Len(base) /\ Len(base) \in Nat
  BY SendNowSlotRange, FrontSlotRange
<1>2. \A k \in 1..Len(base) : base[k].sendNow => k <= n
  BY SlotBehindNows
<1> HIDE DEF n
<1>3. /\ Len(new) = Len(base) + 1
      /\ \A i \in 1..(Len(base) + 1) :
           new[i] = IF i <= n THEN base[i] ELSE IF i = n + 1 THEN it ELSE base[i - 1]
  BY <1>1, InsertSeq
<1> HIDE DEF new
<1> SUFFICES ASSUME NEW i \in 1..Len(new), NEW j \in 1..Len(new), IsNow(q, new[i].id),
                    new[j].sendNow, ~IsNow(q, new[j].id)
             PROVE  i < j
  BY DEF Fifo, new, n
<1>4. ASSUME NEW k \in 1..Len(base), base[k].sendNow PROVE IsNow(q, base[k].id)
  BY <1>4 DEF SameFlags, IsNow
<1>5. ASSUME NEW k \in 1..Len(base), IsNow(q, base[k].id) PROVE k <= n
  <2>1. PICK m \in 1..Len(q) : base[k].id = q[m].id /\ base[k].sendNow = q[m].sendNow
    BY DEF SameFlags
  <2>2. PICK l \in 1..Len(q) : q[l].id = base[k].id /\ q[l].sendNow
    BY <1>5 DEF IsNow
  <2>3. l = m
    BY <2>1, <2>2 DEF Distinct
  <2> QED
    BY <1>2, <2>1, <2>2, <2>3
<1>6. j = n + 1
  <2>1. CASE j <= n
    <3>1. j \in 1..Len(base) /\ new[j] = base[j]
      BY <1>1, <1>3, <2>1
    <3> QED
      BY <1>4, <3>1
  <2>2. CASE j > n + 1
    <3>1. j - 1 \in 1..Len(base) /\ new[j] = base[j - 1]
      BY <1>1, <1>3, <2>2
    <3> QED
      BY <1>4, <3>1
  <2> QED
    BY <1>1, <2>1, <2>2
<1>7. i # n + 1
  BY <1>6
<1>8. ASSUME i > n + 1 PROVE FALSE
  <2>1. i - 1 \in 1..Len(base) /\ new[i] = base[i - 1]
    BY <1>1, <1>3, <1>8
  <2>2. i - 1 <= n
    BY <1>5, <2>1
  <2> QED
    BY <1>1, <1>8, <2>2
<1> QED
  BY <1>1, <1>6, <1>7, <1>8

\* A step that copies flags makes no prompt a send-now.
LEMMA FlagsFifo ==
  ASSUME NEW new, NEW q, SameFlags(new, q)
  PROVE  Fifo(new, q)
BY DEF SameFlags, Fifo, IsNow

\* An ordinary prompt, or an interjection fallback.
Unhurried(it) == ~it.sendNow \/ it.kind = "fallback"

\* The items of new are those of base and one more.
OneMore(new, base, it) ==
  \A i \in 1..Len(new) : new[i] = it \/ \E k \in 1..Len(base) : new[i] = base[k]

\* A step that adds one such item to copied ones makes no prompt a send-now.
LEMMA AddedFifo ==
  ASSUME NEW new, NEW base, NEW q, SameFlags(base, q), NEW it, Unhurried(it),
         OneMore(new, base, it)
  PROVE  Fifo(new, q)
<1> SUFFICES ASSUME NEW j \in 1..Len(new), new[j].sendNow, new[j].kind # "fallback"
             PROVE  IsNow(q, new[j].id)
  BY DEF Fifo
<1>1. PICK k \in 1..Len(base) : new[j] = base[k]
  BY DEF OneMore, Unhurried
<1> QED
  BY <1>1 DEF SameFlags, IsNow

\* The fields of a new item.
LEMMA FreshFlags ==
  ASSUME NEW kind, NEW now, NEW o
  PROVE  Fresh(kind, now, o).sendNow = now /\ Fresh(kind, now, o).kind = kind
BY DEF Fresh

\* A sweep copies flags and keeps the block together.
LEMMA SweepNows ==
  ASSUME NEW q \in Seq(Item), NEW run, NEW drop
  PROVE  /\ SameFlags(Sweep(q, run, drop), q)
         /\ NowsLead(q, run) => NowsLead(Sweep(q, run, drop), run)
<1> DEFINE K == {i \in 1..Len(q) : q[i].id = run \/ i \notin drop}
<1>1. K \in SUBSET (1..Len(q))
  OBVIOUS
<1> HIDE DEF K
<1>2. SameFlags(Keep(q, K), q) /\ (NowsLead(q, run) => NowsLead(Keep(q, K), run))
  BY <1>1, KeepNows
<1> QED
  BY <1>2 DEF Sweep, K

\* queue_input.
LEMMA InputFifo ==
  ASSUME Inv, QueueInv, NowsLead(queue, running), NEW kind \in Kinds, NEW want \in BOOLEAN,
         NEW owner \in Owners \cup {"any"}, QueueInput(kind, want, owner)
  PROVE  Fifo(queue', queue)
<1> DEFINE base == Sweep(queue, running, Preempted(kind))
           now == IsSendNow(kind, want, base)
           it == Fresh(kind, now, owner)
<1>1. /\ base \in Seq(Item) /\ Fronted(base, running) /\ Distinct(base)
      /\ SameFlags(base, queue) /\ NowsLead(base, running)
  BY SweepDerived, SweepNows, Types DEF Derived, QueueInv
<1> HIDE DEF base
<1>2. now \in BOOLEAN
  BY DEF IsSendNow
<1> HIDE DEF now
<1>3. it \in Item /\ it.sendNow = now
  BY <1>2, FreshItem, FreshFlags DEF QueueInput, Inv, TypeOK
<1> HIDE DEF it
<1>4. queue' = IF now THEN Insert(base, SendNowSlot(base, running), it) ELSE Append(base, it)
  BY DEF QueueInput, base, now, it
<1>5. CASE now
  BY <1>1, <1>3, <1>4, <1>5, NowBehind, Types DEF QueueInv
<1>6. CASE ~now
  <2>1. queue' = Append(base, it) /\ ~it.sendNow
    BY <1>3, <1>4, <1>6
  <2>2. Inserted(queue', base, it, running)
    BY <1>1, <1>3, <2>1, AppendInserted
  <2>3. OneMore(queue', base, it) /\ Unhurried(it)
    BY <2>1, <2>2 DEF Inserted, OneMore, Unhurried
  <2> QED
    BY <1>1, <2>3, AddedFifo
<1> QED
  BY <1>5, <1>6

\* A row whose version changes keeps its flag and its place.
LEMMA EditNows ==
  ASSUME NEW q \in Seq(Item), NEW i \in 1..Len(q), NEW run
  PROVE  /\ Edit(q, i) \in Seq(Item) /\ Len(Edit(q, i)) = Len(q)
         /\ SameFlags(Edit(q, i), q) /\ Edit(q, i)[i].id = q[i].id
         /\ Derived(Edit(q, i), q, run)
         /\ NowsLead(q, run) => NowsLead(Edit(q, i), run)
<1>0. q[i] \in Item
  OBVIOUS
<1>1. PICK it \in Item : /\ it = [q[i] EXCEPT !.version = @ + 1]
                          /\ it.id = q[i].id /\ it.sendNow = q[i].sendNow
  <2>1. [q[i] EXCEPT !.version = @ + 1] \in Item /\ [q[i] EXCEPT !.version = @ + 1].id = q[i].id
    BY <1>0, RowType, Zenon
  <2>2. [q[i] EXCEPT !.version = @ + 1].sendNow = q[i].sendNow
    BY <1>0 DEF Item
  <2> QED
    BY <2>1, <2>2
<1>2. Edit(q, i) = [q EXCEPT ![i] = it]
  BY <1>1 DEF Edit
<1>3. /\ Edit(q, i) \in Seq(Item) /\ Len(Edit(q, i)) = Len(q)
      /\ \A j \in 1..Len(q) : Edit(q, i)[j] = IF j = i THEN it ELSE q[j]
  BY <1>2, ExceptSeq
<1>4. \A j \in 1..Len(q) : Edit(q, i)[j].id = q[j].id /\ Edit(q, i)[j].sendNow = q[j].sendNow
  BY <1>1, <1>3
<1>5. SameFlags(Edit(q, i), q)
  BY <1>3, <1>4 DEF SameFlags
<1>6. ASSUME NowsLead(q, run) PROVE NowsLead(Edit(q, i), run)
  BY <1>3, <1>4, <1>6 DEF NowsLead
<1>7. ASSUME q # <<>> PROVE Edit(q, i) # <<>> /\ Edit(q, i)[1].id = q[1].id
  BY <1>3, <1>4, <1>7
<1>8. Derived(Edit(q, i), q, run)
  BY <1>3, <1>4, <1>7 DEF Derived, Fronted, Distinct, From
<1> QED
  BY <1>3, <1>4, <1>5, <1>6, <1>8

\* handle_interject_queued_prompt: a promoted row goes behind the send-nows.
LEMMA PromoteFifo ==
  ASSUME NEW q \in Seq(Item), Distinct(q), NEW c \in Seq(Item), NEW run, SameFlags(c, q),
         Fronted(c, run), Distinct(c), NowsLead(c, run),
         NEW i \in 1..Len(c), c[i].id # run
  PROVE  Fifo(Promote(c, run, i), q)
<1> DEFINE rest == Remove(c, i)
<1>0. c[i] \in Item
  OBVIOUS
<1>1. PICK it \in Item : it = [c[i] EXCEPT !.sendNow = TRUE]
  BY <1>0, RowType, Zenon
<1>2. rest \in Seq(Item) /\ Fronted(rest, run) /\ Distinct(rest)
  BY RemoveDerived DEF Derived
<1>3. SameFlags(rest, c) /\ NowsLead(rest, run)
  <2> DEFINE K == (1..Len(c)) \ {i}
  <2>1. K \in SUBSET (1..Len(c))
    OBVIOUS
  <2> HIDE DEF K
  <2>2. SameFlags(Keep(c, K), c) /\ NowsLead(Keep(c, K), run)
    BY <2>1, KeepNows
  <2> QED
    BY <2>2 DEF Remove, K
<1> HIDE DEF rest
<1>4. SameFlags(rest, q)
  BY <1>3 DEF SameFlags
<1>5. Fifo(Insert(rest, SendNowSlot(rest, run), it), q)
  BY <1>2, <1>3, <1>4, NowBehind
<1> QED
  BY <1>1, <1>5 DEF Promote, rest

\* The clients' edits of the queue.
LEMMA EditsFifo ==
  ASSUME Inv, QueueInv, NowsLead(queue, running),
         \/ \E id \in Prompts, v \in 0..MaxEdits, o \in Owners \cup {"any"} :
              RemoveRow(id, v, o) \/ PromoteRow(id, v, o)
         \/ \E id \in Prompts : EditRow(id)
         \/ ReorderRows
         \/ \E o \in Owners \cup {"any"} : ClearRows(o)
  PROVE  Fifo(queue', queue)
<1>0. queue \in Seq(Item) /\ Fronted(queue, running) /\ Distinct(queue)
  BY Types DEF QueueInv
<1>1. SameFlags(queue, queue)
  BY DEF SameFlags
<1>2. CASE queue' = queue
  BY <1>1, <1>2, FlagsFifo
<1>3. CASE \E K \in SUBSET (1..Len(queue)) : queue' = Keep(queue, K)
  BY <1>0, <1>3, KeepNows, FlagsFifo
<1>4. ASSUME NEW i \in 1..Len(queue), queue[i].id # running,
             \/ queue' = Promote(queue, running, i)
             \/ queue' = Promote(Edit(queue, i), running, i)
      PROVE  Fifo(queue', queue)
  <2>1. Fifo(Promote(queue, running, i), queue)
    BY <1>0, <1>1, <1>4, PromoteFifo
  <2>2. Fifo(Promote(Edit(queue, i), running, i), queue)
    <3>1. /\ Edit(queue, i) \in Seq(Item) /\ i \in 1..Len(Edit(queue, i))
          /\ SameFlags(Edit(queue, i), queue) /\ Edit(queue, i)[i].id # running
          /\ Fronted(Edit(queue, i), running) /\ Distinct(Edit(queue, i))
          /\ NowsLead(Edit(queue, i), running)
      BY <1>0, <1>4, EditNows DEF Derived
    <3> QED
      BY <1>0, <3>1, PromoteFifo
  <2> QED
    BY <1>4, <2>1, <2>2
<1>5. CASE \E i \in 1..Len(queue) : queue' = Edit(queue, i)
  BY <1>0, <1>5, EditNows, FlagsFifo
<1>6. ASSUME NEW f \in Orders(queue, running), queue' = Reorder(queue, running, f)
      PROVE  Fifo(queue', queue)
  <2> DEFINE R == Rows(queue, running)
             m == Cardinality(R)
             K == (1..Len(queue)) \ R
             a == Keep(queue, K)
             b == [i \in DOMAIN f |-> queue[f[i]]]
  <2>1. K \in SUBSET (1..Len(queue)) /\ R \in SUBSET (1..Len(queue)) /\ Len(queue) \in Nat
    BY <1>0 DEF Rows
  <2>2. m \in Nat /\ f \in [1..m -> R]
    BY <2>1, PositionsFinite DEF Orders
  <2>3. SameFlags(a, queue) /\ a \in Seq(Item)
    BY <1>0, <2>1, KeepNows, KeepSeq
  <2>4. /\ b \in Seq(Item) /\ Len(b) = m
        /\ \A i \in 1..Len(b) : \E k \in 1..Len(queue) : b[i] = queue[k]
    <3>1. \A i \in 1..m : f[i] \in 1..Len(queue) /\ b[i] = queue[f[i]]
      BY <2>1, <2>2
    <3>2. b \in [1..m -> Item]
      BY <1>0, <2>2, <3>1
    <3> QED
      BY <2>2, <3>1, <3>2
  <2> HIDE DEF a, b
  <2>5. /\ Len(a \o b) = Len(a) + Len(b) /\ Len(a) \in Nat /\ Len(b) \in Nat
        /\ \A i \in 1..(Len(a) + Len(b)) :
             (a \o b)[i] = IF i <= Len(a) THEN a[i] ELSE b[i - Len(a)]
    <3>1. a \in Seq(Item) /\ b \in Seq(Item)
      BY <2>3, <2>4
    <3> QED
      BY <3>1, ConcatProperties
  <2>6. ASSUME NEW i \in 1..Len(a \o b)
        PROVE  \E k \in 1..Len(queue) :
                 (a \o b)[i].id = queue[k].id /\ (a \o b)[i].sendNow = queue[k].sendNow
    <3>1. CASE i <= Len(a)
      <4>1. i \in 1..Len(a) /\ (a \o b)[i] = a[i]
        BY <2>5, <3>1
      <4> QED
        BY <2>3, <4>1 DEF SameFlags
    <3>2. CASE ~(i <= Len(a))
      <4>1. i - Len(a) \in 1..Len(b) /\ (a \o b)[i] = b[i - Len(a)]
        BY <2>5, <3>2
      <4> QED
        BY <2>4, <4>1
    <3> QED
      BY <3>1, <3>2
  <2>7. SameFlags(queue', queue)
    BY <1>6, <2>6 DEF Reorder, SameFlags, a, b
  <2> QED
    BY <2>7, FlagsFifo
<1>7. ASSUME NEW id \in Prompts, NEW v \in 0..MaxEdits, NEW o \in Owners \cup {"any"},
             RemoveRow(id, v, o) \/ PromoteRow(id, v, o)
      PROVE  Fifo(queue', queue)
  <2>1. CASE RemoveRow(id, v, o)
    <3>1. queue' = queue \/ \E i \in 1..Len(queue) : queue' = Keep(queue, (1..Len(queue)) \ {i})
      BY <2>1 DEF RemoveRow, RowAt, Remove
    <3> QED
      BY <1>2, <1>3, <3>1
  <2>2. CASE PromoteRow(id, v, o)
    <3>1. \/ queue' = queue
          \/ \E i \in 1..Len(queue) :
               /\ queue[i].id # running
               /\ \/ queue' = Promote(queue, running, i)
                  \/ queue' = Promote(Edit(queue, i), running, i)
      BY <2>2 DEF PromoteRow, RowAt
    <3> QED
      BY <1>2, <1>4, <3>1
  <2> QED
    BY <1>7, <2>1, <2>2
<1>8. ASSUME NEW id \in Prompts, EditRow(id) PROVE Fifo(queue', queue)
  BY <1>5, <1>8 DEF EditRow, Rows
<1>9. CASE ReorderRows
  BY <1>6, <1>9 DEF ReorderRows
<1>10. ASSUME NEW o \in Owners \cup {"any"}, ClearRows(o) PROVE Fifo(queue', queue)
  <2>1. queue' = Keep(queue, (1..Len(queue)) \ Cleared(queue, running, o))
    BY <1>10 DEF ClearRows, Clear
  <2> QED
    BY <1>3, <2>1
<1> QED
  BY <1>7, <1>8, <1>9, <1>10

\* The items the session queues for itself: an interjection fallback at the
\* front, a goal continuation or a notification turn at the end.
LEMMA SyntheticFifo ==
  ASSUME Inv, QueueFallback \/ CompletionTurnEnd \/ Drain
  PROVE  Fifo(queue', queue)
<1>0. queue \in Seq(Item)
  BY Types
<1>1. SameFlags(queue, queue)
  BY DEF SameFlags
<1>2. CASE QueueFallback
  <2> DEFINE it == Fresh("fallback", TRUE, "any")
  <2>0. queue' = Insert(queue, FrontSlot(queue, running), it) /\ Unhurried(it)
    <3>1. it.kind = "fallback"
      BY DEF Fresh
    <3> QED
      BY <1>2, <3>1 DEF QueueFallback, Unhurried
  <2>1. it \in Item
    BY <1>2, FreshItem DEF QueueFallback, Inv, TypeOK, Kinds
  <2> HIDE DEF it
  <2>2. FrontSlot(queue, running) \in FrontSlot(queue, running)..Len(queue)
    BY <1>0, FrontSlotRange
  <2>3. OneMore(queue', queue, it)
    BY <1>0, <2>0, <2>1, <2>2, InsertDerived DEF Inserted, OneMore
  <2> QED
    BY <1>1, <2>0, <2>3, AddedFifo
<1>3. CASE queue' = queue
  BY <1>1, <1>3, FlagsFifo
<1>4. ASSUME NEW kind \in {"goal", "drain"}, queue' = Append(queue, Fresh(kind, FALSE, "any")),
             nextId <= MaxPrompts
      PROVE  Fifo(queue', queue)
  <2> DEFINE it == Fresh(kind, FALSE, "any")
  <2>1. it \in Item
    BY <1>4, FreshItem DEF Inv, TypeOK, Kinds
  <2>2. queue' = Append(queue, it) /\ Unhurried(it)
    BY <1>4, FreshFlags DEF Unhurried
  <2> HIDE DEF it
  <2>3. Inserted(queue', queue, it, running)
    BY <1>0, <2>1, <2>2, AppendInserted
  <2>4. OneMore(queue', queue, it)
    BY <2>3 DEF Inserted, OneMore
  <2> QED
    BY <1>1, <2>2, <2>4, AddedFifo
<1>5. CASE CompletionTurnEnd
  BY <1>3, <1>4, <1>5 DEF CompletionTurnEnd
<1>6. CASE Drain
  <2>1. \/ queue' = queue
        \/ queue = <<>> /\ queue' = <<Fresh("drain", FALSE, "any")>> /\ nextId <= MaxPrompts
    BY <1>6 DEF Drain, IdleForInjection
  <2>2. Append(<<>>, Fresh("drain", FALSE, "any")) = <<Fresh("drain", FALSE, "any")>>
    OBVIOUS
  <2> QED
    BY <1>3, <1>4, <2>1, <2>2
<1> QED
  BY <1>2, <1>5, <1>6

\* What leaves the queue at its front, or is swept out of it by a tool call.
LEMMA TakenFifo ==
  ASSUME Inv, CancelTake \/ CompletionPop \/ \E p \in Prompts : Turn(p)
  PROVE  Fifo(queue', queue)
<1>0. queue \in Seq(Item)
  BY Types
<1>1. CASE queue' = queue
  BY <1>1, FlagsFifo DEF SameFlags
<1>2. CASE queue' = <<>>
  BY <1>2, FlagsFifo DEF SameFlags
<1>3. CASE queue # <<>> /\ queue' = Tail(queue)
  <2> DEFINE t == Tail(queue)
  <2>1. Len(t) = Len(queue) - 1 /\ Len(queue) \in Nat /\ \A i \in 1..Len(t) : t[i] = queue[i + 1]
    BY <1>0, <1>3
  <2> HIDE DEF t
  <2>2. \A i \in 1..Len(t) : i + 1 \in 1..Len(queue)
    BY <2>1
  <2>3. SameFlags(t, queue)
    BY <2>1, <2>2 DEF SameFlags
  <2> QED
    BY <1>3, <2>3, FlagsFifo DEF t
<1>4. CASE \E drop : queue' = Sweep(queue, running, drop)
  BY <1>0, <1>4, SweepNows, FlagsFifo
<1>5. CASE CancelTake
  BY <1>2, <1>3, <1>5 DEF CancelTake
<1>6. CASE CompletionPop
  <2>1. queue' = queue \/ queue' = Tail(queue)
    BY <1>6 DEF CompletionPop
  <2>2. Tail(<<>>) = <<>>
    OBVIOUS
  <2> QED
    BY <1>1, <1>2, <1>3, <2>1, <2>2
<1>7. ASSUME NEW p \in Prompts, Turn(p) PROVE Fifo(queue', queue)
  <2>1. queue' = queue \/ \E w \in Prompts : TurnConsumes(p, w)
    BY <1>7 DEF Turn, TurnBegin, TurnEmit, TurnDrain, TurnGoal, TurnWait, TurnResume,
         TurnFinal, TurnUnpin, TurnComplete, TurnDropped, stateVars
  <2>2. (\E w \in Prompts : TurnConsumes(p, w)) => \E drop : queue' = Sweep(queue, running, drop)
    BY DEF TurnConsumes
  <2> QED
    BY <1>1, <1>4, <2>1, <2>2
<1> QED
  BY <1>5, <1>6, <1>7

\* No step lets a send-now overtake another, where the send-nows lead.
LEMMA FifoStep ==
  ASSUME Inv, QueueInv, [Next]_vars, NowsLead(queue, running)
  PROVE  Fifo(queue', queue)
<1>0. ASSUME queue' = queue PROVE Fifo(queue', queue)
  BY <1>0, FlagsFifo DEF SameFlags
<1>1. CASE UNCHANGED vars \/ OrphanDrop \/ McpReady \/ \E p \in Procs : Start(p)
  <2>1. queue' = queue
    BY <1>1 DEF vars, OrphanDrop, McpReady, Start, StartCheck, StartSpawn, stateVars
  <2> QED
    BY <1>0, <2>1
<1>2. ASSUME NEW kind \in PromptKinds, NEW now \in SendNow, NEW o \in Owners,
             Prompt(kind, now, o)
      PROVE  Fifo(queue', queue)
  <2>1. kind \in Kinds /\ now \in BOOLEAN /\ o \in Owners \cup {"any"} /\ QueueInput(kind, now, o)
    BY <1>2, SessionAssumption DEF Prompt, Kinds
  <2> QED
    BY <2>1, InputFifo
<1>3. CASE ResumeQueues
  <2>1. "resume" \in Kinds /\ FALSE \in BOOLEAN /\ "any" \in Owners \cup {"any"}
        /\ QueueInput("resume", FALSE, "any")
    BY <1>3 DEF ResumeQueues, Kinds
  <2> QED
    BY <2>1, InputFifo
<1>4. CASE Commands
  <2>1. CASE queue' = queue
    BY <1>0, <2>1
  <2> QED
    BY <1>2, <1>4, <2>1, EditsFifo DEF Commands, CancelCommand, Interject, Notify, stateVars
<1>5. CASE Handlers
  <2>1. CASE \/ CancelBegin \/ CancelClear \/ CancelAbort \/ CancelSettle \/ CancelRelease
             \/ Completion \/ CompletionUnset \/ CompletionTerminal \/ CompletionSweep
             \/ CompletionStrand
    <3>1. queue' = queue
      BY <2>1 DEF CancelBegin, CancelClear, CancelAbort, CancelSettle, CancelRelease, Completion,
           CompletionUnset, CompletionTerminal, CompletionSweep, CompletionStrand, stateVars
    <3> QED
      BY <1>0, <3>1
  <2>2. CASE CancelTake \/ CompletionPop
    BY <2>2, TakenFifo
  <2>3. CASE CompletionTurnEnd \/ Drain
    BY <2>3, SyntheticFifo
  <2>4. CASE CompletionFlush \/ InterjectFallback
    BY <2>4, SyntheticFifo DEF CompletionFlush, InterjectFallback
  <2> QED
    BY <1>5, <2>1, <2>2, <2>3, <2>4 DEF Handlers
<1>6. CASE \E p \in Prompts : Turn(p)
  BY <1>6, TakenFifo
<1> QED
  BY <1>1, <1>3, <1>4, <1>5, <1>6 DEF Next

\* Stacked send-nows run in the order they were sent: whatever queues or
\* promotes a prompt, a new send-now lands behind the send-nows of a queue in
\* which they lead (queue_input's scan, handle_interject_queued_prompt).
THEOREM SendNowFifoCorrect == Spec => SendNowFifo
<1> DEFINE A == NowsLead(queue, running) =>
                  \A i, j \in 1..Len(queue') :
                    IsNow(queue, queue'[i].id) /\ BecomesNow(queue'[j]) => i < j
<1>1. Inv /\ QueueInv /\ [Next]_vars => A
  BY FifoStep DEF Fifo, BecomesNow
<1> QED
  BY <1>1, QueueCorrect, PTL DEF Spec, SendNowFifo

-----------------------------------------------------------------------------
(* With the command loop as the only starter of turns, the tools' prompt id   *)
(* and the pin follow the running slot.                                       *)

Pinned == Live \ {"unpinned"}

\* No turn starts between the two ends of a cancel, and a completion that is
\* about to reset the tools' prompt id found no turn that needs it.
ToolInv ==
  /\ running # None /\ phase[running] \in Pinned => resource = running /\ pin = running
  /\ pc["loop"] \in CancelArm => running = None
  /\ pc["loop"] = "unset" /\ running # None => phase[running] \notin Pinned

\* Steps that touch neither the turns nor what names them.
LEMMA ToolKeep ==
  ASSUME ToolInv, UNCHANGED <<running, phase, pin, resource>>,
         \/ pc'["loop"] = pc["loop"]
         \/ pc'["loop"] \notin CancelArm \cup {"unset"}
  PROVE  ToolInv'
BY DEF ToolInv

\* A turn lets go of its pin and its prompt id when it no longer needs them.
LEMMA TurnTool ==
  ASSUME Inv, ToolInv, NEW p \in Prompts, Turn(p)
  PROVE  ToolInv'
<1>1. UNCHANGED <<running, pc>> /\ \A o \in Prompts \ {p} : phase'[o] = phase[o]
  BY TurnFrame DEF loopVars
<1>2. UNCHANGED resource
  BY DEF Turn, TurnBegin, TurnEmit, TurnDrain, TurnGoal, TurnWait, TurnResume, TurnFinal,
         TurnUnpin, TurnComplete, TurnDropped, TurnConsumes, turnVars
<1>3. phase'[p] \in Pinned => phase[p] \in Pinned /\ pin' = pin
  <2>1. CASE TurnBegin(p) \/ TurnWait(p) \/ TurnResume(p) \/ TurnFinal(p)
    BY <2>1 DEF TurnBegin, TurnWait, TurnResume, TurnFinal, Pinned, Live
  <2>2. CASE UNCHANGED <<phase, pin>>
    BY <2>2
  <2>3. CASE TurnUnpin(p) \/ TurnDropped(p) \/ TurnComplete(p)
    BY <2>3, Types DEF TurnUnpin, TurnDropped, TurnComplete, Pinned, Live
  <2> QED
    BY <2>1, <2>2, <2>3 DEF Turn, TurnEmit, TurnDrain, TurnGoal, TurnConsumes, turnVars
<1>4. pin' = pin \/ pin = p
  BY TurnFrame
<1>5. running # None => running \in Prompts
  BY Types
<1> QED
  BY <1>1, <1>2, <1>3, <1>4, <1>5 DEF ToolInv

\* maybe_start_running_task names the turn before it gives it the slot.
LEMMA StartTool ==
  ASSUME Inv, QueueInv, PinInv, ToolInv, Start("loop")
  PROVE  ToolInv'
<1>1. CASE StartCheck("loop")
  <2>1. \E l \in {"spawn", "idle", "drain"} : Goto("loop", l)
    BY <1>1, Types DEF StartCheck, After, Jobs
  <2>2. pc'["loop"] \in {"spawn", "idle", "drain"} /\ UNCHANGED <<running, phase, resource>>
    BY <1>1, <2>1, GotoLoop DEF StartCheck
  <2>3. running # None => pin' = pin
    BY <1>1 DEF StartCheck
  <2> QED
    BY <2>2, <2>3 DEF ToolInv, CancelArm
<1>2. CASE StartSpawn("loop")
  <2>1. \E l \in {"idle", "drain"} : Goto("loop", l)
    BY <1>2, Types DEF StartSpawn, After, Jobs
  <2>2. pc'["loop"] \in {"idle", "drain"}
    BY <2>1, GotoLoop
  <2>3. lock # "free"
    BY <1>2, NoneFresh DEF StartSpawn, Inv, LockInv, Procs
  <2>4. running' = queue[1].id /\ resource' = queue[1].id /\ pin' = queue[1].id
    BY <1>2, <2>3 DEF StartSpawn, PinInv
  <2> QED
    BY <2>2, <2>4 DEF ToolInv, CancelArm
<1> QED
  BY <1>1, <1>2 DEF Start

\* cancel_running_task: by the time it resets anything, the slot is empty.
LEMMA CancelTool ==
  ASSUME Inv, ToolInv,
         \/ CancelBegin \/ CancelTake \/ CancelClear \/ CancelAbort \/ CancelSettle
         \/ CancelRelease
  PROVE  ToolInv'
<1>1. CASE CancelBegin \/ CancelRelease
  <2>1. \E l \in {"take", "start"} : Goto("loop", l)
    BY <1>1 DEF CancelBegin, CancelRelease
  <2>2. pc'["loop"] \in {"take", "start"} /\ UNCHANGED <<running, phase, pin, resource>>
    BY <1>1, <2>1, GotoLoop DEF CancelBegin, CancelRelease, stateVars, turnVars
  <2> QED
    BY <2>2, ToolKeep DEF CancelArm
<1>2. CASE CancelTake
  <2>1. running' = None /\ pc'["loop"] = "clear"
    BY <1>2, GotoLoop DEF CancelTake
  <2> QED
    BY <2>1 DEF ToolInv
<1>3. CASE CancelClear \/ CancelAbort \/ CancelSettle
  <2>1. pc["loop"] \in CancelArm /\ UNCHANGED running
    BY <1>3 DEF CancelClear, CancelAbort, CancelSettle, CancelArm, At, stateVars
  <2>2. \E l \in {"abort", "settle", "release", "start"} : Goto("loop", l)
    BY <1>3 DEF CancelClear, CancelAbort, CancelSettle
  <2>3. pc'["loop"] # "unset" /\ running' = None
    BY <2>1, <2>2, GotoLoop DEF ToolInv
  <2> QED
    BY <2>3 DEF ToolInv
<1> QED
  BY <1>1, <1>2, <1>3

\* handle_completion resets the tools' prompt id only when no turn is pinned.
LEMMA CompletionTool ==
  ASSUME Inv, QueueInv, TaskInv, ToolInv,
         \/ Completion \/ CompletionUnset \/ CompletionPop \/ CompletionTerminal
         \/ CompletionSweep \/ CompletionTurnEnd \/ CompletionStrand \/ CompletionFlush
  PROVE  ToolInv'
<1>0. running # None => running \in Prompts
  BY Types
<1>1. CASE Completion
  <2>1. /\ UNCHANGED <<running, phase, resource>> /\ phase[completions[1]] = "ended"
        /\ pin' = (IF pin = completions[1] THEN None ELSE pin)
    BY <1>1, ReceiveFrame, Types DEF Completion, TaskInv, EndedInv
  <2>2. Goto("loop", IF pin' = None THEN "unset" ELSE "pop")
    BY <1>1 DEF Completion, CompletionNext
  <2>3. pc'["loop"] = IF pin' = None THEN "unset" ELSE "pop"
    BY <2>2, GotoLoop
  <2>4. ASSUME running # None, phase[running] \in Pinned PROVE pin' = running
    BY <2>1, <2>4 DEF ToolInv, Pinned, Live
  <2> QED
    BY <2>1, <2>3, <2>4 DEF ToolInv, CancelArm
<1>2. CASE CompletionUnset
  <2>1. pc["loop"] = "unset" /\ pc'["loop"] = "pop" /\ UNCHANGED <<running, phase>>
    BY <1>2, GotoLoop DEF CompletionUnset, At, stateVars
  <2> QED
    BY <2>1 DEF ToolInv, CancelArm
<1>3. CASE CompletionPop
  <2>1. /\ running' \in {running, None} /\ pc'["loop"] \in {"terminal", "sweep"}
        /\ UNCHANGED <<phase, pin, resource>>
    BY <1>3, PopFrame DEF RunningAfter, turnVars
  <2> QED
    BY <2>1 DEF ToolInv, CancelArm
<1>4. CASE CompletionTerminal \/ CompletionSweep \/ CompletionTurnEnd \/ CompletionStrand
  <2>1. UNCHANGED <<running, phase, pin, resource>>
    BY <1>4 DEF CompletionTerminal, CompletionSweep, CompletionTurnEnd, CompletionStrand,
                stateVars, turnVars
  <2>2. pc'["loop"] \notin CancelArm \cup {"unset"}
    BY <1>4, TailFrame DEF CancelArm
  <2> QED
    BY <2>1, <2>2, ToolKeep
<1>5. CASE CompletionFlush
  BY <1>5, FlushFrame, ToolKeep DEF turnVars, CancelArm
<1> QED
  BY <1>1, <1>2, <1>3, <1>4, <1>5

\* Every step of a session without other starters preserves the invariant.
LEMMA ToolStep ==
  ASSUME Starters = {}, Inv, QueueInv, TaskInv, PinInv, ToolInv, [Next]_vars
  PROVE  ToolInv'
<1>1. CASE UNCHANGED vars \/ OrphanDrop
  BY <1>1, ToolKeep DEF vars, OrphanDrop, stateVars, turnVars, loopVars
<1>2. CASE Commands \/ InterjectFallback \/ Drain
  BY <1>2, CommandFrame, ToolKeep DEF turnVars, CancelArm
<1>3. CASE ResumeQueues \/ McpReady
  BY <1>3 DEF ResumeQueues, McpReady
<1>4. CASE Handlers /\ ~(InterjectFallback \/ Drain)
  BY <1>4, CancelTool, CompletionTool DEF Handlers
<1>5. CASE \E p \in Procs : Start(p)
  BY <1>5, StartTool DEF Procs
<1>6. CASE \E p \in Prompts : Turn(p)
  BY <1>6, TurnTool
<1> QED
  BY <1>1, <1>2, <1>3, <1>4, <1>5, <1>6 DEF Next

-----------------------------------------------------------------------------
(* The tools' prompt id and the pin, whoever starts turns.  A cancel and a    *)
(* completion reset both after awaits; the turns these resets can hit are the *)
(* ones noted in raced.                                                       *)

\* A turn or a promotion that a handler meets between its decision that the
\* session is idle and its resets was promoted in between.
RacedInv ==
  /\ running # None /\ running \notin raced /\ phase[running] \in Pinned
       => resource = running /\ pin = running
  /\ pc["loop"] \in CancelArm /\ running # None => running \in raced
  /\ pc["loop"] = "unset" /\ running # None /\ phase[running] \in Pinned => running \in raced
  /\ pc["loop"] \in Deciding /\ lock # "free" => pin \in raced

\* Steps that touch neither the turns nor what names them.
LEMMA RacedKeep ==
  ASSUME RacedInv, UNCHANGED <<running, phase, pin, resource, lock>>, raced \subseteq raced',
         pc'["loop"] = pc["loop"] \/ pc'["loop"] \notin Deciding
  PROVE  RacedInv'
BY DEF RacedInv, CancelArm, Deciding

\* A turn lets go of its pin when it no longer needs it, and never of the pin
\* of a promotion under way.
LEMMA TurnRaced ==
  ASSUME Inv, QueueInv, PinInv, RacedInv, raced \subseteq raced', NEW p \in Prompts, Turn(p)
  PROVE  RacedInv'
<1>1. UNCHANGED <<running, pc, lock>> /\ \A o \in Prompts \ {p} : phase'[o] = phase[o]
  BY TurnFrame DEF loopVars
<1>2. UNCHANGED resource
  BY DEF Turn, TurnBegin, TurnEmit, TurnDrain, TurnGoal, TurnWait, TurnResume, TurnFinal,
         TurnUnpin, TurnComplete, TurnDropped, TurnConsumes, turnVars
<1>3. phase'[p] \in Pinned => phase[p] \in Pinned /\ pin' = pin
  <2>1. CASE TurnBegin(p) \/ TurnWait(p) \/ TurnResume(p) \/ TurnFinal(p)
    BY <2>1 DEF TurnBegin, TurnWait, TurnResume, TurnFinal, Pinned, Live
  <2>2. CASE UNCHANGED <<phase, pin>>
    BY <2>2
  <2>3. CASE TurnUnpin(p) \/ TurnDropped(p) \/ TurnComplete(p)
    BY <2>3, Types DEF TurnUnpin, TurnDropped, TurnComplete, Pinned, Live
  <2> QED
    BY <2>1, <2>2, <2>3 DEF Turn, TurnEmit, TurnDrain, TurnGoal, TurnConsumes, turnVars
<1>4. pin' = pin \/ (pin = p /\ phase[p] \in {"final", "aborted"})
  BY TurnFrame
<1>5. lock # "free" => pin' = pin
  <2> SUFFICES ASSUME lock # "free" PROVE pin' = pin
    OBVIOUS
  <2>1. phase[queue[1].id] = "unborn" /\ pin = queue[1].id
    BY FrontUnborn DEF PinInv, Inv, LockInv
  <2> QED
    BY <1>4, <2>1
<1>6. running # None => running \in Prompts
  BY Types
<1>7. running # None /\ phase'[running] \in Pinned => phase[running] \in Pinned
  BY <1>1, <1>3, <1>6
<1>8. running # None /\ phase'[running] \in Pinned /\ pin = running => pin' = pin
  BY <1>3, <1>4, <1>6
<1> QED
  BY <1>1, <1>2, <1>5, <1>7, <1>8 DEF RacedInv

\* maybe_start_running_task names the turn before it gives it the slot; a
\* starter that finds the loop deciding is noted.
LEMMA StartRaced ==
  ASSUME Inv, QueueInv, PinInv, RacedInv, NoteRaced, NEW p \in Procs, Start(p)
  PROVE  RacedInv'
<1>0. raced \subseteq raced' /\ (p = "loop" \/ p \in Starters)
  BY DEF NoteRaced, Procs
<1>1. CASE StartCheck(p) /\ (running # None \/ queue = <<>>)
  <2>1. UNCHANGED <<running, phase, pin, resource, lock>>
    BY <1>1 DEF StartCheck
  <2>2. pc'["loop"] = pc["loop"] \/ pc'["loop"] \in {"spawn", "idle", "drain"}
    BY StartFrame
  <2> QED
    BY <1>0, <2>1, <2>2, RacedKeep DEF Deciding
<1>2. CASE StartCheck(p) /\ ~(running # None \/ queue = <<>>)
  <2>1. running = None /\ UNCHANGED running /\ pc[p] = "start" /\ Goto(p, "spawn")
    BY <1>2 DEF StartCheck
  <2>2. CASE p = "loop"
    <3>1. pc'["loop"] = "spawn"
      BY <2>1, <2>2, GotoLoop
    <3> QED
      BY <2>1, <3>1 DEF RacedInv, CancelArm, Deciding
  <2>3. CASE p \in Starters
    <3>1. pc'["loop"] = pc["loop"] /\ Promotes(p)
      BY <2>1, <2>3, GotoStarter DEF Promotes
    <3>2. pc["loop"] \in Deciding => pin' \in raced'
      BY <2>3, <3>1 DEF NoteRaced
    <3> QED
      BY <2>1, <3>1, <3>2 DEF RacedInv
  <2> QED
    BY <1>0, <2>2, <2>3
<1>3. CASE StartSpawn(p)
  <2>1. lock # "free"
    BY <1>3, NoneFresh DEF StartSpawn, Inv, LockInv
  <2>2. /\ running' = pin /\ resource' = pin /\ pin' = pin /\ lock' = "free"
    BY <1>3, <2>1 DEF StartSpawn, PinInv
  <2>3. pc'["loop"] = pc["loop"] \/ pc'["loop"] \in {"spawn", "idle", "drain"}
    BY StartFrame
  <2> QED
    BY <1>0, <2>1, <2>2, <2>3 DEF RacedInv, CancelArm, Deciding
<1> QED
  BY <1>1, <1>2, <1>3 DEF Start

\* cancel_running_task: a turn it finds in the slot after its locked region
\* was promoted since.
LEMMA CancelRaced ==
  ASSUME Inv, RacedInv, raced \subseteq raced',
         \/ CancelBegin \/ CancelTake \/ CancelClear \/ CancelAbort \/ CancelSettle
         \/ CancelRelease
  PROVE  RacedInv'
<1>1. CASE CancelBegin \/ CancelRelease
  <2>1. \E l \in {"take", "start"} : Goto("loop", l)
    BY <1>1 DEF CancelBegin, CancelRelease
  <2>2. /\ pc'["loop"] \in {"take", "start"}
        /\ UNCHANGED <<running, phase, pin, resource, lock>>
    BY <1>1, <2>1, GotoLoop DEF CancelBegin, CancelRelease, stateVars, turnVars
  <2> QED
    BY <2>2, RacedKeep DEF Deciding
<1>2. CASE CancelTake
  <2>1. running' = None /\ lock' = "free"
    BY <1>2 DEF CancelTake, Unlocked
  <2> QED
    BY <2>1 DEF RacedInv
<1>3. CASE CancelClear \/ CancelAbort
  <2>1. /\ pc["loop"] \in CancelArm /\ pc'["loop"] \in {"abort", "settle"}
        /\ UNCHANGED <<running, lock, pin>>
    BY <1>3, GotoLoop DEF CancelClear, CancelAbort, CancelArm, At, stateVars
  <2> QED
    BY <2>1 DEF RacedInv, CancelArm, Deciding
<1>4. CASE CancelSettle
  <2>1. pc["loop"] \in CancelArm /\ UNCHANGED running /\ lock' = "free"
    BY <1>4 DEF CancelSettle, CancelArm, At, Unlocked
  <2>2. \E l \in {"release", "start"} : Goto("loop", l)
    BY <1>4 DEF CancelSettle
  <2>3. pc'["loop"] \in {"release", "start"}
    BY <2>2, GotoLoop
  <2> QED
    BY <2>1, <2>3 DEF RacedInv, CancelArm, Deciding
<1> QED
  BY <1>1, <1>2, <1>3, <1>4

\* handle_completion resets the tools' prompt id only when nothing is pinned,
\* so neither a pinned turn nor a promotion is under way when it decides to.
LEMMA CompletionRaced ==
  ASSUME Inv, QueueInv, TaskInv, PinInv, RacedInv, raced \subseteq raced',
         \/ Completion \/ CompletionUnset \/ CompletionPop \/ CompletionTerminal
         \/ CompletionSweep \/ CompletionTurnEnd \/ CompletionStrand \/ CompletionFlush
  PROVE  RacedInv'
<1>0. running # None => running \in Prompts
  BY Types
<1>1. CASE Completion
  <2>1. /\ UNCHANGED <<running, phase, resource, lock>> /\ phase[completions[1]] = "ended"
        /\ pin' = (IF pin = completions[1] THEN None ELSE pin)
    BY <1>1, ReceiveFrame, Types DEF Completion, TaskInv, EndedInv
  <2>2. Goto("loop", IF pin' = None THEN "unset" ELSE "pop")
    BY <1>1 DEF Completion, CompletionNext
  <2>3. pc'["loop"] = IF pin' = None THEN "unset" ELSE "pop"
    BY <2>2, GotoLoop
  <2>4. ASSUME running # None, running \notin raced, phase[running] \in Pinned
        PROVE  pin' = running /\ resource = running
    BY <2>1, <2>4 DEF RacedInv, Pinned, Live
  <2>5. lock # "free" => pin' # None
    <3> SUFFICES ASSUME lock # "free" PROVE pin' # None
      OBVIOUS
    <3>1. queue[1].id \in Prompts /\ phase[queue[1].id] = "unborn" /\ pin = queue[1].id
      BY FrontUnborn DEF PinInv, Inv, LockInv
    <3> QED
      BY <2>1, <3>1, NoneFresh
  <2> QED
    BY <2>1, <2>3, <2>4, <2>5 DEF RacedInv, CancelArm, Deciding
<1>2. CASE CompletionUnset
  <2>1. /\ pc["loop"] = "unset" /\ pc'["loop"] = "pop"
        /\ UNCHANGED <<running, phase, pin, lock>>
    BY <1>2, GotoLoop DEF CompletionUnset, At, stateVars
  <2> QED
    BY <2>1 DEF RacedInv, CancelArm, Deciding
<1>3. CASE CompletionPop
  <2>1. /\ running' \in {running, None} /\ pc'["loop"] \in {"terminal", "sweep"}
        /\ UNCHANGED <<phase, pin, resource, lock>>
    BY <1>3, PopFrame DEF RunningAfter, turnVars
  <2> QED
    BY <2>1 DEF RacedInv, CancelArm, Deciding
<1>4. CASE CompletionTerminal \/ CompletionSweep \/ CompletionTurnEnd \/ CompletionStrand
  <2>1. UNCHANGED <<running, phase, pin, resource, lock>>
    BY <1>4 DEF CompletionTerminal, CompletionSweep, CompletionTurnEnd, CompletionStrand,
                stateVars, turnVars
  <2>2. pc'["loop"] \in {"pop", "sweep", "turnend", "strand", "start", "flush"}
    BY <1>4, TailFrame
  <2> QED
    BY <2>1, <2>2, RacedKeep DEF Deciding
<1>5. CASE CompletionFlush
  BY <1>5, FlushFrame, RacedKeep DEF turnVars, Deciding
<1> QED
  BY <1>1, <1>2, <1>3, <1>4, <1>5

\* Every step preserves the invariant.
LEMMA RacedStep ==
  ASSUME Inv, QueueInv, TaskInv, PinInv, RacedInv, [HNext]_hvars
  PROVE  RacedInv'
<1>0. [Next]_vars /\ raced \subseteq raced'
  BY DEF HNext, NoteRaced, hvars
<1>1. CASE UNCHANGED vars \/ OrphanDrop
  BY <1>0, <1>1, RacedKeep DEF vars, OrphanDrop, stateVars, turnVars, loopVars
<1>2. CASE Commands \/ InterjectFallback \/ Drain
  BY <1>0, <1>2, CommandFrame, RacedKeep DEF turnVars, Deciding
<1>3. CASE ResumeQueues \/ McpReady
  BY <1>0, <1>3, ArrivalFrame, RacedKeep DEF turnVars
<1>4. CASE Handlers /\ ~(InterjectFallback \/ Drain)
  BY <1>0, <1>4, CancelRaced, CompletionRaced DEF Handlers
<1>5. CASE NoteRaced /\ \E p \in Procs : Start(p)
  BY <1>5, StartRaced
<1>6. CASE \E p \in Prompts : Turn(p)
  BY <1>0, <1>6, TurnRaced
<1> QED
  BY <1>0, <1>1, <1>2, <1>3, <1>4, <1>5, <1>6 DEF Next, HNext, hvars

\* The history variable constrains nothing: its specification's behaviours are
\* the session's.
LEMMA HistoryIsSession == HSpec => Spec
<1>1. HInit => Init
  BY DEF HInit
<1>2. [HNext]_hvars => [Next]_vars
  BY DEF HNext, hvars
<1> QED
  BY <1>1, <1>2, PTL DEF HSpec, Spec

\* The running turn is the one its tools and the pin name until its scope
\* guard drops, whichever task started it: a stale completion never resets the
\* promoted turn's prompt id, and a cancel resets only what it took, except
\* for a turn another task promotes between their decision and their resets.
THEOREM ToolsSeeTurnCorrect == HSpec => []ToolsSeeTurn
<1> DEFINE I == Inv /\ QueueInv /\ CancelInv
<1>1. HInit => RacedInv
  BY NoneFresh DEF HInit, Init, RacedInv, CancelArm
<1>2. RacedInv /\ I /\ [HNext]_hvars => RacedInv'
  BY RacedStep DEF CancelInv
<1>3. RacedInv => ToolsSeeTurn
  BY DEF RacedInv, ToolsSeeTurn, Pinned
<1>4. HSpec => []I
  BY CancelCorrect, HistoryIsSession, PTL
<1> HIDE DEF I
<1> QED
  BY <1>1, <1>2, <1>3, <1>4, PTL DEF HSpec

-----------------------------------------------------------------------------
(* Waiting notifications, with the command loop as the only starter and       *)
(* without rewinds.  A cancel suppresses notification turns until the user's  *)
(* next prompt, and a send-now cancel that lifts the suppression has that     *)
(* prompt in the queue.                                                       *)

UserWaiting == \E k \in 1..Len(queue) : queue[k].kind = "user" /\ queue[k].id # running

HeldInv ==
  /\ job.mode # "rewind"
  /\ pc["loop"] \in CancelArm \cup {"release"} => suppressed
  /\ pc["loop"] \in {"cancel", "take"} /\ job.mode = "sendnow" => running # None /\ UserWaiting
  /\ \/ pc["loop"] \in CancelArm /\ job.mode = "sendnow"
     \/ pc["loop"] = "release"
     => UserWaiting

\* A copied prompt keeps its origin, so a user prompt that is still there is
\* still a user prompt.
LEMMA UserStays ==
  ASSUME QueueInv, Copied(queue', queue), NEW k \in 1..Len(queue), queue[k].kind = "user",
         Holds(queue', queue[k].id), queue[k].id # running'
  PROVE  UserWaiting'
<1>1. PICK i \in 1..Len(queue') : queue'[i].id = queue[k].id
  BY DEF Holds
<1>2. PICK m \in 1..Len(queue) : queue'[i].id = queue[m].id /\ queue'[i].kind = queue[m].kind
  BY DEF Copied
<1>3. m = k
  BY <1>1, <1>2 DEF QueueInv, Distinct
<1> QED
  BY <1>1, <1>2, <1>3 DEF UserWaiting

\* The loop outside a cancel.
LEMMA HeldOutside ==
  ASSUME job'.mode # "rewind",
         pc'["loop"] \notin CancelArm \cup {"release", "cancel", "take"}
  PROVE  HeldInv'
BY DEF HeldInv

\* A command that starts a send-now cancel has queued the prompt it is for.
LEMMA CommandHeld ==
  ASSUME "rewind" \notin CancelModes, Inv, QueueInv, HeldInv,
         Commands \/ InterjectFallback \/ Drain
  PROVE  HeldInv'
<1>0. NoJob.mode = "none"
  BY DEF NoJob
<1>1. ASSUME NEW kind \in PromptKinds, NEW now \in SendNow, NEW o \in Owners,
             Prompt(kind, now, o)
      PROVE  HeldInv'
  <2> DEFINE base == Sweep(queue, running, Preempted(kind))
             cancels == IsSendNow(kind, now, base) /\ running # None /\ ~goalGate
  <2>1. /\ Goto("loop", IF cancels THEN "cancel" ELSE "start") /\ UNCHANGED running
        /\ job' = [NoJob EXCEPT !.mode = IF cancels THEN "sendnow" ELSE "none"]
    BY <1>1 DEF Prompt
  <2>2. cancels => kind = "user" /\ running # None
    BY DEF IsSendNow
  <2> HIDE DEF cancels
  <2>3. /\ pc'["loop"] = (IF cancels THEN "cancel" ELSE "start")
        /\ job'.mode = (IF cancels THEN "sendnow" ELSE "none")
    BY <2>1, GotoLoop DEF NoJob
  <2>4. CASE ~cancels
    BY <2>3, <2>4, HeldOutside DEF CancelArm
  <2>5. CASE cancels
    <3>1. kind \in Kinds /\ now \in BOOLEAN /\ o \in Owners \cup {"any"} /\ QueueInput(kind, now, o)
      BY <1>1, SessionAssumption DEF Prompt, Kinds
    <3>2. Queued(queue', queue, nextId, "user")
      BY <2>2, <2>5, <3>1, QueueInputQueued
    <3>3. running < nextId /\ running \in Nat /\ nextId \in Nat
      <4>1. 1 \in 1..Len(queue) /\ queue[1].id = running
        BY <2>2, <2>5, Types DEF QueueInv, Fronted
      <4> QED
        BY <4>1, Types DEF QueueInv, IdsFresh, Prompts, None
    <3>4. PICK i \in 1..Len(queue') : queue'[i].id = nextId
      BY <3>2 DEF Queued, Holds
    <3>5. queue'[i].kind = "user"
      <4>1. CASE \E k \in 1..Len(queue) : queue'[i].id = queue[k].id
        <5>1. PICK k \in 1..Len(queue) : nextId = queue[k].id
          BY <3>4, <4>1
        <5>2. nextId < nextId
          BY <5>1 DEF QueueInv, IdsFresh
        <5> QED
          BY <3>3, <5>2
      <4> QED
        BY <3>2, <4>1 DEF Queued
    <3>6. UserWaiting' /\ running' # None
      BY <2>1, <2>2, <2>5, <3>3, <3>4, <3>5 DEF UserWaiting
    <3> QED
      BY <2>3, <2>5, <3>6 DEF HeldInv, CancelArm
  <2> QED
    BY <2>4, <2>5
<1>2. ASSUME NEW mode \in CancelModes, CancelCommand(mode) PROVE HeldInv'
  <2>1. pc'["loop"] = "cancel" /\ job'.mode = mode
    BY <1>2, GotoLoop DEF CancelCommand, NoJob
  <2>2. mode \notin {"rewind", "sendnow"}
    BY <1>2, SessionAssumption
  <2> QED
    BY <2>1, <2>2 DEF HeldInv, CancelArm
<1>3. ASSUME NEW id \in Prompts, NEW v \in 0..MaxEdits, NEW o \in Owners \cup {"any"},
             PromoteRow(id, v, o)
      PROVE  HeldInv'
  <2> DEFINE at == RowAt(queue, running, id, v, o)
             cancels == at # {} /\ running # None /\ ~goalGate
  <2>1. /\ Goto("loop", IF cancels THEN "cancel" ELSE "start") /\ UNCHANGED running
        /\ job' = [NoJob EXCEPT !.mode = IF cancels THEN "sendnow" ELSE "none"]
    BY <1>3 DEF PromoteRow, EditFrame
  <2>2. /\ pc'["loop"] = (IF cancels THEN "cancel" ELSE "start")
        /\ job'.mode = (IF cancels THEN "sendnow" ELSE "none")
    <3> HIDE DEF cancels
    <3> QED
      BY <2>1, GotoLoop DEF NoJob
  <2>3. CASE ~cancels
    BY <2>2, <2>3, HeldOutside DEF CancelArm
  <2>4. CASE cancels
    <3>1. PICK i \in 1..Len(queue) : queue[i].kind = "user" /\ queue[i].id # running
      BY <2>4 DEF RowAt, IsRow
    <3>2. Copied(queue', queue) /\ Holds(queue', queue[i].id)
      BY <1>3, EditsCopied
    <3>3. UserWaiting'
      BY <2>1, <3>1, <3>2, UserStays
    <3> QED
      BY <2>1, <2>2, <2>4, <3>3 DEF HeldInv, CancelArm
  <2> QED
    BY <2>3, <2>4
<1>4. CASE Interject \/ InterjectFallback \/ Drain \/ \E next \in BOOLEAN : Notify(next)
  <2>1. job' = job \/ job' = NoJob
    BY <1>4 DEF Interject, InterjectFallback, Drain, Notify
  <2>2. pc' = pc \/ \E l \in {"idle", "fallback", "drain", "start"} : Goto("loop", l)
    BY <1>4 DEF Interject, InterjectFallback, Drain, Notify
  <2>3. pc'["loop"] \in {"idle", "fallback", "drain", "start"}
    BY <1>4, <2>2, GotoLoop, CommandFrame
  <2> QED
    BY <1>0, <2>1, <2>3, HeldOutside DEF HeldInv, CancelArm
<1>5. CASE \/ \E id \in Prompts, v \in 0..MaxEdits, o \in Owners \cup {"any"} : RemoveRow(id, v, o)
           \/ \E id \in Prompts : EditRow(id)
           \/ ReorderRows
           \/ \E o \in Owners \cup {"any"} : ClearRows(o)
  <2>1. UNCHANGED <<pc, job>> /\ pc["loop"] = "idle"
    BY <1>5 DEF RemoveRow, EditRow, ReorderRows, ClearRows, Ready, At
  <2> QED
    BY <2>1, HeldOutside DEF HeldInv, CancelArm
<1> QED
  BY <1>1, <1>2, <1>3, <1>4, <1>5 DEF Commands

\* cancel_running_task takes the running front, not the prompt behind it.
LEMMA CancelHolds ==
  ASSUME Inv, QueueInv, HeldInv, ToolInv,
         \/ CancelBegin \/ CancelTake \/ CancelClear \/ CancelAbort \/ CancelSettle
         \/ CancelRelease
  PROVE  HeldInv'
<1>1. CASE CancelBegin
  <2>1. /\ pc["loop"] = "cancel" /\ pc'["loop"] = "take" /\ job'.mode = job.mode
        /\ UNCHANGED <<queue, running>>
    BY <1>1, GotoLoop, Types DEF CancelBegin, At, Jobs, stateVars
  <2> QED
    BY <2>1 DEF HeldInv, UserWaiting, CancelArm
<1>2. CASE CancelTake
  <2>1. /\ pc["loop"] = "take" /\ pc'["loop"] = "clear" /\ running' = None
        /\ suppressed' /\ job'.mode = job.mode
    <3>1. ~(job.mode = "rewind" /\ rewindable /\ queue # <<>>)
      BY DEF HeldInv
    <3>2. suppressed' = TRUE /\ job'.mode = job.mode
      BY <1>2, <3>1, Types DEF CancelTake, Jobs, HeldInv
    <3> QED
      BY <1>2, <3>2, GotoLoop DEF CancelTake, At
  <2>2. ASSUME job.mode = "sendnow" PROVE UserWaiting'
    <3>1. running # None /\ UserWaiting
      BY <2>1, <2>2 DEF HeldInv
    <3>2. PICK k \in 1..Len(queue) : queue[k].kind = "user" /\ queue[k].id # running
      BY <3>1 DEF UserWaiting
    <3>3. queue # <<>> /\ k # 1 /\ k \in 2..Len(queue) /\ queue[k].id # None
      <4>1. queue # <<>> /\ k # 1
        BY <3>1, <3>2 DEF QueueInv, Fronted
      <4>2. queue[k] \in Item
        BY Types
      <4> QED
        BY <4>1, <4>2, NoneFresh DEF Item
    <3>4. queue' = Tail(queue)
      BY <1>2, <2>2, <3>3 DEF CancelTake
    <3>5. Copied(queue', queue) /\ Holds(queue', queue[k].id)
      BY <3>3, <3>4, TailCopied, Types
    <3> QED
      BY <2>1, <3>2, <3>3, <3>5, UserStays
  <2> QED
    BY <2>1, <2>2 DEF HeldInv
<1>3. CASE CancelClear \/ CancelAbort
  <2>1. \E l \in {"abort", "settle"} : Goto("loop", l)
    BY <1>3 DEF CancelClear, CancelAbort
  <2>2. /\ pc["loop"] \in CancelArm /\ pc'["loop"] \in {"abort", "settle"}
        /\ UNCHANGED <<queue, running, job, suppressed>>
    BY <1>3, <2>1, GotoLoop DEF CancelClear, CancelAbort, At, stateVars, CancelArm
  <2> QED
    BY <2>2 DEF HeldInv, UserWaiting, CancelArm
<1>4. CASE CancelSettle
  <2>1. Goto("loop", IF job.mode = "sendnow" THEN "release" ELSE "start")
    BY <1>4 DEF CancelSettle
  <2>2. /\ pc["loop"] \in CancelArm /\ job'.mode = "none" /\ UNCHANGED <<queue, running, suppressed>>
    BY <1>4 DEF CancelSettle, At, CancelArm, NoJob
  <2>3. pc'["loop"] = IF job.mode = "sendnow" THEN "release" ELSE "start"
    BY <2>1, GotoLoop
  <2> QED
    BY <2>2, <2>3 DEF HeldInv, UserWaiting, CancelArm
<1>5. CASE CancelRelease
  <2>1. pc'["loop"] = "start" /\ UNCHANGED job
    BY <1>5, GotoLoop DEF CancelRelease
  <2> QED
    BY <2>1, HeldOutside DEF HeldInv, CancelArm
<1> QED
  BY <1>1, <1>2, <1>3, <1>4, <1>5

\* Every step keeps the prompt a send-now cancel is for.
LEMMA HeldStep ==
  ASSUME Starters = {}, "rewind" \notin CancelModes, Inv, QueueInv, HeldInv, ToolInv, [Next]_vars
  PROVE  HeldInv'
<1>1. CASE UNCHANGED vars \/ OrphanDrop
  <2>1. UNCHANGED <<queue, running, suppressed, pc, job>>
    BY <1>1 DEF vars, OrphanDrop, stateVars, loopVars
  <2> QED
    BY <2>1 DEF HeldInv, UserWaiting
<1>2. CASE Commands \/ InterjectFallback \/ Drain
  BY <1>2, CommandHeld
<1>3. CASE ResumeQueues \/ McpReady
  BY <1>3 DEF ResumeQueues, McpReady
<1>4. CASE \/ CancelBegin \/ CancelTake \/ CancelClear \/ CancelAbort \/ CancelSettle
           \/ CancelRelease
  BY <1>4, CancelHolds
<1>5. CASE \/ Completion \/ CompletionUnset \/ CompletionPop \/ CompletionTerminal
           \/ CompletionSweep \/ CompletionTurnEnd \/ CompletionStrand \/ CompletionFlush
  <2>1. pc'["loop"] \notin CancelArm \cup {"release", "cancel", "take"}
    BY <1>5, ReceiveFrame, TailFrame, PopFrame, FlushFrame DEF CancelArm
  <2>2. job'.mode \in {job.mode, "none"}
    <3>1. CASE Completion
      BY <3>1 DEF Completion, NoJob
    <3>2. CASE CompletionStrand \/ CompletionFlush
      BY <3>2, Types DEF CompletionStrand, CompletionFlush, Jobs
    <3>3. CASE job' = job
      BY <3>3
    <3> QED
      BY <1>5, <3>1, <3>2, <3>3 DEF CompletionUnset, CompletionPop, CompletionTerminal,
           CompletionSweep, CompletionTurnEnd
  <2> QED
    BY <2>1, <2>2, HeldOutside DEF HeldInv
<1>6. CASE \E p \in Procs : Start(p)
  <2>1. Start("loop") /\ "loop" \in Procs
    BY <1>6 DEF Procs
  <2>2. pc'["loop"] \in {"spawn", "idle", "drain"}
    BY <2>1, StartFrame
  <2>3. job' \in {job, NoJob} /\ NoJob.mode = "none"
    BY <2>1 DEF Start, StartCheck, StartSpawn, NoJob
  <2> QED
    BY <2>2, <2>3, HeldOutside DEF HeldInv, CancelArm
<1>7. CASE \E p \in Prompts : Turn(p)
  <2>1. UNCHANGED <<running, suppressed, pc, job>> /\ Swept(queue', queue)
    BY <1>7, TurnFrame, ConsumesSwept DEF loopVars
  <2>2. UserWaiting => UserWaiting'
    BY <2>1, UserStays DEF Swept, UserWaiting
  <2> QED
    BY <2>1, <2>2 DEF HeldInv
<1> QED
  BY <1>1, <1>2, <1>3, <1>4, <1>5, <1>6, <1>7 DEF Next, Handlers

\* is_turn_active is owed to a turn that has begun and whose guards are not
\* dropped; such a turn is never behind an empty slot and an empty queue.
Begun == {"loop", "wait", "final", "unpinned", "aborted"}

ActiveInv ==
  /\ active => \E p \in Prompts : phase[p] \in Begun
  /\ running # None /\ phase[running] # "spawned" => \A p \in Prompts : phase[p] # "aborted"
  /\ IdleForInjection => ~active

\* Steps that touch no task and do not make the session idle.
LEMMA ActiveKeep ==
  ASSUME ActiveInv, UNCHANGED <<active, phase, running>>, IdleForInjection' => IdleForInjection
  PROVE  ActiveInv'
BY DEF ActiveInv

\* A queue that was added to is not empty.
LEMMA QueuedNonEmpty ==
  ASSUME NEW new, NEW q, NEW id, NEW kind, Queued(new, q, id, kind)
  PROVE  new # <<>>
<1>1. PICK i \in 1..Len(new) : new[i].id = id
  BY DEF Queued, Holds
<1> QED
  BY <1>1

\* No command empties the queue of a session without a turn.
LEMMA CommandQuiet ==
  ASSUME Starters = {}, Inv, QueueInv, StallInv, Commands \/ InterjectFallback \/ Drain,
         IdleForInjection'
  PROVE  IdleForInjection
<1>1. running = None /\ queue' = <<>> /\ ~suppressed'
  BY CommandFrame DEF IdleForInjection
<1>2. ~ \E kind \in PromptKinds, now \in SendNow, o \in Owners : Prompt(kind, now, o)
  <2> SUFFICES ASSUME NEW kind \in PromptKinds, NEW now \in SendNow, NEW o \in Owners,
                      Prompt(kind, now, o)
               PROVE  FALSE
    OBVIOUS
  <2>1. kind \in Kinds /\ now \in BOOLEAN /\ o \in Owners \cup {"any"} /\ QueueInput(kind, now, o)
    BY SessionAssumption DEF Prompt, Kinds
  <2> QED
    BY <1>1, <2>1, QueueInputQueued, QueuedNonEmpty
<1>3. ~InterjectFallback
  BY <1>1, SyntheticQueued, QueuedNonEmpty DEF InterjectFallback
<1>4. UNCHANGED suppressed /\ pc["loop"] \in {"idle", "drain"}
  BY <1>2, <1>3 DEF Commands, CancelCommand, Interject, Notify, RemoveRow, PromoteRow, EditRow,
       ReorderRows, ClearRows, Drain, EditFrame, Ready, At, stateVars
<1> QED
  BY <1>1, <1>4 DEF StallInv, IdleForInjection

\* Between turns a task that a cancel is about to abort runs under the
\* suppression, so no step of a turn makes the session idle.
LEMMA TurnQuiet ==
  ASSUME Inv, TaskInv, HeldInv, NEW p \in Prompts, Turn(p), IdleForInjection'
  PROVE  IdleForInjection /\ (active' => active)
<1>1. UNCHANGED <<running, suppressed>> /\ running = None /\ ~suppressed
  BY TurnFrame DEF IdleForInjection
<1>2. phase[p] \notin Live
  BY <1>1, NoneFresh DEF TaskInv, LiveTurnOwned, HeldInv, CancelArm
<1>3. TurnDropped(p)
  BY <1>2 DEF Turn, TurnBegin, TurnEmit, TurnDrain, TurnGoal, TurnWait, TurnResume, TurnFinal,
       TurnUnpin, TurnComplete, TurnConsumes, Live
<1>4. UNCHANGED queue /\ active' = FALSE
  BY <1>3 DEF TurnDropped, stateVars
<1> QED
  BY <1>1, <1>4 DEF IdleForInjection

\* Turn tasks.
LEMMA TurnActive ==
  ASSUME Inv, TaskInv, HeldInv, ActiveInv, NEW p \in Prompts, Turn(p)
  PROVE  ActiveInv'
<1>0. /\ UNCHANGED running /\ \A o \in Prompts \ {p} : phase'[o] = phase[o]
  BY TurnFrame
<1>1. active' => \E o \in Prompts : phase'[o] \in Begun
  <2>1. CASE TurnBegin(p)
    BY <2>1, Types DEF TurnBegin, Begun
  <2>2. CASE TurnWait(p) \/ TurnResume(p) \/ TurnFinal(p) \/ TurnUnpin(p)
    <3>1. phase'[p] \in Begun
      BY <2>2, Types DEF TurnWait, TurnResume, TurnFinal, TurnUnpin, Begun
    <3> QED
      BY <3>1
  <2>3. CASE TurnComplete(p) \/ TurnDropped(p)
    BY <2>3 DEF TurnComplete, TurnDropped
  <2>4. CASE UNCHANGED <<active, phase>>
    BY <2>4 DEF ActiveInv
  <2> QED
    BY <2>1, <2>2, <2>3, <2>4 DEF Turn, TurnEmit, TurnDrain, TurnGoal, TurnConsumes, turnVars
<1>2. ASSUME running # None, phase'[running] # "spawned", NEW o \in Prompts, phase'[o] = "aborted"
      PROVE  FALSE
  <2>1. phase[o] = "aborted" /\ ~TurnBegin(p)
    BY <1>0, <1>2, Types DEF Turn, TurnBegin, TurnEmit, TurnDrain, TurnGoal, TurnWait, TurnResume,
         TurnFinal, TurnUnpin, TurnComplete, TurnDropped, TurnConsumes, turnVars
  <2>2. phase[running] # "spawned"
    BY <1>0, <1>2, <2>1, Types DEF Turn, TurnEmit, TurnDrain, TurnGoal, TurnWait, TurnResume,
         TurnFinal, TurnUnpin, TurnComplete, TurnDropped, TurnConsumes, turnVars
  <2> QED
    BY <1>2, <2>1, <2>2 DEF ActiveInv
<1>3. IdleForInjection' => ~active'
  BY TurnQuiet DEF ActiveInv
<1> QED
  BY <1>0, <1>1, <1>2, <1>3 DEF ActiveInv

\* cancel_running_task suppresses notification turns before it aborts a task
\* that may still be active, and lifts that only for a prompt in the queue.
LEMMA CancelActive ==
  ASSUME Inv, QueueInv, ToolInv, HeldInv, ActiveInv,
         \/ CancelBegin \/ CancelTake \/ CancelClear \/ CancelAbort \/ CancelSettle
         \/ CancelRelease
  PROVE  ActiveInv'
<1>1. CASE CancelBegin \/ CancelClear \/ CancelSettle
  <2>1. UNCHANGED <<queue, running, suppressed, active, phase>>
    BY <1>1 DEF CancelBegin, CancelClear, CancelSettle, stateVars, turnVars
  <2> QED
    BY <2>1, ActiveKeep DEF IdleForInjection
<1>2. CASE CancelTake
  <2>1. ~(job.mode = "rewind" /\ rewindable /\ queue # <<>>)
    BY DEF HeldInv
  <2>2. running' = None /\ suppressed' = TRUE /\ UNCHANGED <<active, phase>>
    BY <1>2, <2>1 DEF CancelTake
  <2> QED
    BY <2>2 DEF ActiveInv, IdleForInjection
<1>3. CASE CancelAbort
  <2>1. /\ UNCHANGED <<queue, running, suppressed, active>> /\ phase' = Abort(job.cur)
        /\ pc["loop"] = "abort"
    BY <1>3 DEF CancelAbort, stateVars, At
  <2>2. running = None
    BY <2>1 DEF ToolInv, CancelArm
  <2>3. \A p \in Prompts : phase[p] \in Begun => phase'[p] \in Begun
    <3>1. CASE job.cur # None /\ phase[job.cur] \in Live
      BY <2>1, <3>1, Types DEF Abort, Begun
    <3>2. CASE ~(job.cur # None /\ phase[job.cur] \in Live)
      BY <2>1, <3>2 DEF Abort
    <3> QED
      BY <3>1, <3>2
  <2> QED
    BY <2>1, <2>2, <2>3 DEF ActiveInv, IdleForInjection
<1>4. CASE CancelRelease
  <2>1. UNCHANGED <<queue, running, active, phase>> /\ pc["loop"] = "release"
    BY <1>4 DEF CancelRelease, At, turnVars
  <2>2. queue # <<>>
    BY <2>1 DEF HeldInv, UserWaiting
  <2> QED
    BY <2>1, <2>2 DEF ActiveInv, IdleForInjection
<1> QED
  BY <1>1, <1>2, <1>3, <1>4

\* handle_completion leaves an idle session only when the turn it ends was the
\* last one to be active.
LEMMA PopActive ==
  ASSUME Inv, QueueInv, TaskInv, ActiveInv, CompletionPop
  PROVE  ActiveInv'
<1>1. /\ UNCHANGED <<active, phase, suppressed>> /\ running' = RunningAfter
      /\ queue' = IF Owned THEN Tail(queue) ELSE queue
      /\ job.cur # None /\ phase[job.cur] = "ended" /\ pc["loop"] = "pop"
  BY PopFrame DEF turnVars, TaskInv, EndedInv, FinishArm
<1>2. running' \in {running, None}
  BY <1>1 DEF RunningAfter
<1>3. ASSUME IdleForInjection' PROVE ~active
  <2>1. CASE running = None
    <3>1. ~Owned
      BY <1>1, <2>1, FrontUnborn DEF Owned
    <3> QED
      BY <1>1, <1>3, <2>1, <3>1 DEF IdleForInjection, ActiveInv
  <2>2. CASE running # None
    <3>1. running = job.cur
      BY <1>1, <1>3, <2>2 DEF IdleForInjection, RunningAfter, Owned, QueueInv, Fronted
    <3>2. \A p \in Prompts : phase[p] # "aborted"
      BY <1>1, <2>2, <3>1 DEF ActiveInv
    <3>3. \A p \in Prompts : phase[p] \notin Live
      BY <1>1, <3>1 DEF TaskInv, LiveTurnOwned, Live
    <3> QED
      BY <3>2, <3>3 DEF ActiveInv, Begun, Live
  <2> QED
    BY <2>1, <2>2
<1> QED
  BY <1>1, <1>2, <1>3 DEF ActiveInv

\* The rest of a completion queues prompts and removes none.
LEMMA TailQuiet ==
  ASSUME Inv,
         \/ Completion \/ CompletionUnset \/ CompletionTerminal \/ CompletionSweep
         \/ CompletionTurnEnd \/ CompletionStrand \/ CompletionFlush
  PROVE  UNCHANGED <<active, phase, running, suppressed>> /\ (queue' = <<>> => queue = <<>>)
<1>1. UNCHANGED <<active, phase, running, suppressed>>
  BY DEF Completion, CompletionUnset, CompletionTerminal, CompletionSweep, CompletionTurnEnd,
       CompletionStrand, CompletionFlush, QueueFallback, stateVars, turnVars
<1>2. ASSUME CompletionFlush \/ (CompletionTurnEnd /\ queue' # queue) PROVE queue' # <<>>
  <2>1. QueueFallback \/ (CompletionTurnEnd /\ queue' # queue)
    BY <1>2 DEF CompletionFlush
  <2>2. PICK kind \in {"fallback", "goal", "drain"} : Queued(queue', queue, nextId, kind)
    BY <2>1, SyntheticQueued
  <2> QED
    BY <2>2, QueuedNonEmpty
<1>3. CompletionFlush \/ CompletionTurnEnd \/ queue' = queue
  BY DEF Completion, CompletionUnset, CompletionTerminal, CompletionSweep, CompletionStrand,
       stateVars
<1> QED
  BY <1>1, <1>2, <1>3

\* Every step keeps the flag owed to a turn.
LEMMA ActiveStep ==
  ASSUME Starters = {}, Inv, QueueInv, TaskInv, StallInv, ToolInv, HeldInv, ActiveInv, [Next]_vars
  PROVE  ActiveInv'
<1>1. CASE UNCHANGED vars \/ OrphanDrop
  <2>1. UNCHANGED <<queue, running, suppressed, active, phase>>
    BY <1>1 DEF vars, OrphanDrop, stateVars, turnVars
  <2> QED
    BY <2>1, ActiveKeep DEF IdleForInjection
<1>2. CASE Commands \/ InterjectFallback \/ Drain
  BY <1>2, CommandFrame, CommandQuiet, ActiveKeep DEF turnVars
<1>3. CASE ResumeQueues \/ McpReady
  BY <1>3 DEF ResumeQueues, McpReady
<1>4. CASE \/ CancelBegin \/ CancelTake \/ CancelClear \/ CancelAbort \/ CancelSettle
           \/ CancelRelease
  BY <1>4, CancelActive
<1>5. CASE CompletionPop
  BY <1>5, PopActive
<1>6. CASE \/ Completion \/ CompletionUnset \/ CompletionTerminal \/ CompletionSweep
           \/ CompletionTurnEnd \/ CompletionStrand \/ CompletionFlush
  BY <1>6, TailQuiet, ActiveKeep DEF IdleForInjection
<1>7. CASE \E p \in Procs : Start(p)
  <2>1. Start("loop") /\ "loop" \in Procs
    BY <1>7 DEF Procs
  <2>2. UNCHANGED <<queue, suppressed, active>>
    BY <2>1 DEF Start, StartCheck, StartSpawn
  <2>3. CASE UNCHANGED <<running, phase>>
    BY <2>2, <2>3, ActiveKeep DEF IdleForInjection
  <2>4. CASE /\ running' \in Prompts /\ phase[running'] = "unborn" /\ phase'[running'] = "spawned"
             /\ \A o \in Prompts : o # running' => phase'[o] = phase[o]
    <3>1. \A o \in Prompts : phase[o] \in Begun => phase'[o] \in Begun
      BY <2>4 DEF Begun
    <3>2. ~IdleForInjection'
      BY <2>4, NoneFresh DEF IdleForInjection
    <3> QED
      BY <2>2, <2>4, <3>1, <3>2 DEF ActiveInv
  <2> QED
    BY <2>1, <2>3, <2>4, StartFrame
<1>8. CASE \E p \in Prompts : Turn(p)
  BY <1>8, TurnActive
<1> QED
  BY <1>1, <1>2, <1>3, <1>4, <1>5, <1>6, <1>7, <1>8 DEF Next, Handlers

\* The completion arm ends in a drain, and whoever reaches the loop's rest by
\* another way leaves no notification in an idle session.
NotesInv ==
  /\ pc["loop"] \in FinishArm \cup {"flush"} => job.next = "drain"
  /\ pc["loop"] = "idle" \/ (pc["loop"] = "start" /\ job.next = "idle") =>
       (IdleForInjection => notifs + buffer = 0)

\* Steps to a place where nothing is asked, or that leave a session that is
\* not idle.
LEMMA NotesElsewhere ==
  ASSUME pc'["loop"] \notin FinishArm \cup {"flush"},
         pc'["loop"] \notin {"idle", "start"} \/ ~IdleForInjection'
  PROVE  NotesInv'
BY DEF NotesInv

\* Commands: a notification for an active turn finds the session busy.
LEMMA CommandNotes ==
  ASSUME Starters = {}, Inv, QueueInv, StallInv, ActiveInv, NotesInv,
         Commands \/ InterjectFallback \/ Drain
  PROVE  NotesInv'
<1>0. pc'["loop"] \notin FinishArm \cup {"flush"}
  BY CommandFrame DEF FinishArm
<1> SUFFICES ASSUME pc'["loop"] \in {"idle", "start"}, IdleForInjection'
             PROVE  notifs' + buffer' = 0
  BY <1>0 DEF NotesInv
<1>1. IdleForInjection /\ ~active
  BY CommandQuiet DEF ActiveInv
<1>2. CASE Drain
  BY <1>1, <1>2 DEF Drain
<1>3. CASE \E next \in BOOLEAN : Notify(next)
  <2>1. Goto("loop", "drain")
    BY <1>1, <1>3 DEF Notify
  <2> QED
    BY <2>1, GotoLoop
<1>4. CASE InterjectFallback
  <2>1. PICK kind \in {"fallback", "goal", "drain"} : Queued(queue', queue, nextId, kind)
    BY <1>4, SyntheticQueued DEF InterjectFallback
  <2> QED
    BY <2>1, QueuedNonEmpty DEF IdleForInjection
<1>5. CASE pc["loop"] = "idle" /\ UNCHANGED <<notifs, buffer>>
  BY <1>1, <1>5 DEF NotesInv
<1> QED
  BY <1>2, <1>3, <1>4, <1>5 DEF Commands, Prompt, CancelCommand, Interject, RemoveRow, PromoteRow,
       EditRow, ReorderRows, ClearRows, EditFrame, Ready, At, stateVars, inboxVars

\* A cancel comes back to the loop suppressed, or with the prompt it is for.
LEMMA CancelNotes ==
  ASSUME Inv, HeldInv,
         \/ CancelBegin \/ CancelTake \/ CancelClear \/ CancelAbort \/ CancelSettle
         \/ CancelRelease
  PROVE  NotesInv'
<1>1. CASE CancelBegin \/ CancelTake \/ CancelClear \/ CancelAbort
  <2>1. \E l \in {"take", "clear", "abort", "settle"} : Goto("loop", l)
    BY <1>1 DEF CancelBegin, CancelTake, CancelClear, CancelAbort
  <2>2. pc'["loop"] \in {"take", "clear", "abort", "settle"}
    BY <2>1, GotoLoop
  <2> QED
    BY <2>2, NotesElsewhere DEF FinishArm
<1>2. CASE CancelSettle
  <2>1. pc["loop"] \in CancelArm /\ pc'["loop"] \in {"release", "start"} /\ UNCHANGED suppressed
    BY <1>2, SettleFrame DEF CancelArm
  <2>2. ~IdleForInjection'
    BY <2>1 DEF HeldInv, IdleForInjection
  <2> QED
    BY <2>1, <2>2, NotesElsewhere DEF FinishArm
<1>3. CASE CancelRelease
  <2>1. pc["loop"] = "release" /\ pc'["loop"] = "start" /\ UNCHANGED queue
    BY <1>3, GotoLoop DEF CancelRelease, At
  <2>2. ~IdleForInjection'
    BY <2>1 DEF HeldInv, UserWaiting, IdleForInjection
  <2> QED
    BY <2>1, <2>2, NotesElsewhere DEF FinishArm
<1> QED
  BY <1>1, <1>2, <1>3

\* The completion arm keeps its way to the drain.
LEMMA CompletionNotes ==
  ASSUME Inv, NotesInv,
         \/ Completion \/ CompletionUnset \/ CompletionPop \/ CompletionTerminal
         \/ CompletionSweep \/ CompletionTurnEnd \/ CompletionStrand \/ CompletionFlush
  PROVE  NotesInv'
<1>1. pc'["loop"] # "idle"
  BY ReceiveFrame, TailFrame, PopFrame, FlushFrame
<1>2. CASE Completion
  <2>1. job'.next = "drain"
    BY <1>2 DEF Completion, NoJob
  <2> QED
    BY <1>1, <2>1 DEF NotesInv
<1>3. CASE ~Completion
  <2>1. pc["loop"] \in FinishArm \cup {"flush"}
    BY <1>3, TailFrame, PopFrame, FlushFrame DEF FinishArm
  <2>2. job'.next = job.next
    <3>1. CASE CompletionStrand \/ CompletionFlush
      BY <3>1, Types DEF CompletionStrand, CompletionFlush, Jobs
    <3>2. CASE job' = job
      BY <3>2
    <3> QED
      BY <1>3, <3>1, <3>2 DEF CompletionUnset, CompletionPop, CompletionTerminal,
           CompletionSweep, CompletionTurnEnd
  <2> QED
    BY <1>1, <2>1, <2>2 DEF NotesInv
<1> QED
  BY <1>2, <1>3

\* Every step keeps an idle session drained.
LEMMA NotesStep ==
  ASSUME Starters = {}, Inv, QueueInv, TaskInv, StallInv, HeldInv, ActiveInv, NotesInv, [Next]_vars
  PROVE  NotesInv'
<1>1. CASE UNCHANGED vars \/ OrphanDrop
  <2>1. UNCHANGED <<queue, running, suppressed, pc, job, notifs, buffer>>
    BY <1>1 DEF vars, OrphanDrop, stateVars, inboxVars, loopVars
  <2> QED
    BY <2>1 DEF NotesInv, IdleForInjection
<1>2. CASE Commands \/ InterjectFallback \/ Drain
  BY <1>2, CommandNotes
<1>3. CASE ResumeQueues \/ McpReady
  BY <1>3 DEF ResumeQueues, McpReady
<1>4. CASE \/ CancelBegin \/ CancelTake \/ CancelClear \/ CancelAbort \/ CancelSettle
           \/ CancelRelease
  BY <1>4, CancelNotes
<1>5. CASE \/ Completion \/ CompletionUnset \/ CompletionPop \/ CompletionTerminal
           \/ CompletionSweep \/ CompletionTurnEnd \/ CompletionStrand \/ CompletionFlush
  BY <1>5, CompletionNotes
<1>6. CASE \E p \in Procs : Start(p)
  <2>1. Start("loop") /\ "loop" \in Procs
    BY <1>6 DEF Procs
  <2>2. pc'["loop"] \in {"spawn", "idle", "drain"}
    BY <2>1, StartFrame
  <2>3. CASE StartSpawn("loop")
    <3>1. queue[1].id \in Prompts
      BY <2>3, IdsInPrompts, NoneFresh DEF StartSpawn, Inv, LockInv
    <3>2. ~IdleForInjection'
      BY <2>3, <3>1, NoneFresh DEF StartSpawn, IdleForInjection
    <3> QED
      BY <2>2, <3>2, NotesElsewhere DEF FinishArm
  <2>4. CASE StartCheck("loop")
    <3>1. Goto("loop", "spawn") \/ Goto("loop", job.next)
      BY <2>4 DEF StartCheck, After
    <3>2. pc["loop"] = "start" /\ UNCHANGED <<queue, running, suppressed, notifs, buffer>>
      BY <2>4 DEF StartCheck, inboxVars
    <3>3. pc'["loop"] = "idle" => job.next = "idle"
      BY <3>1, GotoLoop
    <3> QED
      BY <2>2, <3>2, <3>3 DEF NotesInv, IdleForInjection, FinishArm
  <2> QED
    BY <2>1, <2>3, <2>4 DEF Start
<1>7. CASE \E p \in Prompts : Turn(p)
  <2>0. PICK p \in Prompts : Turn(p)
    BY <1>7
  <2>1. UNCHANGED <<pc, job>> /\ (IdleForInjection' => IdleForInjection)
    BY <2>0, TurnFrame, TurnQuiet DEF loopVars
  <2>2. (notifs' = notifs \/ notifs' \in 0..notifs) /\ buffer' \in {buffer, 0}
    BY <2>0 DEF Turn, TurnBegin, TurnEmit, TurnDrain, TurnGoal, TurnWait, TurnResume, TurnFinal,
         TurnUnpin, TurnComplete, TurnDropped, TurnConsumes, stateVars, inboxVars
  <2>3. notifs \in Nat /\ buffer \in Nat
    BY DEF Inv, TypeOK, StateType, InboxType
  <2>4. ASSUME notifs + buffer = 0 PROVE notifs' + buffer' = 0
    <3>1. notifs = 0 /\ buffer = 0
      BY <2>3, <2>4
    <3>2. notifs' = 0 /\ buffer' = 0
      BY <2>2, <3>1
    <3> QED
      BY <3>2
  <2> QED
    BY <2>1, <2>4 DEF NotesInv
<1> QED
  BY <1>1, <1>2, <1>3, <1>4, <1>5, <1>6, <1>7 DEF Next, Handlers

\* A session that is idle and not suppressed has no notification waiting, if
\* the command loop alone starts turns and no client rewinds: neither a late
\* event in the mid-turn buffer nor one that raced a cancel is left behind.
THEOREM NotificationsDrainedCorrect ==
  ASSUME Starters = {}, "rewind" \notin CancelModes
  PROVE  Spec => []NotificationsDrained
<1> DEFINE I == Inv /\ QueueInv /\ CancelInv
           D == ToolInv /\ HeldInv /\ ActiveInv /\ NotesInv
<1>1. Init => D
  <2> SUFFICES ASSUME Init PROVE D
    OBVIOUS
  <2>1. pc["loop"] = "idle" /\ job = NoJob /\ NoJob.mode = "none"
    BY NoneFresh DEF Init, NoJob
  <2>2. ToolInv /\ HeldInv
    BY <2>1 DEF Init, ToolInv, HeldInv, CancelArm
  <2>3. ActiveInv /\ NotesInv
    BY <2>1 DEF Init, ActiveInv, NotesInv, FinishArm
  <2> QED
    BY <2>2, <2>3
<1>2. D /\ I /\ [Next]_vars => D'
  BY ToolStep, HeldStep, ActiveStep, NotesStep DEF CancelInv
<1>3. D => NotificationsDrained
  BY DEF NotesInv, NotificationsDrained, At
<1>4. Spec => []I
  BY CancelCorrect
<1> HIDE DEF I, D
<1> QED
  BY <1>1, <1>2, <1>3, <1>4, PTL DEF Spec

-----------------------------------------------------------------------------
(* The clients' view of the queue, without teardowns.                         *)

\* Between handlers, and until a cancel has taken the front, a session
\* without a turn has no client's prompt in its queue.
Resting == {"idle", "cancel", "take", "fallback", "drain"}

RowsInv ==
  running = None /\ pc["loop"] \in Resting => \A k \in 1..Len(queue) : queue[k].kind # "user"

WireInv == wire = Wire(queue, running) /\ RowsInv /\ job.mode # "teardown"

\* What is copied from a queue without rows has none.
LEMMA RowsKept ==
  ASSUME RowsInv, UNCHANGED running, Copied(queue', queue),
         pc'["loop"] \in Resting => pc["loop"] \in Resting
  PROVE  RowsInv'
BY DEF RowsInv, Copied

\* A command that queues a row goes on to start a turn, or found one running.
LEMMA CommandRows ==
  ASSUME Inv, QueueInv, RowsInv, Commands \/ InterjectFallback \/ Drain
  PROVE  RowsInv'
<1>0. UNCHANGED running /\ pc'["loop"] \in {"idle", "fallback", "drain", "start", "cancel"}
  BY CommandFrame
<1>1. CASE pc'["loop"] \in {"idle", "drain"}
  BY <1>0, <1>1, CommandRest, RowsKept DEF Resting
<1>2. CASE pc'["loop"] = "start"
  BY <1>2 DEF RowsInv, Resting
<1>3. CASE Interject \/ \E mode \in CancelModes : CancelCommand(mode)
  <2>1. UNCHANGED queue /\ pc["loop"] = "idle"
    BY <1>3 DEF CancelCommand, Interject, Ready, At, stateVars
  <2> QED
    BY <1>0, <2>1 DEF RowsInv, Resting
<1>4. ASSUME NEW kind \in PromptKinds, NEW now \in SendNow, NEW o \in Owners,
             Prompt(kind, now, o), pc'["loop"] \notin {"idle", "drain", "start"}
      PROVE  RowsInv'
  <2> DEFINE cancels == IsSendNow(kind, now, Sweep(queue, running, Preempted(kind)))
                          /\ running # None /\ ~goalGate
  <2>1. Goto("loop", IF cancels THEN "cancel" ELSE "start")
    BY <1>4 DEF Prompt
  <2>2. cancels => running # None
    OBVIOUS
  <2> HIDE DEF cancels
  <2>3. running # None
    BY <1>4, <2>1, <2>2, GotoLoop
  <2> QED
    BY <1>0, <2>3 DEF RowsInv
<1>5. ASSUME NEW id \in Prompts, NEW v \in 0..MaxEdits, NEW o \in Owners \cup {"any"},
             PromoteRow(id, v, o), pc'["loop"] \notin {"idle", "drain", "start"}
      PROVE  RowsInv'
  <2> DEFINE cancels == RowAt(queue, running, id, v, o) # {} /\ running # None /\ ~goalGate
  <2>1. Goto("loop", IF cancels THEN "cancel" ELSE "start")
    BY <1>5 DEF PromoteRow
  <2>2. cancels => running # None
    OBVIOUS
  <2> HIDE DEF cancels
  <2>3. running # None
    BY <1>5, <2>1, <2>2, GotoLoop
  <2> QED
    BY <1>0, <2>3 DEF RowsInv
<1>6. CASE \/ InterjectFallback \/ Drain \/ \E next \in BOOLEAN : Notify(next)
  <2>1. \/ \E l \in {"start", "idle", "drain"} : Goto("loop", l)
        \/ UNCHANGED pc /\ pc["loop"] = "idle"
    BY <1>6 DEF InterjectFallback, Drain, Notify, Ready, At
  <2>2. pc'["loop"] \in {"start", "idle", "drain"}
    BY <2>1, GotoLoop
  <2> QED
    BY <1>1, <1>2, <2>2
<1>7. CASE \/ \E id \in Prompts, v \in 0..MaxEdits, o \in Owners \cup {"any"} : RemoveRow(id, v, o)
           \/ \E id \in Prompts : EditRow(id)
           \/ ReorderRows
           \/ \E o \in Owners \cup {"any"} : ClearRows(o)
  <2>1. pc'["loop"] = "idle"
    BY <1>7 DEF RemoveRow, EditRow, ReorderRows, ClearRows, Ready, At
  <2> QED
    BY <1>1, <2>1
<1> QED
  BY <1>0, <1>1, <1>2, <1>3, <1>4, <1>5, <1>6, <1>7 DEF Commands

\* Every step.
LEMMA RowsStep ==
  ASSUME Inv, QueueInv, RowsInv, [Next]_vars
  PROVE  RowsInv'
<1>1. CASE UNCHANGED vars \/ OrphanDrop
  <2>1. UNCHANGED <<queue, running, pc>>
    BY <1>1 DEF vars, OrphanDrop, stateVars, loopVars
  <2> QED
    BY <2>1 DEF RowsInv
<1>2. CASE Commands \/ InterjectFallback \/ Drain
  BY <1>2, CommandRows
<1>3. CASE McpReady
  <2>1. UNCHANGED <<queue, running>> /\ pc'["loop"] = pc["loop"]
    BY <1>3, ArrivalFrame DEF McpReady, stateVars
  <2> QED
    BY <2>1 DEF RowsInv
<1>4. CASE ResumeQueues
  <2>1. UNCHANGED running /\ pc'["loop"] = pc["loop"]
    BY <1>4, ArrivalFrame
  <2>2. "resume" \in Kinds /\ FALSE \in BOOLEAN /\ QueueInput("resume", FALSE, "any")
    BY <1>4 DEF ResumeQueues, Kinds
  <2>3. Queued(queue', queue, nextId, "resume")
    BY <2>2, QueueInputQueued
  <2> QED
    BY <2>1, <2>3 DEF RowsInv, Queued
<1>5. CASE CancelBegin
  <2>1. UNCHANGED <<queue, running>> /\ pc["loop"] = "cancel"
    BY <1>5 DEF CancelBegin, stateVars, At
  <2> QED
    BY <2>1 DEF RowsInv, Resting
<1>6. CASE Handlers /\ ~(InterjectFallback \/ Drain \/ CancelBegin)
  <2>1. \E l \in PCs \ Resting : Goto("loop", l)
    BY <1>6 DEF Handlers, CancelTake, CancelClear, CancelAbort, CancelSettle, CancelRelease,
         Completion, CompletionNext, CompletionUnset, CompletionPop, CompletionTerminal,
         CompletionSweep, CompletionTurnEnd, CompletionStrand, CompletionFlush, PCs, Resting
  <2> QED
    BY <2>1, GotoLoop DEF RowsInv
<1>7. ASSUME NEW p \in Procs, Start(p) PROVE RowsInv'
  <2>1. CASE StartSpawn(p)
    <3>1. running' \in Prompts
      BY <2>1, IdsInPrompts, NoneFresh DEF StartSpawn, Inv, LockInv
    <3> QED
      BY <3>1, NoneFresh DEF RowsInv
  <2>2. CASE StartCheck(p)
    <3>1. UNCHANGED <<queue, running>>
      BY <2>2 DEF StartCheck
    <3>2. CASE running # None \/ queue = <<>>
      BY <3>1, <3>2 DEF RowsInv
    <3>3. CASE ~(running # None \/ queue = <<>>)
      <4>1. Goto(p, "spawn")
        BY <2>2, <3>3 DEF StartCheck
      <4>2. pc'["loop"] \in {pc["loop"], "spawn"}
        BY <4>1, GotoLoop, GotoStarter DEF Procs
      <4> QED
        BY <3>1, <4>2 DEF RowsInv, Resting
    <3> QED
      BY <3>2, <3>3
  <2> QED
    BY <1>7, <2>1, <2>2 DEF Start
<1>8. CASE \E p \in Prompts : Turn(p)
  BY <1>8, TurnFrame, ConsumesSwept, RowsKept DEF loopVars, Swept
<1> QED
  BY <1>1, <1>2, <1>3, <1>4, <1>5, <1>6, <1>7, <1>8 DEF Next, Handlers

\* No step but the Cancel command chooses the mode of a cancel.
LEMMA ModeStep ==
  ASSUME "teardown" \notin CancelModes, Inv, job.mode # "teardown", [Next]_vars
  PROVE  job'.mode # "teardown"
<1>0. NoJob.mode = "none" /\ job \in Jobs
  BY Types DEF NoJob
<1>1. CASE \/ \E kind \in PromptKinds, now \in SendNow, o \in Owners : Prompt(kind, now, o)
           \/ \E id \in Prompts, v \in 0..MaxEdits, o \in Owners \cup {"any"} : PromoteRow(id, v, o)
  <2>1. \E m \in {"sendnow", "none"} : job' = [NoJob EXCEPT !.mode = m]
    BY <1>1 DEF Prompt, PromoteRow
  <2> QED
    BY <2>1 DEF NoJob
<1>2. CASE \E mode \in CancelModes : CancelCommand(mode)
  BY <1>2 DEF CancelCommand, NoJob
<1>3. CASE CancelTake
  BY <1>0, <1>3 DEF CancelTake, Jobs
<1>4. CASE CancelBegin \/ CompletionStrand \/ CompletionFlush
  BY <1>0, <1>4 DEF CancelBegin, CompletionStrand, CompletionFlush, Jobs
<1>5. CASE Completion
  BY <1>5 DEF Completion, NoJob
<1>6. CASE job' \in {job, NoJob}
  BY <1>0, <1>6
<1>7. CASE Interject \/ InterjectFallback \/ Drain \/ \E next \in BOOLEAN : Notify(next)
  BY <1>6, <1>7 DEF Interject, InterjectFallback, Drain, Notify
<1>8. CASE \/ \E id \in Prompts, v \in 0..MaxEdits, o \in Owners \cup {"any"} : RemoveRow(id, v, o)
           \/ \E id \in Prompts : EditRow(id)
           \/ ReorderRows
           \/ \E o \in Owners \cup {"any"} : ClearRows(o)
  BY <1>6, <1>8 DEF RemoveRow, EditRow, ReorderRows, ClearRows
<1>9. CASE \/ CancelClear \/ CancelAbort \/ CancelSettle \/ CancelRelease \/ CompletionUnset
           \/ CompletionPop \/ CompletionTerminal \/ CompletionSweep \/ CompletionTurnEnd
  BY <1>6, <1>9 DEF CancelClear, CancelAbort, CancelSettle, CancelRelease, CompletionUnset,
       CompletionPop, CompletionTerminal, CompletionSweep, CompletionTurnEnd
<1>10. CASE \E p \in Procs : Start(p)
  BY <1>6, <1>10 DEF Start, StartCheck, StartSpawn
<1>11. CASE \E p \in Prompts : Turn(p)
  BY <1>6, <1>11, TurnFrame DEF loopVars
<1>12. CASE UNCHANGED vars \/ OrphanDrop \/ ResumeQueues \/ McpReady
  BY <1>6, <1>12 DEF vars, OrphanDrop, ResumeQueues, McpReady, loopVars
<1> QED
  BY <1>1, <1>2, <1>3, <1>4, <1>5, <1>7, <1>8, <1>9, <1>10, <1>11, <1>12
     DEF Next, Commands, Handlers

\* A prompt no client typed is queued without a broadcast and unseen.
LEMMA SyntheticWire ==
  ASSUME Inv, UNCHANGED running, QueueFallback \/ CompletionTurnEnd \/ Drain
  PROVE  Wire(queue', running) = Wire(queue, running)
<1>0. queue \in Seq(Item)
  BY Types
<1>1. ASSUME NEW kind \in {"fallback", "goal", "drain"}, NEW now \in BOOLEAN, nextId <= MaxPrompts
      PROVE  Fresh(kind, now, "any") \in Item /\ ~IsRow(Fresh(kind, now, "any"))
  <2>1. Fresh(kind, now, "any") \in Item
    BY <1>1, FreshItem DEF Inv, TypeOK, Kinds
  <2> QED
    BY <2>1 DEF Fresh, IsRow
<1>2. CASE QueueFallback
  <2> DEFINE it == Fresh("fallback", TRUE, "any")
             n == FrontSlot(queue, running)
  <2>1. it \in Item /\ ~IsRow(it)
    BY <1>1, <1>2 DEF QueueFallback
  <2>2. n \in 0..Len(queue)
    BY <1>0, FrontSlotRange
  <2>3. queue' = Insert(queue, n, it)
    BY <1>2 DEF QueueFallback
  <2> HIDE DEF it, n
  <2> QED
    BY <1>0, <2>1, <2>2, <2>3, WireInsert
<1>3. CASE queue' = queue
  BY <1>3
<1>4. CASE CompletionTurnEnd /\ queue' # queue
  <2> DEFINE it == Fresh("goal", FALSE, "any")
  <2>1. it \in Item /\ ~IsRow(it)
    BY <1>1, <1>4 DEF CompletionTurnEnd
  <2>2. queue' = Append(queue, it)
    BY <1>4 DEF CompletionTurnEnd
  <2> HIDE DEF it
  <2> QED
    BY <1>0, <2>1, <2>2, WireAppend
<1>5. CASE Drain /\ queue' # queue
  <2> DEFINE it == Fresh("drain", FALSE, "any")
  <2>1. it \in Item /\ ~IsRow(it)
    BY <1>1, <1>5 DEF Drain
  <2>2. queue = <<>> /\ queue' = <<it>>
    BY <1>5 DEF Drain, IdleForInjection
  <2> HIDE DEF it
  <2>3. queue' = Append(queue, it)
    BY <2>2
  <2> QED
    BY <1>0, <2>1, <2>3, WireAppend
<1> QED
  BY <1>2, <1>3, <1>4, <1>5

\* What a completion or a cancel pops is the running turn, which is no row of
\* the clients' view, or a prompt no client typed.
LEMMA PoppedWire ==
  ASSUME Inv, QueueInv, queue # <<>>, running = None => ~IsRow(queue[1])
  PROVE  Wire(Tail(queue), None) = Wire(queue, running)
<1>1. queue \in Seq(Item) /\ Len(queue) \in Nat /\ 1 \in 1..Len(queue)
  BY Types
<1>2. running # None => queue[1].id = running
  BY DEF QueueInv, Fronted
<1>3. ASSUME NEW k \in 2..Len(queue) PROVE queue[k].id # None /\ queue[k].id # running
  <2>1. k \in 1..Len(queue) /\ k # 1
    BY <1>1, <1>3
  <2>2. queue[k].id \in Prompts
    BY <2>1, IdsInPrompts
  <2>3. queue[k].id # queue[1].id
    BY <1>1, <2>1 DEF QueueInv, Distinct
  <2> QED
    BY <1>2, <2>2, <2>3, NoneFresh
<1>4. IsRow(queue[1]) => queue[1].id = running
  BY <1>2
<1> QED
  BY <1>1, <1>3, <1>4, WireTail

\* A tool call that consumes a completion drops wake prompts only.
LEMMA ConsumesWire ==
  ASSUME Inv, NEW p \in Prompts, Turn(p)
  PROVE  Wire(queue', running) = Wire(queue, running)
<1>1. CASE \E w \in Prompts : TurnConsumes(p, w)
  <2>1. PICK w \in Prompts : TurnConsumes(p, w)
    BY <1>1
  <2> DEFINE drop == {i \in 1..Len(queue) : HasCompletion(queue[i]) /\ queue[i].id = w}
             K == {i \in 1..Len(queue) : queue[i].id = running \/ i \notin drop}
  <2>2. K \in SUBSET (1..Len(queue)) /\ Rows(queue, running) \subseteq K
    BY DEF Rows, IsRow, HasCompletion
  <2>3. queue' = Keep(queue, K)
    BY <2>1 DEF TurnConsumes, Sweep
  <2> HIDE DEF K
  <2> QED
    BY <2>2, <2>3, WireKeep, Types
<1>2. CASE queue' = queue
  BY <1>2
<1> QED
  BY <1>1, <1>2 DEF Turn, TurnBegin, TurnEmit, TurnDrain, TurnGoal, TurnWait, TurnResume,
       TurnFinal, TurnUnpin, TurnComplete, TurnDropped, stateVars

\* Every step broadcasts what the clients could see change.
LEMMA WireStep ==
  ASSUME Inv, QueueInv, TaskInv, WireInv, [Next]_vars
  PROVE  wire' = Wire(queue', running')
<1>0. wire = Wire(queue, running)
  BY DEF WireInv
<1>1. ASSUME UNCHANGED <<wire, running>>, Wire(queue', running) = Wire(queue, running)
      PROVE  wire' = Wire(queue', running')
  BY <1>0, <1>1
<1>2. ASSUME wire' = Wire(queue', running), UNCHANGED running
      PROVE  wire' = Wire(queue', running')
  BY <1>2
<1>3. CASE UNCHANGED <<queue, running, wire>>
  BY <1>0, <1>3
<1>4. CASE Commands
  <2>1. CASE \E kind \in PromptKinds, now \in SendNow, o \in Owners : Prompt(kind, now, o)
    BY <1>2, <2>1 DEF Prompt, QueueInput
  <2>2. CASE \/ \E id \in Prompts, v \in 0..MaxEdits, o \in Owners \cup {"any"} :
                  RemoveRow(id, v, o) \/ PromoteRow(id, v, o)
             \/ \E id \in Prompts : EditRow(id)
             \/ ReorderRows
             \/ \E o \in Owners \cup {"any"} : ClearRows(o)
    BY <1>2, <2>2 DEF RemoveRow, PromoteRow, EditRow, ReorderRows, ClearRows, EditFrame
  <2>3. CASE \/ \E mode \in CancelModes : CancelCommand(mode)
             \/ Interject
             \/ \E next \in BOOLEAN : Notify(next)
    BY <1>3, <2>3 DEF CancelCommand, Interject, Notify, stateVars, outVars
  <2> QED
    BY <1>4, <2>1, <2>2, <2>3 DEF Commands
<1>5. CASE InterjectFallback \/ CompletionFlush \/ CompletionTurnEnd \/ Drain
  <2>1. UNCHANGED <<wire, running>> /\ (QueueFallback \/ CompletionTurnEnd \/ Drain)
    BY <1>5 DEF InterjectFallback, CompletionFlush, QueueFallback, CompletionTurnEnd, Drain, outVars
  <2> QED
    BY <1>1, <2>1, SyntheticWire
<1>6. CASE ResumeQueues
  BY <1>2, <1>6 DEF ResumeQueues, QueueInput
<1>7. CASE CancelTake
  <2>1. /\ running' = None /\ UNCHANGED wire /\ pc["loop"] = "take"
        /\ queue' = IF queue = <<>> THEN <<>> ELSE Tail(queue)
    BY <1>7 DEF CancelTake, At, outVars, WireInv
  <2>2. CASE queue = <<>>
    <3>1. running = None /\ queue' = queue
      BY <2>1, <2>2 DEF QueueInv, Fronted
    <3> QED
      BY <1>3, <2>1, <3>1
  <2>3. CASE queue # <<>>
    <3>1. 1 \in 1..Len(queue)
      BY <2>3, Types
    <3>2. running = None => ~IsRow(queue[1])
      BY <2>1, <3>1 DEF WireInv, RowsInv, Resting, IsRow
    <3> QED
      BY <1>0, <2>1, <2>3, <3>2, PoppedWire
  <2> QED
    BY <2>2, <2>3
<1>8. CASE CompletionPop
  <2>1. /\ running' = RunningAfter /\ queue' = IF Owned THEN Tail(queue) ELSE queue
        /\ wire' = IF Owned /\ IsRow(queue[1]) THEN Wire(queue', running') ELSE wire
        /\ job.cur # None /\ phase[job.cur] = "ended"
    BY <1>8, PopFrame DEF CompletionPop, TaskInv, EndedInv, FinishArm
  <2>2. CASE Owned /\ IsRow(queue[1])
    BY <2>1, <2>2
  <2>3. CASE Owned /\ ~IsRow(queue[1])
    <3>1. queue # <<>> /\ running' = None /\ queue' = Tail(queue) /\ wire' = wire
      BY <2>1, <2>3 DEF Owned, RunningAfter
    <3> QED
      BY <1>0, <2>3, <3>1, PoppedWire
  <2>4. CASE ~Owned
    <3>1. running = job.cur => Owned
      BY <2>1 DEF Owned, QueueInv, Fronted
    <3>2. UNCHANGED <<queue, running, wire>>
      BY <2>1, <2>4, <3>1 DEF RunningAfter
    <3> QED
      BY <1>3, <3>2
  <2> QED
    BY <2>2, <2>3, <2>4
<1>9. CASE \/ CancelBegin \/ CancelClear \/ CancelAbort \/ CancelSettle \/ CancelRelease
           \/ Completion \/ CompletionUnset \/ CompletionTerminal \/ CompletionSweep
           \/ CompletionStrand
  BY <1>3, <1>9 DEF CancelBegin, CancelClear, CancelAbort, CancelSettle, CancelRelease, Completion,
       CompletionUnset, CompletionTerminal, CompletionSweep, CompletionStrand, stateVars, outVars
<1>10. CASE \E p \in Procs : Start(p)
  <2>1. CASE \E p \in Procs : StartCheck(p)
    BY <1>3, <2>1 DEF StartCheck, outVars
  <2>2. CASE \E p \in Procs : StartSpawn(p)
    BY <2>2 DEF StartSpawn
  <2> QED
    BY <1>10, <2>1, <2>2 DEF Start
<1>11. CASE \E p \in Prompts : Turn(p)
  BY <1>1, <1>11, TurnFrame, ConsumesWire DEF outVars
<1>12. CASE UNCHANGED vars \/ OrphanDrop \/ McpReady
  BY <1>3, <1>12 DEF vars, OrphanDrop, McpReady, stateVars, outVars
<1> QED
  BY <1>4, <1>5, <1>6, <1>7, <1>8, <1>9, <1>10, <1>11, <1>12 DEF Next, Handlers

\* The clients' mirror of the queue is the queue, at every moment and not only
\* between handlers, if no client tears the session's prompts down: what
\* leaves or joins the queue without a broadcast is nothing they show.
THEOREM ClientsSeeQueueCorrect ==
  ASSUME "teardown" \notin CancelModes
  PROVE  Spec => []ClientsSeeQueue
<1> DEFINE I == Inv /\ QueueInv /\ CancelInv
<1>1. Init => WireInv
  <2> SUFFICES ASSUME Init PROVE WireInv
    OBVIOUS
  <2>1. queue = <<>> /\ wire = <<>> /\ job.mode = "none"
    BY DEF Init, NoJob
  <2>2. RowsInv
    BY <2>1 DEF RowsInv
  <2>3. Rows(queue, running) = {}
    BY <2>1 DEF Rows
  <2>4. Cardinality(Rows(queue, running)) = 0
    BY <2>3, FS_EmptySet
  <2>5. Len(Keep(queue, Rows(queue, running))) = 0
    <3>1. queue \in Seq(Item) /\ Rows(queue, running) \in SUBSET (1..Len(queue))
      BY <2>1, <2>3
    <3> QED
      BY <2>4, <3>1, KeepSeq
  <2>6. Wire(queue, running) = <<>>
    BY <2>5 DEF Wire
  <2> QED
    BY <2>1, <2>2, <2>6 DEF WireInv
<1>2. WireInv /\ I /\ [Next]_vars => WireInv'
  BY WireStep, RowsStep, ModeStep DEF CancelInv, WireInv
<1>3. WireInv => ClientsSeeQueue
  BY DEF WireInv, ClientsSeeQueue
<1>4. Spec => []I
  BY CancelCorrect
<1> HIDE DEF I
<1> QED
  BY <1>1, <1>2, <1>3, <1>4, PTL DEF Spec
=============================================================================
