------------------------ MODULE SessionQueueProofs ------------------------
(***************************************************************************)
(* The prompt queue of a session, for any number of prompts, clients and   *)
(* commands: the running turn is the front, no prompt is queued twice, and *)
(* no prompt is spawned twice.                                             *)
(*                                                                         *)
(* None of the three is inductive alone.  A second spawn is excluded only  *)
(* because a queued prompt that is not the running one has never had a     *)
(* task; that survives the end of a turn only because what leaves the      *)
(* running slot also leaves the queue, which takes the front invariant;    *)
(* and popping the front leaves no copy behind only because ids are        *)
(* distinct, for which new ids must be fresh.                              *)
(***************************************************************************)
EXTENDS SessionTurnsProofs

\* Queued prompts were created before nextId.
IdsFresh == \A i \in 1..Len(queue) : queue[i].id < nextId

\* A prompt that waits in the queue, or is still to be created, has no task.
WaitingUnborn ==
  /\ \A i \in 1..Len(queue) : queue[i].id # running => phase[queue[i].id] = "unborn"
  /\ \A p \in Prompts : p >= nextId => phase[p] = "unborn"

QueueInv == Fronted(queue, running) /\ Distinct(queue) /\ IdsFresh /\ WaitingUnborn

-----------------------------------------------------------------------------
(* Append and Tail.                                                        *)

\* queue_input's push_back: the new item is last.
LEMMA AppendInserted ==
  ASSUME NEW S, NEW q \in Seq(S), NEW run, NEW it \in S
  PROVE  Append(q, it) \in Seq(S) /\ Inserted(Append(q, it), q, it, run)
<1> DEFINE new == Append(q, it)
<1>1. /\ new \in Seq(S) /\ Len(new) = Len(q) + 1 /\ Len(q) \in Nat
      /\ \A i \in 1..Len(q) : new[i] = q[i]
      /\ new[Len(q) + 1] = it
  OBVIOUS
<1> HIDE DEF new
<1>2. ASSUME Fronted(q, run) PROVE Fronted(new, run)
  BY <1>1, <1>2 DEF Fronted
<1>3. \A i \in 1..Len(new) : i = Len(q) + 1 \/ i \in 1..Len(q)
  BY <1>1
<1>4. ASSUME Distinct(q), Absent(it.id, q) PROVE Distinct(new)
  <2> SUFFICES ASSUME NEW i \in 1..Len(new), NEW j \in 1..Len(new),
                      new[i].id = new[j].id
               PROVE  i = j
    BY DEF Distinct
  <2> QED
    BY <1>1, <1>3, <1>4 DEF Distinct, Absent
<1>5. \A i \in 1..Len(new) : new[i] = it \/ \E k \in 1..Len(q) : new[i] = q[k]
  BY <1>1, <1>3
<1> QED
  BY <1>1, <1>2, <1>4, <1>5 DEF new, Inserted

\* pop_front: what stays is distinct, and none of it is the old front.
LEMMA TailDistinct ==
  ASSUME NEW S, NEW q \in Seq(S), q # <<>>, Distinct(q)
  PROVE  /\ Distinct(Tail(q)) /\ From(Tail(q), q)
         /\ Absent(q[1].id, Tail(q))
<1> DEFINE t == Tail(q)
<1>1. /\ Len(q) \in Nat /\ Len(q) >= 1 /\ Len(t) = Len(q) - 1
      /\ \A i \in 1..(Len(q) - 1) : t[i] = q[i + 1]
  OBVIOUS
<1> HIDE DEF t
<1>2. \A i \in 1..Len(t) : i + 1 \in 1..Len(q) /\ t[i] = q[i + 1]
  BY <1>1
<1>3. Distinct(t)
  <2> SUFFICES ASSUME NEW i \in 1..Len(t), NEW j \in 1..Len(t), t[i].id = t[j].id
               PROVE  i = j
    BY DEF Distinct
  <2>1. i + 1 = j + 1
    BY <1>2 DEF Distinct
  <2> QED
    BY <1>1, <2>1
<1>4. From(t, q)
  BY <1>2 DEF From
<1>5. Absent(q[1].id, t)
  <2> SUFFICES ASSUME NEW k \in 1..Len(t), t[k].id = q[1].id PROVE FALSE
    BY DEF Absent
  <2>1. k + 1 = 1
    BY <1>1, <1>2 DEF Distinct
  <2> QED
    BY <1>1, <2>1
<1> QED
  BY <1>3, <1>4, <1>5 DEF t

-----------------------------------------------------------------------------
(* How steps change the queue.                                             *)

\* A step that leaves the queue and the running slot alone, and starts no
\* task.
LEMMA SameQueue ==
  ASSUME Inv, QueueInv, UNCHANGED <<queue, running, nextId>>,
         \A p \in Prompts : phase[p] = "unborn" => phase'[p] = "unborn"
  PROVE  QueueInv'
<1>1. \A i \in 1..Len(queue) : queue[i].id \in Prompts
  BY IdsInPrompts
<1>2. Fronted(queue, running)' /\ Distinct(queue)' /\ IdsFresh'
  BY DEF QueueInv, Fronted, Distinct, IdsFresh
<1>3. WaitingUnborn'
  BY <1>1 DEF QueueInv, WaitingUnborn
<1> QED
  BY <1>2, <1>3 DEF QueueInv

\* A step that drops, edits or moves queued prompts.
LEMMA DerivedQueue ==
  ASSUME Inv, QueueInv, Derived(queue', queue, running),
         UNCHANGED <<running, nextId, phase>>
  PROVE  QueueInv'
<1>1. Fronted(queue', running) /\ Distinct(queue') /\ From(queue', queue)
  BY DEF QueueInv, Derived
<1>2. IdsFresh'
  BY <1>1 DEF QueueInv, IdsFresh, From
<1>3. WaitingUnborn'
  BY <1>1 DEF QueueInv, WaitingUnborn, From
<1> QED
  BY <1>1, <1>2, <1>3 DEF QueueInv, Fronted, Distinct

\* A step that queues one new prompt.
LEMMA NewItem ==
  ASSUME Inv, QueueInv, NEW base, Derived(base, queue, running),
         NEW it \in Item, it.id = nextId, Inserted(queue', base, it, running),
         nextId' = nextId + 1, UNCHANGED <<running, phase>>
  PROVE  QueueInv'
<1>0. nextId \in Nat /\ nextId \in Prompts
  <2>1. it.id \in Prompts
    BY DEF Item
  <2> QED
    BY <2>1 DEF Prompts
<1>1. Fronted(base, running) /\ Distinct(base) /\ From(base, queue)
  BY DEF QueueInv, Derived
<1>2. \A i \in 1..Len(queue) : queue[i].id \in Prompts /\ queue[i].id < nextId
  BY IdsInPrompts DEF QueueInv, IdsFresh
<1>3. Absent(it.id, base)
  BY <1>0, <1>1, <1>2 DEF Absent, From, Prompts
<1>4. Fronted(queue', running) /\ Distinct(queue')
  BY <1>1, <1>3 DEF Inserted
<1>5. \A i \in 1..Len(queue') :
        queue'[i].id = nextId \/ \E k \in 1..Len(queue) : queue'[i].id = queue[k].id
  BY <1>1 DEF Inserted, From
<1>6. IdsFresh'
  BY <1>0, <1>2, <1>5 DEF IdsFresh, Prompts
<1>7. WaitingUnborn'
  <2>1. phase[nextId] = "unborn"
    BY <1>0 DEF QueueInv, WaitingUnborn
  <2>2. \A i \in 1..Len(queue') : queue'[i].id # running => phase[queue'[i].id] = "unborn"
    BY <1>5, <2>1 DEF QueueInv, WaitingUnborn
  <2>3. \A p \in Prompts : p >= nextId + 1 => phase[p] = "unborn"
    BY <1>0 DEF QueueInv, WaitingUnborn, Prompts
  <2> QED
    BY <2>2, <2>3 DEF WaitingUnborn
<1> QED
  BY <1>4, <1>6, <1>7 DEF QueueInv, Fronted, Distinct

\* A step that empties the running slot and takes its prompt out of the queue.
LEMMA PopFront ==
  ASSUME Inv, QueueInv, queue # <<>>, queue' = Tail(queue) \/ queue' = <<>>,
         running' = None, nextId' = nextId,
         \A p \in Prompts : phase[p] = "unborn" => phase'[p] = "unborn"
  PROVE  QueueInv'
<1>0. queue \in Seq(Item) /\ \A i \in 1..Len(queue) : queue[i].id \in Prompts
  BY IdsInPrompts DEF Inv, TypeOK, StateType
<1>1. Distinct(Tail(queue)) /\ From(Tail(queue), queue) /\ Absent(queue[1].id, Tail(queue))
  BY <1>0, TailDistinct DEF QueueInv
<1>2. Distinct(queue') /\ From(queue', queue) /\ Absent(queue[1].id, queue')
  <2>1. CASE queue' = Tail(queue)
    BY <1>1, <2>1
  <2>2. CASE queue' = <<>>
    <3>1. 1..Len(queue') = {}
      BY <2>2
    <3> QED
      BY <3>1 DEF Distinct, From, Absent
  <2> QED
    BY <2>1, <2>2
<1>3. running # None => running = queue[1].id
  BY DEF QueueInv, Fronted
<1>4. \A i \in 1..Len(queue') : queue'[i].id \in Prompts /\ queue'[i].id # running
  <2>1. running = None \/ running = queue[1].id
    BY <1>3
  <2>2. \A i \in 1..Len(queue') : queue'[i].id \in Prompts
    BY <1>0, <1>2 DEF From
  <2> QED
    BY <1>2, <2>1, <2>2, NoneFresh DEF Absent
<1>5. WaitingUnborn'
  BY <1>2, <1>4 DEF QueueInv, WaitingUnborn, From
<1>6. IdsFresh'
  BY <1>2 DEF QueueInv, IdsFresh, From
<1> QED
  BY <1>2, <1>5, <1>6 DEF QueueInv, Fronted, Distinct

-----------------------------------------------------------------------------
(* The steps of the specification.                                         *)

\* queue_input: preempted wake prompts leave, the new prompt enters.
LEMMA QueueInputQueue ==
  ASSUME Inv, QueueInv, NEW kind \in Kinds, NEW want \in BOOLEAN,
         NEW owner \in Owners \cup {"any"}, QueueInput(kind, want, owner),
         UNCHANGED <<running, phase>>
  PROVE  QueueInv'
<1> DEFINE base == Sweep(queue, running, Preempted(kind))
           now == IsSendNow(kind, want, base)
           it == Fresh(kind, now, owner)
<1>1. base \in Seq(Item) /\ Derived(base, queue, running)
  BY SweepDerived DEF Inv, TypeOK, StateType
<1> HIDE DEF base
<1>2. now \in BOOLEAN
  BY DEF IsSendNow
<1> HIDE DEF now
<1>3. it \in Item /\ it.id = nextId
  <2>1. it \in Item
    BY <1>2, FreshItem DEF QueueInput, Inv, TypeOK
  <2> QED
    BY <2>1 DEF Fresh
<1> HIDE DEF it
<1>4. queue' = IF now THEN Insert(base, SendNowSlot(base, running), it) ELSE Append(base, it)
  BY DEF QueueInput, base, now, it
<1>5. SendNowSlot(base, running) \in FrontSlot(base, running)..Len(base)
  BY <1>1, SendNowSlotRange
<1>6. Inserted(Insert(base, SendNowSlot(base, running), it), base, it, running)
  BY <1>1, <1>3, <1>5, InsertDerived
<1>7. Inserted(Append(base, it), base, it, running)
  BY <1>1, <1>3, AppendInserted
<1>8. Inserted(queue', base, it, running)
  BY <1>4, <1>6, <1>7
<1>9. nextId' = nextId + 1
  BY DEF QueueInput
<1> QED
  BY <1>1, <1>3, <1>8, <1>9, NewItem

\* queue_interjection_fallback_prompt: behind a running front.
LEMMA FallbackQueue ==
  ASSUME Inv, QueueInv, QueueFallback
  PROVE  QueueInv'
<1> DEFINE it == Fresh("fallback", TRUE, "any")
<1>1. it \in Item /\ it.id = nextId
  <2>1. it \in Item
    BY FreshItem DEF QueueFallback, Inv, TypeOK, Kinds
  <2> QED
    BY <2>1 DEF Fresh
<1> HIDE DEF it
<1>2. queue \in Seq(Item) /\ FrontSlot(queue, running) \in FrontSlot(queue, running)..Len(queue)
  BY FrontSlotRange DEF Inv, TypeOK, StateType
<1>3. Inserted(Insert(queue, FrontSlot(queue, running), it), queue, it, running)
  BY <1>1, <1>2, InsertDerived
<1>4. Inserted(queue', queue, it, running)
  BY <1>3 DEF QueueFallback, it
<1>5. Derived(queue, queue, running)
  BY DEF Derived, From
<1>6. nextId' = nextId + 1 /\ UNCHANGED <<running, phase>>
  BY DEF QueueFallback, turnVars
<1> QED
  BY <1>1, <1>4, <1>5, <1>6, NewItem

\* An abort starts nothing.
LEMMA AbortUnborn ==
  ASSUME Inv, NEW p \in Prompts \cup {None}, NEW o \in Prompts, phase[o] = "unborn"
  PROVE  Abort(p)[o] = "unborn"
BY DEF Abort, Live, Inv, TypeOK, TurnType

\* The turn tasks and the aborted waits.
LEMMA TurnQueue ==
  ASSUME Inv, QueueInv, (\E p \in Prompts : Turn(p)) \/ OrphanDrop
  PROVE  QueueInv'
<1>1. ASSUME NEW p \in Prompts, NEW w \in Prompts, TurnConsumes(p, w) PROVE QueueInv'
  <2>1. PICK drop : queue' = Sweep(queue, running, drop)
    BY <1>1 DEF TurnConsumes
  <2>2. Derived(queue', queue, running)
    BY <2>1, SweepDerived DEF Inv, TypeOK, StateType
  <2> QED
    BY <1>1, <2>2, DerivedQueue DEF TurnConsumes, turnVars, loopVars
<1>2. CASE OrphanDrop
  BY <1>2, SameQueue DEF OrphanDrop, stateVars, loopVars
<1>3. ASSUME NEW p \in Prompts,
             \/ TurnBegin(p) \/ TurnEmit(p) \/ TurnDrain(p) \/ TurnGoal(p) \/ TurnWait(p)
             \/ TurnResume(p) \/ TurnFinal(p) \/ TurnUnpin(p) \/ TurnComplete(p)
             \/ TurnDropped(p)
      PROVE  QueueInv'
  <2>1. UNCHANGED <<queue, running, nextId>>
    BY <1>3 DEF TurnBegin, TurnEmit, TurnDrain, TurnGoal, TurnWait, TurnResume, TurnFinal,
                TurnUnpin, TurnComplete, TurnDropped, stateVars, loopVars
  <2>2. \/ phase' = phase
        \/ phase[p] # "unborn" /\ \E ph : phase' = [phase EXCEPT ![p] = ph]
    BY <1>3 DEF TurnBegin, TurnEmit, TurnDrain, TurnGoal, TurnWait, TurnResume, TurnFinal,
                TurnUnpin, TurnComplete, TurnDropped, turnVars
  <2>3. \A o \in Prompts : phase[o] = "unborn" => phase'[o] = "unborn"
    BY <2>2 DEF Inv, TypeOK, TurnType
  <2> QED
    BY <2>1, <2>3, SameQueue
<1> QED
  BY <1>1, <1>2, <1>3 DEF Turn

\* maybe_start_running_task spawns the front, which has no task yet.
LEMMA StartQueue ==
  ASSUME Inv, QueueInv, NEW p \in Procs, Start(p)
  PROVE  QueueInv'
<1>1. CASE StartCheck(p)
  BY <1>1, SameQueue DEF StartCheck
<1>2. CASE StartSpawn(p)
  <2>1. queue # <<>> /\ running = None
    BY <1>2, NoneFresh DEF StartSpawn, Inv, LockInv
  <2>2. /\ queue[1].id \in Prompts /\ running' = queue[1].id /\ UNCHANGED <<queue, nextId>>
        /\ phase' = [phase EXCEPT ![queue[1].id] = "spawned"]
    <3>1. 1 \in 1..Len(queue)
      BY <2>1, IdsInPrompts DEF Inv, TypeOK, StateType
    <3> QED
      BY <1>2, <3>1, IdsInPrompts DEF StartSpawn
  <2>3. WaitingUnborn'
    <3>1. \A o \in Prompts : o # running' => phase'[o] = phase[o]
      BY <2>2 DEF Inv, TypeOK, TurnType
    <3>2. \A i \in 1..Len(queue) : queue[i].id \in Prompts /\ queue[i].id # running
      BY <2>1, IdsInPrompts, NoneFresh
    <3>3. queue[1].id < nextId
      BY <2>1, IdsInPrompts DEF Inv, TypeOK, StateType, QueueInv, IdsFresh
    <3>4. \A o \in Prompts : o >= nextId => o # queue[1].id
      BY <2>2, <3>3 DEF Inv, TypeOK, LoopType, Prompts
    <3> QED
      BY <2>2, <3>1, <3>2, <3>4 DEF QueueInv, WaitingUnborn
  <2> QED
    BY <2>1, <2>2, <2>3 DEF QueueInv, Fronted, Distinct, IdsFresh
<1> QED
  BY <1>1, <1>2 DEF Start

\* Cancel: the task leaves the running slot together with the front.
LEMMA CancelQueue ==
  ASSUME Inv, QueueInv,
         \/ \E mode \in CancelModes : CancelCommand(mode)
         \/ CancelBegin \/ CancelTake \/ CancelClear \/ CancelAbort \/ CancelSettle
         \/ CancelRelease
  PROVE  QueueInv'
<1>1. CASE (\E mode \in CancelModes : CancelCommand(mode)) \/ CancelBegin \/ CancelClear
           \/ CancelSettle \/ CancelRelease
  <2>1. UNCHANGED <<queue, running, nextId, phase>>
    BY <1>1 DEF CancelCommand, CancelBegin, CancelClear, CancelSettle, CancelRelease,
                stateVars, turnVars
  <2> QED
    BY <2>1, SameQueue
<1>2. CASE CancelAbort
  <2>1. job.cur \in Prompts \cup {None}
    BY DEF Inv, TypeOK, LoopType, Jobs
  <2>2. \A o \in Prompts : phase[o] = "unborn" => phase'[o] = "unborn"
    BY <1>2, <2>1, AbortUnborn DEF CancelAbort
  <2>3. UNCHANGED <<queue, running, nextId>>
    BY <1>2 DEF CancelAbort, stateVars
  <2> QED
    BY <2>2, <2>3, SameQueue
<1>3. CASE CancelTake
  <2>1. phase' = phase \/ phase' = Abort(running)
    BY <1>3 DEF CancelTake
  <2>2. running \in Prompts \cup {None}
    BY DEF Inv, TypeOK, StateType
  <2>3. \A o \in Prompts : phase[o] = "unborn" => phase'[o] = "unborn"
    BY <2>1, <2>2, AbortUnborn
  <2>4. running' = None /\ nextId' = nextId
    BY <1>3 DEF CancelTake
  <2>5. CASE queue # <<>>
    <3>1. queue' = Tail(queue) \/ queue' = <<>>
      BY <1>3 DEF CancelTake
    <3> QED
      BY <2>3, <2>4, <2>5, <3>1, PopFront
  <2>6. CASE queue = <<>>
    <3>1. queue' = queue /\ running' = running
      BY <1>3, <2>4, <2>6 DEF CancelTake, QueueInv, Fronted
    <3> QED
      BY <2>3, <2>4, <3>1, SameQueue
  <2> QED
    BY <2>5, <2>6
<1> QED
  BY <1>1, <1>2, <1>3

\* Completion: only the owner of the front pops it; a stale completion that
\* does not own the front does not own the running slot either.
LEMMA CompletionQueue ==
  ASSUME Inv, QueueInv,
         \/ Completion \/ CompletionUnset \/ CompletionPop \/ CompletionTerminal
         \/ CompletionSweep \/ CompletionTurnEnd \/ CompletionStrand \/ CompletionFlush
  PROVE  QueueInv'
<1>1. CASE Completion \/ CompletionUnset \/ CompletionTerminal \/ CompletionSweep
           \/ CompletionStrand
  <2>1. UNCHANGED <<queue, running, nextId, phase>>
    BY <1>1 DEF Completion, CompletionUnset, CompletionTerminal, CompletionSweep,
                CompletionStrand, stateVars, turnVars
  <2> QED
    BY <2>1, SameQueue
<1>2. CASE CompletionPop
  <2>0. nextId' = nextId /\ phase' = phase
    BY <1>2 DEF CompletionPop, turnVars
  <2>1. CASE Owned
    <3>1. queue # <<>> /\ queue' = Tail(queue) /\ running' = None
      BY <1>2, <2>1 DEF CompletionPop, RunningAfter, Owned
    <3> QED
      BY <2>0, <3>1, PopFront
  <2>2. CASE ~Owned
    <3>1. queue' = queue /\ running' = RunningAfter
      BY <1>2, <2>2 DEF CompletionPop
    <3>2. running' = running
      BY <2>2, <3>1 DEF RunningAfter, Owned, QueueInv, Fronted
    <3> QED
      BY <2>0, <3>1, <3>2, SameQueue
  <2> QED
    BY <2>1, <2>2
<1>3. CASE CompletionTurnEnd
  <2>0. UNCHANGED <<running, phase>>
    BY <1>3 DEF CompletionTurnEnd, turnVars
  <2>1. CASE UNCHANGED <<queue, nextId, spent>>
    BY <2>0, <2>1, SameQueue
  <2>2. CASE /\ nextId <= MaxPrompts /\ nextId' = nextId + 1
             /\ queue' = Append(queue, Fresh("goal", FALSE, "any"))
    <3> DEFINE it == Fresh("goal", FALSE, "any")
    <3>1. it \in Item /\ it.id = nextId
      BY <2>2, FreshItem DEF Inv, TypeOK, Kinds
    <3>2. queue' = Append(queue, it)
      BY <2>2
    <3> HIDE DEF it
    <3>3. Inserted(queue', queue, it, running)
      BY <3>1, <3>2, AppendInserted DEF Inv, TypeOK, StateType
    <3>4. Derived(queue, queue, running)
      BY DEF Derived, From
    <3> QED
      BY <2>0, <2>2, <3>1, <3>3, <3>4, NewItem
  <2> QED
    BY <1>3, <2>1, <2>2 DEF CompletionTurnEnd
<1>4. CASE CompletionFlush
  BY <1>4, FallbackQueue DEF CompletionFlush
<1> QED
  BY <1>1, <1>2, <1>3, <1>4

\* Interjections and notifications; a drained notification is queued only
\* when nothing runs.
LEMMA InboxQueue ==
  ASSUME Inv, QueueInv,
         Interject \/ InterjectFallback \/ (\E next \in BOOLEAN : Notify(next)) \/ Drain
  PROVE  QueueInv'
<1>1. CASE Interject \/ \E next \in BOOLEAN : Notify(next)
  <2>1. UNCHANGED <<queue, running, nextId, phase>>
    BY <1>1 DEF Interject, Notify, stateVars, turnVars
  <2> QED
    BY <2>1, SameQueue
<1>2. CASE InterjectFallback
  BY <1>2, FallbackQueue DEF InterjectFallback
<1>3. CASE Drain
  <2>0. UNCHANGED <<running, phase>>
    BY <1>3 DEF Drain, turnVars
  <2>1. CASE UNCHANGED <<queue, nextId>>
    BY <2>0, <2>1, SameQueue
  <2>2. CASE /\ IdleForInjection /\ nextId <= MaxPrompts /\ nextId' = nextId + 1
             /\ queue' = <<Fresh("drain", FALSE, "any")>>
    <3> DEFINE it == Fresh("drain", FALSE, "any")
    <3>1. it \in Item /\ it.id = nextId
      BY <2>2, FreshItem DEF Inv, TypeOK, Kinds
    <3>2. queue = <<>> /\ queue' = <<it>>
      BY <2>2 DEF IdleForInjection
    <3> HIDE DEF it
    <3>3. queue' = Append(queue, it)
      BY <3>1, <3>2
    <3>4. Inserted(queue', queue, it, running)
      BY <3>1, <3>3, AppendInserted DEF Inv, TypeOK, StateType
    <3>5. Derived(queue, queue, running)
      BY DEF Derived, From
    <3> QED
      BY <2>0, <2>2, <3>1, <3>4, <3>5, NewItem
  <2> QED
    BY <1>3, <2>1, <2>2 DEF Drain
<1> QED
  BY <1>1, <1>2, <1>3

\* The queue edits of a client: none touches the running turn.
LEMMA EditQueue ==
  ASSUME Inv, QueueInv,
         \/ \E id \in Prompts, v \in 0..MaxEdits, o \in Owners \cup {"any"} :
              RemoveRow(id, v, o) \/ PromoteRow(id, v, o)
         \/ \E id \in Prompts : EditRow(id)
         \/ ReorderRows
         \/ \E o \in Owners \cup {"any"} : ClearRows(o)
  PROVE  QueueInv'
<1>0. queue \in Seq(Item) /\ Derived(queue, queue, running)
  BY DEF Inv, TypeOK, StateType, Derived, From
<1>1. UNCHANGED <<running, nextId, phase>>
  BY DEF RemoveRow, PromoteRow, EditRow, ReorderRows, ClearRows, EditFrame, turnVars
<1> SUFFICES Derived(queue', queue, running)
  BY <1>1, DerivedQueue
<1>2. ASSUME NEW id \in Prompts, NEW v \in 0..MaxEdits, NEW o \in Owners \cup {"any"},
             RemoveRow(id, v, o) \/ PromoteRow(id, v, o)
      PROVE  Derived(queue', queue, running)
  <2>1. \/ queue' = queue
        \/ \E i \in RowAt(queue, running, id, v, o) :
             \/ queue' = Remove(queue, i) \/ queue' = Promote(queue, running, i)
             \/ queue' = Promote(Edit(queue, i), running, i)
    BY <1>2 DEF RemoveRow, PromoteRow
  <2>2. ASSUME NEW i \in RowAt(queue, running, id, v, o),
               \/ queue' = Remove(queue, i) \/ queue' = Promote(queue, running, i)
               \/ queue' = Promote(Edit(queue, i), running, i)
        PROVE  Derived(queue', queue, running)
    <3>1. i \in 1..Len(queue) /\ queue[i].id # running
      BY DEF RowAt
    <3>2. Derived(Remove(queue, i), queue, running)
      BY <1>0, <3>1, RemoveDerived
    <3>3. Derived(Promote(queue, running, i), queue, running)
      BY <1>0, <3>1, PromoteSafe
    <3>4. /\ Edit(queue, i) \in Seq(Item) /\ Derived(Edit(queue, i), queue, running)
          /\ i \in 1..Len(Edit(queue, i)) /\ Edit(queue, i)[i].id # running
      BY <1>0, <3>1, EditSafe
    <3>5. Derived(Promote(Edit(queue, i), running, i), Edit(queue, i), running)
      BY <3>4, PromoteSafe
    <3>6. Derived(Promote(Edit(queue, i), running, i), queue, running)
      BY <3>4, <3>5 DEF Derived, From
    <3> QED
      BY <2>2, <3>2, <3>3, <3>6
  <2> QED
    BY <1>0, <2>1, <2>2
<1>3. ASSUME NEW id \in Prompts, EditRow(id) PROVE Derived(queue', queue, running)
  <2>1. PICK i \in 1..Len(queue) : queue' = Edit(queue, i)
    BY <1>3 DEF EditRow, Rows
  <2> QED
    BY <1>0, <2>1, EditSafe
<1>4. CASE ReorderRows
  BY <1>0, <1>4, ReorderDerived DEF ReorderRows
<1>5. ASSUME NEW o \in Owners \cup {"any"}, ClearRows(o) PROVE Derived(queue', queue, running)
  BY <1>0, <1>5, ClearDerived DEF ClearRows
<1> QED
  BY <1>2, <1>3, <1>4, <1>5

\* The commands that queue a prompt.
LEMMA PromptQueueStep ==
  ASSUME Inv, QueueInv,
         \/ \E kind \in PromptKinds, now \in SendNow, o \in Owners : Prompt(kind, now, o)
         \/ ResumeQueues
  PROVE  QueueInv'
<1>1. ASSUME NEW kind \in PromptKinds, NEW now \in SendNow, NEW o \in Owners,
             Prompt(kind, now, o)
      PROVE  QueueInv'
  <2>1. QueueInput(kind, now, o) /\ UNCHANGED <<running, phase>>
    BY <1>1 DEF Prompt, turnVars
  <2>2. kind \in Kinds /\ now \in BOOLEAN /\ o \in Owners \cup {"any"}
    BY SessionAssumption DEF Kinds
  <2> QED
    BY <2>1, <2>2, QueueInputQueue
<1>2. CASE ResumeQueues
  <2>1. QueueInput("resume", FALSE, "any") /\ UNCHANGED <<running, phase>>
    BY <1>2 DEF ResumeQueues, turnVars
  <2>2. "resume" \in Kinds
    BY DEF Kinds
  <2> QED
    BY <2>1, <2>2, QueueInputQueue
<1> QED
  BY <1>1, <1>2

\* Every step preserves the queue invariant.
LEMMA QueueStep ==
  ASSUME Inv, QueueInv, [Next]_vars
  PROVE  QueueInv'
<1>1. CASE UNCHANGED vars
  BY <1>1, SameQueue DEF vars, stateVars, turnVars, loopVars
<1>2. CASE Commands
  BY <1>2, PromptQueueStep, CancelQueue, InboxQueue, EditQueue DEF Commands
<1>3. CASE Handlers
  BY <1>3, CancelQueue, CompletionQueue, InboxQueue DEF Handlers
<1>4. CASE \E p \in Procs : Start(p)
  BY <1>4, StartQueue
<1>5. CASE (\E p \in Prompts : Turn(p)) \/ OrphanDrop
  BY <1>5, TurnQueue
<1>6. CASE ResumeQueues
  BY <1>6, PromptQueueStep
<1>7. CASE McpReady
  BY <1>7, SameQueue DEF McpReady, stateVars, turnVars
<1> QED
  BY <1>1, <1>2, <1>3, <1>4, <1>5, <1>6, <1>7 DEF Next

\* The initial queue is empty and no prompt has a task.
LEMMA QueueInit == Init => QueueInv
BY DEF Init, QueueInv, Fronted, Distinct, IdsFresh, WaitingUnborn

\* The queue invariant holds in every reachable state.
LEMMA QueueCorrect == Spec => [](Inv /\ QueueInv)
<1>1. Init => Inv /\ QueueInv
  BY TInit, QueueInit
<1>2. Inv /\ QueueInv /\ [Next]_vars => (Inv /\ QueueInv)'
  BY NextStep, QueueStep
<1> QED
  BY <1>1, <1>2, PTL DEF Spec

-----------------------------------------------------------------------------
\* The in-flight turn is the front of pending_inputs, so cancel_running_task
\* (which resolves index 0) and handle_completion (which pops the front) act
\* on the turn they mean, whatever was queued, edited, swept or reordered
\* while it ran.
THEOREM FrontIsRunningCorrect == Spec => []FrontIsRunning
<1>1. QueueInv => FrontIsRunning
  BY DEF QueueInv, Fronted, FrontIsRunning
<1> QED
  BY <1>1, QueueCorrect, PTL

\* No prompt is queued twice: neither a promotion nor an edit leaves a copy
\* of a row behind in pending_inputs.
THEOREM NoDuplicatesCorrect == Spec => []NoDuplicates
<1>1. QueueInv => NoDuplicates
  BY DEF QueueInv, Distinct, NoDuplicates
<1> QED
  BY <1>1, QueueCorrect, PTL

\* A step that makes a prompt's task spawned finds it unborn, or leaves it as
\* it was: only maybe_start_running_task spawns, and only the front of a
\* queue with an empty running slot.
LEMMA SpawnStep ==
  ASSUME Inv, QueueInv, [Next]_vars, NEW p \in Prompts, phase'[p] = "spawned"
  PROVE  phase[p] \in {"unborn", "spawned"}
<1>0. phase \in [Prompts -> Phases]
  BY DEF Inv, TypeOK, TurnType
<1>1. CASE phase' = phase
  BY <1>1
<1>2. CASE \E r \in Prompts \cup {None} : phase' = Abort(r)
  BY <1>0, <1>2 DEF Abort
<1>3. CASE \E o \in Prompts : Turn(o)
  <2>1. PICK o \in Prompts : Turn(o)
    BY <1>3
  <2>2. phase' = phase \/ \E ph \in Phases \ {"spawned"} : phase' = [phase EXCEPT ![o] = ph]
    BY <2>1 DEF Turn, TurnBegin, TurnEmit, TurnDrain, TurnGoal, TurnWait, TurnResume,
                TurnFinal, TurnUnpin, TurnComplete, TurnDropped, TurnConsumes, turnVars,
                Phases, Live
  <2> QED
    BY <1>0, <2>2
<1>4. CASE \E o \in Procs : StartSpawn(o)
  <2>1. PICK o \in Procs : StartSpawn(o)
    BY <1>4
  <2>2. queue # <<>> /\ running = None
    BY <2>1, NoneFresh DEF StartSpawn, Inv, LockInv
  <2>3. 1 \in 1..Len(queue) /\ queue[1].id \in Prompts
    BY <2>2, IdsInPrompts DEF Inv, TypeOK, StateType
  <2>4. phase[queue[1].id] = "unborn"
    BY <2>2, <2>3, NoneFresh DEF QueueInv, WaitingUnborn
  <2>5. phase' = [phase EXCEPT ![queue[1].id] = "spawned"]
    BY <2>1 DEF StartSpawn
  <2> QED
    BY <1>0, <2>3, <2>4, <2>5
<1>5. \/ phase' = phase \/ (\E o \in Prompts : Turn(o)) \/ (\E o \in Procs : StartSpawn(o))
      \/ \E r \in Prompts \cup {None} : phase' = Abort(r)
  <2>1. CASE UNCHANGED vars
    BY <2>1 DEF vars, turnVars
  <2>2. CASE Commands
    BY <2>2 DEF Commands, Prompt, CancelCommand, Interject, Notify, RemoveRow, PromoteRow,
                EditRow, ReorderRows, ClearRows, EditFrame, turnVars
  <2>3. CASE CancelTake \/ CancelAbort
    <3>1. phase' = phase \/ phase' = Abort(running) \/ phase' = Abort(job.cur)
      BY <2>3 DEF CancelTake, CancelAbort
    <3>2. running \in Prompts \cup {None} /\ job.cur \in Prompts \cup {None}
      BY DEF Inv, TypeOK, StateType, LoopType, Jobs
    <3> QED
      BY <3>1, <3>2
  <2>4. CASE Handlers /\ ~(CancelTake \/ CancelAbort)
    BY <2>4 DEF Handlers, CancelBegin, CancelClear, CancelSettle, CancelRelease,
                Completion, CompletionUnset, CompletionPop, CompletionTerminal,
                CompletionSweep, CompletionTurnEnd, CompletionStrand, CompletionFlush,
                Drain, InterjectFallback, QueueFallback, turnVars
  <2>5. CASE \E o \in Procs : Start(o)
    BY <2>5 DEF Start, StartCheck
  <2>6. CASE OrphanDrop \/ ResumeQueues \/ McpReady
    BY <2>6 DEF OrphanDrop, ResumeQueues, McpReady, turnVars
  <2> QED
    BY <2>1, <2>2, <2>3, <2>4, <2>5, <2>6 DEF Next
<1> QED
  BY <1>1, <1>2, <1>3, <1>4, <1>5

\* No prompt's task is spawned twice, whatever stale completions, cancels
\* and starters race for the running slot (turn_end.rs:229 fears the double
\* spawn).
THEOREM SpawnedOnceCorrect == Spec => SpawnedOnce
<1> DEFINE A == \A p \in Prompts : phase'[p] = "spawned" => phase[p] \in {"unborn", "spawned"}
<1>1. Inv /\ QueueInv /\ [Next]_vars => A
  BY SpawnStep
<1> QED
  BY <1>1, QueueCorrect, PTL DEF Spec, SpawnedOnce
=============================================================================
