---------------------------- MODULE PromptQueue ----------------------------
(***************************************************************************)
(* The pending-prompt queue of a session (State::pending_inputs) as pure   *)
(* operators: what each queue operation of the session actor does to the   *)
(* sequence of InputItems, given the id of the running turn.               *)
(* (crates/codegen/xai-grok-shell/src/session/acp_session.rs and           *)
(* acp_session_impl/prompt_queue.rs)                                       *)
(*                                                                         *)
(* An item keeps the fields the operations look at: its prompt id, the     *)
(* origin (PromptOrigin, with "fallback" for the interjection turns that   *)
(* have User origin but no queue_meta), the send_now flag, and the owner   *)
(* and version of its queue_meta.  The running turn is the item at the     *)
(* front of the queue; it is not popped until its turn ends.               *)
(***************************************************************************)
EXTENDS Naturals, Sequences, FiniteSets

None == 0

Kinds == {"user", "fallback", "wake", "resume", "drain", "goal", "sched"}

\* PromptOrigin::is_synthetic, and completion_id().is_some()
Synthetic(it) == it.kind \notin {"user", "fallback"}
HasCompletion(it) == it.kind = "wake"

\* queue_meta is Some: only prompts a client typed are rows of the queue.
IsRow(it) == it.kind = "user"

Ids(q) == {q[i].id : i \in 1..Len(q)}

(***************************************************************************)
(* Order-preserving filters.  Keep(q, K) is the subsequence of q at the    *)
(* positions K.                                                            *)
(***************************************************************************)
Rank(K, k) == Cardinality({j \in K : j <= k})
Nth(K, i) == CHOOSE k \in K : Rank(K, k) = i
Keep(q, K) == [i \in 1..Cardinality(K) |-> q[Nth(K, i)]]

\* State::sweep_pending_inputs: the running turn's own slot always stays.
Sweep(q, run, drop) ==
  Keep(q, {i \in 1..Len(q) : q[i].id = run \/ i \notin drop})

(***************************************************************************)
(* Insertion.  FrontSlot is the first position (counting from 0) that does *)
(* not displace a running front; SendNowSlot also skips the send-now items *)
(* already queued there.                                                   *)
(***************************************************************************)
Insert(q, n, it) == SubSeq(q, 1, n) \o <<it>> \o SubSeq(q, n + 1, Len(q))

Least(S) == CHOOSE n \in S : \A m \in S : n <= m

\* Faulty: the head of the queue, whatever runs.
HeadSlot(q, run) == 0

FrontSlot(q, run) ==
  IF q # <<>> /\ run # None /\ q[1].id = run THEN 1 ELSE 0

\* Faulty: in front of the send-now items already queued.
NowSlot(q, run) == FrontSlot(q, run)

SendNowSlot(q, run) ==
  Least({n \in FrontSlot(q, run)..Len(q) : n = Len(q) \/ ~q[n + 1].sendNow})

(***************************************************************************)
(* Queue edits by a client.  RowAt are the positions a versioned, owner-   *)
(* scoped request may touch: "any" is a request without an owner.          *)
(***************************************************************************)
RowAt(q, run, id, version, owner) ==
  {i \in 1..Len(q) : /\ IsRow(q[i])
                     /\ q[i].id = id
                     /\ id # run
                     /\ q[i].version = version
                     /\ owner = "any" \/ q[i].owner = owner}

Remove(q, i) == Keep(q, (1..Len(q)) \ {i})

Cleared(q, run, owner) ==
  {i \in 1..Len(q) : /\ IsRow(q[i])
                     /\ q[i].id # run
                     /\ owner = "any" \/ q[i].owner = owner}

Clear(q, run, owner) == Keep(q, (1..Len(q)) \ Cleared(q, run, owner))

Edit(q, i) == [q EXCEPT ![i].version = @ + 1]

\* Faulty: the row also keeps its old place.
PromoteCopy(q, run, i) ==
  Insert(q, SendNowSlot(q, run), [q[i] EXCEPT !.sendNow = TRUE])

\* handle_interject_queued_prompt: the row leaves its place and re-enters as
\* a send-now item.
Promote(q, run, i) ==
  LET rest == Remove(q, i)
  IN  Insert(rest, SendNowSlot(rest, run), [q[i] EXCEPT !.sendNow = TRUE])

\* handle_reorder_queue: rows other than the running turn move behind all
\* other items, in the order f the client asked for.
Rows(q, run) == {i \in 1..Len(q) : IsRow(q[i]) /\ q[i].id # run}

Orders(q, run) ==
  {f \in [1..Cardinality(Rows(q, run)) -> Rows(q, run)] :
     \A i, j \in DOMAIN f : i # j => f[i] # f[j]}

Reorder(q, run, f) ==
  Keep(q, (1..Len(q)) \ Rows(q, run)) \o [i \in DOMAIN f |-> q[f[i]]]

\* build_queue_wire: what x.ai/queue/changed tells the clients.
Wire(q, run) ==
  LET rows == Keep(q, Rows(q, run))
  IN  [i \in 1..Len(rows) |-> [id |-> rows[i].id, version |-> rows[i].version]]
=============================================================================
