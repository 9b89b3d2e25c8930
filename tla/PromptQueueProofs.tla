------------------------- MODULE PromptQueueProofs -------------------------
(***************************************************************************)
(* What the queue operations of PromptQueue return, for queues of any      *)
(* length: they stay sequences of items, and none of them displaces a      *)
(* running front.                                                          *)
(***************************************************************************)
EXTENDS PromptQueue, FiniteSetTheorems, SequenceTheorems, WellFoundedInduction, TLAPS

-----------------------------------------------------------------------------
(* Order-preserving filters.                                               *)

\* The positions of a queue, and any set of them, are finite.
LEMMA PositionsFinite ==
  ASSUME NEW n \in Nat, NEW K \in SUBSET (1..n)
  PROVE  /\ IsFiniteSet(K)
         /\ Cardinality(K) \in Nat
<1>1. IsFiniteSet(1..n)
  BY FS_Interval
<1>2. IsFiniteSet(K)
  BY <1>1, FS_Subset
<1> QED
  BY <1>2, FS_CardinalityType

\* A later position of K has a larger rank, so ranks tell positions apart.
LEMMA RankMonotone ==
  ASSUME NEW n \in Nat, NEW K \in SUBSET (1..n), NEW j \in K, NEW k \in K, j < k
  PROVE  Rank(K, j) < Rank(K, k)
<1> DEFINE J == {i \in K : i <= j}
           L == {i \in K : i <= k}
<1>1. IsFiniteSet(L) /\ Cardinality(L) \in Nat /\ Cardinality(J) \in Nat
  BY PositionsFinite
<1>2. J \in SUBSET L /\ k \in L /\ k \notin J
  <2>1. j \in Int /\ k \in Int /\ K \subseteq Int
    OBVIOUS
  <2>2. \A i \in K : i <= j => i <= k
    BY <2>1
  <2>3. J \subseteq L
    BY <2>2
  <2>4. k <= k /\ ~(k <= j)
    BY <2>1
  <2> QED
    BY <2>3, <2>4
<1>3. Cardinality(J) <= Cardinality(L) /\ Cardinality(J) # Cardinality(L)
  BY <1>1, <1>2, FS_Subset
<1> QED
  BY <1>1, <1>3 DEF Rank

\* The ranks of the positions in K are 1..Cardinality(K).
LEMMA RankRange ==
  ASSUME NEW n \in Nat, NEW K \in SUBSET (1..n), NEW k \in K
  PROVE  Rank(K, k) \in 1..Cardinality(K)
<1> DEFINE L == {i \in K : i <= k}
<1>1. IsFiniteSet(K) /\ L \in SUBSET K /\ k \in L
  <2>1. IsFiniteSet(K)
    BY PositionsFinite
  <2>2. k <= k
    OBVIOUS
  <2> QED
    BY <2>1, <2>2
<1>2. Cardinality(L) \in Nat /\ Cardinality(L) <= Cardinality(K) /\ Cardinality(K) \in Nat
  BY <1>1, FS_Subset, FS_CardinalityType
<1>3. Cardinality(L) # 0
  BY <1>1, FS_EmptySet, FS_Subset
<1> QED
  BY <1>2, <1>3 DEF Rank

\* Every number up to the size of K is the rank of a position in K: Nth is
\* well defined and picks a position that Keep was asked to keep.
LEMMA NthInSet ==
  ASSUME NEW n \in Nat, NEW K \in SUBSET (1..n), NEW i \in 1..Cardinality(K)
  PROVE  Nth(K, i) \in K /\ Rank(K, Nth(K, i)) = i
<1> DEFINE f == [k \in K |-> Rank(K, k)]
           T == 1..Cardinality(K)
<1>1. IsFiniteSet(T) /\ Cardinality(T) = Cardinality(K)
  <2>1. Cardinality(K) \in Nat
    BY PositionsFinite
  <2> QED
    BY <2>1, FS_Interval
<1>2. f \in [K -> T]
  BY RankRange
<1>3. \A j, k \in K : f[j] = f[k] => j = k
  <2> SUFFICES ASSUME NEW j \in K, NEW k \in K, f[j] = f[k], j # k
               PROVE  FALSE
    OBVIOUS
  <2>1. Cardinality(K) \in Nat /\ Rank(K, j) \in 1..Cardinality(K)
    BY RankRange, PositionsFinite
  <2>2. Rank(K, j) = Rank(K, k) /\ ~(Rank(K, j) < Rank(K, k)) /\ ~(Rank(K, k) < Rank(K, j))
    BY <2>1
  <2>3. j < k \/ k < j
    OBVIOUS
  <2>4. CASE j < k
    BY <2>2, <2>4, RankMonotone
  <2>5. CASE k < j
    BY <2>2, <2>5, RankMonotone
  <2> QED
    BY <2>3, <2>4, <2>5
<1>4. f \in Injection(K, T)
  BY <1>2, <1>3 DEF Injection, IsInjective
<1>5. f \in Surjection(K, T)
  BY <1>1, <1>4, FS_Injection
<1>6. \E k \in K : Rank(K, k) = i
  BY <1>5 DEF Surjection
<1> QED
  BY <1>6 DEF Nth

\* Ranks tell positions apart.
LEMMA RankTells ==
  ASSUME NEW n \in Nat, NEW K \in SUBSET (1..n), NEW j \in K, NEW k \in K, Rank(K, j) = Rank(K, k)
  PROVE  j = k
<1>1. j \in 1..n /\ k \in 1..n /\ Rank(K, j) \in Nat
  <2>1. Cardinality(K) \in Nat
    BY PositionsFinite
  <2>2. Rank(K, j) \in 1..Cardinality(K)
    BY RankRange
  <2> QED
    BY <2>1, <2>2
<1>2. /\ j < k => Rank(K, j) < Rank(K, k)
      /\ k < j => Rank(K, k) < Rank(K, j)
  BY RankMonotone
<1> QED
  BY <1>1, <1>2

\* A filter keeps the order of what it keeps.
LEMMA NthMonotone ==
  ASSUME NEW n \in Nat, NEW K \in SUBSET (1..n),
         NEW i \in 1..Cardinality(K), NEW j \in 1..Cardinality(K), i < j
  PROVE  Nth(K, i) < Nth(K, j)
<1>0. Cardinality(K) \in Nat
  BY PositionsFinite
<1>1. /\ Nth(K, i) \in K /\ Rank(K, Nth(K, i)) = i
      /\ Nth(K, j) \in K /\ Rank(K, Nth(K, j)) = j
  BY NthInSet
<1>2. Nth(K, i) \in 1..n /\ Nth(K, j) \in 1..n
  BY <1>1
<1>3. Nth(K, i) # Nth(K, j)
  BY <1>0, <1>1
<1>4. ASSUME Nth(K, j) < Nth(K, i) PROVE FALSE
  <2>1. Rank(K, Nth(K, j)) < Rank(K, Nth(K, i))
    BY <1>1, <1>4, RankMonotone
  <2> QED
    BY <1>0, <1>1, <2>1
<1> QED
  BY <1>2, <1>3, <1>4

\* Keep returns as many items as positions were asked for, each from the place
\* Nth names.
LEMMA KeepSeq ==
  ASSUME NEW S, NEW q \in Seq(S), NEW K \in SUBSET (1..Len(q))
  PROVE  /\ Keep(q, K) \in Seq(S)
         /\ Len(Keep(q, K)) = Cardinality(K)
         /\ Cardinality(K) \in Nat
         /\ \A i \in 1..Cardinality(K) :
              Nth(K, i) \in K /\ Nth(K, i) \in 1..Len(q) /\ Keep(q, K)[i] = q[Nth(K, i)]
<1>0. Len(q) \in Nat
  OBVIOUS
<1>1. Cardinality(K) \in Nat
  BY <1>0, PositionsFinite
<1>2. \A i \in 1..Cardinality(K) : Nth(K, i) \in K
  BY <1>0, NthInSet
<1>3. \A i \in 1..Cardinality(K) : Nth(K, i) \in 1..Len(q)
  BY <1>2
<1>4. \A i \in 1..Cardinality(K) : q[Nth(K, i)] \in S
  BY <1>3
<1>5. Keep(q, K) \in [1..Cardinality(K) -> S]
  BY <1>4 DEF Keep
<1>6. Keep(q, K) \in Seq(S) /\ Len(Keep(q, K)) = Cardinality(K)
  BY <1>1, <1>5
<1> QED
  BY <1>1, <1>2, <1>3, <1>6 DEF Keep

\* If the first item is kept, it stays first.
LEMMA KeepFirst ==
  ASSUME NEW S, NEW q \in Seq(S), NEW K \in SUBSET (1..Len(q)), 1 \in K
  PROVE  Keep(q, K) # <<>> /\ Keep(q, K)[1] = q[1]
<1>0. Len(q) \in Nat
  OBVIOUS
<1>1. Cardinality(K) \in Nat /\ Rank(K, 1) \in 1..Cardinality(K)
  BY <1>0, RankRange, PositionsFinite
<1>2. 1 \in 1..Cardinality(K)
  BY <1>1
<1>3. Nth(K, 1) \in K /\ Rank(K, Nth(K, 1)) = 1
  BY <1>0, <1>2, NthInSet
<1>4. Nth(K, 1) = 1
  <2>0. Nth(K, 1) \in 1..Len(q)
    BY <1>3
  <2> SUFFICES ASSUME 1 < Nth(K, 1) PROVE FALSE
    BY <2>0
  <2>1. Rank(K, 1) < Rank(K, Nth(K, 1))
    BY <1>0, <1>3, RankMonotone
  <2> QED
    BY <1>1, <1>3, <2>1
<1>5. Len(Keep(q, K)) = Cardinality(K) /\ Keep(q, K)[1] = q[1] /\ Keep(q, K) \in Seq(S)
  BY <1>2, <1>4, KeepSeq
<1> QED
  BY <1>1, <1>2, <1>5

-----------------------------------------------------------------------------
(* Insertion.                                                              *)

\* Insert puts the item behind the first n items and shifts the rest.
LEMMA InsertSeq ==
  ASSUME NEW S, NEW q \in Seq(S), NEW n \in 0..Len(q), NEW it \in S
  PROVE  /\ Insert(q, n, it) \in Seq(S)
         /\ Len(Insert(q, n, it)) = Len(q) + 1
         /\ \A i \in 1..(Len(q) + 1) :
              Insert(q, n, it)[i] = IF i <= n THEN q[i]
                                    ELSE IF i = n + 1 THEN it ELSE q[i - 1]
<1> DEFINE a == SubSeq(q, 1, n)
           b == SubSeq(q, n + 1, Len(q))
<1>1. a \in Seq(S) /\ Len(a) = n /\ \A i \in 1..n : a[i] = q[i]
  OBVIOUS
<1>2. b \in Seq(S) /\ Len(b) = Len(q) - n /\ \A i \in 1..(Len(q) - n) : b[i] = q[n + i]
  OBVIOUS
<1>3. /\ a \o <<it>> \in Seq(S) /\ Len(a \o <<it>>) = n + 1
      /\ \A i \in 1..(n + 1) : (a \o <<it>>)[i] = IF i <= n THEN q[i] ELSE it
  BY <1>1
<1> HIDE DEF a, b
<1>4. /\ (a \o <<it>>) \o b \in Seq(S) /\ Len((a \o <<it>>) \o b) = Len(q) + 1
      /\ \A i \in 1..(Len(q) + 1) :
           ((a \o <<it>>) \o b)[i] = IF i <= n + 1 THEN (a \o <<it>>)[i] ELSE b[i - (n + 1)]
  BY <1>2, <1>3, ConcatProperties
<1>5. \A i \in 1..(Len(q) + 1) :
        ((a \o <<it>>) \o b)[i] = IF i <= n THEN q[i]
                                  ELSE IF i = n + 1 THEN it ELSE q[i - 1]
  <2> TAKE i \in 1..(Len(q) + 1)
  <2>1. CASE i <= n + 1
    BY <1>3, <1>4, <2>1
  <2>2. CASE ~(i <= n + 1)
    <3>1. i - (n + 1) \in 1..(Len(q) - n) /\ n + (i - (n + 1)) = i - 1
      BY <2>2
    <3>2. b[i - (n + 1)] = q[i - 1]
      BY <1>2, <3>1
    <3> QED
      BY <1>4, <2>2, <3>2
  <2> QED
    BY <2>1, <2>2
<1> QED
  BY <1>4, <1>5 DEF Insert, a, b

\* A non-empty set of naturals has a least element.
LEMMA LeastExists ==
  ASSUME NEW S \in SUBSET Nat, S # {}
  PROVE  Least(S) \in S /\ \A m \in S : Least(S) <= m
<1>1. PICK n \in S : \A m \in S : ~(<<m, n>> \in OpToRel(<, Nat))
  BY WFMin, NatLessThanWellFounded
<1>2. \A m \in S : ~(m < n)
  BY <1>1 DEF OpToRel
<1>3. \A m \in S : n <= m
  BY <1>2
<1> QED
  BY <1>3 DEF Least

\* FrontSlot is 0 or 1, and 1 only in front of a non-empty queue.
LEMMA FrontSlotRange ==
  ASSUME NEW S, NEW q \in Seq(S), NEW run
  PROVE  FrontSlot(q, run) \in 0..Len(q)
BY DEF FrontSlot

\* A send-now never goes in front of the running turn.
LEMMA SendNowSlotRange ==
  ASSUME NEW S, NEW q \in Seq(S), NEW run
  PROVE  SendNowSlot(q, run) \in FrontSlot(q, run)..Len(q)
<1> DEFINE C == {n \in FrontSlot(q, run)..Len(q) : n = Len(q) \/ ~q[n + 1].sendNow}
<1>1. FrontSlot(q, run) \in 0..Len(q) /\ Len(q) \in Nat
  BY FrontSlotRange
<1>2. C \in SUBSET Nat /\ Len(q) \in C
  BY <1>1
<1>3. Least(C) \in C
  BY <1>2, LeastExists
<1> QED
  BY <1>3 DEF SendNowSlot

-----------------------------------------------------------------------------
(* What the session relies on: the running turn is the front, no prompt is *)
(* queued twice, and an edit of the queue brings in no new prompt.         *)

Fronted(q, run) == run # None => q # <<>> /\ q[1].id = run
Distinct(q) == \A i, j \in 1..Len(q) : q[i].id = q[j].id => i = j
From(new, q) == \A i \in 1..Len(new) : \E k \in 1..Len(q) : new[i].id = q[k].id
Absent(id, q) == \A k \in 1..Len(q) : q[k].id # id

Derived(new, q, run) ==
  /\ Fronted(q, run) => Fronted(new, run)
  /\ Distinct(q) => Distinct(new)
  /\ From(new, q)

Inserted(new, q, it, run) ==
  /\ Fronted(q, run) => Fronted(new, run)
  /\ Distinct(q) /\ Absent(it.id, q) => Distinct(new)
  /\ \A i \in 1..Len(new) : new[i] = it \/ \E k \in 1..Len(q) : new[i] = q[k]

\* Dropping items other than a running front is safe.
LEMMA KeepDerived ==
  ASSUME NEW S, NEW q \in Seq(S), NEW K \in SUBSET (1..Len(q)), NEW run,
         run # None /\ q # <<>> /\ q[1].id = run => 1 \in K
  PROVE  Keep(q, K) \in Seq(S) /\ Derived(Keep(q, K), q, run)
<1>1. Keep(q, K) \in Seq(S)
  BY KeepSeq
<1>2. ASSUME Fronted(q, run) PROVE Fronted(Keep(q, K), run)
  BY <1>2, KeepFirst DEF Fronted
<1>3. ASSUME Distinct(q) PROVE Distinct(Keep(q, K))
  <2> SUFFICES ASSUME NEW i \in 1..Len(Keep(q, K)), NEW j \in 1..Len(Keep(q, K)),
                      Keep(q, K)[i].id = Keep(q, K)[j].id
               PROVE  i = j
    BY DEF Distinct
  <2>1. i \in 1..Cardinality(K) /\ j \in 1..Cardinality(K)
    BY KeepSeq
  <2>2. Nth(K, i) = Nth(K, j)
    <3>1. /\ Nth(K, i) \in 1..Len(q) /\ Keep(q, K)[i] = q[Nth(K, i)]
          /\ Nth(K, j) \in 1..Len(q) /\ Keep(q, K)[j] = q[Nth(K, j)]
      BY <2>1, KeepSeq
    <3> QED
      BY <1>3, <3>1 DEF Distinct
  <2>3. Rank(K, Nth(K, i)) = i /\ Rank(K, Nth(K, j)) = j
    <3>1. Len(q) \in Nat
      OBVIOUS
    <3> QED
      BY <2>1, <3>1, NthInSet
  <2> QED
    BY <2>2, <2>3
<1>4. From(Keep(q, K), q)
  BY KeepSeq DEF From
<1> QED
  BY <1>1, <1>2, <1>3, <1>4 DEF Derived

\* sweep_pending_inputs never drops the running turn's own slot.
LEMMA SweepDerived ==
  ASSUME NEW S, NEW q \in Seq(S), NEW run, NEW drop
  PROVE  Sweep(q, run, drop) \in Seq(S) /\ Derived(Sweep(q, run, drop), q, run)
<1> DEFINE K == {i \in 1..Len(q) : q[i].id = run \/ i \notin drop}
<1>1. K \in SUBSET (1..Len(q))
  OBVIOUS
<1>2. run # None /\ q # <<>> /\ q[1].id = run => 1 \in K
  OBVIOUS
<1> HIDE DEF K
<1>3. Keep(q, K) \in Seq(S) /\ Derived(Keep(q, K), q, run)
  BY <1>1, <1>2, KeepDerived
<1> QED
  BY <1>3 DEF Sweep, K

\* A row that is not running may be taken out.
LEMMA RemoveDerived ==
  ASSUME NEW S, NEW q \in Seq(S), NEW run, NEW i \in 1..Len(q), q[i].id # run
  PROVE  /\ Remove(q, i) \in Seq(S)
         /\ Derived(Remove(q, i), q, run)
         /\ Distinct(q) => Absent(q[i].id, Remove(q, i))
<1> DEFINE K == (1..Len(q)) \ {i}
<1>1. K \in SUBSET (1..Len(q))
  OBVIOUS
<1>2. run # None /\ q # <<>> /\ q[1].id = run => 1 \in K
  OBVIOUS
<1>3. i \notin K
  OBVIOUS
<1> HIDE DEF K
<1>4. Keep(q, K) \in Seq(S) /\ Derived(Keep(q, K), q, run)
  BY <1>1, <1>2, KeepDerived
<1>5. ASSUME Distinct(q) PROVE Absent(q[i].id, Keep(q, K))
  BY <1>1, <1>3, <1>5, KeepSeq DEF Absent, Distinct
<1> QED
  BY <1>4, <1>5 DEF Remove, K

\* handle_clear_queue spares the running turn.
LEMMA ClearDerived ==
  ASSUME NEW S, NEW q \in Seq(S), NEW run, NEW owner
  PROVE  Clear(q, run, owner) \in Seq(S) /\ Derived(Clear(q, run, owner), q, run)
<1> DEFINE K == (1..Len(q)) \ Cleared(q, run, owner)
<1>1. K \in SUBSET (1..Len(q))
  OBVIOUS
<1>2. run # None /\ q # <<>> /\ q[1].id = run => 1 \in K
  BY DEF Cleared
<1> HIDE DEF K
<1>3. Keep(q, K) \in Seq(S) /\ Derived(Keep(q, K), q, run)
  BY <1>1, <1>2, KeepDerived
<1> QED
  BY <1>3 DEF Clear, K

\* A new item behind a running front keeps the front and, if it is new, keeps
\* the queue free of duplicates.
LEMMA InsertDerived ==
  ASSUME NEW S, NEW q \in Seq(S), NEW run, NEW it \in S,
         NEW n \in FrontSlot(q, run)..Len(q)
  PROVE  Insert(q, n, it) \in Seq(S) /\ Inserted(Insert(q, n, it), q, it, run)
<1> DEFINE new == Insert(q, n, it)
<1>0. n \in 0..Len(q) /\ Len(q) \in Nat /\ n \in Nat
  BY FrontSlotRange
<1>1. /\ new \in Seq(S)
      /\ Len(new) = Len(q) + 1
      /\ \A i \in 1..(Len(q) + 1) :
           new[i] = IF i <= n THEN q[i] ELSE IF i = n + 1 THEN it ELSE q[i - 1]
  BY <1>0, InsertSeq
<1> HIDE DEF new
<1>2. ASSUME Fronted(q, run) PROVE Fronted(new, run)
  <2> SUFFICES ASSUME run # None PROVE new # <<>> /\ new[1].id = run
    BY DEF Fronted
  <2>1. q # <<>> /\ q[1].id = run /\ n >= 1
    BY <1>2 DEF Fronted, FrontSlot
  <2> QED
    BY <1>0, <1>1, <2>1
<1>3. ASSUME Distinct(q), Absent(it.id, q) PROVE Distinct(new)
  <2> DEFINE old(i) == IF i <= n THEN i ELSE i - 1
  <2> SUFFICES ASSUME NEW i \in 1..Len(new), NEW j \in 1..Len(new),
                      new[i].id = new[j].id
               PROVE  i = j
    BY DEF Distinct
  <2>1. i # n + 1 => old(i) \in 1..Len(q) /\ new[i] = q[old(i)]
    BY <1>0, <1>1
  <2>2. j # n + 1 => old(j) \in 1..Len(q) /\ new[j] = q[old(j)]
    BY <1>0, <1>1
  <2>3. (i = n + 1 => new[i] = it) /\ (j = n + 1 => new[j] = it)
    BY <1>0, <1>1
  <2>4. CASE i = n + 1 \/ j = n + 1
    BY <1>3, <2>1, <2>2, <2>3, <2>4 DEF Absent
  <2>5. CASE i # n + 1 /\ j # n + 1
    <3>1. old(i) = old(j)
      BY <1>3, <2>1, <2>2, <2>5 DEF Distinct
    <3> QED
      BY <1>0, <1>1, <2>5, <3>1
  <2> QED
    BY <2>4, <2>5
<1>4. \A i \in 1..Len(new) : new[i] = it \/ \E k \in 1..Len(q) : new[i] = q[k]
  <2> TAKE i \in 1..Len(new)
  <2>1. CASE i <= n
    BY <1>0, <1>1, <2>1
  <2>2. CASE i = n + 1
    BY <1>0, <1>1, <2>2
  <2>3. CASE i > n + 1
    <3>1. i - 1 \in 1..Len(q) /\ new[i] = q[i - 1]
      BY <1>0, <1>1, <2>3
    <3> QED
      BY <3>1
  <2> QED
    BY <1>0, <1>1, <2>1, <2>2, <2>3
<1> QED
  BY <1>1, <1>2, <1>3, <1>4 DEF new, Inserted

\* handle_interject_queued_prompt: the promoted row stays behind the running
\* turn and is in the queue once.
LEMMA PromoteDerived ==
  ASSUME NEW S, NEW q \in Seq(S), NEW run, NEW i \in 1..Len(q), q[i].id # run,
         NEW it \in S, it = [q[i] EXCEPT !.sendNow = TRUE], it.id = q[i].id
  PROVE  Promote(q, run, i) \in Seq(S) /\ Derived(Promote(q, run, i), q, run)
<1> DEFINE rest == Remove(q, i)
           n == SendNowSlot(rest, run)
           new == Insert(rest, n, it)
<1>1. /\ rest \in Seq(S) /\ Derived(rest, q, run)
      /\ Distinct(q) => Absent(it.id, rest)
  BY RemoveDerived
<1> HIDE DEF rest
<1>2. n \in FrontSlot(rest, run)..Len(rest)
  BY <1>1, SendNowSlotRange
<1> HIDE DEF n
<1>3. new \in Seq(S) /\ Inserted(new, rest, it, run)
  BY <1>1, <1>2, InsertDerived
<1> HIDE DEF new
<1>4. From(new, q)
  BY <1>1, <1>3 DEF From, Derived, Inserted
<1>5. Derived(new, q, run)
  BY <1>1, <1>3, <1>4 DEF Derived, Inserted
<1> QED
  BY <1>3, <1>5 DEF Promote, rest, n, new

\* An edit changes a row in place.
LEMMA EditDerived ==
  ASSUME NEW S, NEW q \in Seq(S), NEW run, NEW i \in 1..Len(q),
         [q[i] EXCEPT !.version = @ + 1] \in S,
         [q[i] EXCEPT !.version = @ + 1].id = q[i].id
  PROVE  /\ Edit(q, i) \in Seq(S) /\ Derived(Edit(q, i), q, run)
         /\ Len(Edit(q, i)) = Len(q) /\ Edit(q, i)[i].id = q[i].id
<1>0. PICK it \in S : it = [q[i] EXCEPT !.version = @ + 1] /\ it.id = q[i].id
  OBVIOUS
<1>1. Edit(q, i) = [q EXCEPT ![i] = it]
  BY <1>0 DEF Edit
<1>2. /\ Edit(q, i) \in Seq(S) /\ Len(Edit(q, i)) = Len(q)
      /\ \A j \in 1..Len(q) : Edit(q, i)[j] = IF j = i THEN it ELSE q[j]
  BY <1>1, ExceptSeq
<1>3. \A j \in 1..Len(q) : Edit(q, i)[j].id = q[j].id
  BY <1>0, <1>2
<1>4. ASSUME q # <<>> PROVE Edit(q, i) # <<>> /\ Edit(q, i)[1].id = q[1].id
  BY <1>2, <1>3, <1>4
<1>5. Derived(Edit(q, i), q, run)
  BY <1>2, <1>3, <1>4 DEF Derived, Fronted, Distinct, From
<1> QED
  BY <1>2, <1>3, <1>5

\* handle_reorder_queue moves rows only, and each row once.
LEMMA ReorderDerived ==
  ASSUME NEW S, NEW q \in Seq(S), NEW run, NEW f \in Orders(q, run)
  PROVE  Reorder(q, run, f) \in Seq(S) /\ Derived(Reorder(q, run, f), q, run)
<1> DEFINE R == Rows(q, run)
           K == (1..Len(q)) \ R
           a == Keep(q, K)
           m == Cardinality(R)
           b == [i \in DOMAIN f |-> q[f[i]]]
           new == a \o b
<1>1. R \in SUBSET (1..Len(q)) /\ K \in SUBSET (1..Len(q)) /\ R \cap K = {}
  BY DEF Rows
<1>2. Len(q) \in Nat /\ m \in Nat
  <2>1. Len(q) \in Nat
    OBVIOUS
  <2> QED
    BY <1>1, <2>1, PositionsFinite
<1>3. DOMAIN f = 1..m /\ f \in [1..m -> R] /\ \A i, j \in 1..m : i # j => f[i] # f[j]
  BY DEF Orders
<1>4. run # None /\ q # <<>> /\ q[1].id = run => 1 \in K
  BY DEF Rows
<1> HIDE DEF R, K, m
<1>5. a \in Seq(S) /\ Derived(a, q, run)
  BY <1>1, <1>4, KeepDerived
<1>6. /\ Len(a) = Cardinality(K) /\ Cardinality(K) \in Nat
      /\ \A i \in 1..Len(a) : Nth(K, i) \in K /\ a[i] = q[Nth(K, i)]
  BY <1>1, KeepSeq
<1> HIDE DEF a
<1>7. \A i \in 1..m : f[i] \in R /\ f[i] \in 1..Len(q) /\ q[f[i]] \in S
  <2> TAKE i \in 1..m
  <2>1. f[i] \in R
    BY <1>3
  <2>2. f[i] \in 1..Len(q)
    BY <1>1, <2>1
  <2> QED
    BY <2>1, <2>2
<1>8. /\ b \in Seq(S) /\ Len(b) = m /\ \A i \in 1..m : b[i] = q[f[i]]
  BY <1>2, <1>3, <1>7
<1> HIDE DEF b
<1>9. /\ new \in Seq(S) /\ Len(new) = Len(a) + m
      /\ \A i \in 1..(Len(a) + m) : new[i] = IF i <= Len(a) THEN a[i] ELSE b[i - Len(a)]
  BY <1>5, <1>8, ConcatProperties
<1>10. /\ \A i \in 1..Len(a) : new[i] = a[i]
       /\ \A i \in 1..Len(new) : i > Len(a) =>
            i - Len(a) \in 1..m /\ new[i] = q[f[i - Len(a)]]
  BY <1>2, <1>6, <1>8, <1>9
<1> HIDE DEF new
<1>11. ASSUME Fronted(q, run) PROVE Fronted(new, run)
  <2> SUFFICES ASSUME run # None PROVE new # <<>> /\ new[1].id = run
    BY DEF Fronted
  <2>1. a # <<>> /\ a[1].id = run
    BY <1>5, <1>11 DEF Derived, Fronted
  <2>2. Len(a) \in Nat /\ Len(a) >= 1
    BY <1>5, <2>1
  <2> QED
    BY <1>2, <1>9, <1>10, <2>1, <2>2
<1>12. ASSUME Distinct(q) PROVE Distinct(new)
  <2> SUFFICES ASSUME NEW i \in 1..Len(new), NEW j \in 1..Len(new),
                      new[i].id = new[j].id, i < j
               PROVE  FALSE
    <3>1. Len(new) \in Nat
      BY <1>2, <1>6, <1>9
    <3> QED
      BY <3>1 DEF Distinct
  <2>1. CASE j <= Len(a)
    <3>1. i \in 1..Len(a) /\ j \in 1..Len(a) /\ a[i].id = a[j].id
      BY <1>6, <1>10, <2>1
    <3> QED
      BY <1>5, <1>12, <3>1 DEF Derived, Distinct
  <2>2. CASE i <= Len(a) /\ j > Len(a)
    <3>1. i \in 1..Len(a) /\ new[i] = q[Nth(K, i)] /\ Nth(K, i) \in K
      BY <1>6, <1>10, <2>2
    <3>2. f[j - Len(a)] \in R /\ new[j] = q[f[j - Len(a)]]
      BY <1>7, <1>10, <2>2
    <3>3. Nth(K, i) = f[j - Len(a)]
      BY <1>1, <1>12, <3>1, <3>2 DEF Distinct
    <3> QED
      BY <1>1, <3>1, <3>2, <3>3
  <2>3. CASE i > Len(a)
    <3>1. i - Len(a) \in 1..m /\ j - Len(a) \in 1..m /\ i - Len(a) # j - Len(a)
      BY <1>2, <1>6, <1>10, <2>3
    <3>2. new[i] = q[f[i - Len(a)]] /\ new[j] = q[f[j - Len(a)]]
      BY <1>6, <1>10, <2>3
    <3>3. f[i - Len(a)] \in 1..Len(q) /\ f[j - Len(a)] \in 1..Len(q)
      BY <1>7, <3>1
    <3>4. f[i - Len(a)] = f[j - Len(a)]
      BY <1>12, <3>2, <3>3 DEF Distinct
    <3> QED
      BY <1>3, <3>1, <3>4
  <2> QED
    BY <1>6, <2>1, <2>2, <2>3
<1>13. From(new, q)
  <2> SUFFICES ASSUME NEW i \in 1..Len(new)
               PROVE  \E k \in 1..Len(q) : new[i].id = q[k].id
    BY DEF From
  <2>1. CASE i <= Len(a)
    <3>1. i \in 1..Len(a)
      BY <1>6, <2>1
    <3> QED
      BY <1>1, <1>6, <1>10, <3>1
  <2>2. CASE i > Len(a)
    BY <1>7, <1>10, <2>2
  <2> QED
    BY <1>6, <2>1, <2>2
<1> QED
  BY <1>9, <1>11, <1>12, <1>13 DEF Derived, Reorder, new, a, b, K, R

-----------------------------------------------------------------------------
(* What an operation keeps: no item changes its id or its origin, and only *)
(* the positions an operation names lose their item.                       *)

Copied(new, q) ==
  \A i \in 1..Len(new) : \E k \in 1..Len(q) : new[i].id = q[k].id /\ new[i].kind = q[k].kind
Holds(new, id) == \E i \in 1..Len(new) : new[i].id = id

\* A kept position has its item in the result.
LEMMA KeepHolds ==
  ASSUME NEW S, NEW q \in Seq(S), NEW K \in SUBSET (1..Len(q)), NEW k \in K
  PROVE  \E i \in 1..Len(Keep(q, K)) : Keep(q, K)[i] = q[k]
<1>0. Len(q) \in Nat
  OBVIOUS
<1> DEFINE r == Rank(K, k)
<1>1. r \in 1..Cardinality(K) /\ Cardinality(K) \in Nat
  BY <1>0, RankRange, PositionsFinite
<1>2. Nth(K, r) \in K /\ Rank(K, Nth(K, r)) = r
  BY <1>0, <1>1, NthInSet
<1>3. Nth(K, r) = k
  <2>1. Nth(K, r) \in 1..Len(q) /\ k \in 1..Len(q)
    BY <1>2
  <2>2. CASE Nth(K, r) < k
    <3>1. Rank(K, Nth(K, r)) < Rank(K, k)
      BY <1>0, <1>2, <2>2, RankMonotone
    <3> QED
      BY <1>1, <1>2, <3>1
  <2>3. CASE k < Nth(K, r)
    <3>1. Rank(K, k) < Rank(K, Nth(K, r))
      BY <1>0, <1>2, <2>3, RankMonotone
    <3> QED
      BY <1>1, <1>2, <3>1
  <2> QED
    BY <2>1, <2>2, <2>3
<1> HIDE DEF r
<1>4. r \in 1..Len(Keep(q, K)) /\ Keep(q, K)[r] = q[k]
  BY <1>1, <1>3, KeepSeq
<1> QED
  BY <1>4

\* A filter copies what it keeps.
LEMMA KeepCopied ==
  ASSUME NEW S, NEW q \in Seq(S), NEW K \in SUBSET (1..Len(q))
  PROVE  /\ Copied(Keep(q, K), q)
         /\ \A k \in K : Holds(Keep(q, K), q[k].id)
         /\ Distinct(q) => \A k \in (1..Len(q)) \ K : Absent(q[k].id, Keep(q, K))
<1>1. Copied(Keep(q, K), q)
  BY KeepSeq DEF Copied
<1>2. \A k \in K : Holds(Keep(q, K), q[k].id)
  BY KeepHolds DEF Holds
<1>3. ASSUME Distinct(q), NEW k \in (1..Len(q)) \ K PROVE Absent(q[k].id, Keep(q, K))
  BY <1>3, KeepSeq DEF Absent, Distinct
<1> QED
  BY <1>1, <1>2, <1>3

\* sweep_pending_inputs drops at most what it is told to.
LEMMA SweepCopied ==
  ASSUME NEW S, NEW q \in Seq(S), NEW run, NEW drop
  PROVE  /\ Copied(Sweep(q, run, drop), q)
         /\ \A k \in 1..Len(q) : k \notin drop => Holds(Sweep(q, run, drop), q[k].id)
<1> DEFINE K == {i \in 1..Len(q) : q[i].id = run \/ i \notin drop}
<1>1. K \in SUBSET (1..Len(q)) /\ \A k \in 1..Len(q) : k \notin drop => k \in K
  OBVIOUS
<1> HIDE DEF K
<1>2. Copied(Keep(q, K), q) /\ \A k \in K : Holds(Keep(q, K), q[k].id)
  BY <1>1, KeepCopied
<1> QED
  BY <1>1, <1>2 DEF Sweep, K

\* handle_remove_queued_prompt takes one row out.
LEMMA RemoveCopied ==
  ASSUME NEW S, NEW q \in Seq(S), NEW i \in 1..Len(q)
  PROVE  /\ Copied(Remove(q, i), q)
         /\ \A k \in (1..Len(q)) \ {i} : Holds(Remove(q, i), q[k].id)
         /\ Distinct(q) => Absent(q[i].id, Remove(q, i))
BY KeepCopied DEF Remove

\* handle_clear_queue takes out the rows it names.
LEMMA ClearCopied ==
  ASSUME NEW S, NEW q \in Seq(S), NEW run, NEW owner
  PROVE  /\ Copied(Clear(q, run, owner), q)
         /\ \A k \in (1..Len(q)) \ Cleared(q, run, owner) :
              Holds(Clear(q, run, owner), q[k].id)
         /\ Distinct(q) => \A k \in Cleared(q, run, owner) :
              Absent(q[k].id, Clear(q, run, owner))
<1> DEFINE C == Cleared(q, run, owner)
           K == (1..Len(q)) \ C
<1>1. C \in SUBSET (1..Len(q)) /\ K \in SUBSET (1..Len(q)) /\ C = (1..Len(q)) \ K
  BY DEF Cleared
<1> HIDE DEF C, K
<1>2. /\ Copied(Keep(q, K), q) /\ \A k \in K : Holds(Keep(q, K), q[k].id)
      /\ Distinct(q) => \A k \in C : Absent(q[k].id, Keep(q, K))
  BY <1>1, KeepCopied
<1> QED
  BY <1>2 DEF Clear, K, C

\* An insertion keeps every item and adds one.
LEMMA InsertHolds ==
  ASSUME NEW S, NEW q \in Seq(S), NEW n \in 0..Len(q), NEW it \in S
  PROVE  /\ \A k \in 1..Len(q) : Holds(Insert(q, n, it), q[k].id)
         /\ Holds(Insert(q, n, it), it.id)
<1> DEFINE new == Insert(q, n, it)
<1>1. /\ Len(new) = Len(q) + 1 /\ Len(q) \in Nat
      /\ \A i \in 1..(Len(q) + 1) :
           new[i] = IF i <= n THEN q[i] ELSE IF i = n + 1 THEN it ELSE q[i - 1]
  BY InsertSeq
<1> HIDE DEF new
<1>2. ASSUME NEW k \in 1..Len(q) PROVE Holds(new, q[k].id)
  <2>1. CASE k <= n
    BY <1>1, <2>1 DEF Holds
  <2>2. CASE k > n
    <3>1. k + 1 \in 1..Len(new) /\ new[k + 1] = q[k]
      BY <1>1, <2>2
    <3> QED
      BY <3>1 DEF Holds
  <2> QED
    BY <2>1, <2>2
<1>3. n + 1 \in 1..Len(new) /\ new[n + 1] = it
  BY <1>1
<1> QED
  BY <1>2, <1>3 DEF new, Holds

\* queue_input's push_back keeps every item and adds one.
LEMMA AppendHolds ==
  ASSUME NEW S, NEW q \in Seq(S), NEW it \in S
  PROVE  /\ \A k \in 1..Len(q) : Holds(Append(q, it), q[k].id)
         /\ Holds(Append(q, it), it.id)
<1> DEFINE new == Append(q, it)
<1>1. /\ Len(new) = Len(q) + 1 /\ Len(q) \in Nat
      /\ \A i \in 1..Len(q) : new[i] = q[i]
      /\ new[Len(q) + 1] = it
  OBVIOUS
<1> HIDE DEF new
<1>2. Len(q) + 1 \in 1..Len(new) /\ 1..Len(q) \subseteq 1..Len(new)
  BY <1>1
<1> QED
  BY <1>1, <1>2 DEF new, Holds

\* pop_front keeps everything behind the front.
LEMMA TailCopied ==
  ASSUME NEW S, NEW q \in Seq(S), q # <<>>
  PROVE  /\ Copied(Tail(q), q) /\ \A k \in 2..Len(q) : Holds(Tail(q), q[k].id)
<1> DEFINE t == Tail(q)
<1>1. /\ Len(q) \in Nat /\ Len(q) >= 1 /\ Len(t) = Len(q) - 1
      /\ \A i \in 1..(Len(q) - 1) : t[i] = q[i + 1]
  OBVIOUS
<1> HIDE DEF t
<1>2. Copied(t, q)
  <2> SUFFICES ASSUME NEW i \in 1..Len(t) PROVE i + 1 \in 1..Len(q) /\ t[i] = q[i + 1]
    BY DEF Copied
  <2> QED
    BY <1>1
<1>3. ASSUME NEW k \in 2..Len(q) PROVE Holds(t, q[k].id)
  <2>1. k - 1 \in 1..Len(t) /\ t[k - 1] = q[k]
    BY <1>1
  <2> QED
    BY <2>1 DEF Holds
<1> QED
  BY <1>2, <1>3 DEF t

\* An edit changes neither id nor origin.
LEMMA EditCopied ==
  ASSUME NEW S, NEW q \in Seq(S), NEW i \in 1..Len(q),
         [q[i] EXCEPT !.version = @ + 1] \in S,
         [q[i] EXCEPT !.version = @ + 1].id = q[i].id,
         [q[i] EXCEPT !.version = @ + 1].kind = q[i].kind
  PROVE  /\ Edit(q, i) \in Seq(S) /\ Copied(Edit(q, i), q)
         /\ \A k \in 1..Len(q) : Holds(Edit(q, i), q[k].id)
         /\ Len(Edit(q, i)) = Len(q)
<1>0. PICK it \in S : /\ it = [q[i] EXCEPT !.version = @ + 1]
                       /\ it.id = q[i].id /\ it.kind = q[i].kind
  OBVIOUS
<1>1. Edit(q, i) = [q EXCEPT ![i] = it]
  BY <1>0 DEF Edit
<1>2. /\ Edit(q, i) \in Seq(S) /\ Len(Edit(q, i)) = Len(q)
      /\ \A j \in 1..Len(q) : Edit(q, i)[j] = IF j = i THEN it ELSE q[j]
  BY <1>1, ExceptSeq
<1>3. \A j \in 1..Len(q) : Edit(q, i)[j].id = q[j].id /\ Edit(q, i)[j].kind = q[j].kind
  BY <1>0, <1>2
<1> QED
  BY <1>2, <1>3 DEF Copied, Holds

\* handle_interject_queued_prompt moves one row.
LEMMA PromoteCopied ==
  ASSUME NEW S, NEW q \in Seq(S), NEW run, NEW i \in 1..Len(q),
         [q[i] EXCEPT !.sendNow = TRUE] \in S,
         [q[i] EXCEPT !.sendNow = TRUE].id = q[i].id,
         [q[i] EXCEPT !.sendNow = TRUE].kind = q[i].kind
  PROVE  /\ Copied(Promote(q, run, i), q)
         /\ \A k \in 1..Len(q) : Holds(Promote(q, run, i), q[k].id)
<1>0. PICK it \in S : /\ it = [q[i] EXCEPT !.sendNow = TRUE]
                       /\ it.id = q[i].id /\ it.kind = q[i].kind
  OBVIOUS
<1> DEFINE rest == Remove(q, i)
           n == SendNowSlot(rest, run)
           new == Insert(rest, n, it)
<1>1. /\ rest \in Seq(S) /\ Copied(rest, q)
      /\ \A k \in (1..Len(q)) \ {i} : Holds(rest, q[k].id)
  <2>1. (1..Len(q)) \ {i} \in SUBSET (1..Len(q))
    OBVIOUS
  <2>2. rest \in Seq(S)
    BY <2>1, KeepSeq DEF Remove
  <2> QED
    BY <2>2, RemoveCopied
<1> HIDE DEF rest
<1>2. n \in FrontSlot(rest, run)..Len(rest) /\ n \in 0..Len(rest)
  BY <1>1, SendNowSlotRange, FrontSlotRange
<1> HIDE DEF n
<1>3. /\ \A k \in 1..Len(rest) : Holds(new, rest[k].id)
      /\ Holds(new, it.id)
      /\ \A j \in 1..Len(new) : new[j] = it \/ \E k \in 1..Len(rest) : new[j] = rest[k]
  <2>1. rest \in Seq(S) /\ n \in 0..Len(rest) /\ it \in S
    BY <1>1, <1>2
  <2>2. \A k \in 1..Len(rest) : Holds(Insert(rest, n, it), rest[k].id)
    BY <2>1, InsertHolds
  <2>3. Holds(Insert(rest, n, it), it.id)
    BY <2>1, InsertHolds
  <2>4. Inserted(Insert(rest, n, it), rest, it, run)
    BY <1>1, <1>2, InsertDerived
  <2> QED
    BY <2>2, <2>3, <2>4 DEF Inserted
<1> HIDE DEF new
<1>4. Copied(new, q)
  BY <1>0, <1>1, <1>3 DEF Copied
<1>5. \A k \in 1..Len(q) : Holds(new, q[k].id)
  BY <1>0, <1>1, <1>3 DEF Holds
<1> QED
  BY <1>0, <1>4, <1>5 DEF Promote, rest, n, new

\* handle_reorder_queue is a permutation: every row is asked for once.
LEMMA ReorderCopied ==
  ASSUME NEW S, NEW q \in Seq(S), NEW run, NEW f \in Orders(q, run)
  PROVE  /\ Copied(Reorder(q, run, f), q)
         /\ \A k \in 1..Len(q) : Holds(Reorder(q, run, f), q[k].id)
<1> DEFINE R == Rows(q, run)
           K == (1..Len(q)) \ R
           a == Keep(q, K)
           m == Cardinality(R)
           b == [i \in DOMAIN f |-> q[f[i]]]
           new == a \o b
<1>1. R \in SUBSET (1..Len(q)) /\ K \in SUBSET (1..Len(q)) /\ R \cup K = 1..Len(q)
  BY DEF Rows
<1>2. Len(q) \in Nat /\ m \in Nat /\ IsFiniteSet(R)
  <2>1. Len(q) \in Nat
    OBVIOUS
  <2> QED
    BY <1>1, <2>1, PositionsFinite
<1>3. DOMAIN f = 1..m /\ f \in [1..m -> R] /\ \A i, j \in 1..m : f[i] = f[j] => i = j
  BY DEF Orders
<1>4. \A r \in R : \E i \in 1..m : f[i] = r
  <2>1. f \in Injection(1..m, R)
    BY <1>3 DEF Injection, IsInjective
  <2>2. IsFiniteSet(1..m) /\ Cardinality(1..m) = m
    BY <1>2, FS_Interval
  <2>3. f \in Surjection(1..m, R)
    BY <1>2, <2>1, <2>2, FS_Injection DEF m
  <2> QED
    BY <2>3 DEF Surjection
<1> HIDE DEF R, K, m
<1>5. /\ a \in Seq(S) /\ Copied(a, q) /\ \A k \in K : Holds(a, q[k].id) /\ Len(a) \in Nat
  BY <1>1, KeepSeq, KeepCopied
<1> HIDE DEF a
<1>6. \A i \in 1..m : f[i] \in 1..Len(q) /\ q[f[i]] \in S
  <2> TAKE i \in 1..m
  <2>1. f[i] \in 1..Len(q)
    BY <1>1, <1>3
  <2> QED
    BY <2>1
<1>7. b \in Seq(S) /\ Len(b) = m /\ \A i \in 1..m : b[i] = q[f[i]]
  BY <1>2, <1>3, <1>6
<1> HIDE DEF b
<1>8. /\ Len(new) = Len(a) + m
      /\ \A i \in 1..(Len(a) + m) : new[i] = IF i <= Len(a) THEN a[i] ELSE b[i - Len(a)]
  BY <1>5, <1>7, ConcatProperties
<1> HIDE DEF new
<1>9. /\ \A i \in 1..Len(a) : i \in 1..Len(new) /\ new[i] = a[i]
      /\ \A i \in 1..m : Len(a) + i \in 1..Len(new) /\ new[Len(a) + i] = q[f[i]]
      /\ \A i \in 1..Len(new) : i > Len(a) =>
           i - Len(a) \in 1..m /\ new[i] = q[f[i - Len(a)]]
  <2>1. \A i \in 1..Len(a) : i \in 1..Len(new) /\ new[i] = a[i]
    BY <1>2, <1>5, <1>8
  <2>2. ASSUME NEW i \in 1..m
        PROVE  Len(a) + i \in 1..Len(new) /\ new[Len(a) + i] = q[f[i]]
    <3>1. Len(a) + i \in 1..(Len(a) + m) /\ ~(Len(a) + i <= Len(a)) /\ (Len(a) + i) - Len(a) = i
      BY <1>2, <1>5
    <3>2. new[Len(a) + i] = b[(Len(a) + i) - Len(a)]
      BY <1>8, <3>1
    <3> QED
      BY <1>7, <1>8, <3>1, <3>2
  <2>3. ASSUME NEW i \in 1..Len(new), i > Len(a)
        PROVE  i - Len(a) \in 1..m /\ new[i] = q[f[i - Len(a)]]
    BY <1>2, <1>5, <1>7, <1>8, <2>3
  <2> QED
    BY <2>1, <2>2, <2>3
<1>10. Copied(new, q)
  <2> SUFFICES ASSUME NEW i \in 1..Len(new)
               PROVE  \E k \in 1..Len(q) : new[i].id = q[k].id /\ new[i].kind = q[k].kind
    BY DEF Copied
  <2>1. CASE i <= Len(a)
    <3>1. i \in 1..Len(a)
      BY <1>5, <2>1
    <3> QED
      BY <1>5, <1>9, <3>1 DEF Copied
  <2>2. CASE i > Len(a)
    BY <1>6, <1>9, <2>2
  <2> QED
    BY <1>5, <2>1, <2>2
<1>11. ASSUME NEW k \in 1..Len(q) PROVE Holds(new, q[k].id)
  <2>1. CASE k \in K
    BY <1>5, <1>9, <2>1 DEF Holds
  <2>2. CASE k \in R
    BY <1>4, <1>9, <2>2 DEF Holds
  <2> QED
    BY <1>1, <2>1, <2>2
<1> QED
  BY <1>10, <1>11 DEF Reorder, new, a, b, K, R

-----------------------------------------------------------------------------
(* Which changes of the queue the clients cannot see.                      *)

\* f carries the positions K onto the positions L, in order.
Carries(f, K, L) ==
  /\ f \in [K -> L]
  /\ \A j, k \in K : j < k => f[j] < f[k]
  /\ \A l \in L : \E k \in K : f[k] = l

\* An order-preserving map onto L keeps the number of positions.
LEMMA CarriedSize ==
  ASSUME NEW K \in SUBSET Nat, NEW L \in SUBSET Nat, IsFiniteSet(K), NEW f, Carries(f, K, L)
  PROVE  Cardinality(L) = Cardinality(K)
<1>1. f \in [K -> L]
  BY DEF Carries
<1>2. ASSUME NEW j \in K, NEW k \in K, f[j] = f[k], j # k PROVE FALSE
  <2>1. j \in Nat /\ k \in Nat /\ f[j] \in Nat /\ f[k] \in Nat
    BY <1>1
  <2>2. j < k \/ k < j
    BY <1>2, <2>1
  <2>3. f[j] < f[k] \/ f[k] < f[j]
    BY <2>2 DEF Carries
  <2> QED
    BY <1>2, <2>1, <2>3
<1>3. f \in Injection(K, L)
  BY <1>1, <1>2 DEF Injection, IsInjective
<1>4. f \in Surjection(K, L)
  BY <1>1 DEF Surjection, Carries
<1>5. ExistsBijection(K, L)
  BY <1>3, <1>4 DEF ExistsBijection, Bijection
<1> QED
  BY <1>5, FS_Bijection

\* And the rank of each of them.
LEMMA CarriedRank ==
  ASSUME NEW K \in SUBSET Nat, NEW L \in SUBSET Nat, IsFiniteSet(K), NEW f, Carries(f, K, L),
         NEW k \in K
  PROVE  Rank(L, f[k]) = Rank(K, k)
<1> DEFINE A == {j \in K : j <= k}
           B == {l \in L : l <= f[k]}
           g == [j \in A |-> f[j]]
<1>0. f \in [K -> L] /\ f[k] \in L
  BY DEF Carries
<1>1. A \in SUBSET Nat /\ B \in SUBSET Nat /\ IsFiniteSet(A)
  BY FS_Subset
<1>2. ASSUME NEW j \in K PROVE j <= k <=> f[j] <= f[k]
  <2>1. j \in Nat /\ k \in Nat /\ f[j] \in Nat /\ f[k] \in Nat
    BY <1>0
  <2>2. j < k => f[j] < f[k]
    BY DEF Carries
  <2>3. k < j => f[k] < f[j]
    BY DEF Carries
  <2> QED
    BY <2>1, <2>2, <2>3
<1>3. g \in [A -> B]
  BY <1>0, <1>2
<1>4. \A i, j \in A : i < j => g[i] < g[j]
  BY DEF Carries
<1>5. \A l \in B : \E j \in A : g[j] = l
  <2> SUFFICES ASSUME NEW l \in L, l <= f[k] PROVE \E j \in A : g[j] = l
    OBVIOUS
  <2>1. PICK j \in K : f[j] = l
    BY DEF Carries
  <2>2. j \in A
    BY <1>2, <2>1
  <2> QED
    BY <2>1, <2>2
<1>6. Carries(g, A, B)
  BY <1>3, <1>4, <1>5 DEF Carries
<1> HIDE DEF A, B, g
<1>7. Cardinality(B) = Cardinality(A)
  BY <1>1, <1>6, CarriedSize
<1> QED
  BY <1>7 DEF A, B, Rank

\* So a filter returns the same items wherever they stand.
LEMMA CarriedKeep ==
  ASSUME NEW S, NEW q \in Seq(S), NEW r \in Seq(S), NEW K \in SUBSET (1..Len(q)),
         NEW L \in SUBSET (1..Len(r)), NEW f, Carries(f, K, L), \A k \in K : r[f[k]] = q[k]
  PROVE  Keep(r, L) = Keep(q, K)
<1>0. /\ Len(q) \in Nat /\ Len(r) \in Nat
      /\ K \in SUBSET Nat /\ L \in SUBSET Nat /\ IsFiniteSet(K)
  <2>1. Len(q) \in Nat /\ Len(r) \in Nat /\ K \in SUBSET Nat /\ L \in SUBSET Nat
    OBVIOUS
  <2>2. IsFiniteSet(K)
    BY <2>1, PositionsFinite
  <2> QED
    BY <2>1, <2>2
<1>1. Cardinality(L) = Cardinality(K)
  BY <1>0, CarriedSize
<1>2. ASSUME NEW i \in 1..Cardinality(K) PROVE r[Nth(L, i)] = q[Nth(K, i)]
  <2>1. Nth(K, i) \in K /\ Rank(K, Nth(K, i)) = i /\ Nth(L, i) \in L /\ Rank(L, Nth(L, i)) = i
    BY <1>0, <1>1, NthInSet
  <2>2. f[Nth(K, i)] \in L
    BY <2>1 DEF Carries
  <2>3. Rank(L, f[Nth(K, i)]) = i
    BY <1>0, <2>1, CarriedRank
  <2>4. f[Nth(K, i)] = Nth(L, i)
    <3> DEFINE a == f[Nth(K, i)]
               b == Nth(L, i)
    <3>1. a \in L /\ b \in L /\ Rank(L, a) = Rank(L, b)
      BY <2>1, <2>2, <2>3
    <3> HIDE DEF a, b
    <3>2. a = b
      BY <1>0, <3>1, RankTells
    <3> QED
      BY <3>2 DEF a, b
  <2> QED
    BY <2>1, <2>4
<1> QED
  BY <1>1, <1>2 DEF Keep

\* g finds every item of `small' in `big', in order.
Embeds(g, small, big) ==
  /\ g \in [1..Len(small) -> 1..Len(big)]
  /\ \A j, k \in 1..Len(small) : j < k => g[j] < g[k]
  /\ \A k \in 1..Len(small) : big[g[k]] = small[k]

\* The rows of `big' are those of `small'.
SameRows(g, small, big, run1, run2) ==
  /\ \A k \in 1..Len(small) : k \in Rows(small, run1) <=> g[k] \in Rows(big, run2)
  /\ \A l \in Rows(big, run2) : \E k \in 1..Len(small) : g[k] = l

\* build_queue_wire looks at the rows and at nothing else.
LEMMA WireMoved ==
  ASSUME NEW S, NEW small \in Seq(S), NEW big \in Seq(S), NEW run1, NEW run2, NEW g,
         Embeds(g, small, big), SameRows(g, small, big, run1, run2)
  PROVE  Wire(big, run2) = Wire(small, run1)
<1> DEFINE K == Rows(small, run1)
           L == Rows(big, run2)
           f == [k \in K |-> g[k]]
<1>1. K \in SUBSET (1..Len(small)) /\ L \in SUBSET (1..Len(big))
  BY DEF Rows
<1>2. f \in [K -> L]
  BY <1>1 DEF SameRows
<1>3. \A j, k \in K : j < k => f[j] < f[k]
  BY <1>1 DEF Embeds
<1>4. \A l \in L : \E k \in K : f[k] = l
  BY DEF SameRows
<1>5. \A k \in K : big[f[k]] = small[k]
  BY <1>1 DEF Embeds
<1>6. Carries(f, K, L)
  BY <1>2, <1>3, <1>4 DEF Carries
<1> HIDE DEF K, L, f
<1>7. Keep(big, L) = Keep(small, K)
  BY <1>1, <1>5, <1>6, CarriedKeep
<1> QED
  BY <1>7 DEF Wire, K, L

\* A prompt no client typed is queued unseen.
LEMMA WireInsert ==
  ASSUME NEW S, NEW q \in Seq(S), NEW n \in 0..Len(q), NEW it \in S, ~IsRow(it), NEW run
  PROVE  Wire(Insert(q, n, it), run) = Wire(q, run)
<1> DEFINE new == Insert(q, n, it)
           g == [k \in 1..Len(q) |-> IF k <= n THEN k ELSE k + 1]
<1>0. n \in 0..Len(q) /\ Len(q) \in Nat /\ n \in Nat
  OBVIOUS
<1>1. /\ new \in Seq(S)
      /\ Len(new) = Len(q) + 1
      /\ \A i \in 1..(Len(q) + 1) :
           new[i] = IF i <= n THEN q[i] ELSE IF i = n + 1 THEN it ELSE q[i - 1]
  <2> HIDE DEF g
  <2>1. new \in Seq(S) /\ Len(new) = Len(q) + 1
    BY <1>0, InsertSeq
  <2>2. ASSUME NEW i \in 1..(Len(q) + 1)
        PROVE  new[i] = IF i <= n THEN q[i] ELSE IF i = n + 1 THEN it ELSE q[i - 1]
    BY <1>0, InsertSeq
  <2> QED
    BY <2>1, <2>2
<1> HIDE DEF new
<1>2. Embeds(g, q, new)
  <2>1. g \in [1..Len(q) -> 1..Len(new)]
    BY <1>0, <1>1
  <2>2. \A j, k \in 1..Len(q) : j < k => g[j] < g[k]
    BY <1>0, <1>1
  <2>3. \A k \in 1..Len(q) : new[g[k]] = q[k]
    BY <1>0, <1>1
  <2> HIDE DEF g
  <2> QED
    BY <2>1, <2>2, <2>3 DEF Embeds
<1>3. SameRows(g, q, new, run, run)
  <2>1. \A k \in 1..Len(q) : k \in Rows(q, run) <=> g[k] \in Rows(new, run)
    <3> HIDE DEF g
    <3> QED
      BY <1>2 DEF Embeds, Rows
  <2>2. ASSUME NEW l \in Rows(new, run) PROVE \E k \in 1..Len(q) : g[k] = l
    <3>1. l \in 1..(Len(q) + 1) /\ IsRow(new[l])
      BY <1>0, <1>1 DEF Rows
    <3>2. l # n + 1
      BY <1>0, <1>1, <3>1
    <3>3. CASE l <= n
      <4>1. l \in 1..Len(q) /\ g[l] = l
        BY <1>0, <1>1, <3>1, <3>3
      <4> QED
        BY <4>1
    <3>4. CASE l > n + 1
      <4>1. l - 1 \in 1..Len(q) /\ g[l - 1] = l
        BY <1>0, <1>1, <3>1, <3>4
      <4> QED
        BY <4>1
    <3> QED
      BY <1>0, <1>1, <3>1, <3>2, <3>3, <3>4
  <2> HIDE DEF g
  <2> QED
    BY <2>1, <2>2 DEF SameRows
<1> HIDE DEF g
<1>4. Wire(new, run) = Wire(q, run)
  BY <1>1, <1>2, <1>3, WireMoved
<1> QED
  BY <1>4 DEF new

\* The same at the back of the queue.
LEMMA WireAppend ==
  ASSUME NEW S, NEW q \in Seq(S), NEW it \in S, ~IsRow(it), NEW run
  PROVE  Wire(Append(q, it), run) = Wire(q, run)
<1> DEFINE new == Append(q, it)
           g == [k \in 1..Len(q) |-> k]
<1>1. /\ new \in Seq(S) /\ Len(new) = Len(q) + 1 /\ Len(q) \in Nat
      /\ \A i \in 1..Len(q) : new[i] = q[i]
      /\ new[Len(q) + 1] = it
  OBVIOUS
<1> HIDE DEF new
<1>2. Embeds(g, q, new)
  BY <1>1 DEF Embeds
<1>3. SameRows(g, q, new, run, run)
  <2>1. \A k \in 1..Len(q) : k \in Rows(q, run) <=> g[k] \in Rows(new, run)
    BY <1>1 DEF Rows
  <2>2. ASSUME NEW l \in Rows(new, run) PROVE l \in 1..Len(q) /\ g[l] = l
    <3>1. l \in 1..(Len(q) + 1) /\ l # Len(q) + 1
      BY <1>1 DEF Rows
    <3> QED
      BY <1>1, <3>1
  <2> HIDE DEF g
  <2> QED
    BY <2>1, <2>2 DEF SameRows
<1> HIDE DEF g
<1>4. Wire(new, run) = Wire(q, run)
  BY <1>1, <1>2, <1>3, WireMoved
<1> QED
  BY <1>4 DEF new

\* Popping a front that is the running turn, or that no client typed, leaves
\* the rows behind it.
LEMMA WireTail ==
  ASSUME NEW S, NEW q \in Seq(S), q # <<>>, NEW run1, NEW run2,
         IsRow(q[1]) => q[1].id = run2,
         \A k \in 2..Len(q) : q[k].id # run1 /\ q[k].id # run2
  PROVE  Wire(Tail(q), run1) = Wire(q, run2)
<1> DEFINE t == Tail(q)
           g == [k \in 1..Len(t) |-> k + 1]
<1>1. /\ t \in Seq(S) /\ Len(t) \in Nat /\ Len(q) = Len(t) + 1
      /\ \A k \in 1..Len(t) : t[k] = q[k + 1] /\ k + 1 \in 1..Len(q) /\ k + 1 \in 2..Len(q)
  OBVIOUS
<1> HIDE DEF t
<1>2. Embeds(g, t, q)
  <2>1. g \in [1..Len(t) -> 1..Len(q)]
    BY <1>1
  <2>2. \A j, k \in 1..Len(t) : j < k => g[j] < g[k]
    BY <1>1
  <2>3. \A k \in 1..Len(t) : q[g[k]] = t[k]
    BY <1>1
  <2> HIDE DEF g
  <2> QED
    BY <2>1, <2>2, <2>3 DEF Embeds
<1>3. SameRows(g, t, q, run1, run2)
  <2>1. \A k \in 1..Len(t) : k \in Rows(t, run1) <=> g[k] \in Rows(q, run2)
    BY <1>1 DEF Rows
  <2>2. ASSUME NEW l \in Rows(q, run2) PROVE \E k \in 1..Len(t) : g[k] = l
    <3>1. l \in 1..(Len(t) + 1) /\ l # 1
      BY <1>1 DEF Rows
    <3>2. l - 1 \in 1..Len(t) /\ g[l - 1] = l
      BY <1>1, <3>1
    <3> QED
      BY <3>2
  <2> HIDE DEF g
  <2> QED
    BY <2>1, <2>2 DEF SameRows
<1> HIDE DEF g
<1>4. Wire(q, run2) = Wire(t, run1)
  BY <1>1, <1>2, <1>3, WireMoved
<1> QED
  BY <1>4 DEF t

\* A sweep of prompts no client typed.
LEMMA WireKeep ==
  ASSUME NEW S, NEW q \in Seq(S), NEW K \in SUBSET (1..Len(q)), NEW run,
         Rows(q, run) \subseteq K
  PROVE  Wire(Keep(q, K), run) = Wire(q, run)
<1> DEFINE new == Keep(q, K)
           g == [i \in 1..Len(new) |-> Nth(K, i)]
<1>0. Len(q) \in Nat
  OBVIOUS
<1>1. /\ new \in Seq(S) /\ Len(new) = Cardinality(K) /\ Cardinality(K) \in Nat
      /\ \A i \in 1..Cardinality(K) :
           Nth(K, i) \in K /\ Nth(K, i) \in 1..Len(q) /\ new[i] = q[Nth(K, i)]
  BY KeepSeq
<1> HIDE DEF new
<1>2. Embeds(g, new, q)
  <2>1. g \in [1..Len(new) -> 1..Len(q)]
    BY <1>1
  <2>2. ASSUME NEW i \in 1..Cardinality(K), NEW j \in 1..Cardinality(K), i < j
        PROVE  Nth(K, i) < Nth(K, j)
    <3>1. Nth(K, i) < Nth(K, j)
      BY <1>0, <2>2, NthMonotone
    <3> QED
      BY <3>1
  <2>3. \A i, j \in 1..Len(new) : i < j => g[i] < g[j]
    BY <1>1, <2>2
  <2>4. \A i \in 1..Len(new) : q[g[i]] = new[i]
    BY <1>1
  <2> HIDE DEF g
  <2> QED
    BY <2>1, <2>3, <2>4 DEF Embeds
<1>3. SameRows(g, new, q, run, run)
  <2>1. \A k \in 1..Len(new) : k \in Rows(new, run) <=> g[k] \in Rows(q, run)
    BY <1>1 DEF Rows
  <2>2. ASSUME NEW l \in Rows(q, run) PROVE \E i \in 1..Len(new) : g[i] = l
    <3>1. l \in K
      OBVIOUS
    <3> DEFINE i == Rank(K, l)
    <3>2. i \in 1..Cardinality(K)
      BY <1>0, <3>1, RankRange
    <3> HIDE DEF i
    <3>3. Nth(K, i) \in K /\ Rank(K, Nth(K, i)) = i
      BY <1>0, <3>2, NthInSet
    <3>4. Nth(K, i) = l
      BY <1>0, <3>1, <3>2, <3>3, RankTells DEF i
    <3> QED
      BY <1>1, <3>2, <3>4
  <2> HIDE DEF g
  <2> QED
    BY <2>1, <2>2 DEF SameRows
<1> HIDE DEF g
<1>4. Wire(new, run) = Wire(q, run)
  BY <1>1, <1>2, <1>3, WireMoved
<1> QED
  BY <1>4 DEF new
=============================================================================
