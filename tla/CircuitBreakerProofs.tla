------------------------ MODULE CircuitBreakerProofs ------------------------
(***************************************************************************)
(* Proofs about CircuitBreaker and BreakerHistory, for every configuration *)
(* of the breaker and any number of threads.                               *)
(*                                                                         *)
(* The first part is about the sliding window alone: what push() and       *)
(* evict() do to the number of failed samples.                             *)
(***************************************************************************)
EXTENDS BreakerHistory, FiniteSetTheorems, SequenceTheorems, WellFoundedInduction, TLAPS

\* The positions of the failed samples of a window.
FailedAt(es) == {i \in 1..Len(es) : es[i].fails}

\* A window has finitely many failed samples, at most one per entry.
LEMMA FailuresFinite ==
  ASSUME NEW es \in Seq(Sample)
  PROVE  /\ IsFiniteSet(FailedAt(es))
         /\ FailureCount(es) = Cardinality(FailedAt(es))
         /\ FailureCount(es) \in Nat
         /\ FailureCount(es) <= Len(es)
<1>1. Len(es) \in Nat /\ FailedAt(es) \in SUBSET (1..Len(es))
  BY DEF FailedAt
<1>2. IsFiniteSet(1..Len(es)) /\ Cardinality(1..Len(es)) = Len(es)
  <2>1. 1 \in Int /\ Len(es) \in Int
    BY <1>1
  <2>2. /\ IsFiniteSet(1..Len(es))
        /\ Cardinality(1..Len(es)) = IF 1 > Len(es) THEN 0 ELSE Len(es) - 1 + 1
    BY <2>1, FS_Interval, Zenon
  <2> QED
    BY <1>1, <2>2
<1>3. /\ IsFiniteSet(FailedAt(es))
      /\ Cardinality(FailedAt(es)) <= Len(es)
  BY <1>1, <1>2, FS_Subset
<1>4. Cardinality(FailedAt(es)) \in Nat
  BY <1>3, FS_CardinalityType
<1> QED
  BY <1>3, <1>4 DEF FailureCount, FailedAt

\* A sample pushed at the back counts once if it failed.
LEMMA FailuresOfAppend ==
  ASSUME NEW es \in Seq(Sample), NEW x \in Sample
  PROVE  FailureCount(Append(es, x)) = FailureCount(es) + (IF x.fails THEN 1 ELSE 0)
<1> DEFINE n == Len(es) + 1
<1>1. /\ Append(es, x) \in Seq(Sample)
      /\ Len(es) \in Nat
      /\ Len(Append(es, x)) = n
      /\ \A i \in 1..Len(es) : Append(es, x)[i] = es[i]
      /\ Append(es, x)[n] = x
  <2>1. Len(es) \in Nat
    OBVIOUS
  <2>2. Append(es, x) \in Seq(Sample) /\ Len(Append(es, x)) = Len(es) + 1
    OBVIOUS
  <2>3. \A i \in 1..Len(es) : Append(es, x)[i] = es[i]
    OBVIOUS
  <2>4. Append(es, x)[Len(es) + 1] = x
    OBVIOUS
  <2> QED
    BY <2>1, <2>2, <2>3, <2>4
<1> HIDE DEF n
<1>2. IsFiniteSet(FailedAt(es)) /\ n \notin FailedAt(es)
  <2>1. IsFiniteSet(FailedAt(es))
    BY FailuresFinite
  <2>2. n \notin 1..Len(es)
    BY <1>1 DEF n
  <2> QED
    BY <2>1, <2>2 DEF FailedAt
<1>3. CASE x.fails
  <2>1. FailedAt(Append(es, x)) = FailedAt(es) \cup {n}
    BY <1>1, <1>3 DEF FailedAt, n
  <2>2. Cardinality(FailedAt(Append(es, x))) = Cardinality(FailedAt(es)) + 1
    BY <1>2, <2>1, FS_AddElement
  <2> QED
    BY <1>1, <1>3, <2>2, FailuresFinite
<1>4. CASE ~x.fails
  <2>1. FailedAt(Append(es, x)) \subseteq FailedAt(es)
    <3> SUFFICES ASSUME NEW i \in FailedAt(Append(es, x)) PROVE i \in FailedAt(es)
      OBVIOUS
    <3>1. i \in 1..n /\ Append(es, x)[i].fails
      BY <1>1 DEF FailedAt
    <3>2. i # n
      BY <1>1, <1>4, <3>1
    <3> QED
      BY <1>1, <3>1, <3>2 DEF FailedAt, n
  <2>2. FailedAt(es) \subseteq FailedAt(Append(es, x))
    BY <1>1 DEF FailedAt
  <2>3. FailedAt(Append(es, x)) = FailedAt(es)
    BY <2>1, <2>2
  <2>4. FailureCount(Append(es, x)) = FailureCount(es)
    BY <2>3 DEF FailureCount, FailedAt
  <2> QED
    BY <1>4, <2>4, FailuresFinite
<1> QED
  BY <1>3, <1>4

\* Cutting a window in two shares its failed samples between the parts.
LEMMA FailuresOfCut ==
  ASSUME NEW es \in Seq(Sample), NEW n \in 0..Len(es)
  PROVE  /\ SubSeq(es, 1, n) \in Seq(Sample)
         /\ SubSeq(es, n + 1, Len(es)) \in Seq(Sample)
         /\ Len(SubSeq(es, n + 1, Len(es))) = Len(es) - n
         /\ FailureCount(es) = FailureCount(SubSeq(es, 1, n))
                                 + FailureCount(SubSeq(es, n + 1, Len(es)))
<1> DEFINE old == SubSeq(es, 1, n)
           new == SubSeq(es, n + 1, Len(es))
           a == {i \in 1..n : es[i].fails}
           b == {i \in n + 1..Len(es) : es[i].fails}
           shift == [i \in b |-> i - n]
<1>1. /\ Len(es) \in Nat
      /\ n \in Nat
      /\ n <= Len(es)
      /\ \A i \in 1..Len(es) : es[i] \in Sample
  OBVIOUS
<1>2. /\ old \in Seq(Sample)
      /\ Len(old) = n
      /\ \A i \in 1..n : old[i] = es[i]
  BY <1>1
<1>3. /\ new \in Seq(Sample)
      /\ Len(new) = Len(es) - n
      /\ \A i \in 1..Len(es) - n : new[i] = es[n + i]
  BY <1>1
<1> HIDE DEF old, new
<1>4. FailedAt(old) = a
  BY <1>2 DEF FailedAt
<1>5. FailedAt(es) = a \cup b /\ a \cap b = {}
  BY <1>1 DEF FailedAt
<1>6. IsFiniteSet(a) /\ IsFiniteSet(b)
  BY <1>5, FailuresFinite, FS_Subset
<1>7. Cardinality(FailedAt(es)) = Cardinality(a) + Cardinality(b)
  <2>1. Cardinality(a \cup b) = Cardinality(a) + Cardinality(b) - Cardinality({})
    <3> HIDE DEF a, b
    <3> QED
      BY <1>5, <1>6, FS_Union
  <2> QED
    BY <1>5, <1>6, <2>1, FS_EmptySet, FS_CardinalityType
<1>8. Cardinality(FailedAt(new)) = Cardinality(b)
  <2>1. shift \in [b -> FailedAt(new)]
    <3> SUFFICES ASSUME NEW i \in b PROVE i - n \in FailedAt(new)
      OBVIOUS
    <3>1. i - n \in 1..Len(es) - n /\ n + (i - n) = i /\ es[i].fails
      BY <1>1
    <3> QED
      BY <1>3, <3>1 DEF FailedAt
  <2>2. shift \in Injection(b, FailedAt(new))
    BY <1>1, <2>1 DEF Injection, IsInjective
  <2>3. shift \in Surjection(b, FailedAt(new))
    <3> SUFFICES ASSUME NEW j \in FailedAt(new) PROVE \E i \in b : shift[i] = j
      BY <2>1 DEF Surjection
    <3>1. n + j \in b /\ (n + j) - n = j
      BY <1>1, <1>3 DEF FailedAt
    <3> QED
      BY <3>1
  <2> QED
    BY <1>6, <2>2, <2>3, FS_Bijection DEF Bijection, ExistsBijection
<1> QED
  BY <1>2, <1>3, <1>4, <1>7, <1>8, FailuresFinite DEF old, new

\* The sample the cap drops counts once if it failed.
LEMMA FailuresOfTail ==
  ASSUME NEW es \in Seq(Sample), Len(es) > 0
  PROVE  /\ Tail(es) \in Seq(Sample)
         /\ Len(Tail(es)) = Len(es) - 1
         /\ FailureCount(Tail(es)) = FailureCount(es) - (IF Head(es).fails THEN 1 ELSE 0)
<1> DEFINE one == SubSeq(es, 1, 1)
<1>1. Len(es) \in Nat /\ 1 \in 0..Len(es) /\ Head(es) = es[1] /\ Head(es) \in Sample
  OBVIOUS
<1>2. Tail(es) \in Seq(Sample) /\ Len(Tail(es)) = Len(es) - 1
  OBVIOUS
<1>3. Tail(es) = SubSeq(es, 1 + 1, Len(es))
  OBVIOUS
<1>4. FailureCount(es) = FailureCount(one) + FailureCount(Tail(es)) /\ one \in Seq(Sample)
  BY <1>1, <1>3, FailuresOfCut
<1>5. Len(one) = 1 /\ one[1] = Head(es)
  BY <1>1
<1> HIDE DEF one
<1>6. FailureCount(one) = IF Head(es).fails THEN 1 ELSE 0
  <2>1. CASE Head(es).fails
    <3>1. FailedAt(one) = {1}
      BY <1>5, <2>1 DEF FailedAt
    <3> QED
      BY <1>4, <2>1, <3>1, FailuresFinite, FS_Singleton
  <2>2. CASE ~Head(es).fails
    <3>1. FailedAt(one) = {}
      BY <1>5, <2>2 DEF FailedAt
    <3> QED
      BY <1>4, <2>2, <3>1, FailuresFinite, FS_EmptySet
  <2> QED
    BY <2>1, <2>2
<1>7. FailureCount(es) \in Nat /\ FailureCount(Tail(es)) \in Nat
  BY <1>2, FailuresFinite
<1> QED
  BY <1>2, <1>4, <1>6, <1>7

\* A non-empty set of positions has a first one.
LEMMA FirstExists ==
  ASSUME NEW S \in SUBSET Nat, S # {}
  PROVE  \E n \in S : \A m \in S : n <= m
<1>1. PICK n \in S : \A m \in S : ~(<<m, n>> \in OpToRel(<, Nat))
  BY WFMin, NatLessThanWellFounded
<1>2. \A m \in S : ~(m < n)
  BY <1>1 DEF OpToRel
<1>3. \A m \in S : n <= m
  BY <1>2
<1> QED
  BY <1>3

\* evict() drops the first c samples.  What it drops is older than the window,
\* and the first sample it keeps is not.
Cuts(es, at, c) ==
  /\ Evicted(es, at) = SubSeq(es, c + 1, Len(es))
  /\ at >= WindowDuration /\ c < Len(es) => es[c + 1].at >= at - WindowDuration
  /\ \A i \in 1..c : es[i].at + WindowDuration < at

LEMMA EvictedIsCut ==
  ASSUME NEW es \in Seq(Sample), NEW at \in Nat
  PROVE  \E c \in 0..Len(es) : Cuts(es, at, c)
<1> DEFINE young == {i \in 1..Len(es) : es[i].at >= at - WindowDuration}
<1>1. Len(es) \in Nat /\ WindowDuration \in Nat /\ \A i \in 1..Len(es) : es[i] \in Sample
  BY BreakerAssumption
<1>2. \A i \in 1..Len(es) : es[i].at \in Nat
  BY <1>1 DEF Sample
<1>3. CASE at < WindowDuration
  <2>1. SubSeq(es, 0 + 1, Len(es)) = es
    BY <1>1
  <2>2. Evicted(es, at) = es
    BY <1>3 DEF Evicted
  <2>3. ~(at >= WindowDuration)
    BY <1>1, <1>3
  <2> QED
    BY <1>1, <2>1, <2>2, <2>3 DEF Cuts
<1>4. CASE ~(at < WindowDuration) /\ young = {}
  <2>1. SubSeq(es, Len(es) + 1, Len(es)) = <<>>
    BY <1>1
  <2>2. Evicted(es, at) = <<>>
    BY <1>4 DEF Evicted
  <2>3. \A i \in 1..Len(es) : es[i].at + WindowDuration < at
    BY <1>1, <1>2, <1>4
  <2> QED
    BY <1>1, <2>1, <2>2, <2>3 DEF Cuts
<1>5. CASE ~(at < WindowDuration) /\ young # {}
  <2> DEFINE first == CHOOSE i \in young : \A j \in young : i <= j
  <2>1. young \in SUBSET Nat
    BY <1>1
  <2>2. first \in young /\ \A j \in young : first <= j
    BY <1>5, <2>1, FirstExists
  <2>3. Evicted(es, at) = SubSeq(es, first, Len(es))
    BY <1>5 DEF Evicted
  <2> HIDE DEF first
  <2>4. first \in 1..Len(es) /\ es[first].at >= at - WindowDuration
    BY <2>2
  <2> DEFINE c == first - 1
  <2>5. c \in 0..Len(es) /\ c + 1 = first
    BY <1>1, <2>4
  <2>6. \A i \in 1..c : es[i].at + WindowDuration < at
    <3> SUFFICES ASSUME NEW i \in 1..c PROVE es[i].at + WindowDuration < at
      OBVIOUS
    <3>1. i \in 1..Len(es) /\ ~(first <= i)
      BY <1>1, <2>4
    <3>2. ~(es[i].at >= at - WindowDuration)
      BY <2>2, <3>1
    <3> QED
      BY <1>1, <1>2, <3>1, <3>2
  <2> HIDE DEF c
  <2> QED
    BY <2>3, <2>4, <2>5, <2>6 DEF Cuts
<1> QED
  BY <1>3, <1>4, <1>5

\* evict() takes out of the counter exactly what it drops.
LEMMA EvictedCounts ==
  ASSUME NEW es \in Seq(Sample), NEW at \in Nat
  PROVE  /\ Evicted(es, at) \in Seq(Sample)
         /\ Len(Evicted(es, at)) <= Len(es)
         /\ FailureCount(SubSeq(es, 1, Len(es) - Len(Evicted(es, at)))) \in Nat
         /\ FailureCount(Evicted(es, at)) =
              FailureCount(es) - FailureCount(SubSeq(es, 1, Len(es) - Len(Evicted(es, at))))
<1>1. PICK c \in 0..Len(es) : Evicted(es, at) = SubSeq(es, c + 1, Len(es))
  BY EvictedIsCut DEF Cuts
<1>2. /\ SubSeq(es, 1, c) \in Seq(Sample)
      /\ Evicted(es, at) \in Seq(Sample)
      /\ Len(Evicted(es, at)) = Len(es) - c
      /\ FailureCount(es) = FailureCount(SubSeq(es, 1, c)) + FailureCount(Evicted(es, at))
  BY <1>1, FailuresOfCut
<1>3. Len(es) - Len(Evicted(es, at)) = c /\ Len(Evicted(es, at)) <= Len(es)
  BY <1>2
<1>4. /\ FailureCount(SubSeq(es, 1, c)) \in Nat
      /\ FailureCount(Evicted(es, at)) \in Nat
  BY <1>2, FailuresFinite
<1> QED
  BY <1>2, <1>3, <1>4

\* push() keeps the window within the cap and counts what it drops and adds.
LEMMA PushedCounts ==
  ASSUME NEW es \in Seq(Sample), Len(es) <= MaxWindowEntries,
         NEW fails \in BOOLEAN, NEW at \in Nat
  PROVE  /\ Pushed(es, fails, at) \in Seq(Sample)
         /\ Len(Pushed(es, fails, at)) <= MaxWindowEntries
         /\ FailureCount(Pushed(es, fails, at)) =
              FailureCount(es)
                - (IF Len(es) >= MaxWindowEntries /\ Head(es).fails THEN 1 ELSE 0)
                + (IF fails THEN 1 ELSE 0)
<1> DEFINE x == [at |-> at, fails |-> fails]
<1>1. x \in Sample /\ x.fails = fails
  BY Zenon DEF Sample
<1>2. Len(es) \in Nat /\ MaxWindowEntries \in Nat \ {0}
  BY BreakerAssumption
<1> HIDE DEF x
<1>3. CASE Len(es) >= MaxWindowEntries
  <2>1. Len(es) > 0
    BY <1>2, <1>3
  <2>2. /\ Tail(es) \in Seq(Sample)
        /\ Len(Tail(es)) = Len(es) - 1
        /\ FailureCount(Tail(es)) = FailureCount(es) - (IF Head(es).fails THEN 1 ELSE 0)
    BY <2>1, FailuresOfTail
  <2>3. Pushed(es, fails, at) = Append(Tail(es), x)
    BY <1>3 DEF Pushed, x
  <2>4. /\ Append(Tail(es), x) \in Seq(Sample)
        /\ Len(Append(Tail(es), x)) = Len(Tail(es)) + 1
    BY <1>1, <2>2
  <2>5. FailureCount(Append(Tail(es), x)) = FailureCount(Tail(es)) + (IF x.fails THEN 1 ELSE 0)
    BY <1>1, <2>2, FailuresOfAppend
  <2> QED
    BY <1>1, <1>2, <1>3, <2>2, <2>3, <2>4, <2>5
<1>4. CASE ~(Len(es) >= MaxWindowEntries)
  <2>1. Pushed(es, fails, at) = Append(es, x)
    BY <1>4 DEF Pushed, x
  <2>2. Append(es, x) \in Seq(Sample) /\ Len(Append(es, x)) = Len(es) + 1
    BY <1>1
  <2>3. FailureCount(Append(es, x)) = FailureCount(es) + (IF x.fails THEN 1 ELSE 0)
    BY <1>1, FailuresOfAppend
  <2> QED
    BY <1>1, <1>2, <1>4, <2>1, <2>2, <2>3, FailuresFinite
<1> QED
  BY <1>3, <1>4

-----------------------------------------------------------------------------
(***************************************************************************)
(* Type correctness and the failure counter, for any number of racing      *)
(* threads.  The two need each other: that `failures` stays within its     *)
(* range after a subtraction follows from its being exact, and exactness   *)
(* is about a window that is a sequence of samples within the cap.         *)
(***************************************************************************)

Inv == TypeOK /\ WindowCountExact

WindowOK ==
  /\ entries \in Seq(Sample)
  /\ Len(entries) <= MaxWindowEntries
  /\ failures \in 0..MaxWindowEntries
  /\ failures = FailureCount(entries)

WordsOK ==
  /\ now \in Nat /\ openedAt \in Nat /\ claimedAt \in Nat
  /\ probes \in 0..UsizeMod - 1
  /\ state \in BreakerState /\ fast \in BOOLEAN

ThreadsOK == pc \in [Threads -> PC] /\ local \in [Threads -> Locals]

BoundsOK == inFlight \in Nat /\ badLeft \in 0..MaxFailures /\ lossesLeft \in 0..MaxLosses

LEMMA InvParts == Inv <=> WordsOK /\ WindowOK /\ ThreadsOK /\ BoundsOK
  BY DEF Inv, TypeOK, WindowCountExact, WordsOK, WindowOK, ThreadsOK, BoundsOK

LEMMA InvPartsNext == Inv' <=> WordsOK' /\ WindowOK' /\ ThreadsOK' /\ BoundsOK'
  BY DEF Inv, TypeOK, WindowCountExact, WordsOK, WindowOK, ThreadsOK, BoundsOK

\* A window of samples within the cap, with an exact counter, is well typed.
LEMMA WindowTyped ==
  ASSUME NEW es \in Seq(Sample), Len(es) <= MaxWindowEntries
  PROVE  FailureCount(es) \in 0..MaxWindowEntries
<1>1. FailureCount(es) \in Nat /\ FailureCount(es) <= Len(es) /\ Len(es) \in Nat
  BY FailuresFinite
<1>2. MaxWindowEntries \in Nat
  BY BreakerAssumption
<1> QED
  BY <1>1, <1>2

\* push() and evict() under the mutex.
LEMMA RecordSampleKeeps ==
  ASSUME Inv, NEW t \in Threads, RecordSample(t)
  PROVE  WindowOK'
<1> DEFINE at == local[t].now
           fails == local[t].fails
           pushed == Pushed(entries, fails, at)
           after == Evicted(pushed, at)
           capped == Len(entries) >= MaxWindowEntries /\ Head(entries).fails
           less == IF capped THEN 1 ELSE 0
           more == IF fails THEN 1 ELSE 0
           aged == FailureCount(SubSeq(pushed, 1, Len(pushed) - Len(after)))
<1>1. /\ entries \in Seq(Sample)
      /\ Len(entries) <= MaxWindowEntries
      /\ failures = FailureCount(entries)
      /\ local[t] \in Locals
  BY DEF Inv, TypeOK, WindowCountExact
<1>2. at \in Nat /\ fails \in BOOLEAN
  BY <1>1 DEF Locals
<1>3. /\ entries' = after
      /\ failures' = failures - less + more - aged
  BY DEF RecordSample
<1> HIDE DEF at, fails
<1>4. /\ pushed \in Seq(Sample)
      /\ Len(pushed) <= MaxWindowEntries
      /\ FailureCount(pushed) = FailureCount(entries) - less + more
  BY <1>1, <1>2, PushedCounts
<1> HIDE DEF pushed, capped, less, more
<1>5. /\ after \in Seq(Sample)
      /\ Len(after) <= Len(pushed)
      /\ aged \in Nat
      /\ FailureCount(after) = FailureCount(pushed) - aged
  BY <1>2, <1>4, EvictedCounts
<1> HIDE DEF after, aged
<1>6. failures' = FailureCount(entries')
  <2>1. failures' = FailureCount(pushed) - aged
    <3>1. FailureCount(entries) \in Nat
      BY <1>1, FailuresFinite
    <3>2. less \in Nat /\ more \in Nat
      BY DEF less, more
    <3> QED
      BY <1>1, <1>3, <1>4, <1>5, <3>1, <3>2
  <2>2. failures' = FailureCount(after)
    BY <1>5, <2>1, Zenon
  <2> QED
    BY <1>3, <2>2, Zenon
<1>7. Len(after) \in Nat /\ Len(pushed) \in Nat /\ MaxWindowEntries \in Nat
  BY <1>4, <1>5, BreakerAssumption
<1>8. Len(after) <= MaxWindowEntries
  BY <1>4, <1>5, <1>7
<1>9. FailureCount(after) \in 0..MaxWindowEntries
  BY <1>5, <1>8, WindowTyped
<1> QED
  BY <1>3, <1>5, <1>6, <1>8, <1>9 DEF WindowOK

\* SetLocal writes one field of one thread's locals.
LEMMA SetLocalWrites ==
  ASSUME local \in [Threads -> Locals], NEW t \in Threads, NEW value \in Nat,
         NEW field \in {"now", "opened", "claimed"}, SetLocal(t, field, value)
  PROVE  /\ local' \in [Threads -> Locals]
         /\ local'[t][field] = value
         /\ \A f \in {"now", "opened", "claimed", "fails"} \ {field} : local'[t][f] = local[t][f]
         /\ \A u \in Threads \ {t} : local'[u] = local[u]
<1>1. local[t] \in Locals
  OBVIOUS
<1>2. local' = [local EXCEPT ![t] = [local[t] EXCEPT ![field] = value]]
  BY DEF SetLocal
<1>3. CASE field = "now"
  BY <1>1, <1>2, <1>3 DEF Locals
<1>4. CASE field = "opened"
  BY <1>1, <1>2, <1>4 DEF Locals
<1>5. CASE field = "claimed"
  BY <1>1, <1>2, <1>5 DEF Locals
<1> QED
  BY <1>3, <1>4, <1>5

\* A call that returns leaves fresh locals.
LEMMA ReturnTyped ==
  ASSUME pc \in [Threads -> PC], local \in [Threads -> Locals], NEW t \in Threads, Return(t)
  PROVE  pc' \in [Threads -> PC] /\ local' \in [Threads -> Locals]
<1>1. NoLocals \in Locals
  BY DEF NoLocals, Locals
<1> QED
  BY <1>1 DEF Return, PC

\* The usize is wide enough for every slot and for a claim of every thread.
LEMMA UsizeRoom ==
  /\ UsizeMod \in Nat /\ MaxProbes \in Nat \ {0}
  /\ Cardinality(Threads) \in Nat
  /\ UsizeMod > MaxProbes + Cardinality(Threads)
  /\ UsizeMod > MaxProbes
<1>1. Cardinality(Threads) \in Nat
  BY BreakerAssumption, FS_CardinalityType
<1> QED
  BY <1>1, BreakerAssumption

\* The probe counter stays a usize, whichever way it wraps.
LEMMA ProbesWrap ==
  ASSUME NEW n \in 0..UsizeMod - 1
  PROVE  /\ (n + 1) % UsizeMod \in 0..UsizeMod - 1
         /\ (n + UsizeMod - 1) % UsizeMod \in 0..UsizeMod - 1
         /\ n < MaxProbes => (n + 1) % UsizeMod = n + 1
         /\ n = MaxProbes => (n + 1) % UsizeMod \in {0, n + 1}
<1>1. UsizeMod \in Nat /\ UsizeMod > 0 /\ MaxProbes \in Nat /\ UsizeMod > MaxProbes
  BY UsizeRoom
<1>2. /\ (n + 1) % UsizeMod \in 0..UsizeMod - 1
      /\ (n + UsizeMod - 1) % UsizeMod \in 0..UsizeMod - 1
  BY <1>1
<1>3. n < MaxProbes => (n + 1) % UsizeMod = n + 1
  BY <1>1
<1>4. n = MaxProbes => (n + 1) % UsizeMod \in {0, n + 1}
  BY <1>1
<1> QED
  BY <1>2, <1>3, <1>4

\* clear(), and the first window: no samples and no failures.
LEMMA EmptyCounts ==
  /\ <<>> \in Seq(Sample)
  /\ Len(<<>>) <= MaxWindowEntries
  /\ 0 \in 0..MaxWindowEntries
  /\ FailureCount(<<>>) = 0
<1>1. <<>> \in Seq(Sample) /\ Len(<<>>) = 0 /\ MaxWindowEntries \in Nat
  BY BreakerAssumption
<1>2. FailedAt(<<>>) = {}
  BY <1>1 DEF FailedAt
<1>3. FailureCount(<<>>) = 0
  BY <1>1, <1>2, FailuresFinite, FS_EmptySet
<1> QED
  BY <1>1, <1>3

LEMMA InitInv == Init => Inv
<1> SUFFICES ASSUME Init PROVE Inv
  OBVIOUS
<1>1. WindowOK
  BY EmptyCounts DEF Init, WindowOK
<1>2. NoLocals \in Locals
  BY DEF NoLocals, Locals
<1>3. WordsOK
  <2>1. 0 \in 0..UsizeMod - 1
    BY UsizeRoom
  <2> QED
    BY <2>1 DEF Init, WordsOK, BreakerState
<1>4. ThreadsOK
  BY <1>2 DEF Init, ThreadsOK, PC
<1>5. BoundsOK
  BY BreakerAssumption DEF Init, BoundsOK
<1> QED
  BY <1>1, <1>3, <1>4, <1>5, InvParts

\* The steps of check() and of try_half_open_probe().
LEMMA CheckKeepsInv ==
  ASSUME Inv, NEW t \in Threads,
         \/ Check(t) \/ CheckOpenLoad(t) \/ CheckOpenNow(t) \/ CheckOpenCas(t)
         \/ CheckOpenFast(t) \/ CheckOpenLost(t)
         \/ ProbeNow(t) \/ ProbeAdd(t) \/ ProbeClaim(t)
         \/ ProbeSub(t) \/ ProbeLoad(t) \/ ProbeCas(t)
  PROVE  Inv'
<1> USE InvParts, InvPartsNext DEF WordsOK, ThreadsOK, BoundsOK
<1>0. window' = window => WindowOK'
  BY DEF WindowOK, window
<1>1. CASE Check(t)
  BY <1>0, <1>1 DEF Check, shared, PC
<1>2. CASE CheckOpenLoad(t)
  BY <1>0, <1>2, SetLocalWrites DEF CheckOpenLoad, Goto, shared, env, PC
<1>3. CASE CheckOpenNow(t)
  BY <1>0, <1>3, ReturnTyped DEF CheckOpenNow, shared, env, PC
<1>4. CASE CheckOpenCas(t)
  BY <1>0, <1>4 DEF CheckOpenCas, env, PC, BreakerState
<1>5. CASE CheckOpenFast(t)
  BY <1>0, <1>5 DEF CheckOpenFast, Goto, env, PC
<1>6. CASE CheckOpenLost(t)
  BY <1>0, <1>6, ReturnTyped DEF CheckOpenLost, shared, PC
<1>7. CASE ProbeNow(t)
  BY <1>0, <1>7, SetLocalWrites DEF ProbeNow, Goto, shared, env, PC
<1>8. CASE ProbeAdd(t)
  BY <1>0, <1>8, ProbesWrap DEF ProbeAdd, Goto, env, PC
<1>9. CASE ProbeClaim(t)
  BY <1>0, <1>9, ReturnTyped DEF ProbeClaim, AdmitProbe, Locals
<1>10. CASE ProbeSub(t)
  BY <1>0, <1>10, ProbesWrap DEF ProbeSub, Goto, env, PC
<1>11. CASE ProbeLoad(t)
  BY <1>0, <1>11, SetLocalWrites, ReturnTyped DEF ProbeLoad, shared, env, PC
<1>12. CASE ProbeCas(t)
  BY <1>0, <1>12, ReturnTyped DEF ProbeCas, AdmitProbe, Locals
<1> QED
  BY <1>1, <1>2, <1>3, <1>4, <1>5, <1>6, <1>7, <1>8, <1>9, <1>10, <1>11, <1>12

\* The steps of record(), trip() and close().
LEMMA RecordKeepsInv ==
  ASSUME Inv, NEW t \in Threads,
         \/ \E fails \in BOOLEAN : RecordNow(t, fails)
         \/ RecordState(t) \/ RecordClosed(t) \/ RecordOpen(t)
         \/ TripState(t) \/ TripNow(t) \/ TripOpened(t) \/ TripProbes(t) \/ TripFast(t)
         \/ CloseState(t) \/ CloseWindow(t) \/ CloseProbes(t) \/ CloseFast(t)
  PROVE  Inv'
<1> USE InvParts, InvPartsNext DEF WordsOK, ThreadsOK, BoundsOK
<1>0. window' = window => WindowOK'
  BY DEF WindowOK, window
<1>00. 0 \in 0..UsizeMod - 1
  BY UsizeRoom
<1>1. ASSUME NEW fails \in BOOLEAN, RecordNow(t, fails)
      PROVE  Inv'
  <2>1. [NoLocals EXCEPT !.now = now, !.fails = fails] \in Locals
    BY DEF NoLocals, Locals
  <2>2. ThreadsOK'
    BY <1>1, <2>1 DEF RecordNow, Goto, PC
  <2>3. BoundsOK'
    <3>1. inFlight' \in Nat
      <4>1. inFlight > 0 /\ inFlight' = inFlight - 1
        BY <1>1, Zenon DEF RecordNow
      <4> QED
        BY <4>1
    <3>2. lossesLeft' \in 0..MaxLosses
      BY <1>1 DEF RecordNow
    <3>3. badLeft' \in 0..MaxFailures
      <4>1. MaxFailures \in Nat
        BY BreakerAssumption
      <4>2. CASE fails
        <5>1. badLeft' = badLeft - 1 /\ badLeft > 0
          BY <1>1, <4>2 DEF RecordNow
        <5> QED
          BY <4>1, <5>1
      <4>3. CASE ~fails
        BY <1>1, <4>3 DEF RecordNow
      <4> QED
        BY <4>2, <4>3
    <3> QED
      BY <3>1, <3>2, <3>3
  <2> QED
    BY <1>0, <1>1, <2>2, <2>3 DEF RecordNow, shared
<1>2. CASE RecordState(t)
  BY <1>0, <1>2 DEF RecordState, Goto, shared, env, PC, BreakerState
<1>3. CASE RecordClosed(t)
  BY <1>3, RecordSampleKeeps, ReturnTyped DEF RecordClosed, shared, env, PC
<1>4. CASE RecordOpen(t)
  BY <1>4, RecordSampleKeeps, ReturnTyped DEF RecordOpen, shared, env, PC
<1>5. CASE TripState(t)
  BY <1>0, <1>5 DEF TripState, Goto, env, PC, BreakerState
<1>6. CASE TripNow(t)
  BY <1>0, <1>6, SetLocalWrites DEF TripNow, Goto, shared, env, PC
<1>7. CASE TripOpened(t)
  BY <1>0, <1>7 DEF TripOpened, Goto, env, PC, Locals
<1>8. CASE TripProbes(t)
  BY <1>0, <1>00, <1>8 DEF TripProbes, Goto, env, PC
<1>9. CASE TripFast(t)
  BY <1>0, <1>9, ReturnTyped DEF TripFast, env
<1>10. CASE CloseState(t)
  BY <1>0, <1>10 DEF CloseState, Goto, env, PC, BreakerState
<1>11. CASE CloseWindow(t)
  BY <1>11, EmptyCounts DEF CloseWindow, Goto, shared, env, PC, WindowOK
<1>12. CASE CloseProbes(t)
  BY <1>0, <1>00, <1>12 DEF CloseProbes, Goto, env, PC
<1>13. CASE CloseFast(t)
  BY <1>0, <1>13, ReturnTyped DEF CloseFast, env
<1> QED
  BY <1>1, <1>2, <1>3, <1>4, <1>5, <1>6, <1>7, <1>8, <1>9, <1>10, <1>11, <1>12, <1>13

\* error_rate() and the environment.
LEMMA OtherKeepsInv ==
  ASSUME Inv, (\E t \in Threads : ErrorRateNow(t) \/ ErrorRateEvict(t)) \/ LoseRequest \/ Tick
  PROVE  Inv'
<1> USE InvParts, InvPartsNext DEF WordsOK, ThreadsOK, BoundsOK
<1>0. window' = window => WindowOK'
  BY DEF WindowOK, window
<1>1. ASSUME NEW t \in Threads, ErrorRateNow(t)
      PROVE  Inv'
  BY <1>0, <1>1, SetLocalWrites DEF ErrorRateNow, Goto, shared, env, PC
<1>2. ASSUME NEW t \in Threads, ErrorRateEvict(t)
      PROVE  Inv'
  <2> DEFINE after == Evicted(entries, local[t].now)
             aged == FailureCount(SubSeq(entries, 1, Len(entries) - Len(after)))
  <2>1. entries' = after /\ failures' = failures - aged
    BY <1>2 DEF ErrorRateEvict
  <2>2. /\ entries \in Seq(Sample)
        /\ Len(entries) <= MaxWindowEntries
        /\ failures = FailureCount(entries)
        /\ local[t].now \in Nat
    BY DEF WindowOK, Locals
  <2>3. /\ after \in Seq(Sample)
        /\ Len(after) <= Len(entries)
        /\ FailureCount(after) = FailureCount(entries) - aged
    BY <2>2, EvictedCounts
  <2> HIDE DEF after, aged
  <2>4. failures' = FailureCount(after)
    BY <2>1, <2>2, <2>3
  <2>5. Len(after) <= MaxWindowEntries
    BY <2>2, <2>3, BreakerAssumption
  <2>6. FailureCount(after) \in 0..MaxWindowEntries
    BY <2>3, <2>5, WindowTyped
  <2>7. WindowOK'
    BY <2>1, <2>3, <2>4, <2>5, <2>6 DEF WindowOK
  <2> QED
    BY <1>2, <2>7, ReturnTyped DEF ErrorRateEvict, shared, env
<1>3. CASE LoseRequest
  BY <1>0, <1>3, BreakerAssumption DEF LoseRequest, shared
<1>4. CASE Tick
  BY <1>0, <1>4 DEF Tick, shared, env
<1> QED
  BY <1>1, <1>2, <1>3, <1>4

LEMMA NextKeepsInv == Inv /\ [Next]_vars => Inv'
<1> SUFFICES ASSUME Inv, [Next]_vars PROVE Inv'
  OBVIOUS
<1>1. CASE UNCHANGED vars
  BY <1>1 DEF vars, shared, window, env, Inv, TypeOK, WindowCountExact
<1>2. CASE Next
  BY <1>2, CheckKeepsInv, RecordKeepsInv, OtherKeepsInv DEF Next, CallStep
<1> QED
  BY <1>1, <1>2

LEMMA InvCorrect == Spec => []Inv
<1>1. Init => Inv
  BY InitInv
<1>2. Inv /\ [Next]_vars => Inv'
  BY NextKeepsInv
<1> QED
  BY <1>1, <1>2, PTL DEF Spec

\* Every word keeps its type through every interleaving: the window stays within
\* MAX_WINDOW_ENTRIES, the probe counter is a usize however often it wraps, and the
\* failure counter never goes below zero.
THEOREM BreakerTyped == Spec => []TypeOK
<1>1. Inv => TypeOK
  BY DEF Inv
<1> QED
  BY <1>1, InvCorrect, PTL

\* However threads interleave push(), evict() and clear(), the counter error_rate()
\* divides is the number of failed samples in the window.
THEOREM WindowCounted == Spec => []WindowCountExact
<1>1. Inv => WindowCountExact
  BY DEF Inv
<1> QED
  BY <1>1, InvCorrect, PTL

-----------------------------------------------------------------------------
(***************************************************************************)
(* What racing threads cannot break, with the history variables and for    *)
(* any number of threads.  A step is of one thread or of the environment.  *)
(***************************************************************************)

\* The steps that thread t may take.
ThreadStep(t) ==
  \/ Check(t)
  \/ \E fails \in BOOLEAN : RecordNow(t, fails)
  \/ ErrorRateNow(t)
  \/ CallStep(t)

\* A step moves one thread at most.
LEMMA StepMoves ==
  ASSUME Inv, NEW t \in Threads, ThreadStep(t)
  PROVE  \/ Check(t) /\ UNCHANGED <<now, shared, window, pc, local>>
         \/ \E to \in PC : pc' = [pc EXCEPT ![t] = to] /\ (pc[t] # "idle" \/ to # "idle")
<1>1. pc \in [Threads -> PC]
  BY DEF Inv, TypeOK
<1>2. CASE Check(t)
  BY <1>2 DEF Check, PC
<1>3. CASE \E fails \in BOOLEAN : RecordNow(t, fails)
  BY <1>3 DEF RecordNow, Goto, PC
<1>4. CASE ErrorRateNow(t)
  BY <1>4 DEF ErrorRateNow, Goto, PC
<1>5. CASE CallStep(t)
  <2>1. CASE \/ CheckOpenLoad(t) \/ CheckOpenNow(t) \/ CheckOpenCas(t)
             \/ CheckOpenFast(t) \/ CheckOpenLost(t)
    BY <2>1 DEF CheckOpenLoad, CheckOpenNow, CheckOpenCas, CheckOpenFast, CheckOpenLost,
                Goto, Return, PC
  <2>2. CASE ProbeNow(t) \/ ProbeAdd(t) \/ ProbeClaim(t)
    BY <2>2 DEF ProbeNow, ProbeAdd, ProbeClaim, AdmitProbe, Goto, Return, PC
  <2>3. CASE ProbeSub(t) \/ ProbeLoad(t) \/ ProbeCas(t)
    BY <2>3 DEF ProbeSub, ProbeLoad, ProbeCas, AdmitProbe, Goto, Return, PC
  <2>4. CASE RecordState(t) \/ RecordClosed(t) \/ RecordOpen(t)
    <3>1. state \in BreakerState
      BY DEF Inv, TypeOK
    <3> QED
      BY <2>4, <3>1 DEF RecordState, RecordClosed, RecordOpen, Goto, Return, PC, BreakerState
  <2>5. CASE TripState(t) \/ TripNow(t) \/ TripOpened(t) \/ TripProbes(t) \/ TripFast(t)
    BY <2>5 DEF TripState, TripNow, TripOpened, TripProbes, TripFast, Goto, Return, PC
  <2>6. CASE CloseState(t) \/ CloseWindow(t) \/ CloseProbes(t) \/ CloseFast(t)
    BY <2>6 DEF CloseState, CloseWindow, CloseProbes, CloseFast, Goto, Return, PC
  <2>7. CASE ErrorRateEvict(t)
    BY <2>7 DEF ErrorRateEvict, Return, PC
  <2> QED
    BY <1>5, <2>1, <2>2, <2>3, <2>4, <2>5, <2>6, <2>7 DEF CallStep
<1> QED
  BY <1>2, <1>3, <1>4, <1>5 DEF ThreadStep

\* The history variables only watch: every behaviour with them is one without.
LEMMA HistoryRefines == HSpec => Spec
<1>1. HInit => Init
  BY DEF HInit
<1>2. [HNext]_hvars => [Next]_vars
  BY DEF HNext, hvars
<1> QED
  BY <1>1, <1>2, PTL DEF HSpec, Spec

\* The environment changes the clock and the requests, nothing else.
Outside == UNCHANGED <<shared, window, pc, local>> /\ now' \in {now, now + 1}

LEMMA StepOf ==
  ASSUME Inv, [HNext]_hvars
  PROVE  \/ UNCHANGED hvars
         \/ HNext /\ Outside
         \/ HNext /\ \E t \in Threads : ThreadStep(t) /\ UNCHANGED now
<1>1. ASSUME NEW t \in Threads, ThreadStep(t)
      PROVE  UNCHANGED now
  BY <1>1
  DEF ThreadStep, CallStep, Check, RecordNow, ErrorRateNow, CheckOpenLoad, CheckOpenNow,
      CheckOpenCas, CheckOpenFast, CheckOpenLost, ProbeNow, ProbeAdd, ProbeClaim, ProbeSub,
      ProbeLoad, ProbeCas, RecordState, RecordClosed, RecordOpen, TripState, TripNow,
      TripOpened, TripProbes, TripFast, CloseState, CloseWindow, CloseProbes, CloseFast,
      ErrorRateEvict
<1>2. CASE LoseRequest \/ Tick
  BY <1>2 DEF LoseRequest, Tick, Outside
<1> QED
  BY <1>1, <1>2 DEF HNext, Next, ThreadStep

(***************************************************************************)
(* The mirror.  A move of `state` is the store of `state` and the stores   *)
(* that follow it; the last of them writes the mirror.                     *)
(***************************************************************************)

\* A step is outside a move, begins one, continues one, or ends one.
LEMMA MoveStep ==
  ASSUME Inv, NEW t \in Threads, ThreadStep(t)
  PROVE  \/ pc[t] \notin Moving /\ pc'[t] \notin Moving /\ UNCHANGED <<state, fast>>
         \/ pc[t] \notin Moving /\ pc'[t] \in Moving /\ state' = Target(pc'[t])
         \/ /\ pc[t] \in Moving /\ pc'[t] \in Moving
            /\ Target(pc'[t]) = Target(pc[t])
            /\ UNCHANGED <<state, fast>>
         \/ /\ pc[t] \in Moving /\ pc'[t] \notin Moving
            /\ UNCHANGED state
            /\ fast' = (Target(pc[t]) = "Open")
<1>1. pc \in [Threads -> PC] /\ state \in BreakerState
  BY DEF Inv, TypeOK
<1> USE DEF Moving, Opening, Halving, Closing, Target
<1>2. CASE Check(t) \/ CheckOpenLoad(t) \/ CheckOpenNow(t) \/ CheckOpenLost(t)
  BY <1>1, <1>2 DEF Check, CheckOpenLoad, CheckOpenNow, CheckOpenLost, Goto, Return, shared
<1>3. CASE CheckOpenCas(t) \/ CheckOpenFast(t)
  BY <1>1, <1>3 DEF CheckOpenCas, CheckOpenFast, Goto
<1>4. CASE ProbeNow(t) \/ ProbeAdd(t) \/ ProbeClaim(t)
  BY <1>1, <1>4 DEF ProbeNow, ProbeAdd, ProbeClaim, AdmitProbe, Goto, Return, shared
<1>5. CASE ProbeSub(t) \/ ProbeLoad(t) \/ ProbeCas(t)
  BY <1>1, <1>5 DEF ProbeSub, ProbeLoad, ProbeCas, AdmitProbe, Goto, Return, shared
<1>6. CASE \E fails \in BOOLEAN : RecordNow(t, fails)
  BY <1>1, <1>6 DEF RecordNow, Goto, shared
<1>7. CASE RecordState(t) \/ RecordClosed(t) \/ RecordOpen(t)
  BY <1>1, <1>7 DEF RecordState, RecordClosed, RecordOpen, Goto, Return, shared, BreakerState
<1>8. CASE TripState(t) \/ TripNow(t) \/ TripOpened(t) \/ TripProbes(t) \/ TripFast(t)
  BY <1>1, <1>8 DEF TripState, TripNow, TripOpened, TripProbes, TripFast, Goto, Return, shared
<1>9. CASE CloseState(t) \/ CloseWindow(t) \/ CloseProbes(t) \/ CloseFast(t)
  BY <1>1, <1>9 DEF CloseState, CloseWindow, CloseProbes, CloseFast, Goto, Return, shared
<1>10. CASE ErrorRateNow(t) \/ ErrorRateEvict(t)
  BY <1>1, <1>10 DEF ErrorRateNow, ErrorRateEvict, Goto, Return, shared
<1> QED
  BY <1>2, <1>3, <1>4, <1>5, <1>6, <1>7, <1>8, <1>9, <1>10 DEF ThreadStep, CallStep

\* A step of t leaves the others where they are.
LEMMA OthersStay ==
  ASSUME Inv, NEW t \in Threads, ThreadStep(t)
  PROVE  pc' \in [Threads -> PC] /\ \A u \in Threads \ {t} : pc'[u] = pc[u]
<1>1. pc \in [Threads -> PC]
  BY DEF Inv, TypeOK
<1> QED
  BY <1>1, StepMoves

\* Unless `state` was stored in the middle of another move, every unfinished move is
\* the one to the present state, and the mirror waits only for those.
MoveInv ==
  /\ torn \in BOOLEAN
  /\ ~torn =>
       /\ \A t \in Threads : pc[t] \in Moving => Target(pc[t]) = state
       /\ Settled => (fast <=> state = "Open")

LEMMA StepKeepsMove ==
  ASSUME Inv, MoveInv, NEW t \in Threads, ThreadStep(t), NoteMoves
  PROVE  MoveInv'
<1>0. fast \in BOOLEAN /\ \A u \in Threads \ {t} : pc'[u] = pc[u]
  BY OthersStay DEF Inv, TypeOK
<1>1. (\E u \in Threads : Publishes(u)) <=> Publishes(t)
  BY <1>0 DEF Publishes
<1>2. CASE pc[t] \notin Moving /\ pc'[t] \notin Moving /\ UNCHANGED <<state, fast>>
  <2>1. UNCHANGED torn
    BY <1>1, <1>2 DEF NoteMoves, Publishes
  <2> QED
    BY <1>0, <1>2, <2>1 DEF MoveInv, Settled
<1>3. CASE pc[t] \notin Moving /\ pc'[t] \in Moving /\ state' = Target(pc'[t])
  <2>1. torn' = \E u \in Threads : pc[u] \in Moving /\ (torn \/ Target(pc[u]) # state')
    BY <1>1, <1>3 DEF NoteMoves, Publishes
  <2>2. ~Settled'
    BY <1>3 DEF Settled
  <2>3. ~torn' => \A u \in Threads : pc'[u] \in Moving => Target(pc'[u]) = state'
    BY <1>0, <1>3, <2>1
  <2> QED
    BY <2>1, <2>2, <2>3 DEF MoveInv
<1>4. CASE /\ pc[t] \in Moving /\ pc'[t] \in Moving
           /\ Target(pc'[t]) = Target(pc[t])
           /\ UNCHANGED <<state, fast>>
  <2>1. UNCHANGED torn /\ ~Settled'
    BY <1>1, <1>4 DEF NoteMoves, Publishes, Settled
  <2> QED
    BY <1>0, <1>4, <2>1 DEF MoveInv
<1>5. CASE /\ pc[t] \in Moving /\ pc'[t] \notin Moving
           /\ UNCHANGED state
           /\ fast' = (Target(pc[t]) = "Open")
  <2>1. UNCHANGED torn
    BY <1>1, <1>5 DEF NoteMoves, Publishes
  <2> QED
    BY <1>0, <1>5, <2>1 DEF MoveInv, Settled
<1> QED
  BY <1>2, <1>3, <1>4, <1>5, MoveStep

LEMMA HNextKeepsMove == Inv /\ MoveInv /\ [HNext]_hvars => MoveInv'
<1> SUFFICES ASSUME Inv, MoveInv, [HNext]_hvars PROVE MoveInv'
  OBVIOUS
<1>1. CASE UNCHANGED hvars
  BY <1>1 DEF hvars, vars, shared, history, MoveInv, Settled
<1>2. CASE HNext /\ Outside
  <2>1. UNCHANGED <<state, fast, pc>>
    BY <1>2 DEF Outside, shared
  <2>2. UNCHANGED torn
    BY <1>2, <2>1 DEF HNext, NoteMoves, Publishes
  <2> QED
    BY <2>1, <2>2 DEF MoveInv, Settled
<1>3. CASE HNext /\ \E t \in Threads : ThreadStep(t) /\ UNCHANGED now
  BY <1>3, StepKeepsMove DEF HNext
<1> QED
  BY <1>1, <1>2, <1>3, StepOf

LEMMA MoveCorrect == HSpec => [](Inv /\ MoveInv)
<1>1. HInit => MoveInv
  BY DEF HInit, Init, MoveInv, Moving, Opening, Halving, Closing
<1>2. Inv /\ MoveInv /\ [HNext]_hvars => MoveInv'
  BY HNextKeepsMove
<1> QED
  BY <1>1, <1>2, HistoryRefines, InvCorrect, PTL DEF HSpec

\* However many threads race, is_open() answers what `state` says once the moves
\* under way are finished, unless trip(), close() and check_open() stored `state` in
\* the middle of each other's moves.
THEOREM MirrorExactCorrect == HSpec => []MirrorExact
<1>1. MoveInv => MirrorExact
  BY DEF MoveInv, MirrorExact
<1> QED
  BY <1>1, MoveCorrect, PTL

(***************************************************************************)
(* The cool-down.                                                          *)
(***************************************************************************)

\* Three stores of the code write `state`, and one writes the stamp of the opening.
LEMMA StateWriters ==
  ASSUME NEW t \in Threads, ThreadStep(t)
  PROVE  /\ state' # state => CheckOpenCas(t) \/ TripState(t) \/ CloseState(t)
         /\ openedAt' # openedAt => TripOpened(t)
BY DEF ThreadStep, CallStep, Check, RecordNow, ErrorRateNow, CheckOpenLoad, CheckOpenNow,
       CheckOpenCas, CheckOpenFast, CheckOpenLost, ProbeNow, ProbeAdd, ProbeClaim, ProbeSub,
       ProbeLoad, ProbeCas, RecordState, RecordClosed, RecordOpen, TripState, TripNow,
       TripOpened, TripProbes, TripFast, CloseState, CloseWindow, CloseProbes, CloseFast,
       ErrorRateEvict, shared

\* The steps at which a thread reaches the places the cool-down depends on, and the
\* locals it reaches them with.
LEMMA ReachesStamp ==
  ASSUME Inv, NEW t \in Threads, ThreadStep(t)
  PROVE  /\ pc'[t] = "trip_now" => TripState(t)
         /\ pc'[t] = "trip_opened" => TripNow(t)
         /\ pc[t] \in {"trip_now", "trip_opened"} =>
              TripNow(t) \/ TripOpened(t)
         /\ pc'[t] \in Opening /\ pc[t] \notin Opening => TripState(t)
         /\ pc'[t] = "open_load" /\ pc[t] # "open_load" => Check(t)
         /\ pc'[t] = "open_now" => CheckOpenLoad(t)
         /\ pc'[t] = "open_cas" => CheckOpenNow(t)
         /\ pc'[t] = "close_state" => RecordState(t)
         /\ pc'[t] = pc[t] => Check(t) /\ pc[t] = "idle"
<1>1. pc \in [Threads -> PC] /\ state \in BreakerState
  BY DEF Inv, TypeOK
<1> USE DEF Opening
<1>2. CASE Check(t) \/ CheckOpenLoad(t) \/ CheckOpenNow(t) \/ CheckOpenLost(t)
  BY <1>1, <1>2 DEF Check, CheckOpenLoad, CheckOpenNow, CheckOpenLost, Goto, Return
<1>3. CASE CheckOpenCas(t) \/ CheckOpenFast(t)
  BY <1>1, <1>3 DEF CheckOpenCas, CheckOpenFast, Goto
<1>4. CASE ProbeNow(t) \/ ProbeAdd(t) \/ ProbeClaim(t)
  BY <1>1, <1>4 DEF ProbeNow, ProbeAdd, ProbeClaim, AdmitProbe, Goto, Return
<1>5. CASE ProbeSub(t) \/ ProbeLoad(t) \/ ProbeCas(t)
  BY <1>1, <1>5 DEF ProbeSub, ProbeLoad, ProbeCas, AdmitProbe, Goto, Return
<1>6. CASE \E fails \in BOOLEAN : RecordNow(t, fails)
  BY <1>1, <1>6 DEF RecordNow, Goto
<1>7. CASE RecordState(t) \/ RecordClosed(t) \/ RecordOpen(t)
  BY <1>1, <1>7 DEF RecordState, RecordClosed, RecordOpen, Goto, Return, BreakerState
<1>8. CASE TripState(t) \/ TripNow(t) \/ TripOpened(t) \/ TripProbes(t) \/ TripFast(t)
  BY <1>1, <1>8 DEF TripState, TripNow, TripOpened, TripProbes, TripFast, Goto, Return
<1>9. CASE CloseState(t) \/ CloseWindow(t) \/ CloseProbes(t) \/ CloseFast(t)
  BY <1>1, <1>9 DEF CloseState, CloseWindow, CloseProbes, CloseFast, Goto, Return
<1>10. CASE ErrorRateNow(t) \/ ErrorRateEvict(t)
  BY <1>1, <1>10 DEF ErrorRateNow, ErrorRateEvict, Goto, Return
<1> QED
  BY <1>2, <1>3, <1>4, <1>5, <1>6, <1>7, <1>8, <1>9, <1>10 DEF ThreadStep, CallStep

\* A step of t leaves the locals of the others alone.
LEMMA LocalsStay ==
  ASSUME Inv, NEW t \in Threads, ThreadStep(t)
  PROVE  \A u \in Threads \ {t} : local'[u] = local[u]
<1>1. local \in [Threads -> Locals]
  BY DEF Inv, TypeOK
<1>2. \/ UNCHANGED local
      \/ \E x : local' = [local EXCEPT ![t] = x]
  BY DEF ThreadStep, CallStep, Check, RecordNow, ErrorRateNow, CheckOpenLoad, CheckOpenNow,
      CheckOpenCas, CheckOpenFast, CheckOpenLost, ProbeNow, ProbeAdd, ProbeClaim, ProbeSub,
      ProbeLoad, ProbeCas, RecordState, RecordClosed, RecordOpen, TripState, TripNow,
      TripOpened, TripProbes, TripFast, CloseState, CloseWindow, CloseProbes, CloseFast,
      ErrorRateEvict, AdmitProbe, Return, SetLocal
<1> QED
  BY <1>1, <1>2

\* A move to Open that nothing tore stamps an opening that is not older than it is.
StampInv ==
  /\ openSince \in Nat
  /\ openSince <= now
  /\ ~torn /\ state = "Open" =>
       /\ \A t \in Threads : pc[t] = "trip_opened" => openSince <= local[t].now
       /\ (\A t \in Threads : pc[t] \notin {"trip_now", "trip_opened"}) => openSince <= openedAt

\* A call begun in calm knows the state; if it saw Open, the stamp it measures the
\* cool-down from is not older than the opening.
CalmInv ==
  /\ calm \in SUBSET Threads
  /\ calm # {} => ~torn /\ (state = "Open" => openSince <= openedAt)
  /\ \A t \in calm :
       /\ pc[t] # "idle"
       /\ pc[t] \in {"open_load", "open_now", "open_cas"} => state = "Open"
       /\ pc[t] = "close_state" => state = "HalfOpen"
       /\ pc[t] \in {"open_now", "open_cas"} => openSince <= local[t].opened
       /\ pc[t] = "open_cas" => SatSub(now, local[t].opened) >= OpenDuration

LEMMA StepKeepsStamp ==
  ASSUME Inv, MoveInv, StampInv, NEW t \in Threads, ThreadStep(t), UNCHANGED now, NoteMoves
  PROVE  StampInv'
<1>0. /\ now \in Nat /\ openedAt \in Nat /\ state \in BreakerState
      /\ local \in [Threads -> Locals] /\ pc \in [Threads -> PC]
      /\ \A u \in Threads \ {t} : pc'[u] = pc[u] /\ local'[u] = local[u]
  BY OthersStay, LocalsStay DEF Inv, TypeOK
<1>1. openSince' \in Nat /\ openSince' <= now'
  BY <1>0 DEF NoteMoves, StampInv
<1>2. (\E u \in Threads : Publishes(u)) <=> Publishes(t)
  BY <1>0 DEF Publishes
<1>3. CASE TripState(t)
  <2>1. /\ pc[t] = "trip_state" /\ pc'[t] = "trip_now" /\ state' = "Open"
        /\ UNCHANGED local
    BY <1>0, <1>3 DEF TripState, Goto
  <2>2. Publishes(t)
    BY <2>1 DEF Publishes, Moving, Opening, Halving, Closing
  <2>3. torn' = \E u \in Threads : pc[u] \in Moving /\ (torn \/ Target(pc[u]) # state')
    BY <1>2, <2>2 DEF NoteMoves
  <2>4. ASSUME ~torn', NEW u \in Threads, pc'[u] = "trip_opened"
        PROVE  openSince' <= local'[u].now
    <3>1. u # t /\ pc[u] = "trip_opened"
      BY <1>0, <2>1, <2>4
    <3>2. pc[u] \in Moving /\ Target(pc[u]) = "Open"
      BY <3>1 DEF Moving, Opening, Target
    <3>3. ~torn
      BY <2>3, <2>4, <3>2
    <3>4. state = "Open"
      BY <3>2, <3>3 DEF MoveInv
    <3>5. openSince' = openSince
      BY <3>4 DEF NoteMoves
    <3> QED
      BY <2>1, <3>1, <3>3, <3>4, <3>5 DEF StampInv
  <2> QED
    BY <1>1, <2>1, <2>4 DEF StampInv
<1>4. CASE ~TripState(t)
  <2>1. state' = "Open" => state = "Open" /\ openSince' = openSince
    BY <1>4, StateWriters DEF CheckOpenCas, CloseState, NoteMoves
  <2>2. ~torn' /\ state' = "Open" => ~torn
    <3> SUFFICES ASSUME state' = "Open", Publishes(t) PROVE FALSE
      BY <1>2 DEF NoteMoves
    <3>1. pc[t] \notin Moving /\ pc'[t] \in Moving /\ state' = Target(pc'[t])
      BY MoveStep DEF Publishes
    <3>2. pc'[t] \in Opening
      BY <3>1 DEF Target
    <3> QED
      BY <1>4, <3>1, <3>2, ReachesStamp DEF Moving
  <2> SUFFICES ASSUME ~torn', state' = "Open"
               PROVE  /\ \A u \in Threads : pc'[u] = "trip_opened" => openSince <= local'[u].now
                      /\ (\A u \in Threads : pc'[u] \notin {"trip_now", "trip_opened"})
                           => openSince <= openedAt'
    BY <1>1, <2>1 DEF StampInv
  <2>3. /\ \A u \in Threads : pc[u] = "trip_opened" => openSince <= local[u].now
        /\ (\A u \in Threads : pc[u] \notin {"trip_now", "trip_opened"}) => openSince <= openedAt
    BY <2>1, <2>2 DEF StampInv
  <2>4. CASE TripNow(t)
    <3>1. pc'[t] = "trip_opened" /\ local'[t].now = now
      BY <1>0, <2>4, SetLocalWrites DEF TripNow, Goto
    <3> QED
      BY <1>0, <2>3, <3>1 DEF StampInv
  <2>5. CASE TripOpened(t)
    <3>1. pc[t] = "trip_opened" /\ openedAt' = local[t].now /\ pc'[t] = "trip_probes"
      BY <1>0, <2>5 DEF TripOpened, Goto
    <3> QED
      BY <1>0, <2>3, <3>1
  <2>6. CASE ~TripNow(t) /\ ~TripOpened(t)
    <3>1. pc[t] \notin {"trip_now", "trip_opened"} /\ pc'[t] # "trip_opened"
      BY <2>6, ReachesStamp
    <3>2. pc'[t] # "trip_now" /\ openedAt' = openedAt
      BY <1>4, <2>6, ReachesStamp, StateWriters
    <3> QED
      BY <1>0, <2>3, <3>1, <3>2
  <2> QED
    BY <2>4, <2>5, <2>6
<1> QED
  BY <1>3, <1>4

LEMMA StepKeepsCalm ==
  ASSUME Inv, MoveInv, StampInv, CalmInv,
         NEW t \in Threads, ThreadStep(t), UNCHANGED now, NoteMoves
  PROVE  CalmInv'
<1>0. /\ now \in Nat /\ openedAt \in Nat /\ state \in BreakerState
      /\ local \in [Threads -> Locals] /\ pc \in [Threads -> PC]
      /\ \A u \in Threads \ {t} : pc'[u] = pc[u] /\ local'[u] = local[u]
  BY OthersStay, LocalsStay DEF Inv, TypeOK
<1>1. CASE state' # state
  BY <1>1 DEF NoteMoves, CalmInv
<1>2. CASE state' = state
  <2>1. /\ openSince' = openSince
        /\ calm' = {u \in Threads : /\ pc'[u] # "idle"
                                    /\ u \in calm \/ (pc[u] = "idle" /\ Settled /\ ~torn)}
    BY <1>2 DEF NoteMoves
  <2>2. \A u \in calm' : u \in calm \/ (u = t /\ pc[t] = "idle" /\ Settled /\ ~torn)
    BY <1>0, <2>1
  <2>3. ASSUME calm' # {}
        PROVE  ~torn /\ (state = "Open" => openSince <= openedAt)
    <3>1. CASE calm # {}
      BY <3>1 DEF CalmInv
    <3>2. CASE Settled /\ ~torn
      BY <3>2 DEF StampInv, Settled, Moving, Opening
    <3> QED
      BY <2>2, <2>3, <3>1, <3>2
  <2>4. ASSUME calm' # {}
        PROVE  ~torn'
    <3>1. \A u \in Threads : pc[u] \in Moving => Target(pc[u]) = state
      BY <2>3, <2>4 DEF MoveInv
    <3> QED
      BY <1>2, <2>3, <2>4, <3>1 DEF NoteMoves
  <2>5. ASSUME calm' # {}, state' = "Open"
        PROVE  openSince' <= openedAt'
    <3>1. CASE TripOpened(t)
      BY <1>2, <2>1, <2>3, <2>5, <3>1 DEF TripOpened, Goto, StampInv
    <3>2. CASE ~TripOpened(t)
      BY <1>2, <2>1, <2>3, <2>5, <3>2, StateWriters
    <3> QED
      BY <3>1, <3>2
  <2>6. ASSUME NEW u \in calm', u # t
        PROVE  /\ pc'[u] \in {"open_load", "open_now", "open_cas"} => state' = "Open"
               /\ pc'[u] = "close_state" => state' = "HalfOpen"
               /\ pc'[u] \in {"open_now", "open_cas"} => openSince' <= local'[u].opened
               /\ pc'[u] = "open_cas" => SatSub(now', local'[u].opened) >= OpenDuration
    <3>1. u \in calm /\ u \in Threads
      BY <2>1, <2>2, <2>6
    <3>2. pc'[u] = pc[u] /\ local'[u] = local[u]
      BY <1>0, <2>6, <3>1
    <3> QED
      BY <1>2, <2>1, <3>1, <3>2 DEF CalmInv
  <2>7. ASSUME t \in calm'
        PROVE  /\ pc'[t] \in {"open_load", "open_now", "open_cas"} => state' = "Open"
               /\ pc'[t] = "close_state" => state' = "HalfOpen"
               /\ pc'[t] \in {"open_now", "open_cas"} => openSince' <= local'[t].opened
               /\ pc'[t] = "open_cas" => SatSub(now', local'[t].opened) >= OpenDuration
    <3>1. ASSUME pc'[t] = "open_load"
          PROVE  state' = "Open"
      <4>1. CASE pc[t] = "open_load"
        BY <3>1, <4>1, ReachesStamp
      <4>2. CASE Check(t)
        BY <1>0, <1>2, <3>1, <4>2 DEF Check
      <4> QED
        BY <3>1, <4>1, <4>2, ReachesStamp
    <3>2. ASSUME pc'[t] = "open_now"
          PROVE  state' = "Open" /\ openSince' <= local'[t].opened
      <4>1. CheckOpenLoad(t)
        BY <3>2, ReachesStamp
      <4>2. pc[t] = "open_load" /\ local'[t].opened = openedAt
        BY <1>0, <4>1, SetLocalWrites DEF CheckOpenLoad, Goto
      <4>3. t \in calm
        BY <2>2, <2>7, <4>2
      <4>4. state = "Open" /\ openSince <= openedAt
        BY <4>2, <4>3 DEF CalmInv
      <4> QED
        BY <1>2, <2>1, <4>2, <4>4
    <3>3. ASSUME pc'[t] = "open_cas"
          PROVE  /\ state' = "Open" /\ openSince' <= local'[t].opened
                 /\ SatSub(now', local'[t].opened) >= OpenDuration
      <4>1. CheckOpenNow(t)
        BY <3>3, ReachesStamp
      <4>2. /\ pc[t] = "open_now" /\ UNCHANGED <<local, now>>
            /\ SatSub(now, local[t].opened) >= OpenDuration
        BY <1>0, <3>3, <4>1 DEF CheckOpenNow, Return
      <4>3. t \in calm
        BY <2>2, <2>7, <4>2
      <4>4. state = "Open" /\ openSince <= local[t].opened
        BY <4>2, <4>3 DEF CalmInv
      <4> QED
        BY <1>2, <2>1, <4>2, <4>4
    <3>4. ASSUME pc'[t] = "close_state"
          PROVE  state' = "HalfOpen"
      <4>1. RecordState(t)
        BY <3>4, ReachesStamp
      <4> QED
        BY <1>0, <1>2, <3>4, <4>1 DEF RecordState, Goto, BreakerState
    <3> QED
      BY <3>1, <3>2, <3>3, <3>4
  <2>8. \A u \in calm' : pc'[u] # "idle" /\ u \in Threads
    BY <2>1
  <2> QED
    BY <2>4, <2>5, <2>6, <2>7, <2>8 DEF CalmInv
<1> QED
  BY <1>1, <1>2

LEMMA HNextKeepsCalm ==
  Inv /\ MoveInv /\ StampInv /\ CalmInv /\ [HNext]_hvars => StampInv' /\ CalmInv'
<1> SUFFICES ASSUME Inv, MoveInv, StampInv, CalmInv, [HNext]_hvars PROVE StampInv' /\ CalmInv'
  OBVIOUS
<1>1. CASE UNCHANGED hvars
  BY <1>1 DEF hvars, vars, shared, history, StampInv, CalmInv, SatSub
<1>2. CASE HNext /\ Outside
  <2>1. UNCHANGED <<state, openedAt, pc, local>> /\ now' \in {now, now + 1}
    BY <1>2 DEF Outside, shared
  <2>2. UNCHANGED <<torn, openSince>>
    BY <1>2, <2>1 DEF HNext, NoteMoves, Publishes
  <2>3. calm' = calm
    BY <1>2, <2>1 DEF HNext, NoteMoves, CalmInv
  <2>4. now \in Nat /\ OpenDuration \in Nat /\ \A u \in Threads : local[u].opened \in Nat
    BY BreakerAssumption DEF Inv, TypeOK, Locals
  <2>5. StampInv'
    BY <2>1, <2>2, <2>4 DEF StampInv
  <2>6. \A u \in calm : pc[u] = "open_cas" => SatSub(now', local[u].opened) >= OpenDuration
    BY <2>1, <2>4 DEF CalmInv, SatSub
  <2> QED
    BY <2>1, <2>2, <2>3, <2>5, <2>6 DEF CalmInv
<1>3. CASE HNext /\ \E t \in Threads : ThreadStep(t) /\ UNCHANGED now
  BY <1>3, StepKeepsStamp, StepKeepsCalm DEF HNext
<1> QED
  BY <1>1, <1>2, <1>3, StepOf

LEMMA CalmCorrect == HSpec => [](Inv /\ MoveInv /\ StampInv /\ CalmInv)
<1>1. HInit => StampInv /\ CalmInv
  BY DEF HInit, Init, StampInv, CalmInv
<1>2. Inv /\ MoveInv /\ StampInv /\ CalmInv /\ [HNext]_hvars => StampInv' /\ CalmInv'
  BY HNextKeepsCalm
<1> QED
  BY <1>1, <1>2, MoveCorrect, PTL DEF HSpec

\* However many threads race, no call that begins after the move to Open is finished
\* ends the cool-down early: not its check(), and not the late answer it records.
THEOREM CoolDownKeptCorrect == HSpec => CoolDownKept
<1>1. Inv /\ StampInv /\ CalmInv /\ [HNext]_hvars =>
        [\A t \in calm : state = "Open" /\ state' # "Open" /\ pc'[t] # pc[t]
            => now - openSince >= OpenDuration]_hvars
  <2> SUFFICES ASSUME Inv, StampInv, CalmInv, HNext, NEW t \in calm,
                      state = "Open", state' # "Open", pc'[t] # pc[t]
               PROVE  now - openSince >= OpenDuration
    OBVIOUS
  <2>1. t \in Threads
    BY DEF CalmInv
  <2>2. ThreadStep(t)
    <3>1. PICK u \in Threads : ThreadStep(u)
      BY DEF HNext, Next, ThreadStep, LoseRequest, Tick
    <3> QED
      BY <2>1, <3>1, OthersStay
  <2>3. CheckOpenCas(t) \/ CloseState(t)
    BY <2>1, <2>2, StateWriters DEF TripState
  <2>4. pc[t] = "open_cas"
    BY <2>3 DEF CheckOpenCas, CloseState, Goto, CalmInv
  <2>5. openSince <= local[t].opened /\ SatSub(now, local[t].opened) >= OpenDuration
    BY <2>4 DEF CalmInv
  <2>6. /\ now \in Nat /\ openSince \in Nat /\ local[t].opened \in Nat
        /\ OpenDuration \in Nat \ {0}
    BY <2>1, BreakerAssumption DEF Inv, TypeOK, Locals, StampInv
  <2> QED
    BY <2>5, <2>6 DEF SatSub
<1> QED
  BY <1>1, CalmCorrect, PTL DEF HSpec, CoolDownKept

(***************************************************************************)
(* The probe slots.  fetch_add and fetch_sub of a refused claim cancel out *)
(* unless a reset falls between them: then the counter is one too low, and *)
(* below zero it wraps.                                                    *)
(***************************************************************************)

\* The counter without its wrap: the slots handed out and the refused claims not yet
\* subtracted, less those that the last reset has already forgotten.
Count == claims + Cardinality(Refused) - owed

SlotInv ==
  /\ claims \in Nat
  /\ owed \in 0..Cardinality(Threads)
  /\ claims <= MaxProbes + owed
  /\ probes = IF Count >= 0 THEN Count ELSE Count + UsizeMod

\* Refused claims are threads.
LEMMA RefusedCounts ==
  IsFiniteSet(Refused) /\ Cardinality(Refused) \in 0..Cardinality(Threads)
<1>1. Refused \subseteq Threads /\ IsFiniteSet(Threads)
  BY BreakerAssumption DEF Refused
<1>2. IsFiniteSet(Refused) /\ Cardinality(Refused) <= Cardinality(Threads)
  BY <1>1, FS_Subset
<1>3. Cardinality(Refused) \in Nat /\ Cardinality(Threads) \in Nat
  BY <1>1, <1>2, FS_CardinalityType
<1> QED
  BY <1>2, <1>3

\* Which step touches the counter, and how.
LEMMA SlotStep ==
  ASSUME Inv, NEW t \in Threads, ThreadStep(t)
  PROVE  \/ ProbeAdd(t)
         \/ ProbeSub(t)
         \/ (TripProbes(t) \/ CloseProbes(t)) /\ Zeroes(t) /\ probes' = 0
               /\ pc[t] # "probe_sub" /\ pc'[t] # "probe_sub"
         \/ /\ pc[t] \notin {"trip_probes", "close_probes", "probe_add", "probe_sub"}
            /\ pc'[t] # "probe_sub" /\ UNCHANGED probes
<1>1. pc \in [Threads -> PC] /\ state \in BreakerState
  BY DEF Inv, TypeOK
<1>2. CASE Check(t) \/ CheckOpenLoad(t) \/ CheckOpenNow(t) \/ CheckOpenLost(t)
  BY <1>1, <1>2 DEF Check, CheckOpenLoad, CheckOpenNow, CheckOpenLost, Goto, Return, shared
<1>3. CASE CheckOpenCas(t) \/ CheckOpenFast(t)
  BY <1>1, <1>3 DEF CheckOpenCas, CheckOpenFast, Goto
<1>4. CASE ProbeNow(t) \/ ProbeAdd(t) \/ ProbeClaim(t)
  BY <1>1, <1>4 DEF ProbeNow, ProbeClaim, AdmitProbe, Goto, Return, shared
<1>5. CASE ProbeSub(t) \/ ProbeLoad(t) \/ ProbeCas(t)
  BY <1>1, <1>5 DEF ProbeLoad, ProbeCas, AdmitProbe, Goto, Return, shared
<1>6. CASE \E fails \in BOOLEAN : RecordNow(t, fails)
  BY <1>1, <1>6 DEF RecordNow, Goto, shared
<1>7. CASE RecordState(t) \/ RecordClosed(t) \/ RecordOpen(t)
  BY <1>1, <1>7 DEF RecordState, RecordClosed, RecordOpen, Goto, Return, shared, BreakerState
<1>8. CASE TripState(t) \/ TripNow(t) \/ TripOpened(t) \/ TripProbes(t) \/ TripFast(t)
  BY <1>1, <1>8
  DEF TripState, TripNow, TripOpened, TripProbes, TripFast, Zeroes, Goto, Return, shared
<1>9. CASE CloseState(t) \/ CloseWindow(t) \/ CloseProbes(t) \/ CloseFast(t)
  BY <1>1, <1>9
  DEF CloseState, CloseWindow, CloseProbes, CloseFast, Zeroes, Goto, Return, shared
<1>10. CASE ErrorRateNow(t) \/ ErrorRateEvict(t)
  BY <1>1, <1>10 DEF ErrorRateNow, ErrorRateEvict, Goto, Return, shared
<1> QED
  BY <1>2, <1>3, <1>4, <1>5, <1>6, <1>7, <1>8, <1>9, <1>10 DEF ThreadStep, CallStep

\* The wrapped counter follows the unwrapped one up and down.
LEMMA WrapFollows ==
  ASSUME NEW v \in Int, NEW p \in 0..UsizeMod - 1, v < UsizeMod, v > 0 - UsizeMod,
         p = IF v >= 0 THEN v ELSE v + UsizeMod
  PROVE  /\ v + 1 < UsizeMod =>
              (p + 1) % UsizeMod = IF v + 1 >= 0 THEN v + 1 ELSE v + 1 + UsizeMod
         /\ v - 1 > 0 - UsizeMod =>
              (p + UsizeMod - 1) % UsizeMod = IF v - 1 >= 0 THEN v - 1 ELSE v - 1 + UsizeMod
<1>1. UsizeMod \in Nat /\ UsizeMod > 0
  BY UsizeRoom
<1>2. \A n \in 0..UsizeMod - 1 : n % UsizeMod = n /\ (n + UsizeMod) % UsizeMod = n
  BY <1>1
<1>3. ASSUME v + 1 < UsizeMod
      PROVE  (p + 1) % UsizeMod = IF v + 1 >= 0 THEN v + 1 ELSE v + 1 + UsizeMod
  <2>1. CASE v >= 0
    BY <1>1, <1>2, <1>3, <2>1
  <2>2. CASE v = -1
    <3>1. p + 1 = 0 + UsizeMod
      BY <1>1, <2>2
    <3> QED
      BY <1>1, <1>2, <2>2, <3>1
  <2>3. CASE v < -1
    BY <1>1, <1>2, <2>3
  <2> QED
    BY <2>1, <2>2, <2>3
<1>4. ASSUME v - 1 > 0 - UsizeMod
      PROVE  (p + UsizeMod - 1) % UsizeMod = IF v - 1 >= 0 THEN v - 1 ELSE v - 1 + UsizeMod
  <2>1. CASE p >= 1
    <3>1. p + UsizeMod - 1 = (p - 1) + UsizeMod /\ p - 1 \in 0..UsizeMod - 1
      BY <1>1, <2>1
    <3>2. (p + UsizeMod - 1) % UsizeMod = p - 1
      BY <1>2, <3>1
    <3> QED
      BY <1>1, <1>4, <2>1, <3>2
  <2>2. CASE p = 0
    <3>1. v = 0
      BY <1>1, <2>2
    <3>2. p + UsizeMod - 1 = UsizeMod - 1 /\ UsizeMod - 1 \in 0..UsizeMod - 1
      BY <1>1, <2>2
    <3> QED
      BY <1>1, <1>2, <3>1, <3>2
  <2> QED
    BY <1>1, <2>1, <2>2
<1> QED
  BY <1>3, <1>4

LEMMA StepKeepsSlots ==
  ASSUME Inv, SlotInv, NEW t \in Threads, ThreadStep(t), NoteSlots
  PROVE  SlotInv'
<1> DEFINE r == Cardinality(Refused)
           n == Cardinality(Threads)
<1>0. /\ probes \in 0..UsizeMod - 1 /\ pc \in [Threads -> PC] /\ pc' \in [Threads -> PC]
      /\ \A u \in Threads \ {t} : pc'[u] = pc[u]
  BY OthersStay DEF Inv, TypeOK
<1>1. /\ IsFiniteSet(Refused) /\ r \in Nat /\ n \in Nat /\ r <= n
      /\ UsizeMod \in Nat /\ MaxProbes \in Nat /\ UsizeMod > MaxProbes + n
  BY RefusedCounts, UsizeRoom
<1>2. /\ claims \in Nat /\ owed \in Nat /\ owed <= n /\ claims <= MaxProbes + owed
      /\ Count = claims + r - owed /\ Count \in Int
      /\ probes = IF Count >= 0 THEN Count ELSE Count + UsizeMod
  BY <1>1 DEF SlotInv, Count
<1>3. Count < UsizeMod /\ Count > 0 - UsizeMod
  BY <1>1, <1>2
<1>4. /\ Count + 1 < UsizeMod =>
           (probes + 1) % UsizeMod = IF Count + 1 >= 0 THEN Count + 1 ELSE Count + 1 + UsizeMod
      /\ Count - 1 > 0 - UsizeMod =>
           (probes + UsizeMod - 1) % UsizeMod
              = IF Count - 1 >= 0 THEN Count - 1 ELSE Count - 1 + UsizeMod
  BY <1>0, <1>2, <1>3, WrapFollows
<1>5. (\E u \in Threads : Zeroes(u)) <=> Zeroes(t)
  BY <1>0 DEF Zeroes
<1>6. (\E u \in Threads : pc[u] = "probe_add" /\ pc'[u] = "probe_claim")
         <=> pc[t] = "probe_add" /\ pc'[t] = "probe_claim"
  BY <1>0
<1> HIDE DEF r, n
<1>7. CASE ProbeAdd(t)
  <2>1. /\ pc[t] = "probe_add" /\ probes' = (probes + 1) % UsizeMod
        /\ pc'[t] = IF probes < MaxProbes THEN "probe_claim" ELSE "probe_sub"
    BY <1>0, <1>7 DEF ProbeAdd, Goto
  <2>2. ~Zeroes(t) /\ UNCHANGED owed
    BY <1>5, <2>1 DEF Zeroes, NoteSlots
  <2>3. CASE probes < MaxProbes
    <3>1. claims' = claims + 1
      BY <1>5, <1>6, <2>1, <2>2, <2>3 DEF NoteSlots
    <3>2. Refused' = Refused
      BY <1>0, <2>1, <2>3 DEF Refused
    <3>3. Count' = Count + 1
      BY <1>1, <1>2, <2>2, <3>1, <3>2 DEF Count, r
    <3>4. Count >= 0 /\ Count < MaxProbes
      BY <1>1, <1>2, <2>3
    <3>5. claims' <= MaxProbes + owed
      BY <1>1, <1>2, <3>1, <3>4
    <3>6. Count + 1 < UsizeMod
      BY <1>1, <1>2, <3>4
    <3>7. probes' = IF Count' >= 0 THEN Count' ELSE Count' + UsizeMod
      BY <1>4, <2>1, <3>3, <3>6
    <3> QED
      BY <1>1, <1>2, <2>2, <3>1, <3>5, <3>7 DEF SlotInv, n
  <2>4. CASE ~(probes < MaxProbes)
    <3>1. claims' = claims
      BY <1>5, <1>6, <2>1, <2>2, <2>4 DEF NoteSlots
    <3>2. Refused' = Refused \cup {t} /\ t \notin Refused
      BY <1>0, <2>1, <2>4 DEF Refused
    <3>3. Cardinality(Refused') = r + 1
      BY <1>1, <3>2, FS_AddElement DEF r
    <3>4. Count' = Count + 1
      BY <1>1, <1>2, <2>2, <3>1, <3>3 DEF Count
    <3>5. r + 1 <= n
      <4>1. Refused' \subseteq Threads /\ IsFiniteSet(Threads)
        BY BreakerAssumption DEF Refused
      <4> QED
        BY <3>3, <4>1, FS_Subset DEF n
    <3>6. Count + 1 < UsizeMod
      BY <1>1, <1>2, <3>5
    <3>7. probes' = IF Count' >= 0 THEN Count' ELSE Count' + UsizeMod
      BY <1>4, <2>1, <3>4, <3>6
    <3> QED
      BY <1>1, <1>2, <2>2, <3>1, <3>7 DEF SlotInv, n
  <2> QED
    BY <2>3, <2>4
<1>8. CASE ProbeSub(t)
  <2>1. /\ pc[t] = "probe_sub" /\ probes' = (probes + UsizeMod - 1) % UsizeMod
        /\ pc'[t] = "probe_load"
    BY <1>0, <1>8 DEF ProbeSub, Goto
  <2>2. ~Zeroes(t) /\ UNCHANGED <<claims, owed>>
    BY <1>5, <1>6, <2>1 DEF Zeroes, NoteSlots
  <2>3. Refused' = Refused \ {t} /\ t \in Refused
    BY <1>0, <2>1 DEF Refused
  <2>4. Cardinality(Refused') = r - 1 /\ r >= 1
    <3>1. Cardinality(Refused') = r - 1
      BY <1>1, <2>3, FS_RemoveElement DEF r
    <3>2. IsFiniteSet(Refused')
      BY <1>1, <2>3, FS_Subset
    <3>3. Cardinality(Refused') \in Nat
      BY <3>2, FS_CardinalityType
    <3> QED
      BY <1>1, <3>1, <3>3
  <2>5. Count' = Count - 1
    BY <1>1, <1>2, <2>2, <2>4 DEF Count
  <2>6. Count - 1 > 0 - UsizeMod
    BY <1>1, <1>2, <2>4
  <2>7. probes' = IF Count' >= 0 THEN Count' ELSE Count' + UsizeMod
    BY <1>4, <2>1, <2>5, <2>6
  <2> QED
    BY <1>1, <1>2, <2>2, <2>7 DEF SlotInv, n
<1>9. CASE Zeroes(t) /\ probes' = 0 /\ pc[t] # "probe_sub" /\ pc'[t] # "probe_sub"
  <2>1. claims' = 0 /\ owed' = r
    BY <1>5, <1>9 DEF NoteSlots, r
  <2>2. Refused' = Refused
    BY <1>0, <1>9 DEF Refused
  <2>3. Count' = 0
    BY <1>1, <2>1, <2>2 DEF Count, r
  <2> QED
    BY <1>1, <1>9, <2>1, <2>3 DEF SlotInv, n
<1>10. CASE /\ pc[t] \notin {"trip_probes", "close_probes", "probe_add", "probe_sub"}
            /\ pc'[t] # "probe_sub" /\ UNCHANGED probes
  <2>1. UNCHANGED <<claims, owed>>
    BY <1>5, <1>6, <1>10 DEF NoteSlots, Zeroes
  <2>2. Refused' = Refused
    BY <1>0, <1>10 DEF Refused
  <2> QED
    BY <1>10, <2>1, <2>2 DEF SlotInv, Count
<1> QED
  BY <1>7, <1>8, <1>9, <1>10, SlotStep

LEMMA HNextKeepsSlots == Inv /\ SlotInv /\ [HNext]_hvars => SlotInv'
<1> SUFFICES ASSUME Inv, SlotInv, [HNext]_hvars PROVE SlotInv'
  OBVIOUS
<1>1. CASE UNCHANGED <<probes, pc, claims, owed>>
  BY <1>1 DEF SlotInv, Count, Refused
<1>2. CASE HNext /\ Outside
  <2>1. UNCHANGED <<probes, pc>>
    BY <1>2 DEF Outside, shared
  <2> QED
    BY <1>1, <1>2, <2>1 DEF HNext, NoteSlots, Zeroes
<1>3. CASE HNext /\ \E t \in Threads : ThreadStep(t) /\ UNCHANGED now
  BY <1>3, StepKeepsSlots DEF HNext
<1> QED
  BY <1>1, <1>2, <1>3, StepOf DEF hvars, vars, shared, history

\* However many threads race, and although fetch_sub may wrap below zero, between two
\* resets the counter hands out half_open_max_probes slots, and one more for each
\* refused claim the reset caught half way.
THEOREM SlotsBoundedCorrect == HSpec => []SlotsBounded
<1>1. HInit => SlotInv
  <2> SUFFICES ASSUME HInit PROVE SlotInv
    OBVIOUS
  <2>1. Refused = {}
    BY DEF HInit, Init, Refused
  <2>2. Cardinality(Refused) = 0
    BY <2>1, FS_EmptySet
  <2> QED
    BY <2>2, UsizeRoom DEF HInit, Init, SlotInv, Count
<1>2. Inv /\ SlotInv /\ [HNext]_hvars => SlotInv'
  BY HNextKeepsSlots
<1>3. SlotInv => SlotsBounded
  BY DEF SlotInv, SlotsBounded
<1> QED
  BY <1>1, <1>2, <1>3, HistoryRefines, InvCorrect, PTL DEF HSpec

(***************************************************************************)
(* The age of the samples.  record() reads the clock before it waits for   *)
(* the window's mutex, so samples may be pushed out of time order, but     *)
(* never by more than such a wait.                                         *)
(***************************************************************************)

\* Samples are in time order, up to d.
Sorted(es, d) == \A i, j \in 1..Len(es) : i <= j => es[i].at <= es[j].at + d

Before(es, at) == \A i \in 1..Len(es) : es[i].at <= at

LagInv ==
  /\ lag \in Nat
  /\ Before(entries, now)
  /\ Sorted(entries, lag)
  /\ \A t \in Threads : pc[t] \in {"rec_state", "rec_closed", "rec_open"} => local[t].now <= now

\* Every sample has a time stamp.
LEMMA StampsTyped ==
  ASSUME NEW es \in Seq(Sample)
  PROVE  Len(es) \in Nat /\ \A i \in 1..Len(es) : es[i].at \in Nat
<1>1. Len(es) \in Nat /\ \A i \in 1..Len(es) : es[i] \in Sample
  OBVIOUS
<1> QED
  BY <1>1 DEF Sample

\* A push disturbs the order by at most what its sample is older than another.
LEMMA PushedSorted ==
  ASSUME NEW es \in Seq(Sample), Len(es) <= MaxWindowEntries,
         NEW d \in Nat, NEW late \in Nat, Sorted(es, d), Before(es, late),
         NEW fails \in BOOLEAN, NEW at \in Nat, at <= late,
         NEW e \in Nat, d <= e, Before(es, at + e)
  PROVE  Sorted(Pushed(es, fails, at), e) /\ Before(Pushed(es, fails, at), late)
<1> DEFINE x == [at |-> at, fails |-> fails]
           kept == IF Len(es) >= MaxWindowEntries THEN Tail(es) ELSE es
           n == Len(kept)
<1>1. x \in Sample /\ x.at = at
  BY Zenon DEF Sample
<1>2. Len(es) \in Nat /\ MaxWindowEntries \in Nat \ {0} /\ \A i \in 1..Len(es) : es[i].at \in Nat
  BY BreakerAssumption, StampsTyped
<1> HIDE DEF x
<1>3. /\ kept \in Seq(Sample)
      /\ n \in Nat
      /\ Sorted(kept, e)
      /\ Before(kept, late)
      /\ Before(kept, at + e)
  <2>1. CASE Len(es) >= MaxWindowEntries
    <3>1. Len(es) > 0
      BY <1>2, <2>1
    <3>2. /\ Tail(es) \in Seq(Sample)
          /\ Len(Tail(es)) = Len(es) - 1
          /\ \A i \in 1..Len(es) - 1 : Tail(es)[i] = es[i + 1]
      BY <1>2, <3>1
    <3>3. Sorted(Tail(es), e)
      BY <1>2, <3>1, <3>2 DEF Sorted
    <3>4. Before(Tail(es), late) /\ Before(Tail(es), at + e)
      BY <1>2, <3>1, <3>2 DEF Before
    <3> QED
      BY <1>2, <2>1, <3>1, <3>2, <3>3, <3>4
  <2>2. CASE ~(Len(es) >= MaxWindowEntries)
    BY <1>2, <2>2 DEF Sorted
  <2> QED
    BY <2>1, <2>2
<1>4. Pushed(es, fails, at) = Append(kept, x)
  BY DEF Pushed, x
<1> HIDE DEF kept
<1>5. Len(Append(kept, x)) = n + 1
  BY <1>1, <1>3
<1>6. \A i \in 1..n : Append(kept, x)[i] = kept[i]
  BY <1>1, <1>3
<1>7. Append(kept, x)[n + 1] = x
  BY <1>1, <1>3
<1>8. \A i \in 1..n + 1 : Append(kept, x)[i].at <= late /\ Append(kept, x)[i].at <= at + e
  <2> TAKE i \in 1..n + 1
  <2>1. i \in 1..n \/ i = n + 1
    BY <1>3
  <2> QED
    BY <1>1, <1>3, <1>6, <1>7, <2>1 DEF Before
<1>9. \A i, j \in 1..n + 1 : i <= j => Append(kept, x)[i].at <= Append(kept, x)[j].at + e
  <2> SUFFICES ASSUME NEW i \in 1..n + 1, NEW j \in 1..n + 1, i <= j
               PROVE  Append(kept, x)[i].at <= Append(kept, x)[j].at + e
    OBVIOUS
  <2>1. CASE j = n + 1
    BY <1>1, <1>7, <1>8, <2>1
  <2>2. CASE j # n + 1
    <3>1. i \in 1..n /\ j \in 1..n
      BY <1>3, <2>2
    <3> QED
      BY <1>3, <1>6, <3>1 DEF Sorted
  <2> QED
    BY <2>1, <2>2
<1> QED
  BY <1>4, <1>5, <1>8, <1>9 DEF Sorted, Before

\* evict() keeps the order of a window, and all it keeps is young, up to d.
LEMMA EvictedSorted ==
  ASSUME NEW es \in Seq(Sample), NEW d \in Nat, Sorted(es, d), NEW at \in Nat
  PROVE  /\ Sorted(Evicted(es, at), d)
         /\ \A b \in Nat : Before(es, b) => Before(Evicted(es, at), b)
         /\ \A i \in 1..Len(Evicted(es, at)) :
              Evicted(es, at)[i].at + d >= SatSub(at, WindowDuration)
<1>1. PICK c \in 0..Len(es) : Cuts(es, at, c)
  BY EvictedIsCut
<1> DEFINE m == Len(es) - c
           new == Evicted(es, at)
<1>2. Len(es) \in Nat /\ c \in Nat /\ c <= Len(es) /\ m \in Nat
  OBVIOUS
<1>3. WindowDuration \in Nat /\ \A i \in 1..Len(es) : es[i].at \in Nat
  BY BreakerAssumption, StampsTyped
<1>4. new = SubSeq(es, c + 1, Len(es))
  BY <1>1 DEF Cuts
<1>5. new \in Seq(Sample) /\ Len(new) = m
  BY <1>2, <1>4, FailuresOfCut
<1>6. \A i \in 1..m : new[i] = es[c + i]
  BY <1>2, <1>4
<1> HIDE DEF new
<1>7. \A i \in 1..m : c + i \in 1..Len(es)
  BY <1>2
<1>8. Sorted(new, d)
  BY <1>2, <1>5, <1>6, <1>7 DEF Sorted
<1>9. ASSUME NEW b \in Nat, Before(es, b)
      PROVE  Before(new, b)
  BY <1>5, <1>6, <1>7, <1>9 DEF Before
<1>10. ASSUME NEW i \in 1..Len(new)
       PROVE  new[i].at + d >= SatSub(at, WindowDuration)
  <2>1. i \in 1..m /\ new[i] = es[c + i] /\ c + i \in 1..Len(es) /\ c + 1 \in 1..Len(es)
    BY <1>2, <1>5, <1>6, <1>7, <1>10
  <2>2. es[c + 1].at <= es[c + i].at + d
    BY <1>2, <2>1 DEF Sorted
  <2>3. c < Len(es)
    BY <1>2, <2>1
  <2>4. at >= WindowDuration => es[c + 1].at >= at - WindowDuration
    BY <1>1, <2>3 DEF Cuts
  <2> QED
    BY <1>3, <2>1, <2>2, <2>4 DEF SatSub
<1> QED
  BY <1>8, <1>9, <1>10 DEF new

\* The steps that write the window, and the locals a record() carries to it.
LEMMA SampleStep ==
  ASSUME Inv, NEW t \in Threads, ThreadStep(t)
  PROVE  /\ \/ RecordSample(t) /\ Pushes(t)
            \/ ErrorRateEvict(t) /\ ~Pushes(t)
            \/ entries' \in {entries, <<>>} /\ ~Pushes(t) /\ pc[t] # "rate_evict"
         /\ pc'[t] \in {"rec_state", "rec_closed", "rec_open"} =>
              \/ pc[t] \in {"rec_state", "rec_closed", "rec_open"} /\ local'[t] = local[t]
              \/ local'[t].now = now
<1>1. pc \in [Threads -> PC] /\ local \in [Threads -> Locals] /\ state \in BreakerState
  BY DEF Inv, TypeOK
<1> USE DEF Pushes
<1>2. CASE Check(t) \/ CheckOpenLoad(t) \/ CheckOpenNow(t) \/ CheckOpenLost(t)
  BY <1>1, <1>2 DEF Check, CheckOpenLoad, CheckOpenNow, CheckOpenLost, Goto, Return, window
<1>3. CASE CheckOpenCas(t) \/ CheckOpenFast(t)
  BY <1>1, <1>3 DEF CheckOpenCas, CheckOpenFast, Goto, window
<1>4. CASE ProbeNow(t) \/ ProbeAdd(t) \/ ProbeClaim(t)
  BY <1>1, <1>4 DEF ProbeNow, ProbeAdd, ProbeClaim, AdmitProbe, Goto, Return, window
<1>5. CASE ProbeSub(t) \/ ProbeLoad(t) \/ ProbeCas(t)
  BY <1>1, <1>5 DEF ProbeSub, ProbeLoad, ProbeCas, AdmitProbe, Goto, Return, window
<1>6. CASE \E fails \in BOOLEAN : RecordNow(t, fails)
  <2>1. /\ UNCHANGED window /\ pc[t] = "idle" /\ pc' = [pc EXCEPT ![t] = "rec_state"]
        /\ \E fails \in BOOLEAN :
             local' = [local EXCEPT ![t] = [NoLocals EXCEPT !.now = now, !.fails = fails]]
    BY <1>6 DEF RecordNow, Goto
  <2>2. local'[t].now = now
    BY <1>1, <2>1 DEF NoLocals
  <2> QED
    BY <1>1, <2>1, <2>2 DEF window
<1>7. CASE RecordState(t)
  BY <1>1, <1>7 DEF RecordState, Goto, window, BreakerState
<1>8. CASE RecordClosed(t) \/ RecordOpen(t)
  BY <1>1, <1>8 DEF RecordClosed, RecordOpen, Return
<1>9. CASE TripState(t) \/ TripNow(t) \/ TripOpened(t) \/ TripProbes(t) \/ TripFast(t)
  BY <1>1, <1>9 DEF TripState, TripNow, TripOpened, TripProbes, TripFast, Goto, Return, window
<1>10. CASE CloseState(t) \/ CloseWindow(t) \/ CloseProbes(t) \/ CloseFast(t)
  BY <1>1, <1>10 DEF CloseState, CloseWindow, CloseProbes, CloseFast, Goto, Return, window
<1>11. CASE ErrorRateNow(t) \/ ErrorRateEvict(t)
  BY <1>1, <1>11 DEF ErrorRateNow, ErrorRateEvict, Goto, Return, window
<1> QED
  BY <1>2, <1>3, <1>4, <1>5, <1>6, <1>7, <1>8, <1>9, <1>10, <1>11 DEF ThreadStep, CallStep

\* What a step of t does to the order of the samples, and what it leaves in the
\* window when it evicts.
LEMMA StepKeepsLag ==
  ASSUME Inv, LagInv, NEW t \in Threads, ThreadStep(t), UNCHANGED now, NoteLag
  PROVE  /\ LagInv'
         /\ Pushes(t) \/ pc[t] = "rate_evict" =>
              \A i \in 1..Len(entries') :
                entries'[i].at + lag' >= SatSub(local[t].now, WindowDuration)
<1> DEFINE at == local[t].now
           fails == local[t].fails
           pushed == Pushed(entries, fails, at)
<1>0. /\ now \in Nat /\ entries \in Seq(Sample) /\ Len(entries) <= MaxWindowEntries
      /\ local \in [Threads -> Locals] /\ pc \in [Threads -> PC]
      /\ \A u \in Threads \ {t} : pc'[u] = pc[u] /\ local'[u] = local[u]
  BY OthersStay, LocalsStay DEF Inv, TypeOK
<1>1. at \in Nat /\ fails \in BOOLEAN
  BY <1>0 DEF Locals
<1>2. lag \in Nat /\ Before(entries, now) /\ Sorted(entries, lag)
  BY DEF LagInv
<1>3. \A u \in Threads : pc'[u] \in {"rec_state", "rec_closed", "rec_open"} => local'[u].now <= now'
  BY <1>0, SampleStep DEF LagInv
<1>4. \A u \in Threads : Overtaken(u) => u = t
  BY <1>0 DEF Overtaken, Pushes
<1>5. CASE RecordSample(t) /\ Pushes(t)
  <2>1. at <= now /\ pc[t] # "rate_evict"
    BY <1>5 DEF LagInv, Pushes
  <2>2. lag' \in Nat /\ lag <= lag' /\ Before(entries, at + lag')
    <3>1. CASE LagsBehind(t)
      <4>1. lag' = now - at /\ now - at > lag
        BY <1>4, <3>1 DEF NoteLag, LagsBehind
      <4> QED
        BY <1>0, <1>1, <1>2, <2>1, <4>1 DEF Before
    <3>2. CASE ~LagsBehind(t)
      <4>1. lag' = lag
        BY <1>4, <3>2 DEF NoteLag, LagsBehind
      <4>2. CASE Overtaken(t)
        <5>1. ~(now - at > lag)
          BY <3>2, <4>2 DEF LagsBehind
        <5>2. now <= at + lag
          BY <1>0, <1>1, <1>2, <5>1
        <5>3. \A i \in 1..Len(entries) : entries[i].at \in Nat /\ entries[i].at <= now
          BY <1>0, <1>2, StampsTyped DEF Before
        <5>4. \A i \in 1..Len(entries) : entries[i].at <= at + lag
          BY <1>0, <1>1, <1>2, <5>2, <5>3
        <5> QED
          BY <1>2, <4>1, <5>4 DEF Before
      <4>3. CASE ~Overtaken(t)
        <5>1. \A i \in 1..Len(entries) : ~(entries[i].at > at)
          BY <1>5, <4>3 DEF Overtaken
        <5>2. \A i \in 1..Len(entries) : entries[i].at \in Nat
          BY <1>0, StampsTyped
        <5>3. \A i \in 1..Len(entries) : entries[i].at <= at + lag
          BY <1>1, <1>2, <5>1, <5>2
        <5> QED
          BY <1>2, <4>1, <5>3 DEF Before
      <4> QED
        BY <4>2, <4>3
    <3> QED
      BY <3>1, <3>2
  <2>3. entries' = Evicted(pushed, at)
    BY <1>5 DEF RecordSample
  <2> HIDE DEF at, fails
  <2>4. pushed \in Seq(Sample) /\ Sorted(pushed, lag') /\ Before(pushed, now)
    BY <1>0, <1>1, <1>2, <2>1, <2>2, PushedCounts, PushedSorted
  <2> HIDE DEF pushed
  <2>5. /\ Sorted(entries', lag') /\ Before(entries', now)
        /\ \A i \in 1..Len(entries') : entries'[i].at + lag' >= SatSub(at, WindowDuration)
    BY <1>0, <1>1, <2>2, <2>3, <2>4, EvictedSorted
  <2> QED
    BY <1>3, <2>2, <2>5 DEF LagInv, Sorted, Before, at
<1>6. ASSUME ~Pushes(t) PROVE lag' = lag
  BY <1>4, <1>6 DEF NoteLag, LagsBehind, Overtaken
<1>7. CASE ErrorRateEvict(t) /\ ~Pushes(t)
  <2>1. entries' = Evicted(entries, at) /\ lag' = lag
    BY <1>6, <1>7 DEF ErrorRateEvict
  <2> HIDE DEF at
  <2>2. /\ Sorted(entries', lag) /\ Before(entries', now)
        /\ \A i \in 1..Len(entries') : entries'[i].at + lag >= SatSub(at, WindowDuration)
    BY <1>0, <1>1, <1>2, <2>1, EvictedSorted
  <2> QED
    BY <1>2, <1>3, <2>1, <2>2 DEF LagInv, Sorted, Before, at
<1>8. CASE entries' \in {entries, <<>>} /\ ~Pushes(t) /\ pc[t] # "rate_evict"
  <2>1. Sorted(entries', lag) /\ Before(entries', now)
    BY <1>2, <1>8 DEF Sorted, Before
  <2> QED
    BY <1>2, <1>3, <1>6, <1>8, <2>1 DEF LagInv, Sorted, Before
<1> QED
  BY <1>5, <1>7, <1>8, SampleStep

LEMMA HNextKeepsLag == Inv /\ LagInv /\ [HNext]_hvars => LagInv'
<1> SUFFICES ASSUME Inv, LagInv, [HNext]_hvars PROVE LagInv'
  OBVIOUS
<1>1. CASE UNCHANGED hvars
  BY <1>1 DEF hvars, vars, window, history, LagInv, Sorted, Before
<1>2. CASE HNext /\ Outside
  <2>1. UNCHANGED <<entries, pc, local>> /\ now' \in {now, now + 1}
    BY <1>2 DEF Outside, window
  <2>2. UNCHANGED lag
    BY <1>2, <2>1 DEF HNext, NoteLag, LagsBehind, Overtaken, Pushes
  <2>3. /\ now \in Nat /\ \A u \in Threads : local[u].now \in Nat
        /\ \A i \in 1..Len(entries) : entries[i].at \in Nat
    BY StampsTyped DEF Inv, TypeOK, Locals
  <2> QED
    BY <2>1, <2>2, <2>3 DEF LagInv, Sorted, Before
<1>3. CASE HNext /\ \E t \in Threads : ThreadStep(t) /\ UNCHANGED now
  BY <1>3, StepKeepsLag DEF HNext
<1> QED
  BY <1>1, <1>2, <1>3, StepOf

\* However many threads race, what record() and error_rate() leave in the window is
\* older than the window by no more than a record() waited for the mutex while
\* another overtook it.
THEOREM RateTimelyCorrect == HSpec => RateTimely
<1>1. HInit => LagInv
  BY DEF HInit, Init, LagInv, Sorted, Before
<1>2. Inv /\ LagInv /\ [HNext]_hvars => LagInv'
  BY HNextKeepsLag
<1>3. Inv /\ LagInv /\ [HNext]_hvars =>
        [\A t \in Threads : (Pushes(t) \/ (pc[t] = "rate_evict" /\ pc'[t] = "idle")) =>
           \A i \in 1..Len(entries') :
             entries'[i].at + lag' >= SatSub(local[t].now, WindowDuration)]_hvars
  <2> SUFFICES ASSUME Inv, LagInv, HNext, NEW t \in Threads,
                      Pushes(t) \/ (pc[t] = "rate_evict" /\ pc'[t] = "idle")
               PROVE  \A i \in 1..Len(entries') :
                        entries'[i].at + lag' >= SatSub(local[t].now, WindowDuration)
    OBVIOUS
  <2>1. pc'[t] # pc[t]
    BY DEF Pushes
  <2>2. PICK u \in Threads : ThreadStep(u) /\ UNCHANGED now
    BY <2>1, StepOf DEF Outside, hvars, vars
  <2>3. u = t
    BY <2>1, <2>2, OthersStay
  <2> QED
    BY <2>2, <2>3, StepKeepsLag DEF HNext
<1> QED
  BY <1>1, <1>2, <1>3, HistoryRefines, InvCorrect, PTL DEF HSpec, RateTimely

-----------------------------------------------------------------------------
(***************************************************************************)
(* Calls that do not overlap.  Racing threads can admit a probe too many   *)
(* (the run of BreakerProbeSpacingRace), so the spacing of probes assumes  *)
(* that at most one thread at a time is inside a call.  Requests may still *)
(* be in flight by the dozen between check() and record(), or be lost.     *)
(***************************************************************************)

\* At most one thread is inside check(), record() or error_rate().
OneAtATime == \A s, t \in Threads : pc[s] # "idle" /\ pc[t] # "idle" => s = t

\* What `state` is at each step of a call that saw, or wrote, a certain state.
StateAt ==
  \A t \in Threads :
    /\ pc[t] \in Opening \cup {"open_load", "open_now", "open_cas", "rec_open"} => state = "Open"
    /\ pc[t] \in {"open_fast", "probe_now", "probe_add", "probe_claim", "probe_sub",
                  "probe_load", "probe_cas", "close_state"} => state = "HalfOpen"
    /\ pc[t] \in {"rec_closed", "close_window", "close_probes", "close_fast"} => state = "Closed"
    /\ pc[t] = "trip_state" => state # "Open"
    /\ pc[t] # "open_lost"

\* Once trip() has reset them, no slot is taken until HalfOpen is published.
SlotsAt ==
  state = "Open" /\ (\A t \in Threads : pc[t] \notin {"trip_now", "trip_opened", "trip_probes"})
    => probes = 0

\* The counter that probes contend for is the number of probes admitted, and the
\* slot or the look of the thread that is between claiming and admission.
AdmittedAt ==
  /\ admitted \in 0..MaxProbes
  /\ state = "HalfOpen" =>
       /\ (\A t \in Threads : pc[t] \notin {"probe_claim", "probe_sub"}) => admitted = probes
       /\ \A t \in Threads :
            /\ pc[t] = "probe_claim" => admitted < MaxProbes /\ probes = admitted + 1
            /\ pc[t] = "probe_sub" => admitted = MaxProbes /\ probes = (MaxProbes + 1) % UsizeMod
            /\ pc[t] \in {"probe_load", "probe_cas"} => admitted = MaxProbes
            /\ pc[t] = "probe_cas" =>
                 SatSub(local[t].now, claimedAt) >= OpenDuration

SoloInv == StateAt /\ SlotsAt

\* All threads but t are outside a call, before and after the step.
Others(t) == \A u \in Threads \ {t} : pc[u] = "idle" /\ pc'[u] = "idle"

\* When calls do not overlap, a thread that moves is alone.
LEMMA StepAlone ==
  ASSUME Inv, OneAtATime, OneAtATime', NEW t \in Threads, ThreadStep(t)
  PROVE  \/ Check(t) /\ UNCHANGED <<now, shared, window, pc, local>>
         \/ Others(t)
<1>1. pc \in [Threads -> PC]
  BY DEF Inv, TypeOK
<1>2. CASE Check(t) /\ UNCHANGED <<now, shared, window, pc, local>>
  BY <1>2
<1>3. ASSUME NEW to \in PC, pc' = [pc EXCEPT ![t] = to], pc[t] # "idle" \/ to # "idle"
      PROVE  Others(t)
  <2> SUFFICES ASSUME NEW u \in Threads \ {t} PROVE pc[u] = "idle" /\ pc'[u] = "idle"
    BY DEF Others
  <2>1. pc'[u] = pc[u] /\ pc'[t] = to
    BY <1>1, <1>3
  <2> QED
    BY <1>3, <2>1 DEF OneAtATime
<1> QED
  BY <1>2, <1>3, StepMoves

\* check() and try_half_open_probe() keep the state and the slots at their steps.
LEMMA CheckKeepsSolo ==
  ASSUME Inv, SoloInv, NEW t \in Threads, Others(t),
         \/ Check(t) \/ CheckOpenLoad(t) \/ CheckOpenNow(t) \/ CheckOpenCas(t)
         \/ CheckOpenFast(t) \/ CheckOpenLost(t)
         \/ ProbeNow(t) \/ ProbeAdd(t) \/ ProbeClaim(t)
         \/ ProbeSub(t) \/ ProbeLoad(t) \/ ProbeCas(t)
  PROVE  SoloInv'
<1>0. pc \in [Threads -> PC] /\ state \in BreakerState
  BY DEF Inv, TypeOK
<1> USE DEF SoloInv, StateAt, SlotsAt, Others, Opening, BreakerState
<1>1. CASE Check(t)
  BY <1>0, <1>1 DEF Check, shared
<1>2. CASE CheckOpenLoad(t)
  BY <1>0, <1>2 DEF CheckOpenLoad, Goto, shared
<1>3. CASE CheckOpenNow(t)
  BY <1>0, <1>3 DEF CheckOpenNow, Return, shared
<1>4. CASE CheckOpenCas(t)
  BY <1>0, <1>4 DEF CheckOpenCas
<1>5. CASE CheckOpenFast(t)
  BY <1>0, <1>5 DEF CheckOpenFast, Goto
<1>6. CASE CheckOpenLost(t)
  BY <1>6 DEF CheckOpenLost
<1>7. CASE ProbeNow(t)
  BY <1>0, <1>7 DEF ProbeNow, Goto, shared
<1>8. CASE ProbeAdd(t)
  BY <1>0, <1>8 DEF ProbeAdd, Goto
<1>9. CASE ProbeClaim(t)
  BY <1>0, <1>9 DEF ProbeClaim, AdmitProbe, Return
<1>10. CASE ProbeSub(t)
  BY <1>0, <1>10 DEF ProbeSub, Goto
<1>11. CASE ProbeLoad(t)
  BY <1>0, <1>11 DEF ProbeLoad, Return, shared
<1>12. CASE ProbeCas(t)
  BY <1>0, <1>12 DEF ProbeCas, AdmitProbe, Return
<1> QED
  BY <1>1, <1>2, <1>3, <1>4, <1>5, <1>6, <1>7, <1>8, <1>9, <1>10, <1>11, <1>12

\* record(), trip() and close() keep it.
LEMMA RecordKeepsSolo ==
  ASSUME Inv, SoloInv, NEW t \in Threads, Others(t),
         \/ \E fails \in BOOLEAN : RecordNow(t, fails)
         \/ RecordState(t) \/ RecordClosed(t) \/ RecordOpen(t)
         \/ TripState(t) \/ TripNow(t) \/ TripOpened(t) \/ TripProbes(t) \/ TripFast(t)
         \/ CloseState(t) \/ CloseWindow(t) \/ CloseProbes(t) \/ CloseFast(t)
  PROVE  SoloInv'
<1>0. pc \in [Threads -> PC] /\ state \in BreakerState
  BY DEF Inv, TypeOK
<1> USE DEF SoloInv, StateAt, SlotsAt, Others, Opening, BreakerState
<1>1. CASE \E fails \in BOOLEAN : RecordNow(t, fails)
  <2>1. pc' = [pc EXCEPT ![t] = "rec_state"] /\ pc[t] = "idle" /\ UNCHANGED shared
    BY <1>1, Zenon DEF RecordNow, Goto
  <2> QED
    BY <1>0, <2>1 DEF shared
<1>2. CASE RecordState(t)
  BY <1>0, <1>2 DEF RecordState, Goto, shared
<1>3. CASE RecordClosed(t)
  BY <1>0, <1>3 DEF RecordClosed, Return, shared
<1>4. CASE RecordOpen(t)
  BY <1>0, <1>4 DEF RecordOpen, Return, shared
<1>5. CASE TripState(t)
  BY <1>0, <1>5 DEF TripState, Goto
<1>6. CASE TripNow(t)
  BY <1>0, <1>6 DEF TripNow, Goto, shared
<1>7. CASE TripOpened(t)
  BY <1>0, <1>7 DEF TripOpened, Goto
<1>8. CASE TripProbes(t)
  BY <1>0, <1>8 DEF TripProbes, Goto
<1>9. CASE TripFast(t)
  BY <1>0, <1>9 DEF TripFast, Return
<1>10. CASE CloseState(t)
  BY <1>0, <1>10 DEF CloseState, Goto
<1>11. CASE CloseWindow(t)
  BY <1>0, <1>11 DEF CloseWindow, Goto, shared
<1>12. CASE CloseProbes(t)
  BY <1>0, <1>12 DEF CloseProbes, Goto
<1>13. CASE CloseFast(t)
  BY <1>0, <1>13 DEF CloseFast, Return
<1> QED
  BY <1>1, <1>2, <1>3, <1>4, <1>5, <1>6, <1>7, <1>8, <1>9, <1>10, <1>11, <1>12, <1>13

LEMMA NextKeepsSolo ==
  ASSUME Inv, SoloInv, OneAtATime, OneAtATime', [Next]_vars
  PROVE  SoloInv'
<1>1. CASE UNCHANGED <<state, probes, pc>>
  BY <1>1 DEF SoloInv, StateAt, SlotsAt
<1>2. ASSUME NEW t \in Threads, ThreadStep(t)
      PROVE  SoloInv'
  <2>1. CASE Others(t)
    <3>1. CASE ErrorRateNow(t) \/ ErrorRateEvict(t)
      <4>1. pc \in [Threads -> PC]
        BY DEF Inv, TypeOK
      <4> QED
        BY <2>1, <3>1, <4>1
        DEF ErrorRateNow, ErrorRateEvict, Goto, Return, shared,
            SoloInv, StateAt, SlotsAt, Others, Opening
    <3> QED
      BY <1>2, <2>1, <3>1, CheckKeepsSolo, RecordKeepsSolo DEF ThreadStep, CallStep
  <2> QED
    BY <1>1, <1>2, <2>1, StepAlone DEF shared
<1>3. CASE LoseRequest \/ Tick \/ UNCHANGED vars
  BY <1>1, <1>3 DEF LoseRequest, Tick, vars, shared
<1> QED
  BY <1>2, <1>3 DEF Next, ThreadStep

LEMMA SoloCorrect == Spec /\ []OneAtATime => [](Inv /\ SoloInv)
<1>1. Init => Inv /\ SoloInv
  BY InitInv DEF Init, SoloInv, StateAt, SlotsAt, Opening
<1>2. Inv /\ SoloInv /\ OneAtATime /\ OneAtATime' /\ [Next]_vars => (Inv /\ SoloInv)'
  BY NextKeepsInv, NextKeepsSolo
<1> QED
  BY <1>1, <1>2, PTL DEF Spec

\* How the count of admissions moves in a step of a thread that is alone.
AdmittedStep(t) ==
  admitted' = IF state = "Open" /\ state' = "HalfOpen" THEN 0
              ELSE IF admitted < MaxProbes /\ ProbeAdmitted(t) THEN admitted + 1
                   ELSE admitted

\* A step that admits nobody and leaves the half-open words alone, or the half-open
\* period itself, keeps AdmittedAt.
LEMMA QuietKeepsAdmitted ==
  ASSUME AdmittedAt, NEW t \in Threads, Others(t), admitted' = admitted,
         state' = "HalfOpen" => state = "HalfOpen" /\ UNCHANGED probes,
         pc[t] \notin {"probe_claim", "probe_sub"},
         pc'[t] \notin {"probe_claim", "probe_sub", "probe_load", "probe_cas"}
  PROVE  AdmittedAt'
BY DEF AdmittedAt, Others

LEMMA StepKeepsAdmitted ==
  ASSUME Inv, StateAt, SlotsAt, AdmittedAt,
         NEW t \in Threads, ThreadStep(t), Others(t), AdmittedStep(t)
  PROVE  AdmittedAt'
<1>0. /\ pc \in [Threads -> PC]
      /\ local \in [Threads -> Locals]
      /\ state \in BreakerState
      /\ now \in Nat /\ claimedAt \in Nat /\ inFlight \in Nat
      /\ probes \in 0..UsizeMod - 1
      /\ admitted \in 0..MaxProbes
      /\ MaxProbes \in Nat \ {0} /\ UsizeMod \in Nat /\ UsizeMod > MaxProbes
  BY UsizeRoom DEF Inv, TypeOK, AdmittedAt
<1>1. ASSUME pc[t] \notin {"probe_claim", "probe_cas"}, ~(state = "Open" /\ state' = "HalfOpen")
      PROVE  admitted' = admitted
  BY <1>1 DEF AdmittedStep, ProbeAdmitted
<1>2. CASE Check(t) \/ CheckOpenLoad(t) \/ CheckOpenNow(t) \/ CheckOpenFast(t) \/ CheckOpenLost(t)
  BY <1>0, <1>1, <1>2, QuietKeepsAdmitted
  DEF Check, CheckOpenLoad, CheckOpenNow, CheckOpenFast, CheckOpenLost, Goto, Return, shared
<1>3. CASE CheckOpenCas(t)
  <2>1. state = "Open" /\ state' = "HalfOpen" /\ probes' = probes
        /\ pc' = [pc EXCEPT ![t] = "open_fast"] /\ pc[t] = "open_cas"
    BY <1>3 DEF CheckOpenCas, StateAt
  <2>2. probes = 0
    BY <2>1 DEF SlotsAt, Others
  <2>3. admitted' = 0
    BY <2>1 DEF AdmittedStep
  <2> QED
    BY <1>0, <2>1, <2>2, <2>3 DEF AdmittedAt, Others
<1>4. CASE ProbeNow(t)
  BY <1>0, <1>1, <1>4, QuietKeepsAdmitted DEF ProbeNow, Goto, shared
<1>5. CASE ProbeAdd(t)
  <2>1. /\ pc[t] = "probe_add"
        /\ UNCHANGED <<state, local, claimedAt>>
        /\ pc' = [pc EXCEPT ![t] = IF probes < MaxProbes THEN "probe_claim" ELSE "probe_sub"]
        /\ probes' = (probes + 1) % UsizeMod
    BY <1>5 DEF ProbeAdd, Goto
  <2>2. state = "HalfOpen" /\ admitted = probes /\ admitted' = admitted
    BY <1>1, <2>1 DEF StateAt, AdmittedAt, Others
  <2>3. CASE probes < MaxProbes
    <3>1. pc' = [pc EXCEPT ![t] = "probe_claim"] /\ probes' = probes + 1
      BY <1>0, <2>1, <2>3, ProbesWrap
    <3> QED
      BY <1>0, <2>1, <2>2, <2>3, <3>1 DEF AdmittedAt, Others
  <2>4. CASE ~(probes < MaxProbes)
    <3>1. pc' = [pc EXCEPT ![t] = "probe_sub"]
      BY <2>1, <2>4
    <3>2. probes = MaxProbes
      BY <1>0, <2>2, <2>4
    <3> QED
      BY <1>0, <2>1, <2>2, <3>1, <3>2 DEF AdmittedAt, Others
  <2> QED
    BY <2>3, <2>4
<1>6. CASE ProbeClaim(t)
  <2>1. /\ pc[t] = "probe_claim"
        /\ UNCHANGED <<state, probes>>
        /\ pc' = [pc EXCEPT ![t] = "idle"]
        /\ inFlight' = inFlight + 1
    BY <1>6 DEF ProbeClaim, AdmitProbe, Return
  <2>2. state = "HalfOpen" /\ admitted < MaxProbes /\ probes = admitted + 1
    BY <2>1 DEF StateAt, AdmittedAt
  <2>3. admitted' = admitted + 1
    BY <1>0, <2>1, <2>2 DEF AdmittedStep, ProbeAdmitted
  <2> QED
    BY <1>0, <2>1, <2>2, <2>3 DEF AdmittedAt, Others
<1>7. CASE ProbeSub(t)
  <2>1. /\ pc[t] = "probe_sub"
        /\ UNCHANGED <<state, local, claimedAt>>
        /\ pc' = [pc EXCEPT ![t] = "probe_load"]
        /\ probes' = (probes + UsizeMod - 1) % UsizeMod
    BY <1>7 DEF ProbeSub, Goto
  <2>2. /\ state = "HalfOpen" /\ admitted = MaxProbes /\ admitted' = admitted
        /\ probes = (MaxProbes + 1) % UsizeMod
    BY <1>1, <2>1 DEF StateAt, AdmittedAt
  <2>3. probes' = MaxProbes
    <3>1. CASE MaxProbes + 1 = UsizeMod
      <4>1. probes = 0
        BY <1>0, <2>2, <3>1
      <4>2. probes + UsizeMod - 1 = MaxProbes
        BY <1>0, <3>1, <4>1
      <4> QED
        BY <1>0, <2>1, <4>2
    <3>2. CASE MaxProbes + 1 # UsizeMod
      <4>1. probes = MaxProbes + 1
        BY <1>0, <2>2, <3>2
      <4>2. probes + UsizeMod - 1 = MaxProbes + UsizeMod
        BY <1>0, <4>1
      <4> QED
        BY <1>0, <2>1, <4>2
    <3> QED
      BY <3>1, <3>2
  <2> QED
    BY <1>0, <2>1, <2>2, <2>3 DEF AdmittedAt, Others
<1>8. CASE ProbeLoad(t)
  <2>1. pc[t] = "probe_load" /\ UNCHANGED <<state, probes, claimedAt>>
    BY <1>8 DEF ProbeLoad, shared
  <2>2. state = "HalfOpen" /\ admitted = MaxProbes /\ admitted = probes /\ admitted' = admitted
    BY <1>1, <2>1 DEF StateAt, AdmittedAt, Others
  <2>3. CASE pc' = [pc EXCEPT ![t] = "idle"]
    BY <1>0, <2>1, <2>2, <2>3 DEF AdmittedAt, Others
  <2>4. CASE pc' = [pc EXCEPT ![t] = "probe_cas"]
    <3>1. SatSub(local[t].now, claimedAt) >= OpenDuration /\ SetLocal(t, "claimed", claimedAt)
      BY <1>0, <1>8, <2>4 DEF ProbeLoad, Return
    <3>2. local'[t].now = local[t].now
      BY <1>0, <3>1, SetLocalWrites
    <3> QED
      BY <1>0, <2>1, <2>2, <2>4, <3>1, <3>2 DEF AdmittedAt, Others
  <2> QED
    BY <1>8, <2>3, <2>4 DEF ProbeLoad, Return
<1>9. CASE ProbeCas(t)
  <2>1. /\ pc[t] = "probe_cas"
        /\ UNCHANGED <<state, probes>>
        /\ pc' = [pc EXCEPT ![t] = "idle"]
    BY <1>9 DEF ProbeCas, AdmitProbe, Return
  <2>2. state = "HalfOpen" /\ admitted = MaxProbes /\ admitted = probes
    BY <2>1 DEF StateAt, AdmittedAt, Others
  <2>3. admitted' = admitted
    BY <1>0, <2>1, <2>2 DEF AdmittedStep
  <2> QED
    BY <1>0, <2>1, <2>2, <2>3 DEF AdmittedAt, Others
<1>10. CASE \E fails \in BOOLEAN : RecordNow(t, fails)
  <2>1. pc' = [pc EXCEPT ![t] = "rec_state"] /\ pc[t] = "idle" /\ UNCHANGED shared
    BY <1>10, Zenon DEF RecordNow, Goto
  <2> QED
    BY <1>0, <1>1, <2>1, QuietKeepsAdmitted DEF shared
<1>11. CASE RecordState(t)
  BY <1>0, <1>1, <1>11, QuietKeepsAdmitted DEF RecordState, Goto, shared, BreakerState
<1>12. CASE RecordClosed(t) \/ RecordOpen(t)
  BY <1>0, <1>1, <1>12, QuietKeepsAdmitted DEF RecordClosed, RecordOpen, Return, shared
<1>13. CASE TripState(t) \/ TripNow(t) \/ TripOpened(t) \/ TripProbes(t) \/ TripFast(t)
  BY <1>0, <1>1, <1>13, QuietKeepsAdmitted
  DEF TripState, TripNow, TripOpened, TripProbes, TripFast, Goto, Return, shared, StateAt, Opening
<1>14. CASE CloseState(t) \/ CloseWindow(t) \/ CloseProbes(t) \/ CloseFast(t)
  BY <1>0, <1>1, <1>14, QuietKeepsAdmitted
  DEF CloseState, CloseWindow, CloseProbes, CloseFast, Goto, Return, shared, StateAt
<1>15. CASE ErrorRateNow(t) \/ ErrorRateEvict(t)
  BY <1>0, <1>1, <1>15, QuietKeepsAdmitted DEF ErrorRateNow, ErrorRateEvict, Goto, Return, shared
<1> QED
  BY <1>2, <1>3, <1>4, <1>5, <1>6, <1>7, <1>8, <1>9, <1>10, <1>11, <1>12, <1>13, <1>14, <1>15
  DEF ThreadStep, CallStep

LEMMA HNextKeepsAdmitted ==
  ASSUME Inv, SoloInv, AdmittedAt, OneAtATime, OneAtATime', [HNext]_hvars
  PROVE  AdmittedAt'
<1>1. CASE UNCHANGED <<shared, pc, local, admitted>>
  BY <1>1 DEF AdmittedAt, shared, SatSub
<1>2. ASSUME NEW t \in Threads, ThreadStep(t), HNext
      PROVE  AdmittedAt'
  <2>1. CASE Others(t)
    <3>1. (\E u \in Threads : ProbeAdmitted(u)) <=> ProbeAdmitted(t)
      BY <2>1 DEF ProbeAdmitted, Others
    <3>2. AdmittedStep(t)
      BY <1>2, <3>1 DEF AdmittedStep, HNext, NoteAdmitted
    <3> QED
      BY <1>2, <2>1, <3>2, StepKeepsAdmitted DEF SoloInv
  <2>2. CASE Check(t) /\ UNCHANGED <<now, shared, window, pc, local>>
    <3>1. \A u \in Threads : ~ProbeAdmitted(u)
      <4> SUFFICES ASSUME NEW u \in Threads, ProbeAdmitted(u) PROVE FALSE
        OBVIOUS
      <4>1. state = "HalfOpen"
        BY DEF ProbeAdmitted, SoloInv, StateAt
      <4>2. inFlight' > inFlight
        BY DEF ProbeAdmitted
      <4>3. inFlight' = inFlight
        BY <2>2, <4>1 DEF Check
      <4> QED
        BY <4>2, <4>3 DEF Inv, TypeOK
    <3> QED
      BY <1>1, <1>2, <2>2, <3>1 DEF HNext, NoteAdmitted, shared
  <2> QED
    BY <1>2, <2>1, <2>2, StepAlone
<1>3. CASE (LoseRequest \/ Tick) /\ HNext
  <2>1. UNCHANGED <<shared, pc, local>> /\ inFlight \in Nat /\ ~(inFlight' > inFlight)
    BY <1>3 DEF LoseRequest, Tick, env, Inv, TypeOK
  <2>2. \A u \in Threads : ~ProbeAdmitted(u)
    BY <2>1 DEF ProbeAdmitted
  <2> QED
    BY <1>1, <1>3, <2>1, <2>2 DEF HNext, NoteAdmitted, shared
<1>4. CASE UNCHANGED hvars
  BY <1>1, <1>4 DEF hvars, vars, history
<1> QED
  BY <1>2, <1>3, <1>4 DEF HNext, Next, ThreadStep

LEMMA AdmittedCorrect == HSpec /\ []OneAtATime => [](Inv /\ SoloInv /\ AdmittedAt)
<1>1. HInit => AdmittedAt
  BY BreakerAssumption DEF HInit, Init, AdmittedAt
<1>2. /\ Inv /\ SoloInv /\ AdmittedAt
      /\ OneAtATime /\ OneAtATime'
      /\ [HNext]_hvars
      => AdmittedAt'
  BY HNextKeepsAdmitted
<1> QED
  BY <1>1, <1>2, HistoryRefines, SoloCorrect, PTL DEF HSpec

\* When calls do not overlap, a half-open breaker admits half_open_max_probes
\* requests and then one more only when the youngest claim is a whole lease old.
THEOREM ProbeSpacingCorrect == HSpec /\ []OneAtATime => ProbeSpacing
<1>1. Inv /\ SoloInv /\ AdmittedAt /\ [HNext]_hvars =>
        [\A t \in Threads : ProbeAdmitted(t) /\ admitted = MaxProbes =>
           SatSub(local[t].now, claimedAt) >= OpenDuration]_hvars
  <2> SUFFICES ASSUME SoloInv, AdmittedAt, NEW t \in Threads, ProbeAdmitted(t), admitted = MaxProbes
               PROVE  SatSub(local[t].now, claimedAt) >= OpenDuration
    OBVIOUS
  <2>1. pc[t] \in {"probe_claim", "probe_cas"} /\ state = "HalfOpen"
    BY DEF ProbeAdmitted, SoloInv, StateAt
  <2>2. pc[t] # "probe_claim"
    BY <2>1, BreakerAssumption DEF AdmittedAt
  <2> QED
    BY <2>1, <2>2 DEF AdmittedAt
<1> QED
  BY <1>1, AdmittedCorrect, PTL DEF HSpec, ProbeSpacing
=============================================================================
