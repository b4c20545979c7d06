------------------------- MODULE EventBatcher_proofs -------------------------
(***************************************************************************)
(* Theorems about EventBatcher, for any sizes, threshold and number of     *)
(* events.  The strengthening is the conjunction Inv: that a batch is      *)
(* within its limit rests on the queue being shorter than the working size *)
(* between events, and that the sizer never throws on no flush being       *)
(* counted as failed while it is pending.                                  *)
(***************************************************************************)
EXTENDS EventBatcher, FiniteSetTheorems, TLAPS

\* The functions of the sizer stay in range, and shrink unless the queue is
\* deeper than the working size (computeNextBatchSize).
LEMMA NextBatchSizeInRange ==
  ASSUME NEW size \in MinBatch..MaxBatch, NEW depth \in Nat
  PROVE  /\ NextBatchSize(size, depth) \in MinBatch..MaxBatch
         /\ depth <= size => NextBatchSize(size, depth) <= size
<1>1. MinBatch \in Nat \ {0} /\ MaxBatch \in Nat /\ ScaleUpStep \in Nat
  BY ConstantsAssumption
<1>2. size \in Nat /\ size > 0 /\ size \div 2 \in Nat /\ size \div 2 <= size
  BY <1>1
<1> QED
  BY <1>1, <1>2 DEF NextBatchSize, Lesser, Greater

Inv == TypeOK /\ SizerNeverThrows /\ WaitingHasWindow /\ BatchWithinLimit

LEMMA InitInv == Init => Inv
<1> SUFFICES ASSUME Init PROVE Inv
  OBVIOUS
<1>1. TypeOK
  <2>1. queue \in Seq(Nat) /\ flushed \in Seq(Seq(Nat))
    BY DEF Init
  <2>2. received \in 0..MaxEvents /\ flushCount \in Nat /\ errorCount \in Nat
    BY ConstantsAssumption DEF Init
  <2>4. timer \in BOOLEAN
    BY Zenon DEF Init
  <2>3. current \in MinBatch..MaxBatch /\ pending \subseteq 1..Len(flushed)
    BY ConstantsAssumption DEF Init
  <2> QED
    BY <2>1, <2>2, <2>3, <2>4 DEF TypeOK
<1>2. SizerNeverThrows
  BY FS_EmptySet DEF Init, SizerNeverThrows
<1>3. WaitingHasWindow /\ BatchWithinLimit
  BY ConstantsAssumption DEF Init, WaitingHasWindow, BatchWithinLimit
<1> QED
  BY <1>1, <1>2, <1>3 DEF Inv

\* Pending batches are finitely many; one that is handed out is a new one.
LEMMA PendingFinite ==
  ASSUME TypeOK
  PROVE  /\ IsFiniteSet(pending) /\ Cardinality(pending) \in Nat
         /\ Len(flushed) + 1 \notin pending
<1>1. IsFiniteSet(1..Len(flushed))
  BY FS_Interval DEF TypeOK
<1>2. IsFiniteSet(pending)
  BY <1>1, FS_Subset DEF TypeOK
<1>3. Cardinality(pending) \in Nat
  BY <1>2, FS_CardinalityType
<1> QED
  BY <1>2, <1>3 DEF TypeOK

\* What drain does to a queue within the limits.
LEMMA DrainKeeps ==
  ASSUME Inv, NEW STATE waiting, waiting \in Seq(Nat), Len(waiting) \in 1..MaxBatch,
         current' \in MinBatch..MaxBatch, errorCount' = errorCount,
         Drain(waiting)
  PROVE  /\ queue' \in Seq(Nat) /\ timer' \in BOOLEAN /\ flushCount' \in Nat
         /\ flushed' \in Seq(Seq(Nat)) /\ pending' \subseteq 1..Len(flushed')
         /\ SizerNeverThrows' /\ WaitingHasWindow' /\ BatchWithinLimit'
<1> USE DEF Inv
<1>1. flushed \in Seq(Seq(Nat)) /\ flushed' = Append(flushed, waiting)
  BY DEF Drain, TypeOK
<1>2. flushed' \in Seq(Seq(Nat)) /\ Len(flushed') = Len(flushed) + 1
  BY <1>1
<1>3. pending' \subseteq 1..Len(flushed')
  <2>1. pending \subseteq 1..Len(flushed) /\ Len(flushed) \in Nat
    BY <1>1 DEF TypeOK
  <2>2. pending' = pending \cup {Len(flushed) + 1}
    BY DEF Drain
  <2>3. Len(flushed') = Len(flushed) + 1
    BY <1>2
  <2>4. ASSUME NEW b \in pending' PROVE b \in 1..Len(flushed')
    <3>1. b \in 1..Len(flushed) \/ b = Len(flushed) + 1
      BY <2>1, <2>2
    <3> QED
      BY <3>1, <2>1, <2>3
  <2> QED
    BY <2>4
<1>4. SizerNeverThrows'
  <2>1. Cardinality(pending') = Cardinality(pending) + 1
    BY PendingFinite, FS_AddElement DEF Drain
  <2> QED
    BY <2>1, PendingFinite DEF Drain, SizerNeverThrows, TypeOK
<1>5. BatchWithinLimit'
  <2>1. Len(queue') < current'
    BY ConstantsAssumption DEF Drain
  <2>2. ASSUME NEW b \in DOMAIN flushed' PROVE Len(flushed'[b]) \in 1..MaxBatch
    <3>1. CASE b = Len(flushed) + 1
      BY <1>1, <3>1
    <3>2. CASE b # Len(flushed) + 1
      BY <1>1, <1>2, <3>2 DEF BatchWithinLimit
    <3> QED
      BY <3>1, <3>2
  <2> QED
    BY <2>1, <2>2 DEF BatchWithinLimit
<1>6. queue' \in Seq(Nat) /\ flushCount' \in Nat
  BY DEF Drain, TypeOK
<1>7. WaitingHasWindow' /\ timer' \in BOOLEAN
  BY Zenon DEF Drain, WaitingHasWindow
<1> QED
  BY <1>2, <1>3, <1>4, <1>5, <1>6, <1>7

\* A flush that settles: it is pending no more, and at most it counts as an error.
LEMMA SettleKeeps ==
  ASSUME Inv, NEW b \in pending, pending' = pending \ {b},
         errorCount' \in {errorCount, errorCount + 1},
         UNCHANGED <<received, queue, timer, current, flushCount, flushed>>
  PROVE  Inv'
<1> USE DEF Inv
<1>1. TypeOK'
  BY DEF TypeOK
<1>2. Cardinality(pending') = Cardinality(pending) - 1
  BY PendingFinite, FS_RemoveElement
<1>3. SizerNeverThrows'
  BY <1>2, PendingFinite DEF SizerNeverThrows, TypeOK
<1>4. WaitingHasWindow' /\ BatchWithinLimit'
  BY DEF WaitingHasWindow, BatchWithinLimit
<1> QED
  BY <1>1, <1>3, <1>4

LEMMA EnqueueKeeps ==
  ASSUME Inv, Enqueue PROVE Inv' /\ Shrinks
<1> DEFINE waiting == Append(queue, received + 1)
<1> USE DEF Inv
<1>1. received \in Nat /\ MaxEvents \in Nat /\ received' \in 0..MaxEvents
  BY ConstantsAssumption DEF Enqueue, TypeOK
<1>2. waiting \in Seq(Nat) /\ Len(waiting) = Len(queue) + 1 /\ waiting # <<>>
  <2>1. queue \in Seq(Nat) /\ received + 1 \in Nat
    BY <1>1, ConstantsAssumption DEF TypeOK
  <2> HIDE DEF Inv
  <2> QED
    BY <2>1
<1>3. Len(waiting) \in 1..current /\ current \in MinBatch..MaxBatch
  BY <1>2, ConstantsAssumption DEF BatchWithinLimit, TypeOK
<1>4. current' \in MinBatch..MaxBatch /\ current' <= current
  <2>1. current' = NextBatchSize(current, Len(waiting))
    BY DEF Enqueue
  <2>2. Len(waiting) \in Nat /\ Len(waiting) <= current
    BY <1>3, ConstantsAssumption
  <2> QED
    BY <1>3, <2>1, <2>2, NextBatchSizeInRange
<1>5. errorCount' = errorCount
  BY DEF Enqueue
<1>6. CASE Len(waiting) >= current'
  <2>1. Drain(waiting)
    BY <1>6 DEF Enqueue
  <2>2. Len(waiting) \in 1..MaxBatch
    BY <1>3, ConstantsAssumption
  <2>3. /\ queue' \in Seq(Nat) /\ timer' \in BOOLEAN /\ flushCount' \in Nat
        /\ flushed' \in Seq(Seq(Nat)) /\ pending' \subseteq 1..Len(flushed')
        /\ SizerNeverThrows' /\ WaitingHasWindow' /\ BatchWithinLimit'
    <3> HIDE DEF Inv, waiting
    <3> QED
      BY <1>2, <1>4, <1>5, <2>1, <2>2, DrainKeeps
  <2> QED
    BY <1>1, <1>4, <1>5, <2>3 DEF TypeOK, Shrinks
<1>7. CASE ~(Len(waiting) >= current')
  <2>1. Hold(waiting)
    BY <1>7 DEF Enqueue
  <2>2. TypeOK'
    BY <1>1, <1>2, <1>4, <1>5, <2>1 DEF TypeOK, Hold
  <2>3. SizerNeverThrows'
    BY <1>5, <2>1 DEF SizerNeverThrows, Hold
  <2>4. WaitingHasWindow'
    BY <1>2, <2>1 DEF WaitingHasWindow, Hold
  <2>5. Len(waiting) < current'
    BY <1>2, <1>3, <1>4, <1>7, ConstantsAssumption
  <2>6. BatchWithinLimit'
    BY <2>1, <2>5 DEF BatchWithinLimit, Hold
  <2> QED
    BY <1>4, <2>2, <2>3, <2>4, <2>6 DEF Shrinks
<1> QED
  BY <1>6, <1>7

LEMMA NextKeeps ==
  ASSUME Inv, [Next]_vars PROVE Inv' /\ (Shrinks \/ UNCHANGED vars)
<1>1. CASE Enqueue
  BY <1>1, EnqueueKeeps
<1>2. CASE WindowCloses
  <2>1. queue # <<>> /\ queue \in Seq(Nat) /\ Len(queue) < current /\ current \in MinBatch..MaxBatch
    BY <1>2 DEF WindowCloses, Inv, WaitingHasWindow, BatchWithinLimit, TypeOK
  <2>2. Len(queue) \in 1..MaxBatch
    BY <2>1, ConstantsAssumption
  <2>3. Drain(queue) /\ UNCHANGED <<received, current, errorCount>>
    BY <1>2, <2>1 DEF WindowCloses
  <2>4. /\ queue' \in Seq(Nat) /\ timer' \in BOOLEAN /\ flushCount' \in Nat
        /\ flushed' \in Seq(Seq(Nat)) /\ pending' \subseteq 1..Len(flushed')
        /\ SizerNeverThrows' /\ WaitingHasWindow' /\ BatchWithinLimit'
    BY <2>1, <2>2, <2>3, DrainKeeps
  <2>5. current \in Int /\ current' = current
    BY <2>1, <2>3, ConstantsAssumption
  <2> QED
    BY <2>3, <2>4, <2>5 DEF Inv, TypeOK, Shrinks
<1>3. CASE FlushResolves \/ FlushRejects
  <2>1. PICK b \in pending : pending' = pending \ {b}
    BY <1>3 DEF FlushResolves, FlushRejects
  <2>2. /\ errorCount' \in {errorCount, errorCount + 1}
        /\ UNCHANGED <<received, queue, timer, current, flushCount, flushed>>
    BY <1>3 DEF FlushResolves, FlushRejects
  <2>3. Inv'
    BY <2>1, <2>2, SettleKeeps
  <2>4. current \in Int /\ current' = current
    BY <2>2, ConstantsAssumption DEF Inv, TypeOK
  <2> QED
    BY <2>3, <2>4 DEF Shrinks
<1>4. CASE UNCHANGED vars
  BY <1>4 DEF vars, Inv, TypeOK, SizerNeverThrows, WaitingHasWindow, BatchWithinLimit
<1> QED
  BY <1>1, <1>2, <1>3, <1>4 DEF Next

\* The invariant holds in every reachable state of the batcher.
THEOREM Invariance == Spec => []Inv
<1> QED
  BY InitInv, NextKeeps, PTL DEF Spec

\* Every variable of the batcher keeps the values it may have.
THEOREM TypeCorrect == Spec => []TypeOK
<1>1. Inv => TypeOK
  BY DEF Inv
<1> QED
  BY <1>1, Invariance, PTL

\* The inputs of the sizer are valid at every event (batch-sizer.js:97).
THEOREM SizerNeverThrowsHolds == Spec => []SizerNeverThrows
<1>1. Inv => SizerNeverThrows
  BY DEF Inv
<1> QED
  BY <1>1, Invariance, PTL

\* A queue that is not empty always has a window that will close.
THEOREM WaitingHasWindowHolds == Spec => []WaitingHasWindow
<1>1. Inv => WaitingHasWindow
  BY DEF Inv
<1> QED
  BY <1>1, Invariance, PTL

\* No batch exceeds the limit of a transaction (batcher.ts:12).
THEOREM BatchWithinLimitHolds == Spec => []BatchWithinLimit
<1>1. Inv => BatchWithinLimit
  BY DEF Inv
<1> QED
  BY <1>1, Invariance, PTL

\* The working size never grows, so that scaling up is dead code in the batcher.
THEOREM SizeNeverGrowsHolds == Spec => SizeNeverGrows
<1>1. Inv /\ [Next]_vars => [Shrinks]_vars
  BY NextKeeps
<1> QED
  BY <1>1, Invariance, PTL DEF Spec, SizeNeverGrows
-----------------------------------------------------------------------------
\* EachEventOnce: events that wait in a queue which goes on where the batches
\* ended make a batch that does.
LEMMA DrainKeepsOrder ==
  ASSUME Inv, EachEventOnce, NEW STATE waiting, waiting \in Seq(Nat), Len(waiting) > 0,
         \A i \in DOMAIN waiting : waiting[i] = End(Len(flushed)) + i,
         received' = End(Len(flushed)) + Len(waiting), received' \in Nat,
         Drain(waiting)
  PROVE  EachEventOnce'
<1> USE DEF Inv, TypeOK
<1> DEFINE n == Len(flushed)
           EndNext(b) == IF b = 0 THEN 0 ELSE flushed'[b][Len(flushed'[b])]
<1>1. flushed \in Seq(Seq(Nat)) /\ n \in Nat
  OBVIOUS
<1>2. /\ Len(flushed') = n + 1 /\ flushed'[n + 1] = waiting
      /\ \A b \in 1..n : flushed'[b] = flushed[b]
      /\ DOMAIN flushed' = 1..n + 1
  BY <1>1 DEF Drain
<1>3. queue' = <<>>
  BY DEF Drain
<1>4. \A b \in 0..n : EndNext(b) = End(b)
  BY <1>1, <1>2 DEF End
<1>5. EndNext(n + 1) = End(n) + Len(waiting)
  <2>1. Len(waiting) \in DOMAIN waiting
    OBVIOUS
  <2>2. waiting[Len(waiting)] = End(n) + Len(waiting)
    BY <2>1
  <2> QED BY <1>1, <1>2, <2>2 DEF End
<1>6. ASSUME NEW b \in DOMAIN flushed', NEW i \in DOMAIN flushed'[b]
      PROVE  flushed'[b][i] = EndNext(b - 1) + i
  <2>1. CASE b = n + 1
    <3>1. EndNext(b - 1) = End(n)
      BY <1>1, <1>4, <2>1
    <3> QED BY <1>2, <1>6, <2>1, <3>1
  <2>2. CASE b # n + 1
    <3>1. b \in 1..n /\ b - 1 \in 0..n
      BY <1>1, <1>2, <2>2
    <3>2. flushed'[b] = flushed[b] /\ EndNext(b - 1) = End(b - 1)
      BY <1>2, <1>4, <3>1
    <3>3. b \in DOMAIN flushed /\ i \in DOMAIN flushed[b]
      BY <1>1, <1>6, <3>1, <3>2
    <3> QED BY <3>2, <3>3 DEF EachEventOnce
  <2> QED BY <2>1, <2>2
<1>7. \A i \in DOMAIN queue' : queue'[i] = EndNext(Len(flushed')) + i
  BY <1>3
<1>8. received' = EndNext(Len(flushed')) + Len(queue')
  <2>1. EndNext(Len(flushed')) = End(n) + Len(waiting)
    BY <1>2, <1>5
  <2>2. Len(queue') = 0
    BY <1>3
  <2> QED BY <2>1, <2>2
<1> QED BY <1>6, <1>7, <1>8 DEF EachEventOnce, End

\* Batches are not empty, so that the last event of each is a number.
LEMMA EndIsNatural ==
  ASSUME Inv PROVE End(Len(flushed)) \in Nat
<1>1. CASE Len(flushed) = 0
  BY <1>1 DEF End
<1>2. CASE Len(flushed) # 0
  <2>1. Len(flushed) \in DOMAIN flushed /\ flushed \in Seq(Seq(Nat))
    BY <1>2 DEF Inv, TypeOK
  <2>2. flushed[Len(flushed)] \in Seq(Nat) /\ Len(flushed[Len(flushed)]) > 0
    BY <2>1 DEF Inv, BatchWithinLimit
  <2> QED BY <1>2, <2>2 DEF End
<1> QED BY <1>1, <1>2

\* A step that leaves the events where they are.
LEMMA StayKeepsOrder ==
  ASSUME Inv, EachEventOnce, UNCHANGED <<received, queue, flushed>>
  PROVE  EachEventOnce'
BY DEF EachEventOnce, End

LEMMA EnqueueKeepsOrder ==
  ASSUME Inv, EachEventOnce, Enqueue
  PROVE  EachEventOnce'
<1> DEFINE waiting == Append(queue, received + 1)
           last == End(Len(flushed))
<1>1. queue \in Seq(Nat) /\ received \in Nat /\ received' = received + 1 /\ last \in Nat
  BY ConstantsAssumption, EndIsNatural DEF Inv, TypeOK, Enqueue
<1>2. waiting \in Seq(Nat) /\ Len(waiting) = Len(queue) + 1
  BY <1>1
<1>3. received = last + Len(queue) /\ \A i \in DOMAIN queue : queue[i] = last + i
  BY DEF EachEventOnce
<1>4. \A i \in DOMAIN waiting : waiting[i] = last + i
  <2> SUFFICES ASSUME NEW i \in DOMAIN waiting PROVE waiting[i] = last + i
    OBVIOUS
  <2>1. CASE i \in DOMAIN queue
    BY <1>1, <1>3, <2>1
  <2>2. CASE i = Len(queue) + 1
    BY <1>1, <1>3, <2>2
  <2> QED BY <1>1, <1>2, <2>1, <2>2
<1>5. received' = last + Len(waiting) /\ received' \in Nat /\ Len(waiting) > 0
  BY <1>1, <1>2, <1>3
<1>6. CASE Drain(waiting)
  <2> HIDE DEF waiting
  <2> QED BY <1>2, <1>4, <1>5, <1>6, DrainKeepsOrder
<1>7. CASE Hold(waiting)
  <2>1. queue' = waiting /\ flushed' = flushed
    BY <1>7 DEF Hold
  <2>2. \A i \in DOMAIN queue' : queue'[i] = last + i
    BY <1>4, <2>1
  <2>3. received' = last + Len(queue')
    BY <1>5, <2>1
  <2> HIDE DEF waiting
  <2> QED BY <2>1, <2>2, <2>3 DEF EachEventOnce, End
<1> QED BY <1>6, <1>7 DEF Enqueue

LEMMA WindowKeepsOrder ==
  ASSUME Inv, EachEventOnce, WindowCloses
  PROVE  EachEventOnce'
<1>1. queue # <<>> /\ queue \in Seq(Nat) /\ received' = received /\ received \in Nat
  BY ConstantsAssumption DEF WindowCloses, Inv, TypeOK, WaitingHasWindow
<1>2. Drain(queue) /\ Len(queue) > 0
  BY <1>1 DEF WindowCloses
<1> QED BY <1>1, <1>2, DrainKeepsOrder DEF EachEventOnce

\* Each event is in exactly one batch or waits, in the order of arrival
\* (batcher.ts:33-41, 54-57).
THEOREM EachEventOnceHolds == Spec => []EachEventOnce
<1>1. Init => EachEventOnce
  BY DEF Init, EachEventOnce, End
<1>2. Inv /\ EachEventOnce /\ [Next]_vars => EachEventOnce'
  <2> SUFFICES ASSUME Inv, EachEventOnce, [Next]_vars PROVE EachEventOnce'
    OBVIOUS
  <2>1. CASE Enqueue
    BY <2>1, EnqueueKeepsOrder
  <2>2. CASE WindowCloses
    BY <2>2, WindowKeepsOrder
  <2>3. CASE FlushResolves \/ FlushRejects \/ UNCHANGED vars
    <3>1. UNCHANGED <<received, queue, flushed>>
      BY <2>3 DEF FlushResolves, FlushRejects, vars
    <3> QED BY <3>1, StayKeepsOrder
  <2> QED BY <2>1, <2>2, <2>3 DEF Next
<1> QED BY <1>1, <1>2, Invariance, PTL DEF Spec
=============================================================================
