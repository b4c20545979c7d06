---------------------------- MODULE EventBatcher ----------------------------
(***************************************************************************)
(* The windowed event batcher (queue/batcher.ts) with its adaptive sizer   *)
(* (services/batch-sizer.js).  Events gather in a queue until a window     *)
(* closes or the queue reaches the working batch size; the whole queue is  *)
(* then handed to flush.  A flush that rejects is counted and logged, its  *)
(* events are not queued again.                                            *)
(*                                                                         *)
(* Events are numbered in the order they arrive; flush is external: the    *)
(* promise it returns resolves or rejects, in any order, at any time.      *)
(***************************************************************************)
EXTENDS Integers, FiniteSets, Sequences, SequencesExt

CONSTANTS
  MinBatch, MaxBatch, DefaultSize, ScaleUpStep,
  ThresholdNum, ThresholdDen,  \* errorThreshold, as a fraction
  MaxEvents                    \* bound: events that arrive

ASSUME ConstantsAssumption ==
  /\ MinBatch \in Nat \ {0} /\ MaxBatch \in Nat
  /\ DefaultSize \in MinBatch..MaxBatch
  /\ ScaleUpStep \in Nat
  /\ ThresholdNum \in Nat /\ ThresholdDen \in Nat \ {0}
  /\ MaxEvents \in Nat

VARIABLES
  received,               \* events enqueued so far
  queue,                  \* those that wait
  timer,                  \* the window timer is set
  current,                \* BatchSizer._current
  flushCount, errorCount,
  flushed,                \* every batch handed to flush, in order
  pending                 \* those of them (by number) that are not settled

vars == <<received, queue, timer, current, flushCount, errorCount, flushed, pending>>

Init == /\ received = 0
        /\ queue = <<>>
        /\ timer = FALSE
        /\ current = DefaultSize
        /\ flushCount = 0
        /\ errorCount = 0
        /\ flushed = <<>>
        /\ pending = {}
-----------------------------------------------------------------------------
\* The sizer

\* No flush yet is an error rate of zero: both sides are zero then.
ErrorRateHigh == errorCount * ThresholdDen > ThresholdNum * flushCount

Lesser(a, b) == IF a < b THEN a ELSE b
Greater(a, b) == IF a > b THEN a ELSE b

NextBatchSize(size, depth) ==
  IF ErrorRateHigh THEN Greater(MinBatch, size \div 2)
  ELSE IF depth > size THEN Lesser(MaxBatch, size + ScaleUpStep)
  ELSE size
-----------------------------------------------------------------------------
\* The batcher

\* mutant: at most a batch is taken, the rest waits with the timer cleared
DrainSome(waiting) ==
  /\ queue' = SubSeq(waiting, current' + 1, Len(waiting))
  /\ timer' = FALSE
  /\ flushCount' = flushCount + 1
  /\ flushed' = Append(flushed, SubSeq(waiting, 1, Lesser(current', Len(waiting))))
  /\ pending' = pending \cup {Len(flushed) + 1}

\* mutant: the batch is copied (slice for splice)
DrainCopies(waiting) ==
  /\ queue' = waiting
  /\ timer' = FALSE
  /\ flushCount' = flushCount + 1
  /\ flushed' = Append(flushed, waiting)
  /\ pending' = pending \cup {Len(flushed) + 1}

\* drain(): the whole queue, whatever the working size is by now.
Drain(waiting) ==
  /\ queue' = <<>>
  /\ timer' = FALSE
  /\ flushCount' = flushCount + 1
  /\ flushed' = Append(flushed, waiting)
  /\ pending' = pending \cup {Len(flushed) + 1}

Hold(waiting) ==
  /\ queue' = waiting
  /\ timer' = TRUE
  /\ UNCHANGED <<flushCount, flushed, pending>>

\* mutant: the limit of the batch is tested in place of the working size
EnqueueUndrained ==
  LET waiting == Append(queue, received + 1) IN
  /\ received < MaxEvents
  /\ received' = received + 1
  /\ current' = NextBatchSize(current, Len(waiting))
  /\ IF Len(waiting) > MaxBatch THEN Drain(waiting) ELSE Hold(waiting)
  /\ UNCHANGED errorCount

Enqueue ==
  LET waiting == Append(queue, received + 1) IN
  /\ received < MaxEvents
  /\ received' = received + 1
  /\ current' = NextBatchSize(current, Len(waiting))
  /\ IF Len(waiting) >= current' THEN Drain(waiting) ELSE Hold(waiting)
  /\ UNCHANGED errorCount

\* The window closes: setTimeout(() => this.drain(), WINDOW_MS).
WindowCloses ==
  /\ timer
  /\ UNCHANGED <<received, current, errorCount>>
  /\ IF queue = <<>>
     THEN timer' = FALSE /\ UNCHANGED <<queue, flushCount, flushed, pending>>
     ELSE Drain(queue)

FlushResolves ==
  /\ \E b \in pending : pending' = pending \ {b}
  /\ UNCHANGED <<received, queue, timer, current, flushCount, errorCount, flushed>>

\* mutant: a rejection is counted for every event of its batch
RejectsPerEvent ==
  /\ \E b \in pending : /\ pending' = pending \ {b}
                        /\ errorCount' = errorCount + Len(flushed[b])
  /\ UNCHANGED <<received, queue, timer, current, flushCount, flushed>>

FlushRejects ==
  /\ \E b \in pending : pending' = pending \ {b}
  /\ errorCount' = errorCount + 1
  /\ UNCHANGED <<received, queue, timer, current, flushCount, flushed>>

Next == Enqueue \/ WindowCloses \/ FlushResolves \/ FlushRejects

Spec == Init /\ [][Next]_vars

\* A timer that is set fires.  Nothing is assumed of events and flushes.
FairSpec == Spec /\ WF_vars(WindowCloses)
-----------------------------------------------------------------------------
\* Properties

\* Every variable has the values it may have.
TypeOK ==
  /\ received \in 0..MaxEvents
  /\ queue \in Seq(Nat)
  /\ timer \in BOOLEAN
  /\ current \in MinBatch..MaxBatch
  /\ flushCount \in Nat /\ errorCount \in Nat
  /\ flushed \in Seq(Seq(Nat))
  /\ pending \subseteq 1..Len(flushed)

\* The validation of the sizer (batch-sizer.js:84, 97) never throws in enqueue:
\* with every flush still out counted as a success, errors never outnumber
\* flushes, whatever the order in which flushes settle.
SizerNeverThrows == errorCount + Cardinality(pending) <= flushCount

\* Events wait exactly while a window is open: drain clears the timer, and the
\* next event must find it cleared (batcher.ts:35-36, 50-53).
WaitingHasWindow == timer <=> queue # <<>>

\* The sizer may halve the working size under a queue that is nearly full, and
\* drain takes all of it; a batch is within the limit of operations all the same
\* (batcher.ts:12, 55).
BatchWithinLimit ==
  /\ Len(queue) < current
  /\ \A b \in DOMAIN flushed : Len(flushed[b]) \in 1..MaxBatch

\* The number of the last event in the first b batches.
End(b) == IF b = 0 THEN 0 ELSE flushed[b][Len(flushed[b])]

\* Every event is handed to flush once, in the order of arrival, or waits: each
\* batch, and the queue after them, goes on where the one before ended
\* (batcher.ts:33-41, 54-57).
EachEventOnce ==
  /\ \A b \in DOMAIN flushed : \A i \in DOMAIN flushed[b] : flushed[b][i] = End(b - 1) + i
  /\ \A i \in DOMAIN queue : queue[i] = End(Len(flushed)) + i
  /\ received = End(Len(flushed)) + Len(queue)

\* batcher.ts:9, of the sizer: it "scales it up when the queue is deep", and
\* test.js:37, of 50 events enqueued at once where the default size is 10: "adaptive
\* sizer scales up under queue pressure".  A burst of five default batches, each
\* filled before its window closes and none rejected, leaves a larger working size.
Burst == received >= 5 * DefaultSize /\ \A b \in DOMAIN flushed : Len(flushed[b]) >= DefaultSize
ScalesUpUnderPressure == Burst /\ errorCount = 0 => current > DefaultSize

\* What the code does instead: the working size never grows.  A queue is drained
\* when it reaches the size, so that the sizer never sees one that is deeper
\* (batcher.ts:38-41, batch-sizer.js:104).
Shrinks == current' <= current
SizeNeverGrows == [][Shrinks]_vars

\* No event waits for another one to arrive: each is handed to flush.
EventFlushed ==
  \A e \in 1..MaxEvents : (received >= e) ~> (\E b \in DOMAIN flushed : e \in Range(flushed[b]))
=============================================================================
