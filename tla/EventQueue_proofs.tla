-------------------------- MODULE EventQueue_proofs --------------------------
(***************************************************************************)
(* Proofs about EventQueue, for any deliveries, jobs, workers and slots,   *)
(* any number of attempts and tolerated stalls, and every fault.           *)
(***************************************************************************)
EXTENDS EventQueue, FiniteSetTheorems, TLAPS

\* TypeOK, but for the bounds of the two counters.
Types ==
  /\ accepted \subseteq Delivery
  /\ state \in [Job -> {"absent"} \cup Pending \cup Finished]
  /\ usable \subseteq Job
  /\ failures \in [Job -> Nat]
  /\ stalls \in [Job -> Nat]
  /\ owner \in [Job -> Slot \cup {NoSlot}]
  /\ proc \in [Worker -> {"running", "closing", "down"}]
  /\ job \in [Slot -> Job \cup {NoJob}]
  /\ stage \in [Slot -> {"idle", "start", "submit"} \cup Outcome]
  /\ number \in [Slot -> Nat]
  /\ sent \in [Job -> Nat]
  /\ inflight \subseteq Job \X Nat
  /\ onchain \subseteq Job \X Nat

\* Exactly the active jobs are locked.  A slot has a job while it is not idle, and
\* unless that job has stalled the slot holds its lock.
Locks ==
  /\ \A j \in Job : owner[j] # NoSlot <=> state[j] = "active"
  /\ \A s \in Slot : stage[s] = "idle" <=> job[s] = NoJob
  /\ \A s \in Slot : job[s] # NoJob =>
       state[job[s]] # "absent" /\ (stalls[job[s]] = 0 => owner[job[s]] = s)

\* The counters reach their limits only where a job fails.
Counters ==
  \A j \in Job :
    /\ state[j] = "absent" => failures[j] = 0 /\ stalls[j] = 0 /\ sent[j] = 0
    /\ state[j] # "failed" => failures[j] < Attempts /\ stalls[j] <= MaxStalled
    /\ state[j] = "failed" => \/ failures[j] <= Attempts /\ stalls[j] <= MaxStalled
                              \/ failures[j] < Attempts /\ stalls[j] = MaxStalled + 1

\* An acknowledged broadcast is on the ledger, and stays while the job is known.
Ledger ==
  /\ \A s \in Slot : stage[s] = "ok" => <<job[s], number[s]>> \in onchain
  /\ \A j \in Job : state[j] = "completed" => Of(onchain, j) # {}

\* Nothing is sent of a job without a usable payload; its first processing fails it.
Payloads ==
  /\ \A s \in Slot : /\ stage[s] \in {"submit", "ok", "error"} => job[s] \in usable
                     /\ stage[s] = "unrecoverable" => job[s] \notin usable
  /\ \A j \in Job : j \notin usable =>
       sent[j] = 0 /\ (state[j] # "failed" => failures[j] = 0)

Inv == Types /\ Locks /\ Counters /\ Ledger /\ Payloads

\* A slot that processes has a job.
LEMMA Processing ==
  ASSUME Types, Locks, NEW s \in Slot, stage[s] # "idle"
  PROVE  job[s] \in Job
BY DEF Types, Locks

LEMMA InitInv == Init => Inv /\ GivenUpOnlyExhausted
<1> SUFFICES ASSUME Init PROVE Inv /\ GivenUpOnlyExhausted
  OBVIOUS
<1> USE ConstantsAssumption DEF Init
<1>1. Types
  BY DEF Types, Pending, Finished, Outcome
<1>2. Locks /\ Counters
  BY DEF Locks, Counters
<1>3. Ledger /\ Payloads /\ GivenUpOnlyExhausted
  BY DEF Ledger, Payloads, GivenUpOnlyExhausted
<1> QED BY <1>1, <1>2, <1>3 DEF Inv

\* Every step keeps the types.
LEMMA TypesStep ==
  ASSUME Types, Locks, [Next]_vars
  PROVE  Types'
<1> USE ConstantsAssumption DEF Types, Pending, Finished, Outcome, queue, slots, chain
<1>1. ASSUME NEW d \in Delivery, Deliver(d) PROVE Types'
  BY <1>1 DEF Deliver, Enqueue, Keep
<1>2. ASSUME NEW s \in Slot, NEW j \in Job, Take(s, j) PROVE Types'
  BY <1>2 DEF Take
<1>3. ASSUME NEW s \in Slot, Reject(s) PROVE Types'
  BY <1>3 DEF Reject
<1>4. ASSUME NEW s \in Slot, Broadcast(s) PROVE Types'
  <2>1. job[s] \in Job
    BY <1>4, Processing DEF Broadcast
  <2> QED BY <2>1, <1>4 DEF Broadcast
<1>5. ASSUME NEW s \in Slot, BroadcastSettles(s) PROVE Types'
  BY <1>5 DEF BroadcastSettles
<1>6. ASSUME NEW s \in Slot, Move(s) PROVE Types'
  <2>1. job[s] \in Job
    BY <1>6, Processing DEF Move
  <2> QED BY <2>1, <1>6 DEF Move
<1>7. ASSUME NEW j \in Job, Promote(j) PROVE Types'
  BY <1>7 DEF Promote
<1>8. ASSUME NEW j \in Job, Expired(j) PROVE Types'
  BY <1>8 DEF Expired
<1>9. ASSUME NEW j \in Job, Forget(j) PROVE Types'
  BY <1>9 DEF Forget
<1>10. ASSUME NEW tx \in inflight, Apply(tx) \/ Drop(tx) PROVE Types'
  BY <1>10 DEF Apply, Drop
<1>11. ASSUME NEW w \in Worker, Shutdown(w) \/ Exit(w) \/ Restart(w) PROVE Types'
  BY <1>11 DEF Shutdown, Exit, Restart
<1>12. ASSUME NEW w \in Worker, Crash(w) PROVE Types'
  BY <1>12 DEF Crash
<1>13. CASE UNCHANGED vars
  BY <1>13 DEF vars
<1> QED BY <1>1, <1>2, <1>3, <1>4, <1>5, <1>6, <1>7, <1>8, <1>9, <1>10, <1>11, <1>12, <1>13
        DEF Next, Process, Stall, Overrun

\* Every step keeps the locks with those who hold them.
LEMMA LocksStep ==
  ASSUME Types, Locks, [Next]_vars
  PROVE  Locks'
<1> USE ConstantsAssumption DEF Types, Locks, Pending, Finished, Outcome, queue, slots, chain
<1>1. ASSUME NEW d \in Delivery, Deliver(d) PROVE Locks'
  BY <1>1 DEF Deliver, Enqueue
<1>2. ASSUME NEW s \in Slot, NEW j \in Job, Take(s, j) PROVE Locks'
  BY <1>2 DEF Take
<1>3. ASSUME NEW s \in Slot, Reject(s) PROVE Locks'
  BY <1>3 DEF Reject
<1>4. ASSUME NEW s \in Slot, Broadcast(s) PROVE Locks'
  BY <1>4 DEF Broadcast
<1>5. ASSUME NEW s \in Slot, BroadcastSettles(s) PROVE Locks'
  BY <1>5 DEF BroadcastSettles
<1>6. ASSUME NEW s \in Slot, Move(s) PROVE Locks'
  <2>1. job[s] \in Job
    BY <1>6, Processing DEF Move
  <2>2. CASE owner[job[s]] = s
    BY <2>1, <2>2, <1>6 DEF Move
  <2>3. CASE owner[job[s]] # s
    BY <2>1, <2>3, <1>6 DEF Move
  <2> QED BY <2>2, <2>3
<1>7. ASSUME NEW j \in Job, Promote(j) PROVE Locks'
  BY <1>7 DEF Promote
<1>8. ASSUME NEW j \in Job, Expired(j) PROVE Locks'
  BY <1>8 DEF Expired
<1>9. ASSUME NEW j \in Job, Forget(j) PROVE Locks'
  BY <1>9 DEF Forget, Removable
<1>10. ASSUME NEW tx \in inflight, Apply(tx) \/ Drop(tx) PROVE Locks'
  BY <1>10 DEF Apply, Drop
<1>11. ASSUME NEW w \in Worker, Shutdown(w) \/ Exit(w) \/ Restart(w) PROVE Locks'
  BY <1>11 DEF Shutdown, Exit, Restart
<1>12. ASSUME NEW w \in Worker, Crash(w) PROVE Locks'
  BY <1>12 DEF Crash
<1>13. CASE UNCHANGED vars
  BY <1>13 DEF vars
<1> QED BY <1>1, <1>2, <1>3, <1>4, <1>5, <1>6, <1>7, <1>8, <1>9, <1>10, <1>11, <1>12, <1>13
        DEF Next, Process, Stall, Overrun

\* What a step does to a job's counters, to what is sent, and to its payload.
LEMMA CountersStep ==
  ASSUME Inv, [Next]_vars
  PROVE  Counters'
<1> USE ConstantsAssumption
    DEF Inv, Types, Counters, Pending, Finished, Outcome, queue, slots, chain
<1>1. ASSUME NEW d \in Delivery, Deliver(d) PROVE Counters'
  BY <1>1 DEF Deliver, Enqueue
<1>2. ASSUME NEW s \in Slot, NEW j \in Job, Take(s, j) PROVE Counters'
  BY <1>2 DEF Take
<1>3. ASSUME NEW s \in Slot, Broadcast(s) PROVE Counters'
  <2>1. job[s] \in Job /\ state[job[s]] # "absent"
    BY <1>3, Processing DEF Broadcast, Locks
  <2> QED BY <2>1, <1>3 DEF Broadcast
<1>4. ASSUME NEW s \in Slot, Move(s) PROVE Counters'
  <2>1. job[s] \in Job
    BY <1>4, Processing DEF Move
  <2>2. CASE owner[job[s]] = s
    <3>1. state[job[s]] = "active"
      BY <2>1, <2>2 DEF Locks
    <3>2. failures[job[s]] < Attempts /\ stalls[job[s]] <= MaxStalled
      BY <2>1, <3>1
    <3> QED BY <2>1, <2>2, <3>1, <3>2, <1>4 DEF Move, Retry
  <2>3. CASE owner[job[s]] # s
    BY <2>1, <2>3, <1>4 DEF Move
  <2> QED BY <2>2, <2>3
<1>5. ASSUME NEW j \in Job, Promote(j) PROVE Counters'
  BY <1>5 DEF Promote
<1>6. ASSUME NEW j \in Job, Expired(j) PROVE Counters'
  BY <1>6 DEF Expired
<1>7. ASSUME NEW j \in Job, Forget(j) PROVE Counters'
  BY <1>7 DEF Forget
<1>8. ASSUME UNCHANGED <<state, failures, stalls, sent>> PROVE Counters'
  BY <1>8
<1>9. ASSUME \/ \E s \in Slot : Reject(s) \/ BroadcastSettles(s)
             \/ \E tx \in inflight : Apply(tx) \/ Drop(tx)
             \/ \E w \in Worker : Shutdown(w) \/ Exit(w) \/ Crash(w) \/ Restart(w)
             \/ UNCHANGED vars
      PROVE  UNCHANGED <<state, failures, stalls, sent>>
  BY <1>9 DEF Reject, BroadcastSettles, Apply, Drop, Shutdown, Exit, Crash, Restart, vars
<1> QED BY <1>1, <1>2, <1>3, <1>4, <1>5, <1>6, <1>7, <1>8, <1>9
        DEF Next, Process, Stall, Overrun

\* Only an acknowledged broadcast completes a job, and a retained job's
\* transactions are not forgotten.
LEMMA LedgerStep ==
  ASSUME Inv, [Next]_vars
  PROVE  Ledger'
<1> USE ConstantsAssumption
    DEF Inv, Types, Ledger, Pending, Finished, Outcome, queue, slots, chain, Of
<1>1. ASSUME NEW d \in Delivery, Deliver(d) PROVE Ledger'
  BY <1>1 DEF Deliver, Enqueue
<1>2. ASSUME NEW s \in Slot, NEW j \in Job, Take(s, j) PROVE Ledger'
  BY <1>2 DEF Take
<1>3. ASSUME NEW s \in Slot, Reject(s) PROVE Ledger'
  BY <1>3 DEF Reject
<1>4. ASSUME NEW s \in Slot, Broadcast(s) PROVE Ledger'
  BY <1>4 DEF Broadcast
<1>5. ASSUME NEW s \in Slot, BroadcastSettles(s) PROVE Ledger'
  BY <1>5 DEF BroadcastSettles, Acknowledged
<1>6. ASSUME NEW s \in Slot, Move(s) PROVE Ledger'
  <2>1. job[s] \in Job
    BY <1>6, Processing DEF Move
  <2>2. stage[s] = "ok" => Of(onchain, job[s]) # {}
    <3> DEFINE tx == <<job[s], number[s]>>
    <3>1. stage[s] = "ok" => tx \in onchain
      OBVIOUS
    <3>2. tx[1] = job[s]
      OBVIOUS
    <3> HIDE DEF tx
    <3> QED BY <3>1, <3>2 DEF Of
  <2>3. CASE owner[job[s]] = s
    BY <2>1, <2>2, <2>3, <1>6 DEF Move
  <2>4. CASE owner[job[s]] # s
    BY <2>1, <2>4, <1>6 DEF Move
  <2> QED BY <2>3, <2>4
<1>7. ASSUME NEW j \in Job, Promote(j) PROVE Ledger'
  BY <1>7 DEF Promote
<1>8. ASSUME NEW j \in Job, Expired(j) PROVE Ledger'
  BY <1>8 DEF Expired
<1>9. ASSUME NEW j \in Job, Forget(j) PROVE Ledger'
  BY <1>9 DEF Forget
<1>10. ASSUME NEW tx \in inflight, Apply(tx) \/ Drop(tx) PROVE Ledger'
  BY <1>10 DEF Apply, Drop
<1>11. ASSUME NEW w \in Worker, Shutdown(w) \/ Exit(w) \/ Restart(w) PROVE Ledger'
  BY <1>11 DEF Shutdown, Exit, Restart
<1>12. ASSUME NEW w \in Worker, Crash(w) PROVE Ledger'
  BY <1>12 DEF Crash
<1>13. CASE UNCHANGED vars
  BY <1>13 DEF vars
<1> QED BY <1>1, <1>2, <1>3, <1>4, <1>5, <1>6, <1>7, <1>8, <1>9, <1>10, <1>11, <1>12, <1>13
        DEF Next, Process, Stall, Overrun

\* A payload is replaced only while Redis does not know the job, when no slot
\* has it; so what a slot found out about it stays true.
LEMMA PayloadsStep ==
  ASSUME Inv, [Next]_vars
  PROVE  Payloads'
<1> USE ConstantsAssumption
    DEF Inv, Types, Payloads, Pending, Finished, Outcome, queue, slots, chain
<1>1. ASSUME NEW d \in Delivery, Deliver(d) PROVE Payloads'
  <2> DEFINE k == JobOf[d]
  <2>1. CASE state[k] = "absent"
    <3>1. \A s \in Slot : stage[s] # "idle" => job[s] # k /\ job[s] \in Job
      BY <2>1, Processing DEF Locks
    <3>2. sent[k] = 0 /\ failures[k] = 0
      BY <2>1 DEF Counters
    <3>3. \A j \in Job : j # k => (j \in usable' <=> j \in usable)
      BY <1>1 DEF Deliver, Keep
    <3>4. state' = [state EXCEPT ![k] = "waiting"] /\ UNCHANGED <<failures, sent, slots>>
      BY <1>1, <2>1 DEF Deliver, Enqueue
    <3> QED BY <3>1, <3>2, <3>3, <3>4
  <2>2. CASE state[k] # "absent"
    BY <1>1, <2>2 DEF Deliver, Enqueue, Keep
  <2> QED BY <2>1, <2>2
<1>2. ASSUME NEW s \in Slot, NEW j \in Job, Take(s, j) PROVE Payloads'
  BY <1>2 DEF Take
<1>3. ASSUME NEW s \in Slot, Reject(s) PROVE Payloads'
  BY <1>3 DEF Reject
<1>4. ASSUME NEW s \in Slot, Broadcast(s) PROVE Payloads'
  BY <1>4 DEF Broadcast
<1>5. ASSUME NEW s \in Slot, BroadcastSettles(s) PROVE Payloads'
  BY <1>5 DEF BroadcastSettles
<1>6. ASSUME NEW s \in Slot, Move(s) PROVE Payloads'
  <2>1. job[s] \in Job
    BY <1>6, Processing DEF Move
  <2>2. stage[s] = "unrecoverable" <=> job[s] \notin usable
    BY <1>6 DEF Move
  <2>3. CASE owner[job[s]] = s
    BY <2>1, <2>2, <2>3, <1>6 DEF Move, Retry
  <2>4. CASE owner[job[s]] # s
    BY <2>1, <2>4, <1>6 DEF Move
  <2> QED BY <2>3, <2>4
<1>7. ASSUME NEW j \in Job, Promote(j) PROVE Payloads'
  BY <1>7 DEF Promote
<1>8. ASSUME NEW j \in Job, Expired(j) PROVE Payloads'
  BY <1>8 DEF Expired
<1>9. ASSUME NEW j \in Job, Forget(j) PROVE Payloads'
  BY <1>9 DEF Forget
<1>10. ASSUME NEW tx \in inflight, Apply(tx) \/ Drop(tx) PROVE Payloads'
  BY <1>10 DEF Apply, Drop
<1>11. ASSUME NEW w \in Worker, Shutdown(w) \/ Exit(w) \/ Restart(w) PROVE Payloads'
  BY <1>11 DEF Shutdown, Exit, Restart
<1>12. ASSUME NEW w \in Worker, Crash(w) PROVE Payloads'
  BY <1>12 DEF Crash
<1>13. CASE UNCHANGED vars
  BY <1>13 DEF vars
<1> QED BY <1>1, <1>2, <1>3, <1>4, <1>5, <1>6, <1>7, <1>8, <1>9, <1>10, <1>11, <1>12, <1>13
        DEF Next, Process, Stall, Overrun

LEMMA InvStep ==
  ASSUME Inv, [Next]_vars
  PROVE  Inv'
BY TypesStep, LocksStep, CountersStep, LedgerStep, PayloadsStep DEF Inv

\* The invariant holds in every reachable state.
THEOREM InvHolds == Spec => []Inv
<1>1. Init => Inv
  BY InitInv
<1>2. Inv /\ [Next]_vars => Inv'
  BY InvStep
<1> QED BY <1>1, <1>2, PTL DEF Spec

\* The variables have their types, and the two counters their limits: no job
\* fails more often than DEFAULT_JOB_OPTIONS.attempts says.
THEOREM TypeCorrect == Spec => []TypeOK
<1>1. Inv => TypeOK
  <2> SUFFICES ASSUME Inv PROVE TypeOK
    OBVIOUS
  <2>1. \A j \in Job : failures[j] \in 0..Attempts /\ stalls[j] \in 0..MaxStalled + 1
    BY ConstantsAssumption DEF Inv, Types, Counters
  <2> QED BY <2>1 DEF Inv, Types, TypeOK
<1> QED BY <1>1, InvHolds, PTL

\* A completed job is on the ledger (event-worker.js:50-66).
THEOREM CompletedIsRegisteredHolds == Spec => []CompletedIsRegistered
<1>1. Inv => CompletedIsRegistered
  BY DEF Inv, Ledger, CompletedIsRegistered
<1> QED BY <1>1, InvHolds, PTL

\* Two slots have one job only after a stall (event-queue.js:143-150).
THEOREM OneProcessingUnlessStalledHolds == Spec => []OneProcessingUnlessStalled
<1>1. Inv => OneProcessingUnlessStalled
  <2> SUFFICES ASSUME Inv, NEW s \in Slot, NEW t \in Slot, s # t, job[s] = job[t],
                      job[s] # NoJob, ~(stalls[job[s]] > 0)
               PROVE  FALSE
    BY DEF OneProcessingUnlessStalled
  <2>1. job[s] \in Job /\ stalls[job[s]] = 0
    BY DEF Inv, Types
  <2>2. owner[job[s]] = s /\ owner[job[t]] = t
    BY <2>1 DEF Inv, Locks
  <2> QED BY <2>2
<1> QED BY <1>1, InvHolds, PTL

\* GivenUpOnlyExhausted is kept: whichever step fails a job, its payload, its
\* errors and its stalls are as the property says.
LEMMA GivenUpStep ==
  ASSUME Inv, GivenUpOnlyExhausted, [Next]_vars
  PROVE  GivenUpOnlyExhausted'
<1> USE ConstantsAssumption
    DEF Inv, Types, GivenUpOnlyExhausted, Pending, Finished, Outcome, queue, slots, chain
<1>1. ASSUME NEW d \in Delivery, Deliver(d) PROVE GivenUpOnlyExhausted'
  BY <1>1 DEF Deliver, Enqueue, Keep
<1>2. ASSUME NEW s \in Slot, NEW j \in Job, Take(s, j) PROVE GivenUpOnlyExhausted'
  BY <1>2 DEF Take
<1>3. ASSUME NEW s \in Slot, Broadcast(s) PROVE GivenUpOnlyExhausted'
  BY <1>3 DEF Broadcast
<1>4. ASSUME NEW s \in Slot, Move(s) PROVE GivenUpOnlyExhausted'
  <2>1. job[s] \in Job
    BY <1>4, Processing DEF Move
  <2>2. CASE owner[job[s]] = s
    <3>1. state[job[s]] = "active"
      BY <2>1, <2>2 DEF Locks
    <3>2. failures[job[s]] < Attempts
      BY <2>1, <3>1 DEF Counters
    <3>3. CASE stage[s] = "ok"
      BY <2>1, <2>2, <3>3, <1>4 DEF Move
    <3>4. CASE stage[s] = "error"
      <4>1. job[s] \in usable
        BY <3>4 DEF Payloads
      <4>2. ~Retry(s) => failures[job[s]] + 1 = Attempts
        BY <2>1, <3>2, <3>4 DEF Retry
      <4>3. failures'[job[s]] = failures[job[s]] + 1 /\ usable' = usable
        BY <2>1, <2>2, <3>4, <1>4 DEF Move
      <4>4. state'[job[s]] = "failed" => failures'[job[s]] = Attempts
        BY <2>1, <2>2, <3>4, <4>2, <4>3, <1>4 DEF Move
      <4>5. ASSUME NEW j \in Job, j # job[s]
            PROVE  state'[j] = state[j] /\ failures'[j] = failures[j]
                   /\ stalls'[j] = stalls[j] /\ sent'[j] = sent[j]
        BY <4>5, <1>4 DEF Move
      <4> QED BY <4>1, <4>3, <4>4, <4>5
    <3>5. CASE stage[s] = "unrecoverable"
      BY <2>1, <2>2, <3>1, <3>5, <1>4 DEF Move, Payloads
    <3> QED BY <3>3, <3>4, <3>5, <1>4 DEF Move
  <2>3. CASE owner[job[s]] # s
    BY <2>1, <2>3, <1>4 DEF Move
  <2> QED BY <2>2, <2>3
<1>5. ASSUME NEW j \in Job, Promote(j) PROVE GivenUpOnlyExhausted'
  BY <1>5 DEF Promote
<1>6. ASSUME NEW j \in Job, Expired(j) PROVE GivenUpOnlyExhausted'
  BY <1>6 DEF Expired
<1>7. ASSUME NEW j \in Job, Forget(j) PROVE GivenUpOnlyExhausted'
  BY <1>7 DEF Forget
<1>8. ASSUME \/ \E s \in Slot : Reject(s) \/ BroadcastSettles(s)
             \/ \E tx \in inflight : Apply(tx) \/ Drop(tx)
             \/ \E w \in Worker : Shutdown(w) \/ Exit(w) \/ Crash(w) \/ Restart(w)
             \/ UNCHANGED vars
      PROVE  UNCHANGED <<state, usable, failures, stalls, sent>>
  BY <1>8 DEF Reject, BroadcastSettles, Apply, Drop, Shutdown, Exit, Crash, Restart, vars
<1>9. ASSUME UNCHANGED <<state, usable, failures, stalls, sent>> PROVE GivenUpOnlyExhausted'
  BY <1>9
<1> QED BY <1>1, <1>2, <1>3, <1>4, <1>5, <1>6, <1>7, <1>8, <1>9
        DEF Next, Process, Stall, Overrun

\* A job is given up only when its attempts or its stalls are used up, or when its
\* payload is unusable, and then nothing was sent (event-worker.js:40-48).
THEOREM GivenUpOnlyExhaustedHolds == Spec => []GivenUpOnlyExhausted
<1>1. Inv /\ GivenUpOnlyExhausted /\ Inv' /\ [Next]_vars => GivenUpOnlyExhausted'
  BY GivenUpStep
<1> QED BY <1>1, InitInv, InvHolds, PTL DEF Spec
-----------------------------------------------------------------------------
\* RegistrationsBounded: what was sent of a job, and what its slots are about to
\* send, is paid for by its errors, its stalls, and the processing that has its
\* lock or completed it.
Starting(j) == {s \in Slot : job[s] = j /\ stage[s] = "start"}
Holder(j) == IF state[j] \in {"active", "completed"} THEN 1 ELSE 0
Paid == \A j \in Job : sent[j] + Cardinality(Starting(j)) <= failures[j] + stalls[j] + Holder(j)
Numbered == \A tx \in inflight \cup onchain : tx[2] \in 1..sent[tx[1]]

\* Sets of slots are finite.
LEMMA StartingFinite ==
  \A j : /\ IsFiniteSet(Starting(j)) /\ Cardinality(Starting(j)) \in Nat
         /\ \A S \in SUBSET Starting(j) : IsFiniteSet(S) /\ Cardinality(S) <= Cardinality(Starting(j))
                                          /\ Cardinality(S) \in Nat
<1> TAKE j
<1>1. Starting(j) \in SUBSET Slot
  BY DEF Starting
<1>2. IsFiniteSet(Starting(j))
  BY <1>1, ConstantsAssumption, FS_Subset
<1>3. \A S \in SUBSET Starting(j) : IsFiniteSet(S) /\ Cardinality(S) <= Cardinality(Starting(j))
  BY <1>2, FS_Subset
<1> QED BY <1>2, <1>3, FS_CardinalityType

\* A step that starts no processing leaves no more of them about to send.
LEMMA StartingShrinks ==
  ASSUME NEW j, Starting(j)' \in SUBSET Starting(j)
  PROVE  /\ Cardinality(Starting(j)') <= Cardinality(Starting(j))
         /\ Cardinality(Starting(j)') \in Nat /\ Cardinality(Starting(j)) \in Nat
<1> DEFINE S == Starting(j)'
<1>1. S \in SUBSET Starting(j)
  OBVIOUS
<1> HIDE DEF S
<1>2. Cardinality(S) <= Cardinality(Starting(j)) /\ Cardinality(S) \in Nat
  BY <1>1, StartingFinite
<1> QED BY <1>2, StartingFinite DEF S

\* Transactions carry the numbers of the broadcasts of their job.
LEMMA NumberedStep ==
  ASSUME Inv, Numbered, [Next]_vars
  PROVE  Numbered'
<1> USE ConstantsAssumption DEF Inv, Types, Numbered, Outcome, queue, slots, chain
<1>1. ASSUME NEW s \in Slot, Broadcast(s) PROVE Numbered'
  <2>1. job[s] \in Job
    BY <1>1, Processing DEF Broadcast
  <2>2. \A j \in Job : sent'[j] = IF j = job[s] THEN sent[j] + 1 ELSE sent[j]
    BY <2>1, <1>1 DEF Broadcast
  <2>3. SUFFICES ASSUME NEW tx \in inflight' \cup onchain' PROVE tx[2] \in 1..sent'[tx[1]]
    OBVIOUS
  <2>4. CASE tx \in inflight \cup onchain
    <3>1. tx[1] \in Job /\ tx[2] \in 1..sent[tx[1]]
      BY <2>4
    <3>2. sent[tx[1]] \in Nat /\ sent'[tx[1]] >= sent[tx[1]] /\ sent'[tx[1]] \in Nat
      BY <2>2, <3>1
    <3> QED BY <3>1, <3>2
  <2>5. CASE tx = <<job[s], sent[job[s]] + 1>>
    <3>1. tx[1] = job[s] /\ tx[2] = sent[job[s]] + 1
      BY <2>5
    <3>2. sent[job[s]] \in Nat /\ sent'[job[s]] = sent[job[s]] + 1
      BY <2>1, <2>2
    <3> QED BY <3>1, <3>2
  <2> QED BY <2>4, <2>5, <1>1 DEF Broadcast
<1>2. ASSUME NEW j \in Job, Forget(j) PROVE Numbered'
  <2>1. SUFFICES ASSUME NEW tx \in inflight' \cup onchain' PROVE tx[2] \in 1..sent'[tx[1]]
    OBVIOUS
  <2>2. tx \in inflight \cup onchain /\ tx[1] # j /\ tx[1] \in Job
    BY <1>2 DEF Forget, Of
  <2>3. sent'[tx[1]] = sent[tx[1]]
    BY <1>2, <2>2 DEF Forget
  <2> QED BY <2>2, <2>3
<1>3. ASSUME NEW tx \in inflight, Apply(tx) \/ Drop(tx) PROVE Numbered'
  BY <1>3 DEF Apply, Drop
<1>4. ASSUME \/ \E d \in Delivery : Deliver(d)
             \/ \E s \in Slot : Reject(s) \/ BroadcastSettles(s) \/ Move(s)
                                \/ \E j \in Job : Take(s, j)
             \/ \E j \in Job : Promote(j) \/ Expired(j)
             \/ \E w \in Worker : Shutdown(w) \/ Exit(w) \/ Crash(w) \/ Restart(w)
             \/ UNCHANGED vars
      PROVE  UNCHANGED <<sent, inflight, onchain>>
  BY <1>4 DEF Deliver, Reject, BroadcastSettles, Move, Take, Promote, Expired, Shutdown, Exit,
              Crash, Restart, vars
<1>5. ASSUME UNCHANGED <<sent, inflight, onchain>> PROVE Numbered'
  BY <1>5
<1> QED BY <1>1, <1>2, <1>3, <1>4, <1>5 DEF Next, Process, Stall, Overrun

\* Every broadcast stays paid for.
LEMMA PaidStep ==
  ASSUME Inv, Paid, [Next]_vars
  PROVE  Paid'
<1> USE ConstantsAssumption DEF Inv, Types, Pending, Finished, Outcome, queue, slots, chain
<1> SUFFICES ASSUME NEW k \in Job
             PROVE  sent'[k] + Cardinality(Starting(k)') <= failures'[k] + stalls'[k] + Holder(k)'
  BY DEF Paid
<1>a. sent[k] + Cardinality(Starting(k)) <= failures[k] + stalls[k] + Holder(k)
  BY DEF Paid
<1>b. sent[k] \in Nat /\ failures[k] \in Nat /\ stalls[k] \in Nat /\ Holder(k) \in {0, 1}
  BY DEF Holder
<1>c. Cardinality(Starting(k)) \in Nat
  BY StartingFinite
<1> DEFINE Goal == sent'[k] + Cardinality(Starting(k)')
                     <= failures'[k] + stalls'[k] + Holder(k)'
<1>1. ASSUME Starting(k)' \in SUBSET Starting(k),
             sent'[k] = sent[k], failures'[k] \in Nat, stalls'[k] \in Nat, Holder(k)' \in Nat,
             failures'[k] + stalls'[k] + Holder(k)' >= failures[k] + stalls[k] + Holder(k)
      PROVE  Goal
  <2>1. Cardinality(Starting(k)') <= Cardinality(Starting(k)) /\ Cardinality(Starting(k)') \in Nat
    BY <1>1, StartingShrinks
  <2> QED BY <2>1, <1>1, <1>a, <1>b, <1>c
<1>2. ASSUME NEW d \in Delivery, Deliver(d) PROVE Goal
  <2>1. Starting(k)' = Starting(k) /\ UNCHANGED <<sent, failures, stalls>>
    BY <1>2 DEF Deliver, Starting
  <2>2. Holder(k)' = Holder(k)
    BY <1>2 DEF Deliver, Enqueue, Holder
  <2> QED BY <2>1, <2>2, <1>1, <1>b
<1>3. ASSUME NEW s \in Slot, NEW j \in Job, Take(s, j) PROVE Goal
  <2>1. UNCHANGED <<sent, failures, stalls>>
    BY <1>3 DEF Take
  <2>2. CASE k = j
    <3>1. Starting(k)' \in SUBSET (Starting(k) \cup {s})
      BY <1>3 DEF Take, Starting
    <3> DEFINE T == Starting(k)'
    <3>2. Cardinality(T) <= Cardinality(Starting(k)) + 1 /\ Cardinality(T) \in Nat
      <4>1. T \in SUBSET (Starting(k) \cup {s})
        BY <3>1
      <4> HIDE DEF T
      <4>2. /\ IsFiniteSet(Starting(k) \cup {s})
            /\ Cardinality(Starting(k) \cup {s}) \in {Cardinality(Starting(k)),
                                                     Cardinality(Starting(k)) + 1}
        BY StartingFinite, FS_AddElement
      <4>3. IsFiniteSet(T) /\ Cardinality(T) <= Cardinality(Starting(k) \cup {s})
        BY <4>1, <4>2, FS_Subset
      <4>4. Cardinality(T) \in Nat
        BY <4>3, FS_CardinalityType
      <4> QED BY <4>2, <4>3, <4>4, <1>c
    <3>3. Holder(k) = 0 /\ Holder(k)' = 1
      BY <2>2, <1>3 DEF Take, Holder
    <3> QED BY <2>1, <3>2, <3>3, <1>a, <1>b, <1>c
  <2>3. CASE k # j
    <3>1. Starting(k)' \in SUBSET Starting(k)
      BY <2>3, <1>3 DEF Take, Starting
    <3>2. Holder(k)' = Holder(k)
      BY <2>3, <1>3 DEF Take, Holder
    <3> QED BY <2>1, <3>1, <3>2, <1>1, <1>b
  <2> QED BY <2>2, <2>3
<1>4. ASSUME NEW s \in Slot, Broadcast(s) PROVE Goal
  <2>1. job[s] \in Job
    BY <1>4, Processing DEF Broadcast
  <2>2. UNCHANGED <<failures, stalls>> /\ Holder(k)' = Holder(k)
    BY <1>4 DEF Broadcast, Holder
  <2>3. CASE k = job[s]
    <3> DEFINE T == Starting(k)'
    <3>1. T = Starting(k) \ {s} /\ s \in Starting(k)
      BY <2>3, <1>4 DEF Broadcast, Starting
    <3> HIDE DEF T
    <3>2. Cardinality(T) = Cardinality(Starting(k)) - 1
      BY <3>1, StartingFinite, FS_RemoveElement
    <3>3. sent'[k] = sent[k] + 1
      BY <2>1, <2>3, <1>4 DEF Broadcast
    <3> QED BY <2>2, <3>2, <3>3, <1>a, <1>b, <1>c DEF T
  <2>4. CASE k # job[s]
    <3>1. Starting(k)' \in SUBSET Starting(k) /\ sent'[k] = sent[k]
      BY <2>4, <1>4 DEF Broadcast, Starting
    <3> QED BY <2>2, <3>1, <1>1, <1>b
  <2> QED BY <2>3, <2>4
<1>5. ASSUME NEW s \in Slot, Move(s) PROVE Goal
  <2>1. job[s] \in Job
    BY <1>5, Processing DEF Move
  <2>2. Starting(k)' \in SUBSET Starting(k) /\ UNCHANGED <<sent, stalls>>
    BY <1>5 DEF Move, Starting
  <2>3. CASE k = job[s] /\ owner[k] = s
    <3>1. state[k] = "active"
      BY <2>3 DEF Locks
    <3>2. CASE stage[s] = "ok"
      <4>1. failures'[k] = failures[k] /\ Holder(k)' = 1
        BY <2>1, <2>3, <3>2, <1>5 DEF Move, Holder
      <4> QED BY <2>2, <4>1, <1>1, <1>b
    <3>3. CASE stage[s] # "ok"
      <4>1. failures'[k] = failures[k] + 1 /\ Holder(k)' \in {0, 1}
        BY <2>1, <2>3, <3>3, <1>5 DEF Move, Holder
      <4> QED BY <2>2, <4>1, <1>1, <1>b
    <3> QED BY <3>2, <3>3
  <2>4. CASE ~(k = job[s] /\ owner[k] = s)
    <3>1. failures'[k] = failures[k] /\ Holder(k)' = Holder(k)
      BY <2>1, <2>4, <1>5 DEF Move, Holder
    <3> QED BY <2>2, <3>1, <1>1, <1>b
  <2> QED BY <2>3, <2>4
<1>6. ASSUME NEW j \in Job, Expired(j) PROVE Goal
  <2>1. Starting(k)' = Starting(k) /\ UNCHANGED <<sent, failures>>
    BY <1>6 DEF Expired, Starting
  <2>2. CASE k = j
    <3>1. stalls'[k] = stalls[k] + 1 /\ Holder(k)' = 0 /\ Holder(k) = 1
      BY <2>2, <1>6 DEF Expired, Holder
    <3> QED BY <2>1, <3>1, <1>1, <1>b
  <2>3. CASE k # j
    <3>1. stalls'[k] = stalls[k] /\ Holder(k)' = Holder(k)
      BY <2>3, <1>6 DEF Expired, Holder
    <3> QED BY <2>1, <3>1, <1>1, <1>b
  <2> QED BY <2>2, <2>3
<1>7. ASSUME NEW j \in Job, Forget(j) PROVE Goal
  <2>1. Starting(k)' = Starting(k)
    BY <1>7 DEF Forget, Starting
  <2>2. CASE k = j
    <3>1. Starting(k)' = {}
      BY <2>1, <2>2, <1>7 DEF Forget, Starting
    <3>2. Cardinality(Starting(k)') = 0
      <4> DEFINE T == Starting(k)'
      <4>1. T = {}
        BY <3>1
      <4> HIDE DEF T
      <4>2. Cardinality(T) = 0
        BY <4>1, FS_EmptySet
      <4> QED BY <4>2 DEF T
    <3>3. sent'[k] = 0 /\ failures'[k] = 0 /\ stalls'[k] = 0 /\ Holder(k)' = 0
      BY <2>2, <1>7 DEF Forget, Holder
    <3> QED BY <3>2, <3>3
  <2>3. CASE k # j
    <3>1. /\ sent'[k] = sent[k] /\ failures'[k] = failures[k] /\ stalls'[k] = stalls[k]
          /\ Holder(k)' = Holder(k)
      BY <2>3, <1>7 DEF Forget, Holder
    <3> QED BY <2>1, <3>1, <1>1, <1>b
  <2> QED BY <2>2, <2>3
<1>8. ASSUME \/ \E s \in Slot : Reject(s) \/ BroadcastSettles(s)
             \/ \E j \in Job : Promote(j)
             \/ \E tx \in inflight : Apply(tx) \/ Drop(tx)
             \/ \E w \in Worker : Shutdown(w) \/ Exit(w) \/ Crash(w) \/ Restart(w)
             \/ UNCHANGED vars
      PROVE  Goal
  <2>1. UNCHANGED <<sent, failures, stalls>>
    BY <1>8 DEF Reject, BroadcastSettles, Promote, Apply, Drop, Shutdown, Exit, Crash, Restart, vars
  <2>2. Holder(k)' = Holder(k)
    BY <1>8 DEF Reject, BroadcastSettles, Promote, Apply, Drop, Shutdown, Exit, Crash, Restart,
                vars, Holder
  <2>3. Starting(k)' \in SUBSET Starting(k)
    <3>1. ASSUME NEW s \in Slot, Reject(s) \/ BroadcastSettles(s)
          PROVE  Starting(k)' \in SUBSET Starting(k)
      BY <3>1 DEF Reject, BroadcastSettles, Starting
    <3>2. ASSUME NEW w \in Worker, Crash(w)
          PROVE  Starting(k)' \in SUBSET Starting(k)
      BY <3>2 DEF Crash, Starting
    <3>3. ASSUME UNCHANGED slots PROVE Starting(k)' \in SUBSET Starting(k)
      BY <3>3 DEF Starting
    <3>4. ASSUME \/ \E j \in Job : Promote(j)
                 \/ \E tx \in inflight : Apply(tx) \/ Drop(tx)
                 \/ \E w \in Worker : Shutdown(w) \/ Exit(w) \/ Restart(w)
                 \/ UNCHANGED vars
          PROVE  UNCHANGED slots
      BY <3>4 DEF Promote, Apply, Drop, Shutdown, Exit, Restart, vars
    <3> QED BY <3>1, <3>2, <3>3, <3>4, <1>8
  <2> QED BY <2>1, <2>2, <2>3, <1>1, <1>b
<1> QED BY <1>2, <1>3, <1>4, <1>5, <1>6, <1>7, <1>8 DEF Next, Process, Stall, Overrun

LEMMA InitPaid == Init => Paid /\ Numbered
<1> SUFFICES ASSUME Init PROVE Paid /\ Numbered
  OBVIOUS
<1>1. \A j \in Job : Starting(j) = {}
  BY DEF Init, Starting
<1>2. \A j \in Job : Cardinality(Starting(j)) = 0
  BY <1>1, FS_EmptySet
<1> QED BY <1>2 DEF Init, Paid, Numbered, Holder

\* No more transactions of a job are on the ledger than were sent of it.
LEMMA AppliedWereSent ==
  ASSUME Types, Numbered, NEW j \in Job
  PROVE  /\ Cardinality(Of(onchain, j)) <= sent[j] /\ Cardinality(Of(onchain, j)) \in Nat
         /\ IsFiniteSet(Of(onchain, j))
<1>1. sent[j] \in Nat
  BY DEF Types
<1>2. Of(onchain, j) \in SUBSET ({j} \X (1..sent[j]))
  <2> SUFFICES ASSUME NEW tx \in Of(onchain, j) PROVE tx \in {j} \X (1..sent[j])
    OBVIOUS
  <2>1. tx \in Job \X Nat /\ tx[1] = j /\ tx[2] \in 1..sent[j]
    BY DEF Of, Types, Numbered
  <2> QED BY <2>1
<1>3. IsFiniteSet(1..sent[j]) /\ Cardinality(1..sent[j]) = sent[j]
  BY <1>1, FS_Interval
<1>4. IsFiniteSet({j}) /\ Cardinality({j}) = 1
  BY FS_Singleton
<1>5. IsFiniteSet({j} \X (1..sent[j])) /\ Cardinality({j} \X (1..sent[j])) = 1 * sent[j]
  <2> DEFINE S == {j}
             T == 1..sent[j]
  <2>1. IsFiniteSet(S) /\ IsFiniteSet(T) /\ Cardinality(S) = 1 /\ Cardinality(T) = sent[j]
    BY <1>3, <1>4
  <2> HIDE DEF S, T
  <2>2. IsFiniteSet(S \X T) /\ Cardinality(S \X T) = Cardinality(S) * Cardinality(T)
    BY <2>1, FS_Product
  <2>3. Cardinality(S \X T) = 1 * sent[j]
    BY <2>1, <2>2
  <2> QED BY <2>2, <2>3 DEF S, T
<1>6. IsFiniteSet(Of(onchain, j)) /\ Cardinality(Of(onchain, j)) <= 1 * sent[j]
  BY <1>2, <1>5, FS_Subset
<1> QED BY <1>1, <1>6, FS_CardinalityType

\* A job is registered at most once more than its processings failed or stalled,
\* and at most Attempts + MaxStalled times (event-queue.js:7-21, 132-141).
THEOREM RegistrationsBoundedHolds == Spec => []RegistrationsBounded
<1>1. Inv /\ Paid /\ Numbered /\ [Next]_vars => Paid' /\ Numbered'
  BY PaidStep, NumberedStep
<1>2. Inv /\ Paid /\ Numbered => RegistrationsBounded
  <2> SUFFICES ASSUME Inv, Paid, Numbered, NEW j \in Job
               PROVE  /\ Cardinality(Of(onchain, j)) <= 1 + failures[j] + stalls[j]
                      /\ Cardinality(Of(onchain, j)) <= Attempts + MaxStalled
    BY DEF RegistrationsBounded
  <2>1. Cardinality(Of(onchain, j)) <= sent[j] /\ Cardinality(Of(onchain, j)) \in Nat
    BY AppliedWereSent DEF Inv
  <2>2. Cardinality(Starting(j)) \in Nat
    BY StartingFinite
  <2>3. sent[j] \in Nat /\ failures[j] \in Nat /\ stalls[j] \in Nat /\ Holder(j) \in {0, 1}
    BY DEF Inv, Types, Holder
  <2>4. sent[j] <= failures[j] + stalls[j] + Holder(j)
    BY <2>2, <2>3 DEF Paid
  <2>5. failures[j] + stalls[j] + Holder(j) <= Attempts + MaxStalled
    BY <2>3, ConstantsAssumption DEF Inv, Counters, Holder
  <2> QED BY <2>1, <2>3, <2>4, <2>5, ConstantsAssumption
<1> QED BY <1>1, <1>2, InitPaid, InvHolds, PTL DEF Spec
-----------------------------------------------------------------------------
\* The refinement of JobPromise.  Adding, completing, giving up, forgetting and
\* applying are its steps; whatever else happens leaves the mapped state alone.

\* The registrations of a job can be counted.
LEMMA RegisteredCount ==
  ASSUME Types, Numbered, NEW j \in Job
  PROVE  /\ IsFiniteSet(Of(onchain, j)) /\ Registered[j] \in Nat
         /\ Registered[j] = Cardinality(Of(onchain, j))
         /\ Of(onchain, j) # {} => Registered[j] > 0
<1>1. IsFiniteSet(Of(onchain, j)) /\ Cardinality(Of(onchain, j)) \in Nat
  BY AppliedWereSent
<1>2. Cardinality(Of(onchain, j)) = 0 <=> Of(onchain, j) = {}
  BY <1>1, FS_EmptySet
<1> QED BY <1>1, <1>2 DEF Registered

\* A transaction that can still be applied is of a known job with a usable payload.
LEMMA InflightIsOfKnownJob ==
  ASSUME Inv, Numbered, NEW tx \in inflight
  PROVE  tx[1] \in usable /\ state[tx[1]] # "absent" /\ tx[1] \in Job
<1>1. tx[1] \in Job /\ tx[2] \in 1..sent[tx[1]]
  BY DEF Inv, Types, Numbered
<1>2. sent[tx[1]] # 0
  BY <1>1
<1> QED BY <1>1, <1>2 DEF Inv, Counters, Payloads

LEMMA InitPromise == Init => Promise!Init
<1> SUFFICES ASSUME Init PROVE Promise!Init
  OBVIOUS
<1>1. Status = [j \in Job |-> "absent"]
  BY DEF Init, Status, Pending
<1>2. \A j \in Job : Of(onchain, j) = {}
  BY DEF Init, Of
<1>3. Registered = [j \in Job |-> 0]
  BY <1>2, FS_EmptySet DEF Registered
<1> QED BY <1>1, <1>3 DEF Promise!Init, Init

\* What a change of one job's state is to the promise.
LEMMA StateMoves ==
  ASSUME Types, NEW j \in Job, NEW s, state' = [state EXCEPT ![j] = s]
  PROVE  Status' = [Status EXCEPT ![j] = IF s \in Pending THEN "pending" ELSE s]
BY DEF Types, Status

\* A delivery adds an unknown job, and changes nothing of a known one.
LEMMA DeliverPromise ==
  ASSUME Inv, NEW d \in Delivery, Deliver(d)
  PROVE  [Promise!Next]_(Promise!jvars)
<1> DEFINE k == JobOf[d]
<1>1. k \in Job /\ Registered' = Registered
  BY ConstantsAssumption DEF Deliver, chain, Registered
<1>2. CASE state[k] = "absent"
  <2>1. state' = [state EXCEPT ![k] = "waiting"]
    BY <1>2 DEF Deliver, Enqueue
  <2>2. Status' = [Status EXCEPT ![k] = "pending"] /\ Status[k] = "absent"
    BY <1>1, <1>2, <2>1, StateMoves DEF Inv, Pending, Status
  <2>3. usable' \in {usable \cup {k}, usable \ {k}}
    BY <1>2 DEF Deliver, Keep
  <2>4. Promise!Add(k)
    BY <1>1, <2>2, <2>3 DEF Promise!Add, Promise!Becomes
  <2> QED BY <1>1, <2>4 DEF Promise!Next
<1>3. CASE state[k] # "absent"
  <2>1. UNCHANGED <<state, usable>>
    BY <1>3 DEF Deliver, Enqueue, Keep
  <2> QED BY <1>1, <2>1 DEF Promise!jvars, Status
<1> QED BY <1>2, <1>3

\* A slot that has the lock completes the job, gives it up or leaves it pending; one
\* that lost it does nothing.
LEMMA MovePromise ==
  ASSUME Inv, Numbered, NEW s \in Slot, Move(s)
  PROVE  [Promise!Next]_(Promise!jvars)
<1> DEFINE j == job[s]
<1>1. j \in Job /\ Registered' = Registered /\ UNCHANGED usable
  BY Processing DEF Inv, Outcome, Move, chain, Registered
<1>2. CASE owner[j] # s
  BY <1>1, <1>2 DEF Move, Promise!jvars, Status
<1>3. CASE owner[j] = s
  <2>1. state[j] = "active" /\ Status[j] = "pending"
    BY <1>1, <1>3, ConstantsAssumption DEF Inv, Locks, Status, Pending
  <2>2. CASE stage[s] = "ok"
    <3>1. state' = [state EXCEPT ![j] = "completed"]
      BY <1>3, <2>2 DEF Move
    <3>2. Status' = [Status EXCEPT ![j] = "completed"]
      BY <1>1, <3>1, StateMoves DEF Inv, Pending
    <3>3. Of(onchain, j) # {}
      <4> DEFINE tx == <<j, number[s]>>
      <4>1. tx \in onchain /\ tx[1] = j
        BY <2>2 DEF Inv, Ledger
      <4> HIDE DEF tx
      <4> QED BY <4>1 DEF Of
    <3>4. Promise!Complete(j)
      BY <1>1, <2>1, <3>2, <3>3, RegisteredCount DEF Inv, Promise!Complete, Promise!Becomes
    <3> QED BY <1>1, <3>4 DEF Promise!Next
  <2>3. CASE stage[s] # "ok" /\ Retry(s)
    <3>1. state' = [state EXCEPT ![j] = "delayed"]
      BY <1>3, <2>3 DEF Move
    <3>2. Status' = Status
      BY <1>1, <2>1, <3>1, StateMoves DEF Inv, Pending, Status
    <3> QED BY <1>1, <3>2 DEF Promise!jvars
  <2>4. CASE stage[s] # "ok" /\ ~Retry(s)
    <3>1. state' = [state EXCEPT ![j] = "failed"]
      BY <1>3, <2>4 DEF Move
    <3>2. Status' = [Status EXCEPT ![j] = "failed"]
      BY <1>1, <3>1, StateMoves DEF Inv, Pending
    <3>3. Promise!GiveUp(j)
      BY <1>1, <2>1, <3>2 DEF Promise!GiveUp, Promise!Becomes
    <3> QED BY <1>1, <3>3 DEF Promise!Next
  <2> QED BY <2>2, <2>3, <2>4
<1> QED BY <1>2, <1>3

\* An expired lock sends the job back to those that wait, or gives it up.
LEMMA ExpiredPromise ==
  ASSUME Inv, NEW j \in Job, Expired(j)
  PROVE  [Promise!Next]_(Promise!jvars)
<1>1. Registered' = Registered /\ UNCHANGED usable /\ Status[j] = "pending"
  BY DEF Expired, chain, Registered, Status, Pending
<1>2. CASE stalls[j] + 1 > MaxStalled
  <2>1. state' = [state EXCEPT ![j] = "failed"]
    BY <1>2 DEF Expired
  <2>2. Status' = [Status EXCEPT ![j] = "failed"]
    BY <2>1, StateMoves DEF Inv, Pending
  <2>3. Promise!GiveUp(j)
    BY <1>1, <2>2 DEF Promise!GiveUp, Promise!Becomes
  <2> QED BY <2>3 DEF Promise!Next
<1>3. CASE ~(stalls[j] + 1 > MaxStalled)
  <2>1. state' = [state EXCEPT ![j] = "waiting"]
    BY <1>3 DEF Expired
  <2>2. Status' = Status
    <3>1. state[j] \in Pending
      BY DEF Expired, Pending
    <3> QED BY <2>1, <3>1 DEF Inv, Types, Pending, Status
  <2> QED BY <1>1, <2>2 DEF Promise!jvars
<1> QED BY <1>2, <1>3

\* A forgotten job had its outcome.
LEMMA ForgetPromise ==
  ASSUME Inv, NEW j \in Job, Forget(j)
  PROVE  [Promise!Next]_(Promise!jvars)
<1>1. state' = [state EXCEPT ![j] = "absent"] /\ UNCHANGED usable
  BY DEF Forget
<1>2. Status' = [Status EXCEPT ![j] = "absent"]
  BY <1>1, StateMoves DEF Inv, Pending
<1>3. Status[j] \in {"completed", "failed"}
  BY DEF Forget, Removable, Finished, Pending, Status
<1>4. \A k \in Job : Of(onchain, k)' = IF k = j THEN {} ELSE Of(onchain, k)
  BY DEF Forget, Of
<1>5. Registered' = [Registered EXCEPT ![j] = 0]
  BY <1>4, FS_EmptySet DEF Registered
<1>6. Promise!Forget(j)
  BY <1>1, <1>2, <1>3, <1>5 DEF Promise!Forget, Promise!Becomes
<1> QED BY <1>6 DEF Promise!Next

\* A transaction that is applied, however late, is one more registration of its
\* job, and within the limit.
LEMMA ApplyPromise ==
  ASSUME Inv, Numbered, RegistrationsBounded', NEW tx \in inflight, Apply(tx)
  PROVE  [Promise!Next]_(Promise!jvars)
<1> DEFINE j == tx[1]
<1>1. j \in usable /\ state[j] # "absent" /\ j \in Job
  BY InflightIsOfKnownJob
<1>2. Status' = Status /\ UNCHANGED usable /\ onchain' = onchain \cup {tx}
  BY DEF Apply, queue, Status
<1>3. CASE tx \in onchain
  BY <1>2, <1>3 DEF Promise!jvars, Registered
<1>4. CASE tx \notin onchain
  <2>1. \A k \in Job : Of(onchain, k)' = IF k = j THEN Of(onchain, k) \cup {tx} ELSE Of(onchain, k)
    BY <1>2 DEF Of
  <2>2. tx \notin Of(onchain, j)
    BY <1>4 DEF Of
  <2>3. Cardinality(Of(onchain, j) \cup {tx}) = Registered[j] + 1
    BY <1>1, <2>2, RegisteredCount, FS_AddElement DEF Inv
  <2>4. Registered' = [Registered EXCEPT ![j] = @ + 1]
    BY <1>1, <2>1, <2>3 DEF Registered
  <2>5. Registered[j] + 1 <= Attempts + MaxStalled
    <3>1. Cardinality(Of(onchain, j)') <= Attempts + MaxStalled
      BY <1>1 DEF RegistrationsBounded
    <3> QED BY <1>1, <2>1, <2>3, <3>1
  <2>6. Registered[j] < Attempts + MaxStalled
    BY <1>1, <2>5, RegisteredCount, ConstantsAssumption DEF Inv
  <2>7. Status[j] # "absent"
    BY <1>1 DEF Status
  <2>8. Promise!Register(j)
    BY <1>1, <1>2, <2>4, <2>6, <2>7 DEF Promise!Register
  <2> QED BY <1>1, <2>8 DEF Promise!Next
<1> QED BY <1>3, <1>4

\* Each step of the queue is one of the promise, or none.
LEMMA StepPromise ==
  ASSUME Inv, Numbered, RegistrationsBounded', [Next]_vars
  PROVE  [Promise!Next]_(Promise!jvars)
<1>1. ASSUME NEW s \in Slot, NEW j \in Job, Take(s, j)
      PROVE  UNCHANGED Promise!jvars
  <2>1. state' = [state EXCEPT ![j] = "waiting", ![j] = "active"] /\ UNCHANGED <<usable, onchain>>
    BY <1>1 DEF Take, chain, Inv, Types
  <2>2. Status' = Status
    BY <1>1, <2>1 DEF Take, Status, Pending, Inv, Types
  <2> QED BY <2>1, <2>2 DEF Promise!jvars, Registered
<1>2. ASSUME NEW j \in Job, Promote(j)
      PROVE  UNCHANGED Promise!jvars
  <2>1. Status' = Status
    BY <1>2 DEF Promote, Status, Pending, Inv, Types
  <2> QED BY <1>2, <2>1 DEF Promote, chain, Promise!jvars, Registered
<1>3. ASSUME UNCHANGED <<state, usable, onchain>>
      PROVE  UNCHANGED Promise!jvars
  BY <1>3 DEF Promise!jvars, Status, Registered
<1>4. ASSUME \/ \E s \in Slot : Reject(s) \/ Broadcast(s) \/ BroadcastSettles(s)
             \/ \E tx \in inflight : Drop(tx)
             \/ \E w \in Worker : Shutdown(w) \/ Exit(w) \/ Crash(w) \/ Restart(w)
             \/ UNCHANGED vars
      PROVE  UNCHANGED <<state, usable, onchain>>
  BY <1>4 DEF Reject, Broadcast, BroadcastSettles, Drop, Shutdown, Exit, Crash, Restart, vars,
              queue, chain
<1> QED BY <1>1, <1>2, <1>3, <1>4, DeliverPromise, MovePromise, ExpiredPromise, ForgetPromise,
           ApplyPromise
        DEF Next, Process, Stall, Overrun

\* The queue with its slots, locks, retries, stalls and restarts implements
\* JobPromise: a job has one life, ends it once, and is registered within its limit
\* and only with a usable payload (event-queue.js:7-21, 132-150,
\* event-worker.js:40-66).
THEOREM KeepsJobPromiseHolds == Spec => KeepsJobPromise
<1>1. Inv /\ Paid /\ Numbered /\ [Next]_vars => Paid' /\ Numbered'
  BY PaidStep, NumberedStep
<1>2. Inv /\ Numbered /\ RegistrationsBounded' /\ [Next]_vars => [Promise!Next]_(Promise!jvars)
  BY StepPromise
<1> QED BY <1>1, <1>2, InitPaid, InitPromise, InvHolds, RegistrationsBoundedHolds, PTL
        DEF Spec, KeepsJobPromise, Promise!Spec
=============================================================================
