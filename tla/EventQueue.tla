----------------------------- MODULE EventQueue -----------------------------
(***************************************************************************)
(* The path of a merged pull request from the webhook to the chain:        *)
(* intake (index.js, queue/event-queue.js), the BullMQ queue it fills, the *)
(* workers that drain it (workers/event-worker.js), and the retention that *)
(* empties it again (DEFAULT_JOB_OPTIONS, queue/cleanup.js).               *)
(*                                                                         *)
(* BullMQ and Redis are external: a job is waiting, delayed (backing off), *)
(* active, completed or failed; an active job is locked by the slot that   *)
(* took it, and goes back to waiting when that lock is not renewed.  The   *)
(* broadcast is the promise of TaskLedger, one transaction per processing: *)
(* it resolves only when its transaction is on the ledger, and may be      *)
(* applied although, or after, it was reported as failed.                  *)
(***************************************************************************)
EXTENDS Integers, FiniteSets

CONSTANTS
  Delivery,    \* qualifying webhook deliveries: merged, labelled, signed
  Job,         \* job ids
  JobOf,       \* createEventJobId: deliveries with one idempotency key, one job
  Valid,       \* deliveries whose payload has an integer pull request number
  Worker, Slot, WorkerOf,  \* worker processes and their concurrency slots
  NoSlot, NoJob,
  Faults,      \* which of FaultKind may happen
  Attempts,    \* DEFAULT_JOB_OPTIONS.attempts
  MaxStalled   \* BullMQ's maxStalledCount

FaultKind == {"network",  \* a broadcast fails, with or without effect
              "crash",    \* a worker process dies
              "stall"}    \* a live process fails to renew a job lock

ASSUME ConstantsAssumption ==
  /\ JobOf \in [Delivery -> Job]
  /\ Valid \subseteq Delivery
  /\ WorkerOf \in [Slot -> Worker] /\ IsFiniteSet(Slot)
  /\ NoSlot \notin Slot /\ NoJob \notin Job
  /\ Faults \subseteq FaultKind
  /\ Attempts \in Nat \ {0} /\ MaxStalled \in Nat

VARIABLES
  accepted,   \* deliveries answered 202
  state,      \* state of each job in Redis, "absent" when Redis has no such job
  usable,     \* jobs whose payload, that of the delivery that added them, is valid
  failures,   \* attemptsMade: processings that ended in an error
  stalls,     \* stalledCounter: job locks that were not renewed
  owner,      \* the slot that holds the job lock of an active job
  proc,       \* life of each worker process
  job, stage, \* what each slot is processing, and how far it is
  number,     \* which processing of the job the slot runs
  sent,       \* broadcasts started for the job since it was added
  inflight, onchain  \* transactions <<job, number>> not yet / already applied

queue == <<state, usable, failures, stalls, owner>>
slots == <<job, stage, number>>
chain == <<sent, inflight, onchain>>
vars == <<accepted, queue, proc, slots, chain>>

Pending == {"waiting", "delayed", "active"}
Finished == {"completed", "failed"}
Outcome == {"ok", "error", "unrecoverable"}

Init == /\ accepted = {}
        /\ state = [j \in Job |-> "absent"]
        /\ usable = {}
        /\ failures = [j \in Job |-> 0]
        /\ stalls = [j \in Job |-> 0]
        /\ owner = [j \in Job |-> NoSlot]
        /\ proc = [w \in Worker |-> "running"]
        /\ job = [s \in Slot |-> NoJob]
        /\ stage = [s \in Slot |-> "idle"]
        /\ number = [s \in Slot |-> 0]
        /\ sent = [j \in Job |-> 0]
        /\ inflight = {}
        /\ onchain = {}

Of(txs, j) == {tx \in txs : tx[1] = j}
-----------------------------------------------------------------------------
\* Intake

\* mutant: a finished job is no obstacle to adding it again
ReaddFinished(j) == state' = IF state[j] \in Finished \cup {"absent"}
                             THEN [state EXCEPT ![j] = "waiting"] ELSE state
\* mutant: a redelivery puts the job back in the waiting list
AddAgain(j) == state' = [state EXCEPT ![j] = "waiting"]

\* queue.add with the id of a job Redis retains, in whatever state, adds nothing.
Enqueue(j) == state' = IF state[j] = "absent" THEN [state EXCEPT ![j] = "waiting"]
                                              ELSE state

\* The job carries the payload of the delivery that added it.
Keep(d) == usable' = IF state[JobOf[d]] # "absent" THEN usable
                     ELSE IF d \in Valid THEN usable \cup {JobOf[d]}
                     ELSE usable \ {JobOf[d]}

\* The webhook handler: 202 once add has resolved; 500 when it rejects, which
\* it may do after Redis has stored the job.
Deliver(d) == /\ d \notin accepted
              /\ Enqueue(JobOf[d]) /\ Keep(d)
              /\ \E answer \in {202, 500} :
                   accepted' = IF answer = 202 THEN accepted \cup {d} ELSE accepted
              /\ UNCHANGED <<failures, stalls, owner, proc, slots, chain>>
-----------------------------------------------------------------------------
\* A slot of a worker: processEventJob between BullMQ's fetch and its move

Take(s, j) == /\ proc[WorkerOf[s]] = "running"
              /\ stage[s] = "idle"
              /\ state[j] = "waiting"
              /\ state' = [state EXCEPT ![j] = "active"]
              /\ owner' = [owner EXCEPT ![j] = s]
              /\ job' = [job EXCEPT ![s] = j]
              /\ stage' = [stage EXCEPT ![s] = "start"]
              /\ UNCHANGED <<accepted, usable, failures, stalls, proc, number, chain>>

\* The payload is checked before anything is sent.
Reject(s) == /\ stage[s] = "start"
             /\ job[s] \notin usable
             /\ stage' = [stage EXCEPT ![s] = "unrecoverable"]
             /\ UNCHANGED <<accepted, queue, proc, job, number, chain>>

\* await broadcaster(pullRequestNumber): the transaction goes out.
Broadcast(s) == LET j == job[s] IN
                /\ stage[s] = "start"
                /\ j \in usable
                /\ stage' = [stage EXCEPT ![s] = "submit"]
                /\ sent' = [sent EXCEPT ![j] = @ + 1]
                /\ number' = [number EXCEPT ![s] = sent[j] + 1]
                /\ inflight' = inflight \cup {<<j, sent[j] + 1>>}
                /\ UNCHANGED <<accepted, queue, proc, job, onchain>>

NotAwaited(s) == TRUE  \* mutant: the promise is not awaited
Acknowledged(s) == <<job[s], number[s]>> \in onchain

\* The broadcaster's promise settles.  Metrics errors after it are swallowed.
BroadcastSettles(s) ==
  /\ stage[s] = "submit"
  /\ \E outcome \in {"ok", "error"} :
       /\ outcome = "ok" => Acknowledged(s)
       /\ outcome = "error" => \/ "network" \in Faults
                               \/ <<job[s], number[s]>> \notin inflight \cup onchain
       /\ stage' = [stage EXCEPT ![s] = outcome]
  /\ UNCHANGED <<accepted, queue, proc, job, number, chain>>

\* mutant: every error is unrecoverable
RetryNever(s) == FALSE

\* Whether another attempt is made: attempts left and not an UnrecoverableError.
Retry(s) == stage[s] = "error" /\ failures[job[s]] + 1 < Attempts

\* BullMQ moves the job if the slot still holds its lock; otherwise the outcome
\* is lost and the job stays as it is.
Move(s) == LET j == job[s] IN
           /\ stage[s] \in Outcome
           /\ IF owner[j] = s
                THEN /\ state' = [state EXCEPT ![j] = IF stage[s] = "ok" THEN "completed"
                                                      ELSE IF Retry(s) THEN "delayed"
                                                      ELSE "failed"]
                     /\ failures' = [failures EXCEPT ![j] = IF stage[s] = "ok" THEN @ ELSE @ + 1]
                     /\ owner' = [owner EXCEPT ![j] = NoSlot]
                ELSE UNCHANGED <<state, failures, owner>>
           /\ job' = [job EXCEPT ![s] = NoJob]
           /\ stage' = [stage EXCEPT ![s] = "idle"]
           /\ number' = [number EXCEPT ![s] = 0]
           /\ UNCHANGED <<accepted, usable, stalls, proc, chain>>
-----------------------------------------------------------------------------
\* BullMQ in the background

\* The exponential backoff is over.
Promote(j) == /\ state[j] = "delayed"
              /\ state' = [state EXCEPT ![j] = "waiting"]
              /\ UNCHANGED <<accepted, usable, failures, stalls, owner, proc, slots, chain>>

\* A running worker finds the lock of an active job expired.
Expired(j) == /\ state[j] = "active"
              /\ \E w \in Worker : proc[w] = "running"
              /\ stalls' = [stalls EXCEPT ![j] = @ + 1]
              /\ state' = [state EXCEPT ![j] = IF stalls[j] + 1 > MaxStalled THEN "failed"
                                               ELSE "waiting"]
              /\ owner' = [owner EXCEPT ![j] = NoSlot]
              /\ UNCHANGED <<accepted, usable, failures, proc, slots, chain>>

\* The process that took the job is gone, or it is alive but did not renew.
OwnerGone(j) == job[owner[j]] # j
Stall(j) == Expired(j) /\ OwnerGone(j)
Overrun(j) == "stall" \in Faults /\ Expired(j) /\ ~OwnerGone(j)

\* removeOnComplete, removeOnFail and the nightly clean: a job finished long ago is
\* forgotten.  Retention is by age, a day or a week, which is longer than any
\* processing or transaction lasts.  It is also by count, a thousand completed or
\* five thousand failed jobs; the guards assume that so many do not finish while a
\* slot still has an older one or a transaction of it is in flight.
CleansDelayed == Finished \cup {"delayed"}  \* mutant
Removable == Finished
Forget(j) == /\ state[j] \in Removable
             /\ \A s \in Slot : job[s] # j
             /\ Of(inflight, j) = {}
             /\ state' = [state EXCEPT ![j] = "absent"]
             /\ failures' = [failures EXCEPT ![j] = 0]
             /\ stalls' = [stalls EXCEPT ![j] = 0]
             /\ sent' = [sent EXCEPT ![j] = 0]
             /\ onchain' = onchain \ Of(onchain, j)
             /\ UNCHANGED <<accepted, usable, owner, proc, slots, inflight>>

\* The network applies a transaction, or its time bounds pass.
Apply(tx) == /\ onchain' = onchain \cup {tx}
             /\ inflight' = inflight \ {tx}
             /\ UNCHANGED <<accepted, queue, proc, slots, sent>>
Drop(tx) == /\ "network" \in Faults
            /\ inflight' = inflight \ {tx}
            /\ UNCHANGED <<accepted, queue, proc, slots, sent, onchain>>
-----------------------------------------------------------------------------
\* Worker processes

SlotsOf(w) == {s \in Slot : WorkerOf[s] = w}
\* mutant: close() also waits for the queue to be drained
IdleOnceDrained(w) == /\ \A s \in SlotsOf(w) : stage[s] = "idle"
                      /\ \A j \in Job : state[j] \notin Pending
Idle(w) == \A s \in SlotsOf(w) : stage[s] = "idle"

\* SIGTERM or SIGINT: a second signal is ignored (closing); worker.close()
\* takes no new job and waits for the running ones.
Shutdown(w) == /\ proc[w] = "running"
               /\ proc' = [proc EXCEPT ![w] = "closing"]
               /\ UNCHANGED <<accepted, queue, slots, chain>>

Exit(w) == /\ proc[w] = "closing" /\ Idle(w)
           /\ proc' = [proc EXCEPT ![w] = "down"]
           /\ UNCHANGED <<accepted, queue, slots, chain>>

Crash(w) == /\ "crash" \in Faults
            /\ proc[w] # "down" /\ ~Idle(w)
            /\ proc' = [proc EXCEPT ![w] = "down"]
            /\ job' = [s \in Slot |-> IF s \in SlotsOf(w) THEN NoJob ELSE job[s]]
            /\ stage' = [s \in Slot |-> IF s \in SlotsOf(w) THEN "idle" ELSE stage[s]]
            /\ number' = [s \in Slot |-> IF s \in SlotsOf(w) THEN 0 ELSE number[s]]
            /\ UNCHANGED <<accepted, queue, chain>>

Restart(w) == /\ proc[w] = "down"
              /\ proc' = [proc EXCEPT ![w] = "running"]
              /\ UNCHANGED <<accepted, queue, slots, chain>>
-----------------------------------------------------------------------------
Process(s) == Reject(s) \/ Broadcast(s) \/ BroadcastSettles(s) \/ Move(s)

Next == \/ \E d \in Delivery : Deliver(d)
        \/ \E s \in Slot : Process(s) \/ \E j \in Job : Take(s, j)
        \/ \E j \in Job : Promote(j) \/ Stall(j) \/ Overrun(j) \/ Forget(j)
        \/ \E tx \in inflight : Apply(tx) \/ Drop(tx)
        \/ \E w \in Worker : Shutdown(w) \/ Exit(w) \/ Crash(w) \/ Restart(w)

Spec == Init /\ [][Next]_vars

\* A started processing goes on; BullMQ promotes and recovers jobs; a waiting
\* job is taken when slots keep offering themselves (FIFO list); the supervisor
\* restarts a worker that exited; the network settles transactions.
Fairness == /\ \A s \in Slot : WF_vars(Process(s))
            /\ \A j \in Job : /\ SF_vars(\E s \in Slot : Take(s, j))
                              /\ WF_vars(Promote(j))
                              /\ SF_vars(Stall(j))
            /\ \A w \in Worker : WF_vars(Exit(w)) /\ WF_vars(Restart(w))
            /\ WF_vars(\E tx \in inflight : Apply(tx) \/ Drop(tx))

FairSpec == Spec /\ Fairness
-----------------------------------------------------------------------------
\* Properties

\* Types of the variables.
TypeOK ==
  /\ accepted \subseteq Delivery
  /\ state \in [Job -> {"absent"} \cup Pending \cup Finished]
  /\ usable \subseteq Job
  /\ failures \in [Job -> 0..Attempts]
  /\ stalls \in [Job -> 0..MaxStalled + 1]
  /\ owner \in [Job -> Slot \cup {NoSlot}]
  /\ proc \in [Worker -> {"running", "closing", "down"}]
  /\ job \in [Slot -> Job \cup {NoJob}]
  /\ stage \in [Slot -> {"idle", "start", "submit"} \cup Outcome]
  /\ number \in [Slot -> Nat]
  /\ sent \in [Job -> Nat]
  /\ inflight \subseteq Job \X Nat
  /\ onchain \subseteq Job \X Nat

\* A job is completed only when one of its transactions is on the ledger: the
\* processor waits for the broadcast, and a slot that lost the job lock cannot
\* complete the job of another (event-worker.js:50-66).
CompletedIsRegistered ==
  \A j \in Job : state[j] = "completed" => Of(onchain, j) # {}

\* Every registration of a job beyond the first is paid for by a processing
\* that ended without being acknowledged, an error or a stall; redeliveries
\* cost nothing while Redis retains the job.  Hence no more than
\* Attempts + MaxStalled of them (event-queue.js:7-21, 132-141).
RegistrationsBounded ==
  \A j \in Job : /\ Cardinality(Of(onchain, j)) <= 1 + failures[j] + stalls[j]
                 /\ Cardinality(Of(onchain, j)) <= Attempts + MaxStalled

\* A job with a usable payload is given up only after all its attempts, or
\* after more stalls than BullMQ tolerates; a job without one is given up at
\* once and nothing of it is ever sent (event-worker.js:40-48).
GivenUpOnlyExhausted ==
  \A j \in Job : state[j] = "failed" =>
    \/ j \in usable /\ failures[j] = Attempts
    \/ stalls[j] > MaxStalled
    \/ j \notin usable /\ failures[j] = 1 /\ sent[j] = 0

\* Two slots work on the same job only after one of them lost the job lock
\* (BullMQ's stalled recovery): neither redelivery nor a retry starts a second
\* processing beside a running one (event-queue.js:143-150).
OneProcessingUnlessStalled ==
  \A s, t \in Slot : s # t /\ job[s] = job[t] /\ job[s] # NoJob => stalls[job[s]] > 0

\* Every job in the queue eventually completes or fails, across crashes,
\* stalls, shutdowns and restarts (README.md:207).
JobsSettle == \A j \in Job : state[j] \in Pending ~> state[j] \in Finished

\* The queue keeps the promise of JobPromise: a job lives once from its addition to
\* its outcome, whatever is redelivered, retried, stalled or restarted, and every
\* registration, late ones included, is of a known job with a usable payload and
\* within the limit (event-queue.js:7-21, 132-150, event-worker.js:40-66).
Status == [j \in Job |-> IF state[j] \in Pending THEN "pending" ELSE state[j]]
Registered == [j \in Job |-> Cardinality(Of(onchain, j))]
Promise == INSTANCE JobPromise
           WITH status <- Status, registered <- Registered, Limit <- Attempts + MaxStalled
KeepsJobPromise == Promise!Spec

\* README.md:91: a qualifying event is answered 202 with queued: true "after the
\* job is persisted": the job behind a 202 is queued, running or done.
AcceptedMeansQueued ==
  [][\A d \in accepted' \ accepted : state'[JobOf[d]] \in Pending \cup {"completed"}]_vars
=============================================================================
