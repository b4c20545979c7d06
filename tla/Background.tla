----------------------------- MODULE Background -----------------------------
(***************************************************************************)
(* The jobs that run beside the queue: the watcher of stalled transactions *)
(* (workers/watcher.ts) and the purge of failed tasks (workers/cleanup.ts),*)
(* which share the connection pool of db/client.ts; the heartbeat report   *)
(* (services/diagnostics.js); and the alert that the logger sends when     *)
(* errors are frequent (logger.js).                                        *)
(*                                                                         *)
(* External: the pool and the database, the timers that start the jobs     *)
(* (node-cron starts one whether or not the last has ended), and the       *)
(* owner of the watcher's map, who adds, sends and confirms transactions.  *)
(* Times are ages in ticks, counted up to where nothing depends on them.   *)
(***************************************************************************)
EXTENDS Naturals, FiniteSets

CONSTANTS
  Started,             \* sets of services that a process may have started
  Run,                 \* runs of database jobs in progress at one time (a bound),
  JobOf,               \* and the job that each is of
  PoolMax,             \* connections of the pool
  Tx, MaxRetries, Timeout,
  Task, Retention,     \* rows of "tasks", and the age at which failed ones go
  Threshold, Window,   \* ERROR_ALERT_THRESHOLD, ERROR_ALERT_WINDOW_MS
  Channel              \* the channels of the heartbeat report that are configured

Job == {"watcher", "purge"}
Service == Job \cup {"heartbeat", "alerts"}
Check == {"db", "rpc", "disk"}
Notification == {<<"slack", "sent">>, <<"slack", "failed">>, <<"email", "queued">>}
Spike == 2 * Threshold - 1   \* as many errors as cannot avoid an alert

ASSUME BackgroundAssumption ==
  /\ Started \subseteq SUBSET Service
  /\ PoolMax \in Nat \ {0} /\ MaxRetries \in Nat /\ Timeout \in Nat /\ Retention \in Nat
  /\ Threshold \in Nat \ {0} /\ Window \in Nat \ {0}
  /\ IsFiniteSet(Run) /\ JobOf \in [Run -> Job]
  /\ Channel \subseteq {"slack", "email"}

VARIABLES
  started,      \* the services of this process
  free,         \* clients in the pool
  run,          \* where each run is
  tx,           \* the watcher's map
  life,         \* history: the age of each transaction
  task,         \* the rows of the table
  errorCount, windowAge, alertAge,   \* of the logger
  recent,       \* history: the age of the n-th last error, counted up to Window
  beat,         \* where the heartbeat is
  pending,      \* checks that have not settled
  notified      \* notifications of this report: the channel and its status

alertVars == <<errorCount, windowAge, alertAge, recent>>
beatVars == <<beat, pending, notified>>
dataVars == <<tx, life, task>>
vars == <<started, free, run, dataVars, alertVars, beatVars>>

LifeMax == (MaxRetries + 1) * (Timeout + 1)

Init == /\ started \in Started
        /\ free = PoolMax
        /\ run = [r \in Run |-> "idle"]
        /\ tx = [t \in Tx |-> [status |-> "none", retries |-> 0, age |-> 0]]
        /\ life = [t \in Tx |-> 0]
        /\ task = [k \in Task |-> [status |-> "none", age |-> 0]]
        /\ errorCount = 0 /\ windowAge = Window /\ alertAge = 2 * Window
        /\ recent = [n \in 1..Spike |-> Window]
        /\ beat = "idle" /\ pending = {} /\ notified = {}
-----------------------------------------------------------------------------
\* The alert hook of the logger; an alert that cannot be posted is lost.

Least(m, n) == IF m < n THEN m ELSE n

NewWindow == windowAge >= Window

\* mutant: the count starts again, the window does not
OldWindowStays == windowAge

WindowAge == IF NewWindow THEN 0 ELSE windowAge

\* logger.error
LogError ==
  LET count  == (IF NewWindow THEN 0 ELSE errorCount) + 1
      alerts == count >= Threshold /\ alertAge >= Window
  IN IF "alerts" \in started
     THEN /\ errorCount' = Least(count, Threshold)
          /\ windowAge' = WindowAge
          /\ alertAge' = IF alerts THEN 0 ELSE alertAge
          /\ recent' = [n \in 1..Spike |-> IF n = 1 THEN 0 ELSE recent[n - 1]]
     ELSE UNCHANGED alertVars

\* An error of another part of the process.
ErrorElsewhere == LogError /\ "alerts" \in started
                  /\ UNCHANGED <<started, free, run, dataVars, beatVars>>
-----------------------------------------------------------------------------
\* The pool and the jobs that use it

Connected(r, j) == JobOf[r] = j /\ run[r] = "connected"
Goes(r, stage) == run' = [run EXCEPT ![r] = stage]

\* A timer fires: pool.connect().
Begin(r) ==
  /\ JobOf[r] \in started /\ run[r] = "idle"
  /\ Goes(r, "connecting")
  /\ UNCHANGED <<started, free, dataVars, alertVars, beatVars>>

Connect(r) ==
  /\ run[r] = "connecting" /\ free > 0
  /\ free' = free - 1
  /\ Goes(r, "connected")
  /\ UNCHANGED <<started, dataVars, alertVars, beatVars>>

\* connect() rejects.  No logger.error is called for it: it is before the try of
\* the purge, and its schedule takes for granted that the purge has logged.
ConnectRejects(r) ==
  /\ run[r] = "connecting"
  /\ Goes(r, "idle")
  /\ UNCHANGED <<started, free, dataVars, alertVars, beatVars>>

DatabaseAway(r) == free > 0 /\ ConnectRejects(r)

\* connectionTimeoutMillis
NoClientInTime(r) == free = 0 /\ ConnectRejects(r)

\* mutant: a client is only released after a query that succeeds
ReleaseSkipped(r) == Goes(r, "idle") /\ UNCHANGED free

\* finally
Release(r) == Goes(r, "idle") /\ free' = free + 1
ReleaseFailed(r) == Release(r)

\* DELETE FROM tasks WHERE status = 'failed' AND created_at < NOW() - 7 days
Purged == [k \in Task |-> IF task[k].status = "failed" /\ task[k].age > Retention
                          THEN [status |-> "none", age |-> 0] ELSE task[k]]

PurgeSucceeds(r) ==
  /\ Connected(r, "purge") /\ Release(r)
  /\ task' = Purged
  /\ UNCHANGED <<started, tx, life, alertVars, beatVars>>

\* The rows may be gone although the answer is lost.  The error is logged, thrown,
\* and swallowed by the schedule.
PurgeFails(r) ==
  /\ Connected(r, "purge") /\ ReleaseFailed(r)
  /\ task' \in {task, Purged}
  /\ LogError
  /\ UNCHANGED <<started, tx, life, beatVars>>
-----------------------------------------------------------------------------
\* checkStalledTransactions

\* mutant: only what is pending can stall
PendingStalls(t) == tx[t].status = "pending" /\ tx[t].age > Timeout

Stalled(t) == tx[t].status \in {"pending", "broadcasted"} /\ tx[t].age > Timeout

\* mutant: lastRetryAt is left as it was
RequeuedInTheSameStall(t) == [tx[t] EXCEPT !.status = "requeued", !.retries = @ + 1]

Requeued(t) == [status |-> "requeued", retries |-> tx[t].retries + 1, age |-> 0]

\* The loop has no await.
CheckStalled(r) ==
  /\ Connected(r, "watcher") /\ Release(r)
  /\ tx' = [t \in Tx |-> IF ~Stalled(t) THEN tx[t]
                         ELSE IF tx[t].retries < MaxRetries THEN Requeued(t)
                         ELSE [tx[t] EXCEPT !.status = "failed"]]
  /\ UNCHANGED <<started, life, task, alertVars, beatVars>>

\* The owner of the map.
Moves(t, from, to) ==
  /\ "watcher" \in started /\ tx[t].status \in from
  /\ tx' = [tx EXCEPT ![t].status = to]
  /\ UNCHANGED <<started, free, run, life, task, alertVars, beatVars>>

Submit(t) == Moves(t, {"none"}, "pending")
Broadcasted(t) == Moves(t, {"pending"}, "broadcasted")
Confirmed(t) == Moves(t, {"pending", "broadcasted", "requeued"}, "confirmed")
Resubmit(t) == Moves(t, {"requeued"}, "pending")

\* The service that writes the table.
TaskMoves(k, from, to) ==
  /\ "purge" \in started /\ task[k].status = from
  /\ task' = [task EXCEPT ![k].status = to]
  /\ UNCHANGED <<started, free, run, tx, life, alertVars, beatVars>>

TaskAdded(k) == TaskMoves(k, "none", "pending")
TaskFailed(k) == TaskMoves(k, "pending", "failed")
-----------------------------------------------------------------------------
\* The heartbeat

Beat ==
  /\ "heartbeat" \in started /\ beat \in {"idle", "done"}
  /\ beat' = "checking" /\ pending' = Check /\ notified' = {}
  /\ UNCHANGED <<started, free, run, dataVars, alertVars>>

\* Each check has a catch of its own: Promise.all never rejects.
CheckSettles(c) ==
  /\ beat = "checking" /\ c \in pending
  /\ pending' = pending \ {c}
  /\ beat' = IF pending' = {} THEN "slack" ELSE beat
  /\ UNCHANGED <<started, free, run, dataVars, alertVars, notified>>

\* mutant: what fetch throws ends the report
SlackThrows == /\ beat = "slack" /\ "slack" \in Channel
               /\ beat' = "done"
               /\ LogError
               /\ UNCHANGED <<started, free, run, dataVars, pending, notified>>

\* A post that failed is recorded with its status, and the next channel is tried.
SlackFails == /\ beat = "slack" /\ "slack" \in Channel
              /\ beat' = "email" /\ notified' = {<<"slack", "failed">>}
              /\ UNCHANGED <<started, free, run, dataVars, alertVars, pending>>

\* Any answer of Slack is taken for one of success.
SlackSent == /\ beat = "slack"
             /\ beat' = "email"
             /\ notified' = {n \in {<<"slack", "sent">>} : "slack" \in Channel}
             /\ UNCHANGED <<started, free, run, dataVars, alertVars, pending>>

\* The e-mail is only recorded; nothing sends it.
EmailQueued == /\ beat = "email"
               /\ beat' = "done"
               /\ notified' = notified \cup {n \in {<<"email", "queued">>} : "email" \in Channel}
               /\ UNCHANGED <<started, free, run, dataVars, alertVars, pending>>
-----------------------------------------------------------------------------
Older(age, max) == Least(age + 1, max)

Tick ==
  /\ tx' = [t \in Tx |-> IF tx[t].status \in {"pending", "broadcasted", "requeued"}
                         THEN [tx[t] EXCEPT !.age = Older(@, Timeout + 1)] ELSE tx[t]]
  /\ life' = [t \in Tx |-> IF tx[t].status \in {"pending", "broadcasted", "requeued"}
                           THEN Older(life[t], LifeMax) ELSE life[t]]
  /\ task' = [k \in Task |-> IF task[k].status = "none" THEN task[k]
                             ELSE [task[k] EXCEPT !.age = Older(@, Retention + 1)]]
  /\ windowAge' = Older(windowAge, Window)
  /\ alertAge' = Older(alertAge, 2 * Window)
  /\ recent' = [n \in 1..Spike |-> Older(recent[n], Window)]
  /\ UNCHANGED <<started, free, run, errorCount, beatVars>>

Finish(r) == PurgeSucceeds(r) \/ CheckStalled(r)

Next ==
  \/ Tick \/ ErrorElsewhere
  \/ \E r \in Run : Begin(r) \/ Connect(r) \/ DatabaseAway(r) \/ NoClientInTime(r)
                    \/ Finish(r) \/ PurgeFails(r)
  \/ \E t \in Tx : Submit(t) \/ Broadcasted(t) \/ Confirmed(t) \/ Resubmit(t)
  \/ \E k \in Task : TaskAdded(k) \/ TaskFailed(k)
  \/ Beat \/ SlackFails \/ SlackSent \/ EmailQueued
  \/ \E c \in Check : CheckSettles(c)

Spec == Init /\ [][Next]_vars

\* Time passes, each job is started again and again, the database does not refuse
\* for ever, runs do not for ever hold a client longer than others wait for it, and
\* every request of the heartbeat ends, be it in an error.
Fairness ==
  /\ WF_vars(Tick)
  /\ <>[][\A r \in Run : ~NoClientInTime(r)]_vars
  /\ \A r \in Run : WF_vars(Begin(r)) /\ SF_vars(Connect(r)) /\ SF_vars(Finish(r))
  /\ WF_vars((\E c \in Check : CheckSettles(c)) \/ SlackSent \/ EmailQueued)

FairSpec == Spec /\ Fairness
-----------------------------------------------------------------------------
\* Properties

\* Every variable has the values it may have.
TypeOK ==
  /\ started \in Started
  /\ free \in 0..PoolMax
  /\ run \in [Run -> {"idle", "connecting", "connected"}]
  /\ tx \in [Tx -> [status : {"none", "pending", "broadcasted", "requeued", "failed", "confirmed"},
                    retries : 0..MaxRetries, age : 0..(Timeout + 1)]]
  /\ life \in [Tx -> 0..LifeMax]
  /\ task \in [Task -> [status : {"none", "pending", "failed"}, age : 0..(Retention + 1)]]
  /\ errorCount \in 0..Threshold /\ windowAge \in 0..Window /\ alertAge \in 0..(2 * Window)
  /\ recent \in [1..Spike -> 0..Window]
  /\ beat \in {"idle", "checking", "slack", "email", "done"}
  /\ pending \subseteq Check
  /\ notified \subseteq {n \in Notification : n[1] \in Channel}

\* A transaction is given up only after every retry, each a whole timeout after the
\* one before it, however often and however close to each other the checks run
\* (watcher.ts:24-36).
FailedOnlyAfterRetries ==
  \A t \in Tx : tx[t].status = "failed" => tx[t].retries = MaxRetries /\ life[t] = LifeMax

\* Errors that are frequent do not escape the alert, wherever the windows of the
\* logger begin: with 2 * Threshold - 1 of them within one window an alert is not
\* older than two (logger.js:82-92).
SpikeIsAlerted == recent[Spike] < Window => alertAge < 2 * Window

\* A transaction that nobody confirms does not stay unnoticed, although checks fail
\* and share the pool with jobs whose queries fail (watcher.ts:15-46).
StalledIsNoticed ==
  \A t \in Tx : tx[t].status \in {"pending", "broadcasted"} ~>
                tx[t].status \in {"requeued", "failed", "confirmed"}

\* A failed task goes when it is old, whatever purges failed before (cleanup.ts:17-41).
OldFailedGo == \A k \in Task : task[k].status = "failed" ~> task[k].status = "none"

\* Every report that is begun ends with a record of every configured channel,
\* whichever of its checks fail and although the post to Slack does: its failure
\* keeps no later channel from being tried.  A record is no delivery, its status may
\* be "failed", and the e-mail is never more than "queued" (diagnostics.js:111-192).
ChannelsTried ==
  beat = "checking" ~> beat = "done" /\ \A c \in Channel : \E n \in notified : n[1] = c
=============================================================================
