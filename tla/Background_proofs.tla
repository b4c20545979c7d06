-------------------------- MODULE Background_proofs --------------------------
(***************************************************************************)
(* Proofs about Background: types, the clients of the pool, what the       *)
(* watcher gives up and which errors are alerted, for any number of runs,  *)
(* connections, transactions and retries, and any timeout, threshold and   *)
(* window.                                                                 *)
(***************************************************************************)
EXTENDS Background, FiniteSetTheorems, TLAPS

Using == {r \in Run : run[r] = "connected"}

\* Every client is in the pool or with one run.
PoolWhole == free = PoolMax - Cardinality(Using)

Active == {"pending", "broadcasted", "requeued"}

\* A transaction is older than its retries and the stall it is in take.
RetriesTakeTime ==
  \A t \in Tx :
    /\ tx[t].status \in Active \cup {"none"} =>
         tx[t].retries * (Timeout + 1) + tx[t].age <= life[t]
    /\ tx[t].status = "none" => tx[t].age = 0
    /\ tx[t].status = "failed" => tx[t].retries = MaxRetries /\ life[t] = LifeMax

\* The types, but for the clients that are free.
Types ==
  /\ started \in Started
  /\ run \in [Run -> {"idle", "connecting", "connected"}]
  /\ tx \in [Tx -> [status : {"none", "pending", "broadcasted", "requeued", "failed", "confirmed"},
                    retries : 0..MaxRetries, age : 0..(Timeout + 1)]]
  /\ life \in [Tx -> 0..LifeMax]
  /\ task \in [Task -> [status : {"none", "pending", "failed"}, age : 0..(Retention + 1)]]
  /\ errorCount \in 0..Threshold /\ windowAge \in 0..Window /\ alertAge \in 0..(2 * Window)
  /\ recent \in [1..Spike -> 0..Window]
  /\ beat \in {"idle", "checking", "slack", "email", "done"}
  /\ pending \subseteq Check
  /\ notified \subseteq {n \in Notification : n[1] \in Channel}

\* One more retry is one more timeout.
LEMMA OneMore ==
  ASSUME NEW n \in Nat, NEW k \in Nat
  PROVE  n * k \in Nat /\ (n + 1) * k \in Nat /\ (n + 1) * k = n * k + k
OBVIOUS

\* The bounds of the counted ages.
LEMMA Bounds == Spike \in Nat \ {0} /\ LifeMax \in Nat /\ Window - 1 \in Nat
BY BackgroundAssumption, OneMore, (MaxRetries + 1) * (Timeout + 1) \in Nat DEF Spike, LifeMax

\* An error keeps the logger's counters within their bounds.
LEMMA LogErrorTypes ==
  ASSUME Types, LogError
  PROVE  /\ errorCount' \in 0..Threshold /\ windowAge' \in 0..Window
         /\ alertAge' \in 0..(2 * Window) /\ recent' \in [1..Spike -> 0..Window]
<1> USE BackgroundAssumption, Bounds DEF Types
<1>1. CASE "alerts" \in started
  <2>1. errorCount' \in 0..Threshold /\ windowAge' \in 0..Window /\ alertAge' \in 0..(2 * Window)
    BY <1>1 DEF LogError, Least, WindowAge, NewWindow
  <2>2. \A n \in 1..Spike : (IF n = 1 THEN 0 ELSE recent[n - 1]) \in 0..Window
    OBVIOUS
  <2>3. recent' = [n \in 1..Spike |-> IF n = 1 THEN 0 ELSE recent[n - 1]]
    BY <1>1 DEF LogError
  <2> QED BY <2>1, <2>2, <2>3
<1>2. CASE "alerts" \notin started
  BY <1>2 DEF LogError, alertVars
<1> QED BY <1>1, <1>2

\* A run takes one client from the pool.
LEMMA ConnectPool ==
  ASSUME Types, PoolWhole, NEW r \in Run, Connect(r)
  PROVE  PoolWhole'
<1>1. Using' = Using \cup {r} /\ r \notin Using
  BY DEF Connect, Goes, Using, Types
<1>2. IsFiniteSet(Using)
  BY BackgroundAssumption, FS_Subset DEF Using
<1>3. Cardinality(Using') = Cardinality(Using) + 1 /\ Cardinality(Using) \in Nat
  BY <1>1, <1>2, FS_AddElement, FS_CardinalityType
<1> QED BY <1>3, BackgroundAssumption DEF Connect, PoolWhole

\* A run that is connected gives its client back when it ends.
LEMMA ReleasePool ==
  ASSUME Types, PoolWhole, NEW r \in Run, run[r] = "connected", Release(r)
  PROVE  PoolWhole'
<1>1. Using' = Using \ {r} /\ r \in Using
  BY DEF Release, Goes, Using, Types
<1>2. IsFiniteSet(Using)
  BY BackgroundAssumption, FS_Subset DEF Using
<1>3. Cardinality(Using') = Cardinality(Using) - 1 /\ Cardinality(Using) \in Nat
  BY <1>1, <1>2, FS_RemoveElement, FS_CardinalityType
<1> QED BY <1>3, BackgroundAssumption DEF Release, PoolWhole

\* A run that is not connected moves without a client.
LEMMA SamePool ==
  ASSUME Types, PoolWhole, NEW r \in Run, run[r] # "connected", NEW s, s # "connected",
         Goes(r, s), UNCHANGED free
  PROVE  PoolWhole'
<1>1. Using' = Using
  BY DEF Goes, Using, Types
<1> QED BY <1>1 DEF PoolWhole

PoolTyped == free \in Nat /\ PoolWhole

\* Clients are in the pool or with one run, each once.
LEMMA PoolStep ==
  ASSUME Types, PoolTyped, [Next]_vars
  PROVE  PoolTyped'
<1> USE DEF PoolTyped
<1>1. ASSUME NEW r \in Run, Connect(r) PROVE PoolTyped'
  BY <1>1, ConnectPool DEF Connect
<1>2. ASSUME NEW r \in Run, run[r] = "connected", Release(r) PROVE PoolTyped'
  BY <1>2, ReleasePool DEF Release
<1>3. ASSUME NEW r \in Run, Begin(r) \/ DatabaseAway(r) \/ NoClientInTime(r) PROVE PoolTyped'
  BY <1>3, SamePool DEF Begin, DatabaseAway, NoClientInTime, ConnectRejects
<1>4. ASSUME NEW r \in Run, Finish(r) \/ PurgeFails(r) PROVE PoolTyped'
  BY <1>4, <1>2
  DEF Finish, PurgeSucceeds, CheckStalled, PurgeFails, ReleaseFailed, Connected
<1>5. ASSUME UNCHANGED <<free, run>> PROVE PoolTyped'
  BY <1>5 DEF PoolWhole, Using
<1>6. ASSUME \/ \E t \in Tx : Submit(t) \/ Broadcasted(t) \/ Confirmed(t) \/ Resubmit(t)
             \/ \E k \in Task : TaskAdded(k) \/ TaskFailed(k)
      PROVE  UNCHANGED <<free, run>>
  BY <1>6 DEF Submit, Broadcasted, Confirmed, Resubmit, Moves, TaskAdded, TaskFailed, TaskMoves
<1>7. ASSUME \/ Tick \/ ErrorElsewhere \/ Beat \/ SlackFails \/ SlackSent \/ EmailQueued
             \/ \E c \in Check : CheckSettles(c)
             \/ UNCHANGED vars
      PROVE  UNCHANGED <<free, run>>
  BY <1>7 DEF Tick, ErrorElsewhere, Beat, SlackFails, SlackSent, EmailQueued, CheckSettles, vars
<1> QED BY <1>1, <1>3, <1>4, <1>5, <1>6, <1>7 DEF Next

\* Runs move through their stages.
LEMMA RunStep ==
  ASSUME Types, NEW r \in Run,
         \/ Begin(r) \/ Connect(r) \/ DatabaseAway(r) \/ NoClientInTime(r)
         \/ Finish(r) \/ PurgeFails(r)
  PROVE  Types'
<1> USE DEF Types
<1>1. ASSUME NEW s \in {"idle", "connecting", "connected"}, Goes(r, s)
      PROVE  run' \in [Run -> {"idle", "connecting", "connected"}]
  BY <1>1 DEF Goes
<1>2. CASE Begin(r) \/ Connect(r) \/ DatabaseAway(r) \/ NoClientInTime(r)
  BY <1>1, <1>2 DEF Begin, Connect, DatabaseAway, NoClientInTime, ConnectRejects,
                    dataVars, alertVars, beatVars
<1>3. Purged \in [Task -> [status : {"none", "pending", "failed"}, age : 0..(Retention + 1)]]
  BY BackgroundAssumption DEF Purged
<1>4. CASE PurgeSucceeds(r)
  BY <1>1, <1>3, <1>4 DEF PurgeSucceeds, Release, alertVars, beatVars
<1>5. CASE PurgeFails(r)
  <2>1. run' \in [Run -> {"idle", "connecting", "connected"}]
    BY <1>1, <1>5 DEF PurgeFails, ReleaseFailed, Release
  <2>2. task' \in [Task -> [status : {"none", "pending", "failed"}, age : 0..(Retention + 1)]]
    BY <1>3, <1>5 DEF PurgeFails
  <2>3. LogError /\ UNCHANGED <<started, tx, life, beatVars>>
    BY <1>5 DEF PurgeFails
  <2> QED BY <2>1, <2>2, <2>3, LogErrorTypes DEF beatVars
<1>6. CASE CheckStalled(r)
  <2>1. run' \in [Run -> {"idle", "connecting", "connected"}]
    BY <1>1, <1>6 DEF CheckStalled, Release
  <2>2. tx' \in [Tx -> [status : {"none", "pending", "broadcasted", "requeued", "failed",
                                  "confirmed"},
                        retries : 0..MaxRetries, age : 0..(Timeout + 1)]]
    <3>1. \A t \in Tx : Requeued(t) \in [status : {"requeued"}, retries : Nat, age : {0}]
                        /\ Requeued(t).retries = tx[t].retries + 1
      BY DEF Requeued
    <3>2. \A t \in Tx : tx[t].retries < MaxRetries => Requeued(t).retries \in 0..MaxRetries
      BY <3>1, BackgroundAssumption
    <3> DEFINE New(t) == IF ~Stalled(t) THEN tx[t]
                         ELSE IF tx[t].retries < MaxRetries THEN Requeued(t)
                         ELSE [tx[t] EXCEPT !.status = "failed"]
    <3>3. tx' = [t \in Tx |-> New(t)]
      BY <1>6 DEF CheckStalled
    <3>4. ASSUME NEW t \in Tx
          PROVE  New(t) \in [status : {"none", "pending", "broadcasted", "requeued", "failed",
                                      "confirmed"},
                             retries : 0..MaxRetries, age : 0..(Timeout + 1)]
      <4>1. CASE ~Stalled(t)
        BY <4>1
      <4>2. CASE Stalled(t) /\ tx[t].retries < MaxRetries
        BY <4>2, <3>2, BackgroundAssumption DEF Requeued
      <4>3. CASE Stalled(t) /\ ~(tx[t].retries < MaxRetries)
        BY <4>3
      <4> QED BY <4>1, <4>2, <4>3
    <3> HIDE DEF New
    <3> QED BY <3>3, <3>4
  <2> QED BY <2>1, <2>2, <1>6 DEF CheckStalled, alertVars, beatVars
<1> QED BY <1>2, <1>4, <1>5, <1>6 DEF Finish

\* Every step keeps the types.
LEMMA TypesStep ==
  ASSUME Types, [Next]_vars
  PROVE  Types'
<1> USE DEF Types
<1>1. CASE Tick
  <2>1. \A m \in Nat : \A a \in 0..m : Older(a, m) \in 0..m
    BY DEF Older, Least
  <2>2. tx' \in [Tx -> [status : {"none", "pending", "broadcasted", "requeued", "failed",
                                  "confirmed"},
                        retries : 0..MaxRetries, age : 0..(Timeout + 1)]]
    <3>0. Timeout + 1 \in Nat /\ \A t \in Tx : tx[t].age \in 0..(Timeout + 1)
      BY BackgroundAssumption
    <3>1. \A t \in Tx : Older(tx[t].age, Timeout + 1) \in 0..(Timeout + 1)
      BY ONLY <2>1, <3>0
    <3> QED BY <3>1, <1>1 DEF Tick
  <2>3. life' \in [Tx -> 0..LifeMax]
    BY <2>1, <1>1, Bounds DEF Tick
  <2>4. task' \in [Task -> [status : {"none", "pending", "failed"}, age : 0..(Retention + 1)]]
    <3>0. Retention + 1 \in Nat /\ \A k \in Task : task[k].age \in 0..(Retention + 1)
      BY BackgroundAssumption
    <3>1. \A k \in Task : Older(task[k].age, Retention + 1) \in 0..(Retention + 1)
      BY ONLY <2>1, <3>0
    <3> QED BY <3>1, <1>1 DEF Tick
  <2>5. windowAge' \in 0..Window /\ alertAge' \in 0..(2 * Window)
    <3>1. Window \in Nat /\ 2 * Window \in Nat
      BY BackgroundAssumption
    <3>2. Older(windowAge, Window) \in 0..Window /\ Older(alertAge, 2 * Window) \in 0..(2 * Window)
      <4>1. windowAge \in 0..Window /\ alertAge \in 0..(2 * Window)
        OBVIOUS
      <4> QED BY ONLY <2>1, <3>1, <4>1
    <3> QED BY <3>2, <1>1 DEF Tick
  <2>6. recent' \in [1..Spike -> 0..Window]
    <3>1. \A n \in 1..Spike : recent[n] \in 0..Window
      BY Bounds
    <3>2. Window \in Nat
      BY BackgroundAssumption
    <3>3. \A n \in 1..Spike : Older(recent[n], Window) \in 0..Window
      BY ONLY <2>1, <3>1, <3>2
    <3> QED BY <3>3, <1>1 DEF Tick
  <2> QED BY <2>2, <2>3, <2>4, <2>5, <2>6, <1>1 DEF Tick, beatVars
<1>2. CASE ErrorElsewhere
  BY <1>2, LogErrorTypes DEF ErrorElsewhere, dataVars, beatVars
<1>3. ASSUME NEW t \in Tx, Submit(t) \/ Broadcasted(t) \/ Confirmed(t) \/ Resubmit(t)
      PROVE  Types'
  <2>1. ASSUME NEW from, NEW to \in {"pending", "broadcasted", "confirmed"}, Moves(t, from, to)
        PROVE  Types'
    <3>1. tx' = [tx EXCEPT ![t].status = to]
      BY <2>1 DEF Moves
    <3>2. tx' \in [Tx -> [status : {"none", "pending", "broadcasted", "requeued", "failed",
                                    "confirmed"},
                          retries : 0..MaxRetries, age : 0..(Timeout + 1)]]
      BY <3>1
    <3> QED BY <3>2, <2>1 DEF Moves, alertVars, beatVars
  <2> QED BY <2>1, <1>3 DEF Submit, Broadcasted, Confirmed, Resubmit
<1>4. ASSUME NEW k \in Task, TaskAdded(k) \/ TaskFailed(k) PROVE Types'
  BY <1>4 DEF TaskAdded, TaskFailed, TaskMoves, alertVars, beatVars
<1>5. CASE Beat \/ SlackFails \/ SlackSent \/ EmailQueued \/ \E c \in Check : CheckSettles(c)
  <2>1. notified' \subseteq {n \in Notification : n[1] \in Channel}
    BY <1>5 DEF Beat, SlackFails, SlackSent, EmailQueued, CheckSettles, Notification
  <2> QED
    BY <1>5, <2>1 DEF Beat, SlackFails, SlackSent, EmailQueued, CheckSettles, dataVars, alertVars
<1>6. CASE UNCHANGED vars
  BY <1>6 DEF vars, dataVars, alertVars, beatVars
<1> QED BY <1>1, <1>2, <1>3, <1>4, <1>5, <1>6, RunStep DEF Next

\* The initial state is of its types, with all clients in the pool.
LEMMA InitTypes == Init => Types /\ PoolTyped /\ RetriesTakeTime
<1> SUFFICES ASSUME Init PROVE Types /\ PoolTyped /\ RetriesTakeTime
  OBVIOUS
<1>1. Types
  BY BackgroundAssumption, Bounds DEF Init, Types
<1>2. Using = {}
  BY DEF Init, Using
<1>3. PoolTyped
  BY <1>2, FS_EmptySet, BackgroundAssumption DEF Init, PoolTyped, PoolWhole
<1>4. RetriesTakeTime
  BY BackgroundAssumption, OneMore, 0 * (Timeout + 1) = 0 DEF Init, RetriesTakeTime, Active
<1> QED BY <1>1, <1>3, <1>4

\* Every variable keeps the values it may have, and the pool is whole: each client is
\* in it or with one run, none is lost whatever queries fail, and none is released
\* twice (Background.TypeOK, PoolWhole; cleanup.ts:17-41, watcher.ts:15-46).
THEOREM TypeCorrect == Spec => [](TypeOK /\ PoolWhole)
<1>1. Types /\ PoolTyped /\ [Next]_vars => (Types /\ PoolTyped)'
  BY TypesStep, PoolStep
<1>2. Types /\ PoolTyped => TypeOK /\ PoolWhole
  <2> SUFFICES ASSUME Types, PoolTyped PROVE free \in 0..PoolMax
    BY DEF Types, TypeOK, PoolTyped
  <2>1. Cardinality(Using) \in Nat
    BY BackgroundAssumption, FS_Subset, FS_CardinalityType DEF Using
  <2> QED BY <2>1, BackgroundAssumption DEF PoolTyped, PoolWhole
<1> QED BY InitTypes, <1>1, <1>2, PTL DEF Spec

\* A transaction's age accounts for its retries at each step.
LEMMA RetriesStep ==
  ASSUME Types, RetriesTakeTime, [Next]_vars
  PROVE  RetriesTakeTime'
<1> USE DEF RetriesTakeTime, Active
<1>1. ASSUME NEW t \in Tx
      PROVE  /\ tx[t].retries \in 0..MaxRetries /\ tx[t].age \in 0..(Timeout + 1)
             /\ life[t] \in 0..LifeMax
  BY DEF Types
<1>2. ASSUME NEW n \in 0..MaxRetries
      PROVE  /\ n * (Timeout + 1) \in Nat
             /\ (n + 1) * (Timeout + 1) = n * (Timeout + 1) + (Timeout + 1)
  BY OneMore, BackgroundAssumption
<1>3. LifeMax = MaxRetries * (Timeout + 1) + (Timeout + 1)
  BY <1>2, BackgroundAssumption DEF LifeMax
<1>4. ASSUME NEW n \in 0..MaxRetries
      PROVE  n * (Timeout + 1) + (Timeout + 1) <= LifeMax
  <2>1. n * (Timeout + 1) <= MaxRetries * (Timeout + 1)
    BY BackgroundAssumption
  <2> QED BY <2>1, <1>2, <1>3, BackgroundAssumption
<1>5. CASE Tick
  <2> SUFFICES ASSUME NEW t \in Tx
               PROVE  /\ tx'[t].status \in Active \cup {"none"} =>
                           tx'[t].retries * (Timeout + 1) + tx'[t].age <= life'[t]
                      /\ tx'[t].status = "none" => tx'[t].age = 0
                      /\ tx'[t].status = "failed" =>
                           tx'[t].retries = MaxRetries /\ life'[t] = LifeMax
    OBVIOUS
  <2>1. CASE tx[t].status \notin Active
    BY <2>1, <1>5 DEF Tick
  <2>2. CASE tx[t].status \in Active
    <3>1. /\ tx'[t] = [tx[t] EXCEPT !.age = Older(tx[t].age, Timeout + 1)]
          /\ life'[t] = Older(life[t], LifeMax)
      BY <2>2, <1>5 DEF Tick
    <3>2. /\ tx'[t].status = tx[t].status /\ tx'[t].retries = tx[t].retries
          /\ tx'[t].age = Older(tx[t].age, Timeout + 1)
      BY <3>1 DEF Types
    <3> DEFINE n == tx[t].retries * (Timeout + 1)
    <3>3. n \in Nat /\ n + (Timeout + 1) <= LifeMax /\ n + tx[t].age <= life[t]
      BY <1>1, <1>2, <1>4, <2>2
    <3>4. n + Older(tx[t].age, Timeout + 1) <= Older(life[t], LifeMax)
      <4> HIDE DEF n
      <4> QED BY <3>3, <1>1, Bounds, BackgroundAssumption DEF Older, Least
    <3> QED BY <3>1, <3>2, <3>4, <2>2
  <2> QED BY <2>1, <2>2
<1>6. ASSUME NEW r \in Run, CheckStalled(r) PROVE RetriesTakeTime'
  <2> SUFFICES ASSUME NEW t \in Tx
               PROVE  /\ tx'[t].status \in Active \cup {"none"} =>
                           tx'[t].retries * (Timeout + 1) + tx'[t].age <= life'[t]
                      /\ tx'[t].status = "none" => tx'[t].age = 0
                      /\ tx'[t].status = "failed" =>
                           tx'[t].retries = MaxRetries /\ life'[t] = LifeMax
    OBVIOUS
  <2>0. life' = life /\ tx'[t] = IF ~Stalled(t) THEN tx[t]
                                 ELSE IF tx[t].retries < MaxRetries THEN Requeued(t)
                                 ELSE [tx[t] EXCEPT !.status = "failed"]
    BY <1>6 DEF CheckStalled
  <2>1. CASE ~Stalled(t)
    BY <2>0, <2>1
  <2>2. CASE Stalled(t)
    <3>1. tx[t].age = Timeout + 1 /\ tx[t].status \in Active
      BY <2>2, <1>1, BackgroundAssumption DEF Stalled
    <3>2. tx[t].retries * (Timeout + 1) + (Timeout + 1) <= life[t]
      BY <3>1
    <3>3. CASE tx[t].retries < MaxRetries
      <4>1. /\ tx'[t].status = "requeued" /\ tx'[t].age = 0
            /\ tx'[t].retries = tx[t].retries + 1
        BY <2>0, <2>2, <3>3 DEF Requeued
      <4>2. (tx[t].retries + 1) * (Timeout + 1) <= life[t]
        BY <3>2, <1>1, <1>2
      <4>3. (tx[t].retries + 1) * (Timeout + 1) \in Nat
        BY <1>1, OneMore, BackgroundAssumption
      <4> DEFINE m == (tx[t].retries + 1) * (Timeout + 1)
      <4>4. m + 0 <= life[t]
        <5> HIDE DEF m
        <5> QED BY <4>2, <4>3, <1>1 DEF m
      <4> QED BY <4>1, <4>4, <2>0
    <3>4. CASE ~(tx[t].retries < MaxRetries)
      <4>1. tx[t].retries = MaxRetries
        BY <3>4, <1>1, BackgroundAssumption
      <4>2. life[t] = LifeMax
        BY <4>1, <3>2, <1>1, <1>3, Bounds
      <4>3. tx'[t].status = "failed" /\ tx'[t].retries = MaxRetries
        BY <2>0, <2>2, <3>4, <4>1 DEF Types
      <4> QED BY <4>2, <4>3, <2>0
    <3> QED BY <3>3, <3>4
  <2> QED BY <2>1, <2>2
<1>7. ASSUME NEW t \in Tx, Submit(t) \/ Broadcasted(t) \/ Confirmed(t) \/ Resubmit(t)
      PROVE  RetriesTakeTime'
  <2>1. ASSUME NEW from \in SUBSET (Active \cup {"none"}),
               NEW to \in {"pending", "broadcasted", "confirmed"}, Moves(t, from, to)
        PROVE  RetriesTakeTime'
    <3>1. tx' = [tx EXCEPT ![t].status = to] /\ life' = life /\ tx[t].status \in from
      BY <2>1 DEF Moves
    <3>2. tx'[t].status = to /\ tx'[t].retries = tx[t].retries /\ tx'[t].age = tx[t].age
      BY <3>1 DEF Types
    <3>3. \A u \in Tx \ {t} : tx'[u] = tx[u]
      BY <3>1 DEF Types
    <3> QED BY <3>1, <3>2, <3>3
  <2> QED BY <2>1, <1>7 DEF Submit, Broadcasted, Confirmed, Resubmit
<1>8. ASSUME UNCHANGED <<tx, life>> PROVE RetriesTakeTime'
  BY <1>8
<1>9. ASSUME NEW r \in Run,
             \/ Begin(r) \/ Connect(r) \/ DatabaseAway(r) \/ NoClientInTime(r)
             \/ PurgeSucceeds(r) \/ PurgeFails(r)
      PROVE  UNCHANGED <<tx, life>>
  BY <1>9 DEF Begin, Connect, DatabaseAway, NoClientInTime, ConnectRejects, PurgeSucceeds,
              PurgeFails, dataVars
<1>10. ASSUME \/ ErrorElsewhere \/ Beat \/ SlackFails \/ SlackSent \/ EmailQueued
              \/ \E c \in Check : CheckSettles(c)
              \/ \E k \in Task : TaskAdded(k) \/ TaskFailed(k)
              \/ UNCHANGED vars
       PROVE  UNCHANGED <<tx, life>>
  BY <1>10 DEF ErrorElsewhere, Beat, SlackFails, SlackSent, EmailQueued, CheckSettles,
               TaskAdded, TaskFailed, TaskMoves, vars, dataVars
<1> QED BY <1>5, <1>6, <1>7, <1>8, <1>9, <1>10 DEF Next, Finish

\* However often the watcher runs, and whoever moves transactions in between, none
\* is given up before all its retries have had their time
\* (Background.FailedOnlyAfterRetries).
THEOREM FailedOnlyAfterRetriesHolds == Spec => []FailedOnlyAfterRetries
<1>1. Types /\ RetriesTakeTime /\ [Next]_vars => (Types /\ RetriesTakeTime)'
  BY TypesStep, RetriesStep
<1>2. RetriesTakeTime => FailedOnlyAfterRetries
  BY DEF RetriesTakeTime, FailedOnlyAfterRetries
<1> QED BY InitTypes, <1>1, <1>2, PTL DEF Spec
-----------------------------------------------------------------------------
\* An alert was sent after the n-th last error, or less than a window before it.
AlertedSince(n) == n \in 1..Spike /\ recent[n] < Window => alertAge < Window + recent[n]

\* Of the last errors c came in the window there is now and o in the one before; all
\* others are a window ago.  A window in which the threshold was reached is alerted.
Windows(c, o) ==
  /\ errorCount = Least(c, Threshold)
  /\ \A n \in 1..Spike : /\ n > c => recent[n] >= windowAge
                         /\ n > c + o => recent[n] = Window
  /\ c >= Threshold => AlertedSince(1)
  /\ o >= Threshold => AlertedSince(c + 1)

\* Later errors are younger.
InOrder == \A m, n \in 1..Spike : m < n => recent[m] <= recent[n]

Alerts == InOrder /\ \E c, o \in Nat : Windows(c, o)

\* What the counters and ages of the alert may be.
LEMMA AlertTypes ==
  ASSUME Types
  PROVE  /\ Window \in Nat \ {0} /\ Threshold \in Nat \ {0} /\ Spike \in Nat \ {0}
         /\ windowAge \in 0..Window /\ alertAge \in 0..(2 * Window)
         /\ \A n \in 1..Spike : recent[n] \in 0..Window
<1>1. Spike \in Nat \ {0}
  BY Bounds
<1>2. recent \in [1..Spike -> 0..Window]
  BY DEF Types
<1> QED BY <1>1, <1>2, BackgroundAssumption DEF Types

\* An error in a process that alerts: the errors move one place on, and the error that
\* reaches the threshold is alerted.
LEMMA ErrorAlerts ==
  ASSUME Types, Alerts, LogError, "alerts" \in started
  PROVE  Alerts'
<1>0. /\ Window \in Nat \ {0} /\ Threshold \in Nat \ {0} /\ Spike \in Nat \ {0}
      /\ windowAge \in 0..Window /\ alertAge \in 0..(2 * Window)
      /\ \A n \in 1..Spike : recent[n] \in 0..Window
  BY AlertTypes
<1>1. PICK c \in Nat, o \in Nat : Windows(c, o)
  BY DEF Alerts
<1>2. \A n \in 1..Spike : recent'[n] = IF n = 1 THEN 0 ELSE recent[n - 1]
  BY DEF LogError
<1>3. alertAge' \in {0, alertAge}
  BY DEF LogError
<1>4. InOrder'
  <2> SUFFICES ASSUME NEW m \in 1..Spike, NEW n \in 1..Spike, m < n
               PROVE  recent'[m] <= recent'[n]
    BY DEF InOrder
  <2>1. n - 1 \in 1..Spike /\ recent'[n] = recent[n - 1]
    BY <1>0, <1>2
  <2>2. CASE m = 1
    BY <1>0, <1>2, <2>1, <2>2
  <2>3. CASE m # 1
    <3>1. m - 1 \in 1..Spike /\ recent'[m] = recent[m - 1] /\ m - 1 < n - 1
      BY <1>0, <1>2, <2>3
    <3> QED BY <2>1, <3>1 DEF Alerts, InOrder
  <2> QED BY <2>2, <2>3
<1>5. ASSUME NEW k \in Nat \ {0}, AlertedSince(k) PROVE AlertedSince(k + 1)'
  <2> SUFFICES ASSUME k + 1 \in 1..Spike, recent'[k + 1] < Window
               PROVE  alertAge' < Window + recent'[k + 1]
    BY DEF AlertedSince
  <2>1. k \in 1..Spike /\ recent'[k + 1] = recent[k]
    BY <1>0, <1>2
  <2>2. alertAge < Window + recent[k]
    BY <1>5, <2>1 DEF AlertedSince
  <2> QED BY <1>0, <1>3, <2>1, <2>2
<1>6. CASE NewWindow
  <2>1. errorCount' = Least(1, Threshold) /\ windowAge' = 0
    BY <1>6 DEF LogError, WindowAge
  <2>2. \A n \in 1..Spike : n > 1 => recent'[n] >= 0
    BY <1>0, <1>2
  <2>3. ASSUME NEW n \in 1..Spike, n > 1 + c PROVE recent'[n] = Window
    <3>1. n - 1 \in 1..Spike /\ n - 1 > c /\ recent'[n] = recent[n - 1]
      BY <1>0, <1>2, <2>3
    <3>2. recent[n - 1] >= windowAge
      BY <1>1, <3>1 DEF Windows
    <3> QED BY <1>0, <1>6, <3>1, <3>2 DEF NewWindow
  <2>4. 1 >= Threshold => AlertedSince(1)'
    <3>1. 1 >= Threshold => alertAge' < Window
      BY <1>0, <1>6 DEF LogError
    <3>2. recent'[1] = 0
      BY <1>0, <1>2
    <3> QED BY <1>0, <3>1, <3>2 DEF AlertedSince
  <2>5. c >= Threshold => AlertedSince(1 + 1)'
    BY <1>1, <1>5 DEF Windows
  <2>6. Windows(1, c)'
    BY <1>1, <2>1, <2>2, <2>3, <2>4, <2>5 DEF Windows
  <2> QED BY <1>1, <1>4, <2>6 DEF Alerts
<1>7. CASE ~NewWindow
  <2>1. errorCount' = Least(errorCount + 1, Threshold) /\ windowAge' = windowAge
    BY <1>7 DEF LogError, WindowAge
  <2>2. errorCount' = Least(c + 1, Threshold)
    BY <1>0, <1>1, <2>1 DEF Windows, Least
  <2>3. ASSUME NEW n \in 1..Spike, n > c + 1
        PROVE  recent'[n] >= windowAge /\ (n > (c + 1) + o => recent'[n] = Window)
    <3>1. n - 1 \in 1..Spike /\ n - 1 > c /\ recent'[n] = recent[n - 1]
      BY <1>0, <1>1, <1>2, <2>3
    <3> QED BY <1>1, <3>1 DEF Windows
  <2>4. c + 1 >= Threshold => AlertedSince(1)'
    <3>1. c + 1 >= Threshold => errorCount + 1 >= Threshold
      BY <1>0, <1>1 DEF Windows, Least
    <3>2. c + 1 >= Threshold => alertAge' < Window
      BY <1>0, <1>7, <3>1 DEF LogError
    <3>3. recent'[1] = 0
      BY <1>0, <1>2
    <3> QED BY <1>0, <3>2, <3>3 DEF AlertedSince
  <2>5. o >= Threshold => AlertedSince((c + 1) + 1)'
    BY <1>1, <1>5 DEF Windows
  <2>6. \A n \in 1..Spike : n > (c + 1) + o => n > c + 1
    BY <1>1
  <2>7. Windows(c + 1, o)'
    BY <1>1, <2>1, <2>2, <2>3, <2>4, <2>5, <2>6 DEF Windows
  <2> QED BY <1>1, <1>4, <2>7 DEF Alerts
<1> QED BY <1>6, <1>7

\* Errors, window and alert age together.
LEMMA TickAlerts ==
  ASSUME Types, Alerts, Tick
  PROVE  Alerts'
<1>0. /\ Window \in Nat \ {0} /\ Threshold \in Nat \ {0} /\ Spike \in Nat \ {0}
      /\ windowAge \in 0..Window /\ alertAge \in 0..(2 * Window)
      /\ \A n \in 1..Spike : recent[n] \in 0..Window
  BY AlertTypes
<1>1. PICK c \in Nat, o \in Nat : Windows(c, o)
  BY DEF Alerts
<1>2. /\ \A n \in 1..Spike : recent'[n] = Older(recent[n], Window)
      /\ windowAge' = Older(windowAge, Window) /\ alertAge' = Older(alertAge, 2 * Window)
      /\ errorCount' = errorCount
  BY DEF Tick
<1>3. InOrder'
  BY <1>0, <1>2 DEF Alerts, InOrder, Older, Least
<1>4. ASSUME NEW k \in Nat, AlertedSince(k) PROVE AlertedSince(k)'
  <2> SUFFICES ASSUME k \in 1..Spike, recent'[k] < Window
               PROVE  alertAge' < Window + recent'[k]
    BY DEF AlertedSince
  <2>1. recent'[k] = recent[k] + 1 /\ recent[k] < Window
    BY <1>0, <1>2 DEF Older, Least
  <2>2. alertAge < Window + recent[k]
    BY <1>4, <2>1 DEF AlertedSince
  <2>3. alertAge' <= alertAge + 1
    BY <1>0, <1>2 DEF Older, Least
  <2>4. alertAge' \in Nat
    BY <1>0, <1>2 DEF Older, Least
  <2> QED BY <1>0, <2>1, <2>2, <2>3, <2>4
<1>5. ASSUME NEW n \in 1..Spike
      PROVE  /\ n > c => recent'[n] >= windowAge'
             /\ n > c + o => recent'[n] = Window
  <2>1. /\ n > c => recent[n] >= windowAge
        /\ n > c + o => recent[n] = Window
    BY <1>1 DEF Windows
  <2> QED BY <1>0, <1>2, <2>1 DEF Older, Least
<1>6. Windows(c, o)'
  BY <1>1, <1>2, <1>4, <1>5 DEF Windows
<1> QED BY <1>1, <1>3, <1>6 DEF Alerts

\* Every step keeps the windows of the alert.
LEMMA AlertsStep ==
  ASSUME Types, Alerts, [Next]_vars
  PROVE  Alerts'
<1>1. ASSUME UNCHANGED alertVars PROVE Alerts'
  BY <1>1 DEF Alerts, InOrder, Windows, AlertedSince, alertVars
<1>2. ASSUME LogError PROVE Alerts'
  BY <1>1, <1>2, ErrorAlerts DEF LogError
<1>3. ASSUME NEW r \in Run,
             \/ Begin(r) \/ Connect(r) \/ DatabaseAway(r) \/ NoClientInTime(r)
             \/ PurgeSucceeds(r) \/ CheckStalled(r)
      PROVE  UNCHANGED alertVars
  BY <1>3 DEF Begin, Connect, DatabaseAway, NoClientInTime, ConnectRejects, PurgeSucceeds,
              CheckStalled
<1>4. ASSUME \/ Beat \/ SlackFails \/ SlackSent \/ EmailQueued
             \/ \E c \in Check : CheckSettles(c)
             \/ \E t \in Tx : Submit(t) \/ Broadcasted(t) \/ Confirmed(t) \/ Resubmit(t)
             \/ \E k \in Task : TaskAdded(k) \/ TaskFailed(k)
             \/ UNCHANGED vars
      PROVE  UNCHANGED alertVars
  BY <1>4 DEF Beat, SlackFails, SlackSent, EmailQueued, CheckSettles, Submit, Broadcasted,
              Confirmed, Resubmit, Moves, TaskAdded, TaskFailed, TaskMoves, vars
<1>5. ASSUME ErrorElsewhere \/ \E r \in Run : PurgeFails(r) PROVE LogError
  BY <1>5 DEF ErrorElsewhere, PurgeFails
<1> QED BY <1>1, <1>2, <1>3, <1>4, <1>5, TickAlerts DEF Next, Finish

\* Of as many errors within a window as cannot fit below the threshold in two, some
\* were alerted, wherever the logger's windows begin and whenever alerts are
\* suppressed (Background.SpikeIsAlerted; logger.js:82-92).
THEOREM SpikeIsAlertedHolds == Spec => []SpikeIsAlerted
<1>1. Init => Alerts
  <2> SUFFICES ASSUME Init PROVE Alerts
    OBVIOUS
  <2>1. InOrder /\ Windows(0, 0)
    BY Bounds, BackgroundAssumption DEF Init, InOrder, Windows, AlertedSince, Least
  <2> QED BY <2>1 DEF Alerts
<1>2. Types /\ Alerts /\ [Next]_vars => (Types /\ Alerts)'
  BY TypesStep, AlertsStep
<1>3. Types /\ Alerts => SpikeIsAlerted
  <2> SUFFICES ASSUME Types, Alerts, recent[Spike] < Window PROVE alertAge < 2 * Window
    BY DEF SpikeIsAlerted
  <2>0. /\ Window \in Nat \ {0} /\ Threshold \in Nat \ {0} /\ Spike \in Nat \ {0}
        /\ alertAge \in Nat /\ \A n \in 1..Spike : recent[n] \in 0..Window
    BY AlertTypes
  <2>1. PICK c \in Nat, o \in Nat : Windows(c, o)
    BY DEF Alerts
  <2>2. Spike <= c + o
    BY <2>0, <2>1 DEF Windows
  <2>3. c >= Threshold \/ (o >= Threshold /\ c + 1 \in 1..Spike)
    BY <2>0, <2>2 DEF Spike
  <2>4. ASSUME NEW k \in 1..Spike, AlertedSince(k) PROVE alertAge < 2 * Window
    <3>1. recent[k] <= recent[Spike]
      BY <2>0 DEF Alerts, InOrder
    <3>2. recent[k] < Window
      BY <2>0, <3>1
    <3> QED BY <2>0, <2>4, <3>2 DEF AlertedSince
  <2> QED BY <2>0, <2>1, <2>3, <2>4 DEF Windows
<1> QED BY InitTypes, <1>1, <1>2, <1>3, PTL DEF Spec
=============================================================================
