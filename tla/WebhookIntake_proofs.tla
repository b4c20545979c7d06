------------------------ MODULE WebhookIntake_proofs ------------------------
(***************************************************************************)
(* Proofs about WebhookIntake, for any processes, requests and limits.     *)
(***************************************************************************)
EXTENDS WebhookIntake, TLAPS

\* A count that is not answered is of a slot of its own, which waits for it.
Counting(p, i) == wire[p][i].command = "incr"
Wires ==
  \A p \in Process : \A i \in DOMAIN wire[p] : Counting(p, i) =>
    /\ ProcOf[wire[p][i].slot] = p
    /\ stage[wire[p][i].slot] = "counting"
    /\ \A k \in DOMAIN wire[p] : Counting(p, k) /\ wire[p][k].slot = wire[p][i].slot => k = i

Inv == TypeOK /\ Wires

\* The two kinds of commands.
LEMMA Commands ==
  \A c \in CommandSet : /\ c.command \in {"incr", "pexpire"}
                        /\ c.command = "incr" => c.slot \in Slot
                        /\ c.command = "pexpire" => c.ip \in Ip
BY DEF CommandSet

LEMMA CountIsCommand ==
  ASSUME NEW s \in Slot
  PROVE  Count(s) \in CommandSet /\ Count(s).command = "incr" /\ Count(s).slot = s
BY DEF Count, CommandSet

LEMMA ExpireIsCommand ==
  ASSUME NEW ip \in Ip
  PROVE  Expire(ip) \in CommandSet /\ Expire(ip).command = "pexpire"
BY DEF Expire, CommandSet

LEMMA HitsMaxDef == HitsMax \in Nat /\ AuthMax < HitsMax /\ PublicMax < HitsMax
BY IntakeAssumption DEF HitsMax

\* Counters and ages stay below their bounds.
LEMMA AgesTyped == \A a \in 0..Window : Lesser(a + 1, Window) \in 0..Window
BY IntakeAssumption DEF Lesser

\* Counting a request makes no counter smaller.
LEMMA CountsUp ==
  ASSUME hits \in [Ip -> 0..HitsMax], NEW i \in Ip, hits' = [hits EXCEPT ![i] = Counted(i)]
  PROVE  \A ip \in Ip : hits[ip] \in Nat /\ hits'[ip] \in Nat /\ hits[ip] <= hits'[ip]
<1>1. \A a \in 0..HitsMax :
        Lesser(a + 1, HitsMax) \in 0..HitsMax /\ a <= Lesser(a + 1, HitsMax)
  BY HitsMaxDef DEF Lesser
<1>2. hits[i] \in 0..HitsMax
  OBVIOUS
<1>3. Counted(i) \in 0..HitsMax /\ hits[i] <= Counted(i)
  BY <1>1, <1>2 DEF Counted
<1> QED BY <1>3, HitsMaxDef

LEMMA AddressOf ==
  \A r \in Request : r.ip \in Ip
BY IntakeAssumption DEF RequestType

LEMMA InitInv == Init => Inv
<1> SUFFICES ASSUME Init PROVE Inv
  OBVIOUS
<1> USE IntakeAssumption DEF Init
<1>1. TypeOK
  BY HitsMaxDef DEF TypeOK
<1>2. Wires
  BY DEF Wires
<1> QED BY <1>1, <1>2 DEF Inv

\* The first command of a process, when it is a count.
LEMMA FirstCount ==
  ASSUME Inv, NEW p \in Process, wire[p] # <<>>, Head(wire[p]).command = "incr"
  PROVE  LET s == Head(wire[p]).slot IN
         /\ s \in Slot /\ ProcOf[s] = p /\ stage[s] = "counting"
         /\ req[s] \in Request /\ req[s].ip \in Ip
<1> DEFINE s == Head(wire[p]).slot
<1>1. wire[p] \in Seq(CommandSet) /\ Head(wire[p]) = wire[p][1] /\ 1 \in DOMAIN wire[p]
  BY DEF Inv, TypeOK
<1>2. wire[p][1] \in CommandSet
  BY <1>1
<1>3. s \in Slot
  BY <1>1, <1>2, Commands
<1>4. ProcOf[s] = p /\ stage[s] = "counting"
  BY <1>1 DEF Inv, Wires, Counting
<1>5. req[s] \in Request
  BY <1>3, <1>4 DEF Inv, TypeOK
<1> QED BY <1>3, <1>4, <1>5, AddressOf

\* The first command is answered, its slot waits no longer, and no other process'
\* commands change.
LEMMA WiresAnswered ==
  ASSUME Inv, NEW p \in Process, wire[p] # <<>>, Head(wire[p]).command = "incr",
         NEW c \in CommandSet, c.command = "pexpire",
         wire' = [wire EXCEPT ![p] = Tail(@)] \/ wire' = [wire EXCEPT ![p] = Append(Tail(@), c)],
         NEW v \in {"idle", "enqueuing"}, stage' = [stage EXCEPT ![Head(wire[p]).slot] = v]
  PROVE  Wires' /\ wire' \in [Process -> Seq(CommandSet)]
<1> DEFINE s == Head(wire[p]).slot
<1>1. wire \in [Process -> Seq(CommandSet)] /\ stage \in [Slot -> {"idle", "counting", "enqueuing"}]
  BY DEF Inv, TypeOK
<1>2. s \in Slot /\ ProcOf[s] = p /\ Head(wire[p]) = wire[p][1] /\ 1 \in DOMAIN wire[p]
  BY <1>1, FirstCount
<1>3. wire' \in [Process -> Seq(CommandSet)]
  <2>1. Tail(wire[p]) \in Seq(CommandSet) /\ Append(Tail(wire[p]), c) \in Seq(CommandSet)
    BY <1>1
  <2> QED BY <1>1, <2>1
<1>4. \A q \in Process : q # p => wire'[q] = wire[q]
  BY <1>1
<1>5. \A i \in DOMAIN wire'[p] : wire'[p][i].command = "incr" =>
         i + 1 \in DOMAIN wire[p] /\ wire'[p][i] = wire[p][i + 1]
  <2>1. CASE wire' = [wire EXCEPT ![p] = Tail(@)]
    BY <1>1, <2>1
  <2>2. CASE wire' = [wire EXCEPT ![p] = Append(Tail(@), c)]
    <3>1. wire'[p] = Append(Tail(wire[p]), c) /\ Tail(wire[p]) \in Seq(CommandSet)
      BY <1>1, <2>2
    <3>2. Len(Tail(wire[p])) = Len(wire[p]) - 1 /\ Len(wire[p]) \in Nat
      BY <1>1
    <3>3. \A i \in DOMAIN wire'[p] : i \in 1..Len(wire[p]) - 1 \/ wire'[p][i] = c
      BY <3>1, <3>2
    <3>4. \A i \in 1..Len(wire[p]) - 1 : wire'[p][i] = wire[p][i + 1]
      BY <1>1, <3>1, <3>2
    <3> QED BY <1>1, <3>2, <3>3, <3>4
  <2> QED BY <2>1, <2>2
<1>6. SUFFICES ASSUME NEW q \in Process, NEW i \in DOMAIN wire'[q],
                      wire'[q][i].command = "incr"
               PROVE  /\ ProcOf[wire'[q][i].slot] = q
                      /\ stage'[wire'[q][i].slot] = "counting"
                      /\ \A k \in DOMAIN wire'[q] :
                           wire'[q][k].command = "incr" /\ wire'[q][k].slot = wire'[q][i].slot
                             => k = i
  BY <1>3 DEF Wires, Counting
<1>7. CASE q = p
  <2>1. i + 1 \in DOMAIN wire[p] /\ wire'[p][i] = wire[p][i + 1]
    BY <1>5, <1>6, <1>7
  <2>2. ProcOf[wire[p][i + 1].slot] = p /\ stage[wire[p][i + 1].slot] = "counting"
    BY <1>6, <1>7, <2>1 DEF Inv, Wires, Counting
  <2>3. i + 1 # 1
    BY <1>1, <1>3, <1>7
  <2>4. wire[p][i + 1].slot # s
    BY <1>2, <1>6, <1>7, <2>1, <2>3 DEF Inv, Wires, Counting
  <2>5. stage'[wire[p][i + 1].slot] = "counting"
    BY <1>1, <2>2, <2>4
  <2>6. ASSUME NEW k \in DOMAIN wire'[p], wire'[p][k].command = "incr",
               wire'[p][k].slot = wire'[p][i].slot
        PROVE  k = i
    <3>1. k + 1 \in DOMAIN wire[p] /\ wire'[p][k] = wire[p][k + 1]
      BY <1>5, <2>6
    <3>2. k + 1 = i + 1
      BY <1>6, <1>7, <2>1, <2>6, <3>1 DEF Inv, Wires, Counting
    <3> QED BY <1>3, <1>7, <3>2
  <2> QED BY <1>7, <2>1, <2>2, <2>5, <2>6
<1>8. CASE q # p
  <2>1. /\ ProcOf[wire[q][i].slot] = q /\ stage[wire[q][i].slot] = "counting"
        /\ \A k \in DOMAIN wire[q] :
             wire[q][k].command = "incr" /\ wire[q][k].slot = wire[q][i].slot => k = i
    BY <1>4, <1>6, <1>8 DEF Inv, Wires, Counting
  <2>2. wire[q][i].slot # s
    BY <1>2, <1>8, <2>1
  <2>3. stage'[wire[q][i].slot] = "counting"
    BY <1>1, <2>1, <2>2
  <2> QED BY <1>4, <1>8, <2>1, <2>3
<1> QED BY <1>7, <1>8

\* The variables that a request's way through the limiter changes keep their types.
LEMMA AnswersTyped ==
  ASSUME Inv, NEW s \in Slot, NEW r \in Request, req[s] = r, r.ip \in Ip,
         Answered(s) \/ Pass(s, r), passed' = passed \/ Remember(r)
  PROVE  /\ stage' \in [Slot -> {"idle", "counting", "enqueuing"}]
         /\ req' \in [Slot -> Request \cup {Missing}]
         /\ \A t \in Slot : stage'[t] = "idle" <=> req'[t] = Missing
         /\ passed' \in [Ip -> [1..Burst -> 0..Window]]
         /\ \E v \in {"idle", "enqueuing"} : stage' = [stage EXCEPT ![s] = v]
<1> USE IntakeAssumption
<1>1. /\ stage \in [Slot -> {"idle", "counting", "enqueuing"}]
      /\ req \in [Slot -> Request \cup {Missing}]
      /\ \A t \in Slot : stage[t] = "idle" <=> req[t] = Missing
      /\ passed \in [Ip -> [1..Burst -> 0..Window]]
  BY DEF Inv, TypeOK
<1>2. r # Missing
  OBVIOUS
<1> DEFINE Typed == /\ stage' \in [Slot -> {"idle", "counting", "enqueuing"}]
                    /\ req' \in [Slot -> Request \cup {Missing}]
                    /\ \A t \in Slot : stage'[t] = "idle" <=> req'[t] = Missing
                    /\ \E v \in {"idle", "enqueuing"} : stage' = [stage EXCEPT ![s] = v]
<1>3. ASSUME Answered(s) PROVE Typed
  BY <1>1, <1>3 DEF Answered
<1>4. ASSUME stage' = [stage EXCEPT ![s] = "enqueuing"], req' = req PROVE Typed
  BY <1>1, <1>2, <1>4
<1>5. passed' \in [Ip -> [1..Burst -> 0..Window]]
  <2>1. CASE passed' = passed
    BY <1>1, <2>1
  <2>2. CASE passed' = [passed EXCEPT ![r.ip] = [n \in 1..Burst |-> IF n = 1 THEN 0 ELSE @[n - 1]]]
    <3>1. [n \in 1..Burst |-> IF n = 1 THEN 0 ELSE passed[r.ip][n - 1]] \in [1..Burst -> 0..Window]
      BY <1>1 DEF Burst
    <3> QED BY <1>1, <2>2, <3>1
  <2> QED BY <2>1, <2>2 DEF Remember
<1> QED BY <1>3, <1>4, <1>5 DEF Pass

LEMMA InvStep ==
  ASSUME Inv, [Next]_vars
  PROVE  Inv'
<1> USE IntakeAssumption, HitsMaxDef DEF Inv, redis, server, outcome
<1>0. /\ hits \in [Ip -> 0..HitsMax] /\ ttl \in [Ip -> 0..Window]
      /\ wire \in [Process -> Seq(CommandSet)]
      /\ \A ip \in Ip : Counted(ip) \in 0..HitsMax
  BY HitsMaxDef DEF TypeOK, Counted, Lesser
<1>1. ASSUME NEW s \in Slot, Enqueue(s) PROVE Inv'
  <2>1. /\ stage[s] = "enqueuing" /\ stage' = [stage EXCEPT ![s] = "idle"]
        /\ req' = [req EXCEPT ![s] = Missing]
        /\ UNCHANGED <<hits, ttl, wire, passed>>
    BY <1>1 DEF Enqueue, Answered
  <2>3. TypeOK'
    BY <2>1 DEF TypeOK
  <2>4. Wires'
    BY <2>1 DEF Wires, Counting, TypeOK
  <2> QED BY <2>3, <2>4
<1>2. ASSUME NEW s \in Slot, NEW r \in Request, Arrive(s, r) PROVE Inv'
  <2> DEFINE p == ProcOf[s]
  <2>1. /\ stage[s] = "idle" /\ stage' = [stage EXCEPT ![s] = "counting"]
        /\ req' = [req EXCEPT ![s] = r]
        /\ wire' = [wire EXCEPT ![p] = Append(@, Count(s))]
        /\ UNCHANGED <<hits, ttl, jobs, passed>>
    BY <1>2 DEF Arrive
  <2>2. Append(wire[p], Count(s)) \in Seq(CommandSet)
    BY <1>0, CountIsCommand
  <2>3. TypeOK'
    BY <1>0, <2>1, <2>2 DEF TypeOK
  <2>4. Wires'
    <3>1. SUFFICES ASSUME NEW q \in Process, NEW i \in DOMAIN wire'[q],
                          wire'[q][i].command = "incr"
                   PROVE  /\ ProcOf[wire'[q][i].slot] = q
                          /\ stage'[wire'[q][i].slot] = "counting"
                          /\ \A k \in DOMAIN wire'[q] :
                               wire'[q][k].command = "incr" /\ wire'[q][k].slot = wire'[q][i].slot
                                 => k = i
      BY DEF Wires, Counting
    <3>2. \A t \in Process : \A k \in DOMAIN wire[t] :
            wire[t][k].command = "incr" => wire[t][k].slot # s
      BY <2>1 DEF Wires, Counting
    <3>3. \A t \in Slot : stage[t] = "counting" => stage'[t] = "counting"
      BY <2>1 DEF TypeOK
    <3>4. \A k \in DOMAIN wire[q] : wire[q][k].command = "incr" => wire[q][k].slot \in Slot
      BY <1>0, Commands
    <3>5. CASE q = p
      <4>1. /\ wire'[p] = Append(wire[p], Count(s)) /\ wire[p] \in Seq(CommandSet)
            /\ DOMAIN wire'[p] = 1..Len(wire[p]) + 1 /\ wire'[p][Len(wire[p]) + 1] = Count(s)
            /\ \A k \in DOMAIN wire[p] : wire'[p][k] = wire[p][k]
            /\ \A k \in DOMAIN wire'[p] : k \in DOMAIN wire[p] \/ k = Len(wire[p]) + 1
        BY <1>0, <2>1
      <4>2. CASE i = Len(wire[p]) + 1
        <5>1. wire'[q][i].slot = s
          BY <3>5, <4>1, <4>2, CountIsCommand
        <5>2. stage'[s] = "counting"
          BY <2>1 DEF TypeOK
        <5> QED BY <3>2, <3>5, <4>1, <4>2, <5>1, <5>2
      <4>3. CASE i \in DOMAIN wire[p]
        <5>1. wire'[q][i] = wire[q][i] /\ wire[q][i].slot # s /\ wire[q][i].slot \in Slot
          BY <3>1, <3>2, <3>4, <3>5, <4>1, <4>3
        <5>2. ProcOf[wire[q][i].slot] = q /\ stage'[wire[q][i].slot] = "counting"
          BY <3>1, <3>3, <3>5, <4>3, <5>1 DEF Wires, Counting
        <5>3. ASSUME NEW k \in DOMAIN wire'[q], wire'[q][k].command = "incr",
                     wire'[q][k].slot = wire'[q][i].slot
              PROVE  k = i
          <6>1. k # Len(wire[p]) + 1
            BY <3>5, <4>1, <5>1, <5>3, CountIsCommand
          <6>2. k \in DOMAIN wire[q] /\ wire'[q][k] = wire[q][k]
            BY <3>5, <4>1, <5>3, <6>1
          <6> QED BY <3>1, <3>5, <4>3, <5>1, <5>3, <6>2 DEF Wires, Counting
        <5> QED BY <5>1, <5>2, <5>3
      <4> QED BY <3>5, <4>1, <4>2, <4>3
    <3>6. CASE q # p
      <4>1. wire'[q] = wire[q]
        BY <1>0, <2>1, <3>6
      <4> QED BY <3>1, <3>3, <3>4, <4>1 DEF Wires, Counting
    <3> QED BY <3>5, <3>6
  <2> QED BY <2>3, <2>4
<1>3. ASSUME NEW p \in Process, ServeCount(p) PROVE Inv'
  <2> DEFINE s == Head(wire[p]).slot
             r == req[s]
  <2>1. wire[p] # <<>> /\ Head(wire[p]).command = "incr"
    BY <1>3 DEF ServeCount
  <2>2. s \in Slot /\ r \in Request /\ r.ip \in Ip
    BY <2>1, FirstCount
  <2>3. (Answered(s) \/ Pass(s, r)) /\ (passed' = passed \/ Remember(r))
    BY <1>3 DEF ServeCount
  <2>4. /\ stage' \in [Slot -> {"idle", "counting", "enqueuing"}]
        /\ req' \in [Slot -> Request \cup {Missing}]
        /\ \A t \in Slot : stage'[t] = "idle" <=> req'[t] = Missing
        /\ passed' \in [Ip -> [1..Burst -> 0..Window]]
        /\ \E v \in {"idle", "enqueuing"} : stage' = [stage EXCEPT ![s] = v]
    BY <2>2, <2>3, AnswersTyped
  <2>5. \/ wire' = [wire EXCEPT ![p] = Tail(@)]
        \/ wire' = [wire EXCEPT ![p] = Append(Tail(@), Expire(r.ip))]
    BY <1>3 DEF ServeCount, Replied
  <2>6. Wires' /\ wire' \in [Process -> Seq(CommandSet)]
    BY <2>1, <2>2, <2>4, <2>5, ExpireIsCommand, WiresAnswered
  <2>7. hits' \in [Ip -> 0..HitsMax] /\ ttl' = ttl
    BY <1>0, <1>3, <2>2 DEF ServeCount
  <2> QED BY <2>4, <2>6, <2>7 DEF TypeOK
<1>4. ASSUME NEW p \in Process, CountFails(p) PROVE Inv'
  <2> DEFINE s == Head(wire[p]).slot
  <2>1. wire[p] # <<>> /\ Head(wire[p]).command = "incr"
    BY <1>4 DEF CountFails
  <2>2. s \in Slot /\ req[s] \in Request /\ req[s].ip \in Ip
    BY <2>1, FirstCount
  <2>3. Answered(s) /\ UNCHANGED <<passed, hits, ttl>>
        /\ wire' = [wire EXCEPT ![p] = Tail(@)]
    BY <1>4 DEF CountFails
  <2>4. /\ stage' \in [Slot -> {"idle", "counting", "enqueuing"}]
        /\ req' \in [Slot -> Request \cup {Missing}]
        /\ \A t \in Slot : stage'[t] = "idle" <=> req'[t] = Missing
        /\ passed' \in [Ip -> [1..Burst -> 0..Window]]
        /\ \E v \in {"idle", "enqueuing"} : stage' = [stage EXCEPT ![s] = v]
    BY <2>2, <2>3, AnswersTyped
  <2>5. Wires' /\ wire' \in [Process -> Seq(CommandSet)]
    BY <2>1, <2>2, <2>3, <2>4, ExpireIsCommand, WiresAnswered
  <2> QED BY <2>3, <2>4, <2>5 DEF TypeOK
<1>10. ASSUME NEW p \in Process, CountMissing(p) PROVE Inv'
  <2> DEFINE s == Head(wire[p]).slot
             r == req[s]
  <2>1. wire[p] # <<>> /\ Head(wire[p]).command = "incr"
    BY <1>10 DEF CountMissing
  <2>2. s \in Slot /\ r \in Request /\ r.ip \in Ip
    BY <2>1, FirstCount
  <2>3. Pass(s, r) /\ UNCHANGED <<passed, hits, ttl>>
    BY <1>10 DEF CountMissing
  <2>4. /\ stage' \in [Slot -> {"idle", "counting", "enqueuing"}]
        /\ req' \in [Slot -> Request \cup {Missing}]
        /\ \A t \in Slot : stage'[t] = "idle" <=> req'[t] = Missing
        /\ passed' \in [Ip -> [1..Burst -> 0..Window]]
        /\ \E v \in {"idle", "enqueuing"} : stage' = [stage EXCEPT ![s] = v]
    BY <2>2, <2>3, AnswersTyped
  <2>5. \/ wire' = [wire EXCEPT ![p] = Tail(@)]
        \/ wire' = [wire EXCEPT ![p] = Append(Tail(@), Expire(r.ip))]
    BY <1>10 DEF CountMissing, Replied
  <2>6. Wires' /\ wire' \in [Process -> Seq(CommandSet)]
    BY <2>1, <2>2, <2>4, <2>5, ExpireIsCommand, WiresAnswered
  <2> QED BY <2>3, <2>4, <2>6 DEF TypeOK
<1>5. ASSUME NEW p \in Process, Resend(p) PROVE Inv'
  <2>1. req[Head(wire[p]).slot].ip \in Ip
    BY <1>5, FirstCount DEF Resend
  <2>2. hits' \in [Ip -> 0..HitsMax]
        /\ UNCHANGED <<ttl, wire, stage, req, jobs, passed>>
    BY <1>0, <1>5, <2>1 DEF Resend
  <2> QED BY <2>2 DEF TypeOK, Wires, Counting
<1>6. ASSUME NEW p \in Process, ServeExpire(p) \/ ExpireFails(p) PROVE Inv'
  <2>1. /\ wire[p] # <<>> /\ Head(wire[p]).command = "pexpire"
        /\ wire' = [wire EXCEPT ![p] = Tail(@)]
        /\ UNCHANGED <<hits, stage, req, jobs, passed>>
    BY <1>6 DEF ServeExpire, ExpireFails
  <2>2. Head(wire[p]) \in CommandSet /\ Tail(wire[p]) \in Seq(CommandSet)
    BY <1>0, <2>1
  <2>3. Head(wire[p]).ip \in Ip
    BY <2>1, <2>2, Commands
  <2>4. ttl' \in [Ip -> 0..Window]
    <3>1. \/ ttl' = ttl
          \/ ttl' = [ttl EXCEPT ![Head(wire[p]).ip] = Window]
          \/ ttl' = [ttl EXCEPT ![Head(wire[p]).ip] = 0]
      BY <1>6 DEF ServeExpire, ExpireFails
    <3>2. ttl \in [Ip -> 0..Window] /\ Window \in 0..Window /\ 0 \in 0..Window
      BY <1>0
    <3> QED BY ONLY <2>3, <3>1, <3>2
  <2>5. wire' \in [Process -> Seq(CommandSet)]
    BY <1>0, <2>1, <2>2
  <2>6. \A q \in Process : \A i \in DOMAIN wire'[q] :
          \E j \in DOMAIN wire[q] : /\ wire'[q][i] = wire[q][j]
                                    /\ j = IF q = p THEN i + 1 ELSE i
    BY <1>0, <2>1
  <2>7. Wires'
    <3>1. SUFFICES ASSUME NEW q \in Process, NEW i \in DOMAIN wire'[q],
                          wire'[q][i].command = "incr"
                   PROVE  /\ ProcOf[wire'[q][i].slot] = q
                          /\ stage'[wire'[q][i].slot] = "counting"
                          /\ \A k \in DOMAIN wire'[q] :
                               wire'[q][k].command = "incr" /\ wire'[q][k].slot = wire'[q][i].slot
                                 => k = i
      BY DEF Wires, Counting
    <3>2. PICK j \in DOMAIN wire[q] : wire'[q][i] = wire[q][j] /\ j = IF q = p THEN i + 1 ELSE i
      BY <2>6
    <3>3. ASSUME NEW k \in DOMAIN wire'[q], wire'[q][k].command = "incr",
                 wire'[q][k].slot = wire'[q][i].slot
          PROVE  k = i
      <4>1. PICK l \in DOMAIN wire[q] : wire'[q][k] = wire[q][l] /\ l = IF q = p THEN k + 1 ELSE k
        BY <2>6
      <4>2. l = j
        BY <3>1, <3>2, <3>3, <4>1 DEF Wires, Counting
      <4>3. k \in Int /\ i \in Int
        BY <2>5
      <4> QED BY <3>2, <4>1, <4>2, <4>3
    <3> QED BY <2>1, <3>1, <3>2, <3>3 DEF Wires, Counting
  <2> QED BY <2>1, <2>4, <2>5, <2>7 DEF TypeOK
<1>7. ASSUME NEW p \in Process, Crash(p) PROVE Inv'
  <2>1. /\ wire' = [wire EXCEPT ![p] = <<>>]
        /\ stage' = [s \in Slot |-> IF ProcOf[s] = p THEN "idle" ELSE stage[s]]
        /\ req' = [s \in Slot |-> IF ProcOf[s] = p THEN Missing ELSE req[s]]
        /\ UNCHANGED <<hits, ttl, jobs, passed>>
    BY <1>7 DEF Crash
  <2>2. TypeOK'
    BY <1>0, <2>1 DEF TypeOK
  <2>3. Wires'
    <3>1. \A q \in Process : \A k \in DOMAIN wire[q] :
            wire[q][k].command = "incr" => wire[q][k].slot \in Slot
      BY <1>0, Commands
    <3>2. \A q \in Process : wire'[q] = IF q = p THEN <<>> ELSE wire[q]
      BY <1>0, <2>1
    <3> QED BY <2>1, <3>1, <3>2 DEF Wires, Counting
  <2> QED BY <2>2, <2>3
<1>8. ASSUME Tick PROVE Inv'
  <2>1. hits' \in [Ip -> 0..HitsMax] /\ ttl' \in [Ip -> 0..Window]
    BY <1>0, <1>8 DEF Tick
  <2>2. passed' \in [Ip -> [1..Burst -> 0..Window]]
    <3>1. passed \in [Ip -> [1..Burst -> 0..Window]]
      BY DEF TypeOK
    <3>2. \A ip \in Ip : \A n \in 1..Burst : Lesser(passed[ip][n] + 1, Window) \in 0..Window
      BY <3>1, AgesTyped
    <3> QED BY <1>8, <3>2 DEF Tick
  <2>3. UNCHANGED <<wire, stage, req, jobs>>
    BY <1>8 DEF Tick
  <2> QED BY <2>1, <2>2, <2>3 DEF TypeOK, Wires, Counting
<1>9. CASE UNCHANGED vars
  BY <1>9 DEF vars, TypeOK, Wires, Counting
<1> QED BY <1>1, <1>2, <1>3, <1>4, <1>5, <1>6, <1>7, <1>8, <1>9, <1>10 DEF Next

\* Every variable has the values it may have, and the connections hold what the
\* requests wait for: a count is of a slot of the process that sent it, which is
\* counting, and no slot has two (rateLimit.js:75-76).
THEOREM TypeCorrect == Spec => [](TypeOK /\ Wires)
<1>1. Inv => TypeOK /\ Wires
  BY DEF Inv
<1> QED BY <1>1, InitInv, InvStep, PTL DEF Spec
-----------------------------------------------------------------------------
\* A repository and a number name one merged pull request.
PullRequestsNamed ==
  \A q, r \in Request :
    /\ r.repository # Missing /\ r.pr # Missing
    /\ q.repository = r.repository /\ q.pr = r.pr
    => q.event = r.event

\* The jobs are those of requests.
Jobs == \A j \in jobs : \E q \in Request : j = <<JobId(q), q.event>>

\* The three kinds of ids.
LEMMA JobIdCases ==
  ASSUME NEW r
  PROVE  /\ ExplicitKey(r) # Missing =>
              JobId(r)[1] = "explicit" /\ JobId(r)[2] = ExplicitKey(r)
         /\ ExplicitKey(r) = Missing /\ r.pr # Missing =>
              JobId(r)[1] = "pull request" /\ JobId(r)[2] = <<r.repository, r.pr>>
         /\ ExplicitKey(r) = Missing /\ r.pr = Missing => JobId(r)[1] = "random"
BY DEF JobId, PullRequestKey

\* An id that an identified request has in common with another is of one event.
LEMMA IdentifiedIsOwn ==
  ASSUME PullRequestsNamed, NEW q \in Request, NEW r \in Request,
         JobId(q) = JobId(r), Identified(r)
  PROVE  q.event = r.event
<1>1. CASE ExplicitKey(r) # Missing
  <2>1. ExplicitKey(q) # Missing /\ ExplicitKey(q) = ExplicitKey(r)
    BY <1>1, JobIdCases
  <2> QED BY <1>1, <2>1 DEF Identified
<1>2. CASE ExplicitKey(r) = Missing
  <2>1. r.repository # Missing /\ r.pr # Missing
    BY <1>2 DEF Identified
  <2>2. <<q.repository, q.pr>> = <<r.repository, r.pr>>
    BY <1>2, <2>1, JobIdCases
  <2> QED BY <2>1, <2>2 DEF PullRequestsNamed
<1> QED BY <1>1, <1>2

\* No identified event is lost to the deduplication, whatever ids other events
\* share and whichever requests lack a repository; the sender's part is only that
\* a repository and a number name one pull request (event-queue.js:75-96, 132-150).
THEOREM JobIdentifiesEventHolds ==
  ASSUME PullRequestsNamed PROVE Spec => []JobIdentifiesEvent
<1>1. Init => Jobs
  BY DEF Init, Jobs
<1>2. ASSUME Inv, Jobs, [Next]_vars PROVE Jobs'
  <2>1. ASSUME NEW s \in Slot, Enqueue(s) PROVE Jobs'
    <3>1. req[s] \in Request
      BY <2>1, <1>2 DEF Enqueue, Inv, TypeOK
    <3>2. jobs' \in {jobs, jobs \cup {<<JobId(req[s]), req[s].event>>}}
      BY <2>1 DEF Enqueue
    <3> QED BY <1>2, <3>1, <3>2 DEF Jobs
  <2>2. ASSUME UNCHANGED jobs PROVE Jobs'
    BY <1>2, <2>2 DEF Jobs
  <2>3. ASSUME NEW p \in Process,
               ServeCount(p) \/ CountMissing(p) \/ CountFails(p) \/ Resend(p)
                 \/ ServeExpire(p) \/ ExpireFails(p) \/ Crash(p)
        PROVE  UNCHANGED jobs
    BY <2>3 DEF ServeCount, CountMissing, CountFails, Resend, ServeExpire, ExpireFails,
                Crash, outcome
  <2>4. ASSUME \/ \E s \in Slot, r \in Request : Arrive(s, r)
               \/ Tick \/ UNCHANGED vars
        PROVE  UNCHANGED jobs
    BY <2>4 DEF Arrive, Tick, vars, outcome
  <2> QED BY <1>2, <2>1, <2>2, <2>3, <2>4 DEF Next
<1>3. Jobs => JobIdentifiesEvent
  <2> SUFFICES ASSUME Jobs, NEW j \in jobs, NEW r \in Request, j[1] = JobId(r), Identified(r)
               PROVE  j[2] = r.event
    BY DEF JobIdentifiesEvent
  <2>1. PICK q \in Request : j = <<JobId(q), q.event>>
    BY DEF Jobs
  <2>2. j[1] = JobId(q) /\ j[2] = q.event
    BY <2>1
  <2> QED BY <2>2, IdentifiedIsOwn
<1>4. Inv /\ Jobs /\ [Next]_vars => Jobs'
  BY <1>2
<1> QED BY <1>1, <1>3, <1>4, InitInv, InvStep, PTL DEF Spec
-----------------------------------------------------------------------------
\* Of what was let through, the last c count in the counter there is now; those before
\* it are no more than one counter allows, and were let through before it got its expiry.
CounterAllows(ip, c) ==
  /\ c <= hits[ip]
  /\ \A n \in 1..Burst : n > c + PublicMax => passed[ip][n] = Window
  /\ ttl[ip] > 0 => \A n \in 1..Burst : n > c => passed[ip][n] >= Window - ttl[ip]
Allowed == \A ip \in Ip : \E c \in 0..PublicMax : CounterAllows(ip, c)

\* What the counter and the ages may be.
LEMMA InRange ==
  ASSUME Inv, NEW ip \in Ip
  PROVE  /\ hits[ip] \in Nat /\ ttl[ip] \in 0..Window /\ Burst \in Nat
         /\ \A n \in 1..Burst : passed[ip][n] \in 0..Window
<1>1. Burst \in Nat
  BY IntakeAssumption DEF Burst
<1>2. hits[ip] \in 0..HitsMax /\ ttl[ip] \in 0..Window /\ passed[ip] \in [1..Burst -> 0..Window]
  BY DEF Inv, TypeOK
<1>3. hits[ip] \in Nat
  BY <1>2, HitsMaxDef
<1> QED BY <1>1, <1>2, <1>3

\* The limiter counts and lets an unauthenticated request through only as one of the first
\* PublicMax of a counter.
LEMMA CountAllowed ==
  ASSUME Inv, Allowed, NEW p \in Process, ServeCount(p)
  PROVE  Allowed'
<1> USE IntakeAssumption
<1> DEFINE r == req[Head(wire[p]).slot]
           i == r.ip
<1>1. /\ hits \in [Ip -> 0..HitsMax] /\ ttl \in [Ip -> 0..Window]
      /\ passed \in [Ip -> [1..Burst -> 0..Window]]
  BY DEF Inv, TypeOK
<1>2. i \in Ip /\ r \in Request
  BY FirstCount DEF ServeCount
<1>3. hits' = [hits EXCEPT ![i] = Counted(i)] /\ ttl' = ttl
  BY DEF ServeCount
<1>5. \A ip \in Ip : hits[ip] \in Nat /\ hits'[ip] \in Nat /\ hits[ip] <= hits'[ip]
  BY <1>1, <1>2, <1>3, CountsUp
<1>6. CASE passed' = passed
  <2> SUFFICES ASSUME NEW ip \in Ip PROVE \E c \in 0..PublicMax : CounterAllows(ip, c)'
    BY DEF Allowed
  <2>1. PICK c \in 0..PublicMax : CounterAllows(ip, c)
    BY DEF Allowed
  <2>2. CounterAllows(ip, c)'
    BY <1>1, <1>3, <1>5, <1>6, <2>1 DEF CounterAllows
  <2> QED BY <2>2
<1>7. CASE /\ ~IsAuthenticated(r) /\ ~OverLimit(r)
           /\ passed' = [passed EXCEPT ![i] = [n \in 1..Burst |-> IF n = 1 THEN 0 ELSE @[n - 1]]]
  <2> SUFFICES ASSUME NEW ip \in Ip PROVE \E c \in 0..PublicMax : CounterAllows(ip, c)'
    BY DEF Allowed
  <2>1. PICK c \in 0..PublicMax : CounterAllows(ip, c)
    BY DEF Allowed
  <2>2. CASE ip # i
    <3>1. hits'[ip] = hits[ip] /\ passed'[ip] = passed[ip]
      BY <1>1, <1>3, <1>7, <2>2
    <3> QED BY <1>3, <2>1, <3>1 DEF CounterAllows
  <2>3. CASE ip = i
    <3>1. hits[i] + 1 <= PublicMax /\ hits'[i] = hits[i] + 1
      BY <1>1, <1>2, <1>3, <1>7, HitsMaxDef DEF OverLimit, Counted, Lesser, Limit
    <3>2. c + 1 \in 0..PublicMax /\ c + 1 <= hits'[i]
      <4>1. c <= hits[i] /\ hits[i] \in Nat
        BY <1>2, <2>1, <2>3, InRange DEF CounterAllows
      <4> QED BY <3>1, <4>1
    <3>3. \A n \in 1..Burst : passed'[i][n] = IF n = 1 THEN 0 ELSE passed[i][n - 1]
      BY <1>1, <1>2, <1>7
    <3>4. \A n \in 1..Burst : n > (c + 1) + PublicMax => passed'[i][n] = Window
      <4> SUFFICES ASSUME NEW n \in 1..Burst, n > (c + 1) + PublicMax
                   PROVE  passed'[i][n] = Window
        OBVIOUS
      <4>1. n - 1 \in 1..Burst /\ n - 1 > c + PublicMax /\ n # 1
        BY DEF Burst
      <4> QED BY <2>1, <2>3, <3>3, <4>1 DEF CounterAllows
    <3>5. ttl[i] > 0 => \A n \in 1..Burst : n > c + 1 => passed'[i][n] >= Window - ttl[i]
      <4> SUFFICES ASSUME ttl[i] > 0, NEW n \in 1..Burst, n > c + 1
                   PROVE  passed'[i][n] >= Window - ttl[i]
        OBVIOUS
      <4>1. n - 1 \in 1..Burst /\ n - 1 > c /\ n # 1
        BY DEF Burst
      <4> QED BY <2>1, <2>3, <3>3, <4>1 DEF CounterAllows
    <3> QED BY <1>3, <2>3, <3>2, <3>4, <3>5 DEF CounterAllows
  <2> QED BY <2>2, <2>3
<1> QED BY <1>6, <1>7 DEF ServeCount, Remember

\* When a counter expires, all that earlier ones let through was a window ago.
LEMMA TickAllowed ==
  ASSUME Inv, Allowed, Tick
  PROVE  Allowed'
<1> USE IntakeAssumption
<1>1. /\ hits \in [Ip -> 0..HitsMax] /\ ttl \in [Ip -> 0..Window]
      /\ passed \in [Ip -> [1..Burst -> 0..Window]]
  BY DEF Inv, TypeOK
<1> SUFFICES ASSUME NEW ip \in Ip PROVE \E c \in 0..PublicMax : CounterAllows(ip, c)'
  BY DEF Allowed
<1>2. PICK c \in 0..PublicMax : CounterAllows(ip, c)
  BY DEF Allowed
<1>3. /\ hits'[ip] = IF ttl[ip] = 1 THEN 0 ELSE hits[ip]
      /\ ttl'[ip] = IF ttl[ip] > 0 THEN ttl[ip] - 1 ELSE 0
      /\ \A n \in 1..Burst : passed'[ip][n] = Lesser(passed[ip][n] + 1, Window)
  BY DEF Tick
<1>4. hits[ip] \in Nat /\ ttl[ip] \in 0..Window /\ \A n \in 1..Burst : passed[ip][n] \in 0..Window
  BY InRange
<1>5. \A n \in 1..Burst : n > c + PublicMax => passed'[ip][n] = Window
  BY <1>2, <1>3 DEF CounterAllows, Lesser
<1>6. ttl[ip] > 0 => \A n \in 1..Burst : n > c => passed'[ip][n] >= Window - (ttl[ip] - 1)
  BY <1>2, <1>3, <1>4 DEF CounterAllows, Lesser
<1>7. CASE ttl[ip] = 1
  <2>1. \A n \in 1..Burst : n > c => passed'[ip][n] = Window
    BY <1>3, <1>4, <1>6, <1>7 DEF Lesser
  <2>2. CounterAllows(ip, 0)'
    BY <1>3, <1>7, <2>1 DEF CounterAllows
  <2> QED BY <2>2
<1>8. CASE ttl[ip] # 1
  <2>1. CounterAllows(ip, c)'
    BY <1>2, <1>3, <1>4, <1>5, <1>6, <1>8 DEF CounterAllows
  <2> QED BY <2>1
<1> QED BY <1>7, <1>8

\* No step lets more through than two counters allow.
LEMMA AllowedStep ==
  ASSUME Inv, Allowed, [Next]_vars
  PROVE  Allowed'
<1> USE IntakeAssumption
<1>1. /\ hits \in [Ip -> 0..HitsMax] /\ ttl \in [Ip -> 0..Window]
      /\ passed \in [Ip -> [1..Burst -> 0..Window]]
  BY DEF Inv, TypeOK
<1>2. ASSUME UNCHANGED <<hits, ttl, passed>> PROVE Allowed'
  BY <1>2 DEF Allowed, CounterAllows
<1>3. ASSUME \/ \E s \in Slot : Enqueue(s) \/ \E r \in Request : Arrive(s, r)
             \/ \E p \in Process : \/ CountMissing(p) \/ CountFails(p)
                                   \/ ExpireFails(p) \/ Crash(p)
             \/ UNCHANGED vars
      PROVE  UNCHANGED <<hits, ttl, passed>>
  BY <1>3 DEF Enqueue, Arrive, CountMissing, CountFails, ExpireFails, Crash, vars, redis, outcome
<1>4. ASSUME NEW p \in Process, Resend(p) PROVE Allowed'
  <2> DEFINE i == req[Head(wire[p]).slot].ip
  <2>1. i \in Ip /\ hits' = [hits EXCEPT ![i] = Counted(i)] /\ UNCHANGED <<ttl, passed>>
    BY <1>4, FirstCount DEF Resend, outcome
  <2>2. \A ip \in Ip : hits[ip] \in Nat /\ hits'[ip] \in Nat /\ hits[ip] <= hits'[ip]
    BY <1>1, <2>1, CountsUp
  <2> SUFFICES ASSUME NEW ip \in Ip PROVE \E c \in 0..PublicMax : CounterAllows(ip, c)'
    BY DEF Allowed
  <2>3. PICK c \in 0..PublicMax : CounterAllows(ip, c)
    BY DEF Allowed
  <2>4. c <= hits'[ip]
    BY <2>2, <2>3 DEF CounterAllows
  <2>5. CounterAllows(ip, c)'
    BY <2>1, <2>3, <2>4 DEF CounterAllows
  <2> QED BY <2>5
<1>5. ASSUME NEW p \in Process, ServeExpire(p) PROVE Allowed'
  <2> DEFINE i == Head(wire[p]).ip
  <2>1. /\ ttl' = [ttl EXCEPT ![i] = IF hits[i] > 0 THEN Window ELSE 0]
        /\ UNCHANGED <<hits, passed>>
    BY <1>5 DEF ServeExpire, outcome
  <2> SUFFICES ASSUME NEW ip \in Ip PROVE \E c \in 0..PublicMax : CounterAllows(ip, c)'
    BY DEF Allowed
  <2>2. PICK c \in 0..PublicMax : CounterAllows(ip, c)
    BY DEF Allowed
  <2>3. ttl'[ip] \in {ttl[ip], Window, 0}
    BY <1>1, <2>1
  <2>4. /\ hits[ip] \in Nat /\ hits'[ip] = hits[ip] /\ passed'[ip] = passed[ip]
        /\ \A n \in 1..Burst : passed[ip][n] \in 0..Window
    <3>1. hits[ip] \in Nat /\ \A n \in 1..Burst : passed[ip][n] \in 0..Window
      BY InRange
    <3>2. hits' = hits /\ passed' = passed
      BY <2>1
    <3> QED BY <3>1, <3>2
  <2>5. CounterAllows(ip, c)'
    BY <2>2, <2>3, <2>4 DEF CounterAllows
  <2> QED BY <2>5
<1> QED BY <1>2, <1>3, <1>4, <1>5, CountAllowed, TickAllowed DEF Next

\* In any period of a window an address gets no more than twice PublicMax
\* unauthenticated requests through by its counters, for any limits, whichever of
\* the counters expire early, late or not at all.  Requests that Redis answers
\* without a count pass besides (WebhookIntake.BurstBounded; rateLimit.js:75-93,
\* 169-199).
THEOREM BurstBoundedHolds == Spec => []BurstBounded
<1>1. Init => Allowed
  <2> SUFFICES ASSUME Init, NEW ip \in Ip PROVE CounterAllows(ip, 0)
    BY IntakeAssumption DEF Allowed
  <2> QED BY IntakeAssumption DEF Init, CounterAllows
<1>2. Inv /\ Allowed /\ [Next]_vars => Allowed'
  BY AllowedStep
<1>3. Allowed => BurstBounded
  BY IntakeAssumption DEF Allowed, CounterAllows, BurstBounded, Burst
<1> QED BY <1>1, <1>2, <1>3, InitInv, InvStep, PTL DEF Spec
=============================================================================
