--------------------------- MODULE WebhookIntake ---------------------------
(***************************************************************************)
(* POST /github-webhook (index.js): the per-address rate limiter with its  *)
(* Redis store (middleware/rateLimit.js), the signature check              *)
(* (middleware/auth.js), the filter, and the identity of the queued job    *)
(* (queue/event-queue.js).                                                 *)
(*                                                                         *)
(* Express, express-rate-limit, Redis and BullMQ are external.  Several    *)
(* server processes share one counter per address.  The commands of a      *)
(* process travel over one connection in order (wire); a reply and the     *)
(* callback it runs are one step, for the callback touches only its own    *)
(* request and sends its next command to the end of the wire.  Time is     *)
(* relative: a step of Tick is a part 1/Window of RATE_LIMIT_WINDOW_MS.    *)
(***************************************************************************)
EXTENDS Integers, Sequences, SequencesExt

CONSTANTS
  Process, Slot, ProcOf,  \* server processes and their concurrent requests
  Request,     \* requests that may be sent, see RequestType
  Ip, Event,   \* client addresses; merged pull requests
  Name,        \* strings that identify deliveries, repositories and events
  Missing,     \* an absent header or field
  Secret,      \* whether GITHUB_WEBHOOK_SECRET is set
  Production,  \* whether NODE_ENV is production
  PublicMax, AuthMax,     \* RATE_LIMIT_PUBLIC_MAX, RATE_LIMIT_AUTH_MAX
  Window,      \* RATE_LIMIT_WINDOW_MS, in ticks
  Faults       \* which of FaultKind may happen

FaultKind == {"redis",   \* a transaction or a command is answered by an error
              "reply",   \* a transaction is answered, but its INCR by an error
              "resend",  \* the connection breaks: unanswered commands are resent
              "crash"}   \* a server process dies

Header == {"authorization", "x-hub-signature-256", "x-vero-signature"}

\* genuine: the hub signature is the digest of the body; qualifies: merged, with
\* the label; delivery .. pr: the fields that may identify the event.
RequestType == [ip : Ip, headers : SUBSET Header, genuine : BOOLEAN, qualifies : BOOLEAN,
                event : Event, idempotencyKey : Name \cup {Missing},
                delivery : Name \cup {Missing}, body : Name \cup {Missing},
                repository : Name \cup {Missing}, pr : Name \cup {Missing}]

ASSUME IntakeAssumption ==
  /\ Request \subseteq RequestType
  /\ ProcOf \in [Slot -> Process]
  /\ Secret \in BOOLEAN /\ Production \in BOOLEAN
  /\ PublicMax \in Nat \ {0} /\ AuthMax \in Nat \ {0}
  /\ Window \in Nat \ {0}
  /\ Faults \subseteq FaultKind
  /\ Missing \notin Name /\ Missing \notin Request

VARIABLES
  hits,      \* rl:<ip>: requests counted, 0 without the key, HitsMax or more
  ttl,       \* ticks until rl:<ip> expires, 0 when it has no expiry
  wire,      \* commands sent by each process and not yet answered, in order
  stage,     \* of each slot: idle, counting, enqueuing
  req,       \* the request of a slot, Missing of an idle one
  jobs,      \* jobs Redis has been given, <<id, event>>
  passed     \* history: passed[ip][n] is how long ago the n-th last unauthenticated
             \* request that was counted was let through, in ticks, up to Window

redis == <<hits, ttl, wire>>
server == <<stage, req>>
outcome == <<jobs, passed>>
vars == <<redis, server, outcome>>

Count(s) == [command |-> "incr", slot |-> s]
Expire(ip) == [command |-> "pexpire", ip |-> ip]
Lesser(a, b) == IF a < b THEN a ELSE b
HitsMax == 1 + (IF AuthMax > PublicMax THEN AuthMax ELSE PublicMax)
Burst == 2 * PublicMax + 1   \* one request more than may pass within Window

Init == /\ hits = [ip \in Ip |-> 0]
        /\ ttl = [ip \in Ip |-> 0]
        /\ wire = [p \in Process |-> <<>>]
        /\ stage = [s \in Slot |-> "idle"]
        /\ req = [s \in Slot |-> Missing]
        /\ jobs = {}
        /\ passed = [ip \in Ip |-> [n \in 1..Burst |-> Window]]
-----------------------------------------------------------------------------
\* What a handler computes from the request alone

IsAuthenticated(r) == r.headers # {}
Limit(r) == IF IsAuthenticated(r) THEN AuthMax ELSE PublicMax

\* verifySignature calls next().
Verified(r) == IF Secret THEN "x-hub-signature-256" \in r.headers /\ r.genuine
                         ELSE ~Production

FirstPresent(values) ==
  LET present == SelectSeq(values, LAMBDA v : v # Missing)
  IN  IF present = <<>> THEN Missing ELSE Head(present)

\* An id that the sender gives: the idempotency-key header, the delivery, or one
\* of the body.  They share one name space.
ExplicitKey(r) == FirstPresent(<<r.idempotencyKey, r.delivery, r.body>>)

\* mutant: pull requests of all repositories share one name space
NumberAlone(r) == <<Missing, r.pr>>

\* Without a repository it is taken for one of the "unknown-repository".
PullRequestKey(r) == <<r.repository, r.pr>>

\* createEventJobId of deriveIdempotencyKey: a hash of the key, or a random id, of
\* which only the request it was made for matters here.  An explicit key is taken
\* not to be spelled like that of a pull request.
JobId(r) == IF ExplicitKey(r) # Missing THEN <<"explicit", ExplicitKey(r)>>
            ELSE IF r.pr # Missing THEN <<"pull request", PullRequestKey(r)>>
            ELSE <<"random", r>>
-----------------------------------------------------------------------------
\* Requests

\* The limiter increments the counter of the client's address.
Arrive(s, r) == /\ stage[s] = "idle"
                /\ stage' = [stage EXCEPT ![s] = "counting"]
                /\ req' = [req EXCEPT ![s] = r]
                /\ wire' = [wire EXCEPT ![ProcOf[s]] = Append(@, Count(s))]
                /\ UNCHANGED <<hits, ttl, outcome>>

Counted(ip) == Lesser(hits[ip] + 1, HitsMax)

\* mutant: the count from before this request is compared
OverLimitBefore(r) == hits[r.ip] > Limit(r)

OverLimit(r) == Counted(r.ip) > Limit(r)

\* mutant: only the first hit sets the expiry
ExpiryOnFirstHit(ip) == hits[ip] = 0

\* PTTL answers -1 for a key without expiry, a new one among them.
NeedsExpiry(ip) == ttl[ip] = 0

\* The slot has answered its request.
Answered(s) == /\ stage' = [stage EXCEPT ![s] = "idle"]
               /\ req' = [req EXCEPT ![s] = Missing]

\* The limiter calls next(): 401, 500 or 200 skipped at once, or on to the queue.
Pass(s, r) == IF Verified(r) /\ r.qualifies
                THEN stage' = [stage EXCEPT ![s] = "enqueuing"] /\ UNCHANGED req
                ELSE Answered(s)

Remember(r) == passed' = IF IsAuthenticated(r) THEN passed
                         ELSE [passed EXCEPT ![r.ip] =
                                 [n \in 1..Burst |-> IF n = 1 THEN 0 ELSE @[n - 1]]]

\* The first command of p has been answered, and PEXPIRE is sent or not.
Replied(p, ip, sent) ==
  wire' = [wire EXCEPT ![p] = IF sent THEN Append(Tail(@), Expire(ip)) ELSE Tail(@)]

\* INCR and PTTL in one transaction, their callback, and what the request goes
\* through until it has to wait again.
ServeCount(p) ==
  /\ wire[p] # <<>> /\ Head(wire[p]).command = "incr"
  /\ LET s == Head(wire[p]).slot  r == req[s]  ip == r.ip IN
     /\ hits' = [hits EXCEPT ![ip] = Counted(ip)]
     /\ Replied(p, ip, NeedsExpiry(ip))
     /\ IF OverLimit(r)
          THEN Answered(s) /\ UNCHANGED passed  \* 429
          ELSE Pass(s, r) /\ Remember(r)
  /\ UNCHANGED <<ttl, jobs>>

\* A reply to INCR that is an error or missing is a count of 0: the request passes
\* and is not counted.  So may the reply to PTTL be.
CountMissing(p) ==
  /\ "reply" \in Faults
  /\ wire[p] # <<>> /\ Head(wire[p]).command = "incr"
  /\ LET s == Head(wire[p]).slot  r == req[s] IN
     /\ \E answered \in BOOLEAN : Replied(p, r.ip, answered /\ NeedsExpiry(r.ip))
     /\ Pass(s, r)
  /\ UNCHANGED <<hits, ttl, outcome>>

\* The transaction fails: the limiter passes the error on, 500.
CountFails(p) == /\ "redis" \in Faults
                 /\ wire[p] # <<>> /\ Head(wire[p]).command = "incr"
                 /\ Answered(Head(wire[p]).slot)
                 /\ wire' = [wire EXCEPT ![p] = Tail(@)]
                 /\ UNCHANGED <<hits, ttl, outcome>>

\* The answer is lost with the connection; ioredis will send the command again.
Resend(p) == /\ "resend" \in Faults
             /\ wire[p] # <<>> /\ Head(wire[p]).command = "incr"
             /\ LET ip == req[Head(wire[p]).slot].ip IN
                hits' = [hits EXCEPT ![ip] = Counted(ip)]
             /\ UNCHANGED <<ttl, wire, server, outcome>>

\* PEXPIRE, without effect on a key that is gone.
ServeExpire(p) ==
  /\ wire[p] # <<>> /\ Head(wire[p]).command = "pexpire"
  /\ LET ip == Head(wire[p]).ip IN
     ttl' = [ttl EXCEPT ![ip] = IF hits[ip] > 0 THEN Window ELSE 0]
  /\ wire' = [wire EXCEPT ![p] = Tail(@)]
  /\ UNCHANGED <<hits, server, outcome>>

\* Its error is swallowed.
ExpireFails(p) == /\ "redis" \in Faults
                  /\ wire[p] # <<>> /\ Head(wire[p]).command = "pexpire"
                  /\ wire' = [wire EXCEPT ![p] = Tail(@)]
                  /\ UNCHANGED <<hits, ttl, server, outcome>>

\* queue.add resolves, 202, or rejects, 500, with or without the job stored; a
\* job with this id is not added twice.
Enqueue(s) ==
  /\ stage[s] = "enqueuing"
  /\ LET r == req[s] IN
     \E stored \in {TRUE} \cup (IF "redis" \in Faults THEN {FALSE} ELSE {}) :
        jobs' = IF stored /\ \A j \in jobs : j[1] # JobId(r)
                  THEN jobs \cup {<<JobId(r), r.event>>} ELSE jobs
  /\ Answered(s)
  /\ UNCHANGED <<redis, passed>>
-----------------------------------------------------------------------------
\* The process dies and is started again, between any two of its commands.
Crash(p) == /\ "crash" \in Faults
            /\ \E s \in Slot : ProcOf[s] = p /\ stage[s] # "idle"
            /\ wire' = [wire EXCEPT ![p] = <<>>]
            /\ stage' = [s \in Slot |-> IF ProcOf[s] = p THEN "idle" ELSE stage[s]]
            /\ req' = [s \in Slot |-> IF ProcOf[s] = p THEN Missing ELSE req[s]]
            /\ UNCHANGED <<hits, ttl, outcome>>

Tick == /\ ttl' = [ip \in Ip |-> IF ttl[ip] > 0 THEN ttl[ip] - 1 ELSE 0]
        /\ hits' = [ip \in Ip |-> IF ttl[ip] = 1 THEN 0 ELSE hits[ip]]
        /\ passed' = [ip \in Ip |-> [n \in 1..Burst |-> Lesser(passed[ip][n] + 1, Window)]]
        /\ UNCHANGED <<wire, server, jobs>>

Next == \/ \E s \in Slot : Enqueue(s) \/ \E r \in Request : Arrive(s, r)
        \/ \E p \in Process : \/ ServeCount(p) \/ CountMissing(p) \/ CountFails(p)
                              \/ Resend(p) \/ ServeExpire(p) \/ ExpireFails(p) \/ Crash(p)
        \/ Tick

Spec == Init /\ [][Next]_vars

Asks(ip) == \E s \in Slot, r \in Request : r.ip = ip /\ Arrive(s, r)
CountedFor(p, ip) == ServeCount(p) /\ req[Head(wire[p]).slot].ip = ip
ExpiresFor(p, ip) == ServeExpire(p) /\ Head(wire[p]).ip = ip

\* Time passes; a client that is limited goes on asking; Redis neither fails
\* every count of an address nor every expiry, and answers what is queued.
Fairness == /\ WF_vars(Tick)
            /\ \A s \in Slot : WF_vars(Enqueue(s))
            /\ \A p \in Process : WF_vars(ServeCount(p)) /\ WF_vars(ServeExpire(p))
            /\ \A ip \in Ip : /\ SF_vars(Asks(ip))
                              /\ \A p \in Process : /\ SF_vars(CountedFor(p, ip))
                                                    /\ SF_vars(ExpiresFor(p, ip))

FairSpec == Spec /\ Fairness
-----------------------------------------------------------------------------
\* Properties

CommandSet == [command : {"incr"}, slot : Slot] \cup [command : {"pexpire"}, ip : Ip]

\* Types of the variables.
TypeOK ==
  /\ hits \in [Ip -> 0..HitsMax]
  /\ ttl \in [Ip -> 0..Window]
  /\ wire \in [Process -> Seq(CommandSet)]
  /\ stage \in [Slot -> {"idle", "counting", "enqueuing"}]
  /\ req \in [Slot -> Request \cup {Missing}]
  /\ \A s \in Slot : stage[s] = "idle" <=> req[s] = Missing
  /\ passed \in [Ip -> [1..Burst -> 0..Window]]

\* However its requests spread over server processes, and wherever in a window
\* they start, an address gets at most twice PUBLIC_MAX unauthenticated requests
\* through by its counters in any period of RATE_LIMIT_WINDOW_MS, one counter's
\* worth before an expiry and one after: the one let through 2 * PUBLIC_MAX before
\* the last was at least a window ago (rateLimit.js:75-93, 169-199).  Lost expiries,
\* resent INCRs and crashes do not let more through.  An INCR that is answered
\* without a count does (rateLimit.js:78-81): its request passes besides, and
\* nothing bounds those.
BurstBounded == \A ip \in Ip : passed[ip][Burst] = Window

\* A client over its limit is let in again: a counter whose expiry was lost
\* between INCR and PEXPIRE, to a crash, an error or a resent INCR, gets one
\* with a later request, and requests do not push the expiry away
\* (rateLimit.js:83-91).
LimitLifted == \A ip \in Ip : hits[ip] > PublicMax ~> hits[ip] = 0

\* What a sender identifies: the id that it gives is of no other event, or there
\* is none and the pull request is named with its repository.
Identified(r) ==
  IF ExplicitKey(r) # Missing
    THEN \A q \in Request : ExplicitKey(q) = ExplicitKey(r) => q.event = r.event
    ELSE r.repository # Missing /\ r.pr # Missing

\* No identified event is lost to the deduplication, though other events share
\* their ids or come without a repository: the job that is under the id of its
\* request, because of which queue.add stores no other, is a job of this event
\* (event-queue.js:75-96, 132-150).
JobIdentifiesEvent ==
  \A j \in jobs, r \in Request : j[1] = JobId(r) /\ Identified(r) => j[2] = r.event
=============================================================================
