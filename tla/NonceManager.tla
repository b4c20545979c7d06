---------------------------- MODULE NonceManager ----------------------------
(***************************************************************************)
(* Submission of one account's transactions: submitTransaction             *)
(* (stellar.js) inside withSequentialNonce (relayer/nonceManager.js), with *)
(* the account fetch and the broadcast of services/broadcaster.js, their   *)
(* retry loop (utils/retry.js) and the read-through cache of               *)
(* services/rpc-cache.js.  PostgreSQL (sessions and their advisory locks), *)
(* the pg connection pool and the Stellar network are external.            *)
(*                                                                         *)
(* A call is one slot of a worker process in which submitTransaction runs; *)
(* it is invoked up to MaxCalls times.  All calls sign for the same        *)
(* account, hence share one advisory lock key.                             *)
(***************************************************************************)
EXTENDS Integers, Sequences, FiniteSets, SequencesExt

CONSTANTS
  Process,     \* worker processes
  Call,        \* concurrent invocations of submitTransaction
  Conn,        \* connections of the processes' pools (DB_POOL_MAX each)
  ProcOf,      \* the process of a call and of a connection
  NoConn,      \* the call has no connection checked out
  Faults,      \* which of FaultKind may happen
  MaxRetries,  \* maxRetries of broadcastTransaction
  MaxCalls     \* bound: invocations of one call

FaultKind == {"network",  \* a submission is lost, late, or its reply is
              "session",  \* the server ends a session its client still uses
              "cancel",   \* the server cancels a statement, the session lives on
              "crash"}    \* a worker process dies

ASSUME ProcOfAssumption == ProcOf \in [Call \cup Conn -> Process]
ASSUME NoConnAssumption == NoConn \notin Conn
ASSUME FaultsAssumption == Faults \subseteq FaultKind
ASSUME BoundsAssumption == MaxRetries \in Nat /\ MaxCalls \in Nat

VARIABLES
  pc,        \* where each call stands
  attempt,   \* attempt[c]: invocations of c so far
  client,    \* the pool connection a call has checked out
  account,   \* the sequence number in the account object a call has fetched
  tries,     \* resubmissions done by the retry loop
  session,   \* server session of a connection: open, lost (ended by the server,
             \* unknown to the client), stale (its process is gone)
  holds,     \* times the session of a connection holds the advisory lock
  incidents, \* FaultKinds met so far, of those that break a session's lock
  cached,    \* sequence number of the cached account reply, or -1
  net,       \* transactions submitted and neither applied nor dropped
  ledger,    \* transactions applied; the account's sequence is its length
  resolved, rejected   \* attempts that returned a hash / threw or died

calls == <<pc, attempt, client, account, tries>>
server == <<session, holds>>
chain == <<net, ledger>>
outcomes == <<resolved, rejected>>
vars == <<calls, server, incidents, cached, chain, outcomes>>

Locking == {"fetch", "build", "submit", "backoff"}     \* between lock and finally
Unlocking == {"return", "throw"}                       \* in the finally block
PC == {"idle", "connect", "lock"} \cup Locking \cup Unlocking

Init == /\ pc = [c \in Call |-> "idle"]
        /\ attempt = [c \in Call |-> 0]
        /\ client = [c \in Call |-> NoConn]
        /\ account = [c \in Call |-> 0]
        /\ tries = [c \in Call |-> 0]
        /\ session = [k \in Conn |-> "open"]
        /\ holds = [k \in Conn |-> 0]
        /\ incidents = {}
        /\ cached = -1
        /\ net = {}
        /\ ledger = <<>>
        /\ resolved = {}
        /\ rejected = {}

Goto(c, l) == pc' = [pc EXCEPT ![c] = l]
Id(c) == <<c, attempt[c]>>
\* TransactionBuilder.build(): the fetched sequence plus one, signed once and
\* resent as it is.
TxRebuilt(c) == [call |-> c, n |-> attempt[c], seq |-> Len(ledger) + 1]  \* mutant
Tx(c) == [call |-> c, n |-> attempt[c], seq |-> account[c] + 1]
Applied(tx) == tx \in ToSet(ledger)
InPool(k) == session[k] = "open" /\ \A c \in Call : client[c] # k
-----------------------------------------------------------------------------
\* withSequentialNonce: up to the lock

Invoke(c) == /\ pc[c] = "idle"
             /\ attempt[c] < MaxCalls
             /\ attempt' = [attempt EXCEPT ![c] = @ + 1]
             /\ Goto(c, "connect")
             /\ UNCHANGED <<client, account, tries, server, incidents, cached, chain, outcomes>>

Connect(c) == /\ pc[c] = "connect"
              /\ \E k \in Conn : /\ ProcOf[k] = ProcOf[c]
                                 /\ InPool(k)
                                 /\ client' = [client EXCEPT ![c] = k]
              /\ Goto(c, "lock")
              /\ UNCHANGED <<attempt, account, tries, server, incidents, cached, chain, outcomes>>

\* pool.connect() rejects (connectionTimeoutMillis), before the try block; so do
\* the checks of submitTransaction's configuration, with the same outcome.
ConnectFails(c) == /\ pc[c] = "connect"
                   /\ Goto(c, "idle")
                   /\ rejected' = rejected \cup {Id(c)}
                   /\ UNCHANGED <<attempt, client, account, tries, server, incidents, cached,
                                  chain, resolved>>

\* pg_advisory_lock: a session lock, granted again to the session that has it.
AcquireLock(c) ==
  /\ pc[c] = "lock"
  /\ session[client[c]] = "open"
  /\ \A k \in Conn \ {client[c]} : holds[k] = 0
  /\ holds' = [holds EXCEPT ![client[c]] = @ + 1]
  /\ Goto(c, "fetch")
  /\ UNCHANGED <<attempt, client, account, tries, session, incidents, cached, chain, outcomes>>

\* mutant: the error is caught and the submission goes on
LockFailsIgnored(c) == /\ pc[c] = "lock"
                       /\ session[client[c]] = "lost" \/ "cancel" \in Faults
                       /\ Goto(c, "fetch")
                       /\ UNCHANGED <<attempt, client, account, tries, server, incidents, cached,
                                      chain, outcomes>>

LockFails(c) == /\ pc[c] = "lock"
                /\ session[client[c]] = "lost" \/ "cancel" \in Faults
                /\ Goto(c, "throw")
                /\ UNCHANGED <<attempt, client, account, tries, server, incidents, cached,
                               chain, outcomes>>
-----------------------------------------------------------------------------
\* fetchAccount: the read-through cache around loadAccount

\* The account reply carries the account id, which SENSITIVE_VALUE_RE matches:
\* the cache refuses to store it.
ReplyFields == {"id", "sequence"}
NoSensitiveFields == {}  \* mutant: account replies are cached
SensitiveFields == {"id"}
Cacheable == ReplyFields \cap SensitiveFields = {}

\* A cache entry may have expired (ttlMs); a Redis error reads as a miss.
FetchAccount(c) ==
  /\ pc[c] = "fetch"
  /\ \E entry \in {cached, -1} :
       LET sequence == IF entry # -1 THEN entry ELSE Len(ledger) IN
       /\ account' = [account EXCEPT ![c] = sequence]
       /\ cached' = IF entry = -1 /\ Cacheable THEN sequence ELSE cached
  /\ Goto(c, "build")
  /\ UNCHANGED <<attempt, client, tries, server, incidents, chain, outcomes>>

\* loadAccount still fails after its retries, or fails for good.
FetchFails(c) == /\ pc[c] = "fetch"
                 /\ "network" \in Faults
                 /\ Goto(c, "throw")
                 /\ UNCHANGED <<attempt, client, account, tries, server, incidents, cached,
                                chain, outcomes>>
-----------------------------------------------------------------------------
\* broadcastTransaction: server.submitTransaction in a retry loop

\* The request reaches the network, or is lost on the way.  Horizon knows a
\* transaction it has applied and does not submit it again.
Post(tx) == \/ net' = IF Applied(tx) THEN net ELSE net \cup {tx}
            \/ "network" \in Faults /\ net' = net

Submit(c) == /\ pc[c] = "build"
             /\ Post(Tx(c))
             /\ tries' = [tries EXCEPT ![c] = 0]
             /\ Goto(c, "submit")
             /\ UNCHANGED <<attempt, client, account, server, incidents, cached, ledger, outcomes>>

\* mutant: the retry loop forgets how often it has tried
ResubmitUncounted(c) == /\ pc[c] = "backoff"
                        /\ Post(Tx(c))
                        /\ Goto(c, "submit")
                        /\ UNCHANGED <<attempt, client, account, tries, server, incidents, cached,
                                       ledger, outcomes>>

Resubmit(c) == /\ pc[c] = "backoff"
               /\ Post(Tx(c))
               /\ tries' = [tries EXCEPT ![c] = @ + 1]
               /\ Goto(c, "submit")
               /\ UNCHANGED <<attempt, client, account, server, incidents, cached, ledger, outcomes>>

SubmitReturns(c) == /\ pc[c] = "submit"
                    /\ Applied(Tx(c))
                    /\ Goto(c, "return")
                    /\ UNCHANGED <<attempt, client, account, tries, server, incidents, cached,
                                   chain, outcomes>>

\* tx_bad_seq or tx_too_late: not retryable.
SubmitRefused(c) == /\ pc[c] = "submit"
                    /\ Tx(c) \notin net /\ ~Applied(Tx(c))
                    /\ Goto(c, "throw")
                    /\ UNCHANGED <<attempt, client, account, tries, server, incidents, cached,
                                   chain, outcomes>>

\* A timeout or connection error: the transaction may be anywhere.
SubmitRetries(c) == /\ pc[c] = "submit"
                    /\ "network" \in Faults
                    /\ tries[c] < MaxRetries
                    /\ Goto(c, "backoff")
                    /\ UNCHANGED <<attempt, client, account, tries, server, incidents, cached,
                                   chain, outcomes>>

\* The last such error, one defaultIsRetryable does not know (a 504 from
\* Horizon), or a reply without a hash.
SubmitFails(c) == /\ pc[c] = "submit"
                  /\ "network" \in Faults
                  /\ Goto(c, "throw")
                  /\ UNCHANGED <<attempt, client, account, tries, server, incidents, cached,
                                 chain, outcomes>>
-----------------------------------------------------------------------------
\* withSequentialNonce: the finally block

\* client.release(); the local variables of the invocation are gone.
Settle(c) ==
  /\ Goto(c, "idle")
  /\ client' = [client EXCEPT ![c] = NoConn]
  /\ account' = [account EXCEPT ![c] = 0]
  /\ tries' = [tries EXCEPT ![c] = 0]
  /\ resolved' = IF pc[c] = "return" THEN resolved \cup {Id(c)} ELSE resolved
  /\ rejected' = IF pc[c] = "throw" THEN rejected \cup {Id(c)} ELSE rejected

\* mutant: the connection is released, the lock is not
ReleaseOnly(c) == /\ pc[c] \in Unlocking
                  /\ session[client[c]] = "open"
                  /\ Settle(c)
                  /\ UNCHANGED <<attempt, server, incidents, cached, chain>>

\* pg_advisory_unlock; of a lock that is not held it returns false, no error.
Unlock(c) == /\ pc[c] \in Unlocking
             /\ session[client[c]] = "open"
             /\ holds' = [holds EXCEPT ![client[c]] = IF @ > 0 THEN @ - 1 ELSE 0]
             /\ Settle(c)
             /\ UNCHANGED <<attempt, session, incidents, cached, chain>>

\* The error is caught and logged.  The pool replaces a connection it knows to
\* be broken; one whose session survives goes back with the lock held.
UnlockFails(c) == /\ pc[c] \in Unlocking
                  /\ session[client[c]] = "lost" \/ "cancel" \in Faults
                  /\ incidents' = IF session[client[c]] = "lost" THEN incidents
                                  ELSE incidents \cup {"cancel"}
                  /\ session' = [session EXCEPT ![client[c]] = "open"]
                  /\ Settle(c)
                  /\ UNCHANGED <<attempt, holds, cached, chain>>
-----------------------------------------------------------------------------
\* Environment: the pool, PostgreSQL, processes, the network

\* idleTimeoutMillis: the pool closes an idle connection, its session ends.
IdleClose(k) == /\ InPool(k) /\ holds[k] > 0
                /\ holds' = [holds EXCEPT ![k] = 0]
                /\ UNCHANGED <<calls, session, incidents, cached, chain, outcomes>>

SessionLost(k) == /\ "session" \in Faults
                  /\ session[k] = "open" /\ ~InPool(k)
                  /\ session' = [session EXCEPT ![k] = "lost"]
                  /\ holds' = [holds EXCEPT ![k] = 0]
                  /\ incidents' = incidents \cup {"session"}
                  /\ UNCHANGED <<calls, cached, chain, outcomes>>

RunningIn(p) == {c \in Call : ProcOf[c] = p /\ pc[c] # "idle"}

\* The process dies and is restarted; the server keeps the sessions that hold
\* the lock until it notices.
Crash(p) ==
  /\ "crash" \in Faults
  /\ RunningIn(p) # {}
  /\ pc' = [c \in Call |-> IF c \in RunningIn(p) THEN "idle" ELSE pc[c]]
  /\ client' = [c \in Call |-> IF c \in RunningIn(p) THEN NoConn ELSE client[c]]
  /\ account' = [c \in Call |-> IF c \in RunningIn(p) THEN 0 ELSE account[c]]
  /\ tries' = [c \in Call |-> IF c \in RunningIn(p) THEN 0 ELSE tries[c]]
  /\ session' = [k \in Conn |-> IF ProcOf[k] # p THEN session[k]
                                ELSE IF holds[k] > 0 THEN "stale" ELSE "open"]
  /\ rejected' = rejected \cup {Id(c) : c \in RunningIn(p)}
  /\ UNCHANGED <<attempt, holds, incidents, cached, chain, resolved>>

Reap(k) == /\ session[k] = "stale"
           /\ session' = [session EXCEPT ![k] = "open"]
           /\ holds' = [holds EXCEPT ![k] = 0]
           /\ UNCHANGED <<calls, incidents, cached, chain, outcomes>>

Apply(tx) == /\ tx.seq = Len(ledger) + 1
             /\ ledger' = Append(ledger, tx)
             /\ net' = net \ {tx}
             /\ UNCHANGED <<calls, server, incidents, cached, outcomes>>

\* Its sequence number is taken, or its time bounds (setTimeout(30)) have passed.
Drop(tx) == /\ tx.seq # Len(ledger) + 1 \/ "network" \in Faults
            /\ net' = net \ {tx}
            /\ UNCHANGED <<calls, server, incidents, cached, ledger, outcomes>>
-----------------------------------------------------------------------------
Enter(c) == Invoke(c) \/ Connect(c) \/ ConnectFails(c) \/ AcquireLock(c) \/ LockFails(c)
Body(c) == \/ FetchAccount(c) \/ FetchFails(c)
           \/ Submit(c) \/ Resubmit(c)
           \/ SubmitReturns(c) \/ SubmitRefused(c) \/ SubmitRetries(c) \/ SubmitFails(c)
Finally(c) == Unlock(c) \/ UnlockFails(c)
Network == \E tx \in net : Apply(tx) \/ Drop(tx)

Next == \/ \E c \in Call : Enter(c) \/ Body(c) \/ Finally(c)
        \/ \E k \in Conn : IdleClose(k) \/ SessionLost(k) \/ Reap(k)
        \/ \E p \in Process : Crash(p)
        \/ Network

Spec == Init /\ [][Next]_vars

\* Every started call goes on (timers and replies arrive), lock waiters are
\* served in arrival order, idle and dead sessions are closed, and the network
\* settles each transaction.  Nothing obliges a fault or a new invocation.
Fairness == /\ \A c \in Call : /\ WF_vars(Connect(c) \/ ConnectFails(c))
                               /\ SF_vars(AcquireLock(c))
                               /\ WF_vars(LockFails(c))
                               /\ WF_vars(Body(c))
                               /\ WF_vars(Finally(c))
            /\ \A k \in Conn : WF_vars(IdleClose(k)) /\ WF_vars(Reap(k))
            /\ WF_vars(Network)

FairSpec == Spec /\ Fairness
-----------------------------------------------------------------------------
\* Properties

TxSet == [call : Call, n : 1..MaxCalls, seq : Nat \ {0}]
AttemptSet == Call \X (1..MaxCalls)

\* Types of the variables.
TypeOK == /\ pc \in [Call -> PC]
          /\ attempt \in [Call -> 0..MaxCalls]
          /\ client \in [Call -> Conn \cup {NoConn}]
          /\ account \in [Call -> Nat]
          /\ tries \in [Call -> 0..MaxRetries]
          /\ session \in [Conn -> {"open", "lost", "stale"}]
          /\ holds \in [Conn -> Nat]
          /\ incidents \subseteq {"session", "cancel"}
          /\ cached \in Nat \cup {-1}
          /\ net \subseteq TxSet
          /\ ledger \in Seq(TxSet)
          /\ resolved \subseteq AttemptSet
          /\ rejected \subseteq AttemptSet

\* A call between its lock and its finally block whose session is alive.
Protected(c) == pc[c] \in Locking /\ session[client[c]] = "open"

\* While their database sessions live, no two calls are between fetching the
\* account and the end of their submission, whatever locks earlier calls leaked,
\* whichever processes died (withSequentialNonce, nonceManager.js:36-60).
MutualExclusion == \A c, d \in Call : Protected(c) /\ Protected(d) => c = d

\* Until the server cancels an unlock itself, the lock is held only
\* by a call that will run the finally block, or by the session of a dead
\* process: no error path keeps it (nonceManager.js:50-59).
LockHeldByCall ==
  "cancel" \notin incidents =>
    \A k \in Conn : holds[k] > 0 =>
      \/ session[k] = "stale"
      \/ \E c \in Call : client[c] = k /\ pc[c] \in Locking \cup Unlocking

\* Until a session is lost under a call, the sequence number a call is
\* submitting with can only have been consumed by itself or by an attempt that
\* was given up while its transaction was still in flight: the account that is
\* read under the lock is never staler than a success reported before
\* (stellar.js:25-52, rpc-cache.js:212-216).
SequenceFresh ==
  "session" \notin incidents =>
    \A c \in Call : Protected(c) /\ pc[c] # "fetch" =>
      \A i \in account[c] + 1 .. Len(ledger) :
        ledger[i] = Tx(c) \/ <<ledger[i].call, ledger[i].n>> \in rejected

Ledger == INSTANCE TaskLedger
            WITH running  <- {c \in Call : pc[c] # "idle"},
                 recorded <- [i \in 1..Len(ledger) |-> <<ledger[i].call, ledger[i].n>>]

\* withSequentialNonce around broadcastTransaction keeps the promise of
\* TaskLedger: resending never records an attempt twice, and an attempt that
\* resolves is on the ledger (broadcaster.js:47-64).
KeepsPromise == Ledger!Spec

\* Every started invocation settles: nobody waits for ever for the lock of a
\* failed, dead or disconnected call, and the retry loop ends
\* (nonceManager.js:50-59, retry.js:26-40).
CallsSettle == \A c \in Call : pc[c] # "idle" ~> pc[c] = "idle"

\* nonceManager.js:27 promises "guaranteed sequential nonce ordering for the
\* given account": a call that built its transaction under the lock does not
\* find its sequence number taken by another transaction.
SequentialNonceGuarantee ==
  \A c \in Call : pc[c] \in {"submit", "backoff"} /\ Len(ledger) > account[c]
                    => ledger[account[c] + 1] = Tx(c)
=============================================================================
