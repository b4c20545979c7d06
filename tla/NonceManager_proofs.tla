------------------------ MODULE NonceManager_proofs ------------------------
(***************************************************************************)
(* Proofs about NonceManager, for any number of processes, calls and       *)
(* connections, any bounds and any set of faults.                          *)
(***************************************************************************)
EXTENDS NonceManager, TLAPS

USE DEF PC, Locking, Unlocking

LEMMA Incremented == ASSUME NEW S, NEW f \in [S -> Nat], NEW x
                     PROVE  [f EXCEPT ![x] = @ + 1] \in [S -> Nat]
  <1>1. CASE x \in S
    BY <1>1
  <1>2. CASE x \notin S
    BY <1>2
  <1> QED
    BY <1>1, <1>2

LEMMA Decremented == ASSUME NEW S, NEW f \in [S -> Nat], NEW x
                     PROVE  [f EXCEPT ![x] = IF @ > 0 THEN @ - 1 ELSE 0] \in [S -> Nat]
  <1>1. CASE x \in S
    BY <1>1
  <1>2. CASE x \notin S
    BY <1>2
  <1> QED
    BY <1>1, <1>2

\* What TypeOK needs to be inductive: a running call has an attempt number, and
\* a call waiting to resubmit has a resubmission left.
Counted == \A c \in Call : /\ pc[c] # "idle" => attempt[c] >= 1
                           /\ pc[c] = "backoff" => tries[c] < MaxRetries

TInv == TypeOK /\ Counted

LEMMA InitTInv == Init => TInv
  BY BoundsAssumption DEF Init, TInv, TypeOK, Counted, AttemptSet

LEMMA TxType == ASSUME TInv, NEW c \in Call, pc[c] # "idle"
                PROVE  Tx(c) \in TxSet
  BY BoundsAssumption DEF TInv, TypeOK, Counted, Tx, TxSet

LEMMA IdType == ASSUME TInv, NEW c \in Call, pc[c] # "idle"
                PROVE  Id(c) \in AttemptSet
  BY BoundsAssumption DEF TInv, TypeOK, Counted, Id, AttemptSet

LEMMA EnterTInv == ASSUME TInv, NEW c \in Call, Enter(c)
                   PROVE  TInv'
  <1> USE BoundsAssumption DEF TInv, TypeOK, Counted, Goto, server, chain, outcomes
  <1>1. CASE Invoke(c)
    BY <1>1 DEF Invoke
  <1>2. CASE Connect(c)
    BY <1>2 DEF Connect
  <1>3. CASE ConnectFails(c)
    BY <1>3, IdType DEF ConnectFails
  <1>4. CASE AcquireLock(c)
    <2>1. holds' \in [Conn -> Nat]
      BY <1>4, Incremented DEF AcquireLock
    <2> QED
      BY <1>4, <2>1 DEF AcquireLock
  <1>5. CASE LockFails(c)
    BY <1>5 DEF LockFails
  <1> QED
    BY <1>1, <1>2, <1>3, <1>4, <1>5 DEF Enter

LEMMA BodyTInv == ASSUME TInv, NEW c \in Call, Body(c)
                  PROVE  TInv'
  <1> USE BoundsAssumption DEF TInv, TypeOK, Counted, Goto, server, chain, outcomes
  <1>1. CASE FetchAccount(c)
    BY <1>1 DEF FetchAccount
  <1>2. CASE FetchFails(c)
    BY <1>2 DEF FetchFails
  <1>3. CASE Submit(c)
    BY <1>3, TxType DEF Submit, Post
  <1>4. CASE Resubmit(c)
    BY <1>4, TxType DEF Resubmit, Post
  <1>5. CASE SubmitReturns(c)
    BY <1>5 DEF SubmitReturns
  <1>6. CASE SubmitRefused(c)
    BY <1>6 DEF SubmitRefused
  <1>7. CASE SubmitRetries(c)
    BY <1>7 DEF SubmitRetries
  <1>8. CASE SubmitFails(c)
    BY <1>8 DEF SubmitFails
  <1> QED
    BY <1>1, <1>2, <1>3, <1>4, <1>5, <1>6, <1>7, <1>8 DEF Body

LEMMA FinallyTInv == ASSUME TInv, NEW c \in Call, Finally(c)
                     PROVE  TInv'
  <1> USE BoundsAssumption DEF TInv, TypeOK, Counted, Goto, chain, Settle
  <1>1. CASE Unlock(c)
    <2>1. holds' \in [Conn -> Nat]
      BY <1>1, Decremented DEF Unlock
    <2>2. Id(c) \in AttemptSet
      BY <1>1, IdType DEF Unlock
    <2> QED
      BY <1>1, <2>1, <2>2 DEF Unlock
  <1>2. CASE UnlockFails(c)
    <2>1. session' \in [Conn -> {"open", "lost", "stale"}]
      BY <1>2 DEF UnlockFails
    <2>2. Id(c) \in AttemptSet
      BY <1>2, IdType DEF UnlockFails
    <2> QED
      BY <1>2, <2>1, <2>2 DEF UnlockFails
  <1> QED
    BY <1>1, <1>2 DEF Finally

LEMMA ConnTInv == ASSUME TInv, NEW k \in Conn, IdleClose(k) \/ SessionLost(k) \/ Reap(k)
                  PROVE  TInv'
  <1> USE DEF TInv, TypeOK, Counted, calls, chain, outcomes
  <1>1. CASE IdleClose(k)
    BY <1>1 DEF IdleClose
  <1>2. CASE SessionLost(k)
    BY <1>2 DEF SessionLost
  <1>3. CASE Reap(k)
    BY <1>3 DEF Reap
  <1> QED
    BY <1>1, <1>2, <1>3

LEMMA CrashTInv == ASSUME TInv, NEW p \in Process, Crash(p)
                   PROVE  TInv'
  <1> USE BoundsAssumption DEF TInv, TypeOK, Counted, Crash, chain
  <1>1. rejected' \subseteq AttemptSet
    BY IdType DEF RunningIn
  <1> QED
    BY <1>1

LEMMA NetworkTInv == ASSUME TInv, Network
                     PROVE  TInv'
  <1> USE DEF TInv, TypeOK, Counted, calls, server, outcomes
  <1> PICK tx \in net : Apply(tx) \/ Drop(tx)
    BY DEF Network
  <1>1. CASE Apply(tx)
    BY <1>1 DEF Apply
  <1>2. CASE Drop(tx)
    BY <1>2 DEF Drop
  <1> QED
    BY <1>1, <1>2

LEMMA StutterTInv == ASSUME TInv, UNCHANGED vars
                     PROVE  TInv'
  BY DEF TInv, TypeOK, Counted, vars, calls, server, chain, outcomes

LEMMA NextTInv == TInv /\ [Next]_vars => TInv'
  BY EnterTInv, BodyTInv, FinallyTInv, ConnTInv, CrashTInv, NetworkTInv, StutterTInv
     DEF Next

\* Type correctness of the submission state: every variable keeps its type in
\* every reachable state.
THEOREM TypeCorrect == Spec => []TypeOK
  <1>1. TInv => TypeOK
    BY DEF TInv
  <1> QED
    BY InitTInv, NextTInv, <1>1, PTL DEF Spec
-----------------------------------------------------------------------------
\* Mutual exclusion.  A call has a connection of its own process exactly from
\* its checkout to its release, no two calls share one, at most one session
\* holds the lock, and a protected call's session does.

HasClient(c) == pc[c] \notin {"idle", "connect"}

ClientInv ==
  \A c \in Call :
    IF HasClient(c)
      THEN client[c] \in Conn /\ ProcOf[client[c]] = ProcOf[c] /\ session[client[c]] # "stale"
      ELSE client[c] = NoConn
Exclusive == \A c, d \in Call : HasClient(c) /\ HasClient(d) /\ client[c] = client[d] => c = d
OneHolder == \A j, k \in Conn : holds[j] > 0 /\ holds[k] > 0 => j = k
ProtectedHolds == \A c \in Call : Protected(c) => holds[client[c]] > 0

LockInv == ClientInv /\ Exclusive /\ OneHolder /\ ProtectedHolds

LEMMA InitLockInv == Init => LockInv
  BY DEF Init, LockInv, ClientInv, HasClient, Exclusive, OneHolder, ProtectedHolds, Protected

\* The steps of a call that leave connections, sessions and locks alone and do
\* not take it into or out of the section that has a connection.
LEMMA LocalStep ==
  ASSUME TInv, LockInv, NEW c \in Call, NEW l \in PC, Goto(c, l), UNCHANGED <<client, server>>,
         HasClient(c) <=> l \notin {"idle", "connect"},
         l \in Locking => pc[c] \in Locking
  PROVE  LockInv'
  <1>1. pc' = [pc EXCEPT ![c] = l] /\ pc \in [Call -> PC]
    BY DEF Goto, TInv, TypeOK
  <1>2. \A d \in Call : HasClient(d)' <=> HasClient(d)
    BY <1>1 DEF HasClient
  <1>3. \A d \in Call : Protected(d)' => Protected(d)
    BY <1>1 DEF Protected, server
  <1> QED
    BY <1>2, <1>3 DEF LockInv, ClientInv, Exclusive, OneHolder, ProtectedHolds, server

LEMMA EnterLockInv == ASSUME TInv, LockInv, NEW c \in Call, Enter(c)
                      PROVE  LockInv'
  <1>1. CASE Invoke(c)
    BY <1>1, LocalStep DEF Invoke, HasClient
  <1>2. CASE Connect(c)
    <2>1. PICK k \in Conn : /\ ProcOf[k] = ProcOf[c]
                            /\ InPool(k)
                            /\ client' = [client EXCEPT ![c] = k]
      BY <1>2 DEF Connect
    <2>2. /\ pc' = [pc EXCEPT ![c] = "lock"] /\ pc[c] = "connect"
          /\ UNCHANGED <<session, holds>>
          /\ pc \in [Call -> PC] /\ client \in [Call -> Conn \cup {NoConn}]
      BY <1>2 DEF Connect, Goto, server, TInv, TypeOK
    <2>3. \A d \in Call : HasClient(d)' <=> HasClient(d) \/ d = c
      BY <2>2 DEF HasClient
    <2>4. ClientInv'
      BY <2>1, <2>2, <2>3 DEF LockInv, ClientInv, InPool
    <2>5. Exclusive'
      BY <2>1, <2>2, <2>3 DEF LockInv, Exclusive, InPool
    <2>6. ProtectedHolds'
      BY <2>1, <2>2 DEF LockInv, ProtectedHolds, Protected
    <2> QED
      BY <2>2, <2>4, <2>5, <2>6 DEF LockInv, OneHolder
  <1>3. CASE ConnectFails(c)
    BY <1>3, LocalStep DEF ConnectFails, HasClient, server
  <1>4. CASE AcquireLock(c)
    <2>1. /\ pc' = [pc EXCEPT ![c] = "fetch"] /\ pc[c] = "lock"
          /\ holds' = [holds EXCEPT ![client[c]] = @ + 1]
          /\ \A k \in Conn \ {client[c]} : holds[k] = 0
          /\ UNCHANGED <<client, session>>
          /\ pc \in [Call -> PC] /\ holds \in [Conn -> Nat]
      BY <1>4 DEF AcquireLock, Goto, TInv, TypeOK
    <2>2. client[c] \in Conn
      BY <2>1 DEF LockInv, ClientInv, HasClient
    <2>3. \A d \in Call : HasClient(d)' <=> HasClient(d)
      BY <2>1 DEF HasClient
    <2>4. OneHolder'
      BY <2>1, <2>2 DEF OneHolder
    <2>5. \A k \in Conn : holds[k] > 0 => holds'[k] > 0
      BY <2>1, <2>2
    <2>6. holds'[client[c]] > 0
      BY <2>1, <2>2
    <2>7. ProtectedHolds'
      <3> SUFFICES ASSUME NEW d \in Call, Protected(d)'
                   PROVE  holds'[client[d]] > 0
        BY <2>1 DEF ProtectedHolds
      <3>1. CASE d = c
        BY <3>1, <2>6
      <3>2. CASE d # c
        <4>1. Protected(d)
          BY <3>2, <2>1 DEF Protected
        <4>2. client[d] \in Conn
          BY <4>1 DEF Protected, LockInv, ClientInv, HasClient
        <4> QED
          BY <4>1, <4>2, <2>5 DEF LockInv, ProtectedHolds
      <3> QED
        BY <3>1, <3>2
    <2> QED
      BY <2>1, <2>3, <2>4, <2>7 DEF LockInv, ClientInv, Exclusive
  <1>5. CASE LockFails(c)
    BY <1>5, LocalStep DEF LockFails, HasClient
  <1> QED
    BY <1>1, <1>2, <1>3, <1>4, <1>5 DEF Enter

LEMMA BodyLockInv == ASSUME TInv, LockInv, NEW c \in Call, Body(c)
                     PROVE  LockInv'
  BY LocalStep DEF Body, FetchAccount, FetchFails, Submit, Resubmit, SubmitReturns,
                   SubmitRefused, SubmitRetries, SubmitFails, HasClient

LEMMA FinallyLockInv == ASSUME TInv, LockInv, NEW c \in Call, Finally(c)
                        PROVE  LockInv'
  <1>1. /\ pc' = [pc EXCEPT ![c] = "idle"] /\ pc[c] \in Unlocking
        /\ client' = [client EXCEPT ![c] = NoConn]
        /\ pc \in [Call -> PC] /\ client \in [Call -> Conn \cup {NoConn}]
        /\ holds \in [Conn -> Nat] /\ session \in [Conn -> {"open", "lost", "stale"}]
    BY DEF Finally, Unlock, UnlockFails, Settle, Goto, TInv, TypeOK
  <1>2. client[c] \in Conn
    BY <1>1 DEF LockInv, ClientInv, HasClient
  <1>3. \A d \in Call : HasClient(d)' <=> HasClient(d) /\ d # c
    BY <1>1 DEF HasClient
  <1>4. \A d \in Call \ {c} : client'[d] = client[d] /\ pc'[d] = pc[d]
    BY <1>1
  <1>5. \A d \in Call \ {c} : HasClient(d) => client[d] \in Conn \ {client[c]}
    BY <1>1 DEF LockInv, ClientInv, Exclusive, HasClient
  <1>6. Exclusive'
    BY <1>3, <1>4 DEF LockInv, Exclusive
  <1>7. /\ \A k \in Conn \ {client[c]} : session'[k] = session[k] /\ holds'[k] = holds[k]
        /\ \A k \in Conn : holds'[k] > 0 => holds[k] > 0
        /\ \A k \in Conn : session'[k] = "stale" => session[k] = "stale"
    <2>1. CASE Unlock(c)
      BY <2>1, <1>1, <1>2 DEF Unlock
    <2>2. CASE UnlockFails(c)
      BY <2>2, <1>1, <1>2 DEF UnlockFails
    <2> QED
      BY <2>1, <2>2 DEF Finally
  <1>8. ClientInv'
    BY <1>1, <1>3, <1>4, <1>7 DEF LockInv, ClientInv
  <1>9. OneHolder'
    BY <1>7 DEF LockInv, OneHolder
  <1>10. ProtectedHolds'
    <2> SUFFICES ASSUME NEW d \in Call, Protected(d)'
                 PROVE  holds'[client'[d]] > 0
      BY DEF ProtectedHolds
    <2>1. d # c
      BY <1>1 DEF Protected
    <2>2. client'[d] = client[d] /\ client[d] \in Conn \ {client[c]} /\ Protected(d)
      BY <2>1, <1>4, <1>5, <1>7 DEF Protected, HasClient
    <2> QED
      BY <2>2, <1>7 DEF LockInv, ProtectedHolds
  <1> QED
    BY <1>6, <1>8, <1>9, <1>10 DEF LockInv

LEMMA ConnLockInv ==
  ASSUME TInv, LockInv, NEW k \in Conn, IdleClose(k) \/ SessionLost(k) \/ Reap(k)
  PROVE  LockInv'
  <1>1. /\ UNCHANGED <<pc, client>>
        /\ holds \in [Conn -> Nat] /\ session \in [Conn -> {"open", "lost", "stale"}]
        /\ holds' = [holds EXCEPT ![k] = 0]
        /\ \A j \in Conn \ {k} : session'[j] = session[j]
        /\ session'[k] # "stale" \/ session'[k] = session[k]
    BY DEF IdleClose, SessionLost, Reap, calls, TInv, TypeOK
  <1>2. \A c \in Call : HasClient(c)' <=> HasClient(c)
    BY <1>1 DEF HasClient
  <1>3. \A c \in Call : HasClient(c) /\ client[c] = k => session'[k] # "open"
    <2> SUFFICES ASSUME NEW c \in Call, HasClient(c), client[c] = k
                 PROVE  session'[k] # "open"
      OBVIOUS
    <2>1. ~IdleClose(k)
      BY DEF IdleClose, InPool
    <2>2. ~Reap(k)
      BY DEF Reap, LockInv, ClientInv
    <2> QED
      BY <2>1, <2>2, <1>1 DEF SessionLost
  <1>4. ProtectedHolds'
    <2> SUFFICES ASSUME NEW c \in Call, Protected(c)'
                 PROVE  holds'[client[c]] > 0
      BY <1>1 DEF ProtectedHolds
    <2>1. HasClient(c) /\ client[c] \in Conn
      BY <1>1 DEF Protected, HasClient, LockInv, ClientInv
    <2>2. client[c] # k
      BY <2>1, <1>1, <1>3 DEF Protected
    <2>3. Protected(c)
      BY <2>1, <2>2, <1>1 DEF Protected
    <2> QED
      BY <2>1, <2>2, <2>3, <1>1 DEF LockInv, ProtectedHolds
  <1> QED
    BY <1>1, <1>2, <1>4 DEF LockInv, ClientInv, Exclusive, OneHolder

LEMMA CrashLockInv == ASSUME TInv, LockInv, NEW p \in Process, Crash(p)
                      PROVE  LockInv'
  <1>1. /\ pc \in [Call -> PC] /\ holds' = holds
        /\ \A c \in Call : pc'[c] = IF c \in RunningIn(p) THEN "idle" ELSE pc[c]
        /\ \A c \in Call : client'[c] = IF c \in RunningIn(p) THEN NoConn ELSE client[c]
        /\ \A k \in Conn : ProcOf[k] # p => session'[k] = session[k]
    BY DEF Crash, TInv, TypeOK
  <1>2. \A c \in Call : HasClient(c)' <=> HasClient(c) /\ ProcOf[c] # p
    BY <1>1 DEF HasClient, RunningIn
  <1>3. \A c \in Call : HasClient(c)' => client'[c] = client[c] /\ pc'[c] = pc[c]
                                         /\ ProcOf[client[c]] # p /\ client[c] \in Conn
    BY <1>1, <1>2 DEF LockInv, ClientInv, RunningIn
  <1>4. ClientInv'
    BY <1>1, <1>2, <1>3 DEF LockInv, ClientInv, RunningIn, HasClient
  <1>5. Exclusive'
    BY <1>2, <1>3 DEF LockInv, Exclusive
  <1>6. ProtectedHolds'
    <2> SUFFICES ASSUME NEW c \in Call, Protected(c)'
                 PROVE  holds[client'[c]] > 0
      BY <1>1 DEF ProtectedHolds
    <2>1. HasClient(c)'
      BY DEF Protected, HasClient
    <2>2. Protected(c)
      BY <2>1, <1>1, <1>3 DEF Protected
    <2> QED
      BY <2>1, <2>2, <1>3 DEF LockInv, ProtectedHolds
  <1> QED
    BY <1>1, <1>4, <1>5, <1>6 DEF LockInv, OneHolder

LEMMA NextLockInv == TInv /\ LockInv /\ [Next]_vars => LockInv'
  <1> SUFFICES ASSUME TInv, LockInv, [Next]_vars
               PROVE  LockInv'
    OBVIOUS
  <1>1. CASE UNCHANGED <<pc, client, server>>
    BY <1>1 DEF server, LockInv, ClientInv, HasClient, Exclusive, OneHolder, ProtectedHolds,
                Protected
  <1>2. CASE Network \/ UNCHANGED vars
    BY <1>1, <1>2 DEF Network, Apply, Drop, vars, calls
  <1> QED
    BY <1>2, EnterLockInv, BodyLockInv, FinallyLockInv, ConnLockInv, CrashLockInv DEF Next

\* Mutual exclusion of the calls whose database session is alive, whatever
\* fails: the lock of a protected call is its own, and there is only one.
THEOREM MutualExclusionHolds == Spec => []MutualExclusion
  <1>1. TInv /\ LockInv => MutualExclusion
    <2> SUFFICES ASSUME TInv, LockInv, NEW c \in Call, NEW d \in Call, Protected(c), Protected(d)
                 PROVE  c = d
      BY DEF MutualExclusion
    <2>1. HasClient(c) /\ HasClient(d)
      BY DEF Protected, HasClient
    <2>2. client[c] \in Conn /\ client[d] \in Conn
      BY <2>1 DEF LockInv, ClientInv
    <2> QED
      BY <2>1, <2>2 DEF LockInv, ProtectedHolds, OneHolder, Exclusive
  <1> QED
    BY InitTInv, NextTInv, InitLockInv, NextLockInv, <1>1, PTL DEF Spec
-----------------------------------------------------------------------------
\* Freshness of the sequence number.  Account replies are never cached.  A
\* transaction in flight belongs to an attempt that was given up, or to the
\* current attempt of a call that still holds the lock unless it lost its
\* session.

Uncached == cached = -1

Owned(tx) ==
  \/ <<tx.call, tx.n>> \in rejected
  \/ /\ tx = Tx(tx.call)
     /\ pc[tx.call] \in {"submit", "backoff", "throw"}
     /\ session[client[tx.call]] = "open" => holds[client[tx.call]] > 0

NetOwned == \A tx \in net : Owned(tx)
NetUnapplied == \A tx \in net : ~Applied(tx)
NoneLost == "session" \notin incidents => \A k \in Conn : session[k] # "lost"

FreshInv == Uncached /\ NetOwned /\ NetUnapplied /\ NoneLost /\ SequenceFresh

LEMMA InitFreshInv == Init => FreshInv
  BY DEF Init, FreshInv, Uncached, NetOwned, NetUnapplied, NoneLost, SequenceFresh, Protected

LEMMA TxFields == \A c \in Call : /\ Tx(c).call = c /\ Tx(c).n = attempt[c]
                                  /\ Tx(c).seq = account[c] + 1
  BY DEF Tx

\* A step that leaves the chain and the outcomes alone and changes, for each
\* call, neither its transaction nor its hold on the lock.
LEMMA QuietStep ==
  ASSUME TInv, FreshInv, UNCHANGED <<chain, cached>>, rejected \subseteq rejected',
         incidents \subseteq incidents',
         NoneLost',
         \A tx \in net : Owned(tx)',
         \A c \in Call : Protected(c)' /\ pc'[c] # "fetch" =>
                           /\ Protected(c) /\ pc[c] # "fetch"
                           /\ account'[c] = account[c] /\ attempt'[c] = attempt[c]
  PROVE  FreshInv'
  <1>1. Uncached' /\ NetUnapplied' /\ NetOwned'
    BY DEF FreshInv, Uncached, NetUnapplied, NetOwned, Applied, chain
  <1>2. SequenceFresh'
    <2> SUFFICES ASSUME "session" \notin incidents', NEW c \in Call, Protected(c)', pc'[c] # "fetch",
                        NEW i \in account'[c] + 1 .. Len(ledger)
                 PROVE  ledger[i] = Tx(c)' \/ <<ledger[i].call, ledger[i].n>> \in rejected'
      BY DEF SequenceFresh, chain
    <2>1. Tx(c)' = Tx(c)
      BY DEF Tx
    <2> QED
      BY <2>1 DEF FreshInv, SequenceFresh
  <1> QED
    BY <1>1, <1>2 DEF FreshInv

\* In particular a step of one call that is not submitting, or goes on doing so.
LEMMA LocalFresh ==
  ASSUME TInv, LockInv, FreshInv, NEW c \in Call, NEW l \in PC, Goto(c, l),
         UNCHANGED <<client, account, session, incidents, cached, chain>>,
         rejected \subseteq rejected',
         attempt' = attempt \/ pc[c] \in {"idle"},
         \A d \in Call : attempt'[d] = attempt[d] \/ d = c,
         TInv', \A k \in Conn : holds'[k] >= holds[k],
         Tx(c) \in net /\ pc[c] \in {"submit", "backoff", "throw"} => l \in {"submit", "backoff", "throw"},
         l \in {"build", "submit", "backoff"} => pc[c] \in {"build", "submit", "backoff"}
  PROVE  FreshInv'
  <1>1. pc' = [pc EXCEPT ![c] = l] /\ pc \in [Call -> PC] /\ holds \in [Conn -> Nat]
        /\ net \subseteq TxSet
    BY DEF Goto, TInv, TypeOK
  <1>2. NoneLost'
    BY DEF FreshInv, NoneLost
  <1>3. ASSUME NEW tx \in net PROVE Owned(tx)'
    <2>1. CASE <<tx.call, tx.n>> \in rejected
      BY <2>1 DEF Owned
    <2>2. CASE <<tx.call, tx.n>> \notin rejected
      <3>1. /\ tx = Tx(tx.call) /\ tx.call \in Call
            /\ pc[tx.call] \in {"submit", "backoff", "throw"}
            /\ session[client[tx.call]] = "open" => holds[client[tx.call]] > 0
        BY <2>2, <1>1 DEF FreshInv, NetOwned, Owned, TxSet
      <3>2. attempt'[tx.call] = attempt[tx.call]
        BY <3>1
      <3>3. Tx(tx.call)' = tx
        BY <3>1, <3>2 DEF Tx
      <3>4. pc'[tx.call] \in {"submit", "backoff", "throw"}
        BY <3>1, <1>1
      <3>5. client[tx.call] \in Conn
        BY <3>1 DEF LockInv, ClientInv, HasClient
      <3>6. session[client[tx.call]] = "open" => holds'[client[tx.call]] > 0
        <4>1. holds[client[tx.call]] \in Nat /\ holds'[client[tx.call]] \in Nat
          BY <3>5 DEF TInv, TypeOK
        <4>2. holds'[client[tx.call]] >= holds[client[tx.call]]
          BY <3>5
        <4> QED
          BY <3>1, <4>1, <4>2
      <3> QED
        BY <3>3, <3>4, <3>6 DEF Owned
    <2> QED
      BY <2>1, <2>2
  <1>4. ASSUME NEW d \in Call, Protected(d)', pc'[d] # "fetch"
        PROVE  Protected(d) /\ pc[d] # "fetch" /\ attempt'[d] = attempt[d]
    BY <1>1, <1>4 DEF Protected
  <1> QED
    BY <1>2, <1>3, <1>4, QuietStep
LEMMA OwnedBy ==
  ASSUME TInv, LockInv, FreshInv, NEW tx \in net, <<tx.call, tx.n>> \notin rejected
  PROVE  /\ tx.call \in Call /\ tx = Tx(tx.call)
         /\ pc[tx.call] \in {"submit", "backoff", "throw"}
         /\ client[tx.call] \in Conn
         /\ session[client[tx.call]] = "open" => holds[client[tx.call]] > 0
  <1>1. tx.call \in Call
    BY DEF TInv, TypeOK, TxSet
  <1>2. Owned(tx)
    BY DEF FreshInv, NetOwned
  <1>3. HasClient(tx.call)
    BY <1>2 DEF Owned, HasClient
  <1> QED
    BY <1>1, <1>2, <1>3 DEF Owned, LockInv, ClientInv

LEMMA EnterFresh == ASSUME TInv, TInv', LockInv, FreshInv, NEW c \in Call, Enter(c)
                    PROVE  FreshInv'
  <1> USE DEF chain, outcomes, server
  <1>0. attempt \in [Call -> 0..MaxCalls] /\ holds \in [Conn -> Nat]
    BY DEF TInv, TypeOK
  <1>1. CASE Invoke(c)
    BY <1>1, <1>0, LocalFresh DEF Invoke
  <1>2. CASE Connect(c)
    <2>1. /\ pc' = [pc EXCEPT ![c] = "lock"] /\ pc[c] = "connect"
          /\ \A d \in Call \ {c} : client'[d] = client[d]
          /\ UNCHANGED <<attempt, account, tries, server, incidents, cached, chain, outcomes>>
          /\ pc \in [Call -> PC]
      BY <1>2 DEF Connect, Goto, TInv, TypeOK
    <2>2. ASSUME NEW tx \in net PROVE Owned(tx)'
      <3>1. CASE <<tx.call, tx.n>> \in rejected
        BY <3>1, <2>1 DEF Owned
      <3>2. CASE <<tx.call, tx.n>> \notin rejected
        BY <3>2, <2>1, OwnedBy DEF Owned, Tx
      <3> QED
        BY <3>1, <3>2
    <2>3. NoneLost'
      BY <2>1 DEF FreshInv, NoneLost
    <2>4. ASSUME NEW d \in Call, Protected(d)', pc'[d] # "fetch"
          PROVE  Protected(d) /\ pc[d] # "fetch"
      BY <2>1, <2>4 DEF Protected
    <2> QED
      BY <2>1, <2>2, <2>3, <2>4, QuietStep
  <1>3. CASE ConnectFails(c)
    BY <1>3, <1>0, LocalFresh DEF ConnectFails
  <1>4. CASE AcquireLock(c)
    <2>1. \A k \in Conn : holds'[k] >= holds[k]
      BY <1>4, <1>0 DEF AcquireLock
    <2> QED
      BY <1>4, <2>1, LocalFresh DEF AcquireLock
  <1>5. CASE LockFails(c)
    BY <1>5, <1>0, LocalFresh DEF LockFails
  <1> QED
    BY <1>1, <1>2, <1>3, <1>4, <1>5 DEF Enter

LEMMA FetchFresh == ASSUME TInv, TInv', LockInv, FreshInv, NEW c \in Call, FetchAccount(c)
                    PROVE  FreshInv'
  <1>1. /\ pc' = [pc EXCEPT ![c] = "build"] /\ pc[c] = "fetch"
        /\ account' = [account EXCEPT ![c] = Len(ledger)]
        /\ cached' = cached
        /\ UNCHANGED <<attempt, client, server, incidents, chain, outcomes>>
        /\ pc \in [Call -> PC] /\ account \in [Call -> Nat] /\ ledger \in Seq(TxSet)
    BY DEF FetchAccount, Goto, FreshInv, Uncached, Cacheable, ReplyFields, SensitiveFields,
           TInv, TypeOK
  <1>2. ASSUME NEW tx \in net PROVE Owned(tx)'
    <2>1. CASE <<tx.call, tx.n>> \in rejected
      BY <2>1, <1>1 DEF Owned, outcomes
    <2>2. CASE <<tx.call, tx.n>> \notin rejected
      BY <2>2, <1>1, OwnedBy DEF Owned, Tx, server
    <2> QED
      BY <2>1, <2>2
  <1>3. Uncached' /\ NetOwned' /\ NetUnapplied' /\ NoneLost'
    BY <1>1, <1>2 DEF FreshInv, Uncached, NetOwned, NetUnapplied, NoneLost, Applied, server, chain
  <1>4. SequenceFresh'
    <2> SUFFICES ASSUME "session" \notin incidents, NEW d \in Call, Protected(d)', pc'[d] # "fetch",
                        NEW i \in account'[d] + 1 .. Len(ledger)
                 PROVE  ledger[i] = Tx(d)' \/ <<ledger[i].call, ledger[i].n>> \in rejected
      BY <1>1 DEF SequenceFresh, chain, outcomes
    <2>1. CASE d = c
      BY <2>1, <1>1
    <2>2. CASE d # c
      BY <2>2, <1>1 DEF FreshInv, SequenceFresh, Protected, Tx, server
    <2> QED
      BY <2>1, <2>2
  <1> QED
    BY <1>3, <1>4 DEF FreshInv

LEMMA PostFresh == ASSUME TInv, TInv', LockInv, FreshInv, NEW c \in Call,
                          Submit(c) \/ Resubmit(c)
                   PROVE  FreshInv'
  <1>1. /\ pc' = [pc EXCEPT ![c] = "submit"] /\ pc[c] \in {"build", "backoff"}
        /\ Post(Tx(c))
        /\ UNCHANGED <<attempt, client, account, server, incidents, cached, ledger, outcomes>>
        /\ pc \in [Call -> PC]
    BY DEF Submit, Resubmit, Goto, TInv, TypeOK
  <1>2. \A d \in Call : Tx(d)' = Tx(d)
    BY <1>1 DEF Tx
  <1>3. \A tx \in net' : tx \in net \/ (tx = Tx(c) /\ ~Applied(tx))
    <2>1. net' = net \/ (net' = net \cup {Tx(c)} /\ ~Applied(Tx(c)))
      BY <1>1 DEF Post
    <2> QED
      BY <2>1, Zenon
  <1>4. ASSUME NEW tx \in net' PROVE Owned(tx)'
    <2>1. CASE tx \in net /\ <<tx.call, tx.n>> \in rejected
      BY <2>1, <1>1 DEF Owned, outcomes
    <2>2. CASE tx \in net /\ <<tx.call, tx.n>> \notin rejected
      BY <2>2, <1>1, <1>2, OwnedBy DEF Owned, server
    <2>3. CASE tx = Tx(c)
      <3>1. session[client[c]] = "open" => holds[client[c]] > 0
        BY <1>1 DEF LockInv, ProtectedHolds, Protected
      <3> QED
        BY <2>3, <3>1, <1>1, <1>2, TxFields DEF Owned, server
    <2> QED
      BY <1>3, <2>1, <2>2, <2>3
  <1>5. Uncached' /\ NetOwned' /\ NetUnapplied' /\ NoneLost'
    BY <1>1, <1>3, <1>4 DEF FreshInv, Uncached, NetOwned, NetUnapplied, NoneLost, Applied, server
  <1>6. SequenceFresh'
    BY <1>1, <1>2 DEF FreshInv, SequenceFresh, Protected, server, outcomes
  <1> QED
    BY <1>5, <1>6 DEF FreshInv

LEMMA BodyFresh == ASSUME TInv, TInv', LockInv, FreshInv, NEW c \in Call, Body(c)
                   PROVE  FreshInv'
  <1>1. \A k \in Conn : holds[k] >= holds[k]
    BY DEF TInv, TypeOK
  <1>2. CASE SubmitReturns(c)
    <2>1. Tx(c) \notin net
      BY <1>2 DEF SubmitReturns, FreshInv, NetUnapplied
    <2> QED
      BY <1>1, <1>2, <2>1, LocalFresh DEF SubmitReturns, server, chain, outcomes
  <1>3. CASE FetchFails(c) \/ SubmitRefused(c) \/ SubmitRetries(c) \/ SubmitFails(c)
    BY <1>1, <1>3, LocalFresh
       DEF FetchFails, SubmitRefused, SubmitRetries, SubmitFails, server, chain, outcomes
  <1> QED
    BY <1>2, <1>3, FetchFresh, PostFresh DEF Body

LEMMA FinallyFresh == ASSUME TInv, TInv', LockInv, FreshInv, NEW c \in Call, Finally(c)
                      PROVE  FreshInv'
  <1>1. /\ pc' = [pc EXCEPT ![c] = "idle"] /\ pc[c] \in Unlocking
        /\ \A d \in Call \ {c} : client'[d] = client[d] /\ account'[d] = account[d]
        /\ UNCHANGED <<attempt, cached, chain>> /\ incidents \subseteq incidents'
        /\ pc[c] = "throw" => rejected' = rejected \cup {Id(c)}
        /\ pc[c] = "return" => rejected' = rejected
        /\ pc \in [Call -> PC] /\ holds \in [Conn -> Nat]
        /\ session \in [Conn -> {"open", "lost", "stale"}]
    BY DEF Finally, Unlock, UnlockFails, Settle, Goto, TInv, TypeOK
  <1>2. \A k \in Conn \ {client[c]} : session'[k] = session[k] /\ holds'[k] = holds[k]
    BY <1>1 DEF Finally, Unlock, UnlockFails
  <1>3. \A k \in Conn : session'[k] = session[k] \/ session'[k] = "open"
    BY <1>1 DEF Finally, Unlock, UnlockFails
  <1>4. \A d \in Call \ {c} : HasClient(d) => client[d] \in Conn \ {client[c]}
    BY <1>1 DEF LockInv, ClientInv, Exclusive, HasClient
  <1>5. ASSUME NEW tx \in net PROVE Owned(tx)'
    <2>1. CASE <<tx.call, tx.n>> \in rejected
      BY <2>1, <1>1 DEF Owned
    <2>2. CASE <<tx.call, tx.n>> \notin rejected /\ tx.call = c
      <3>1. pc[c] = "throw" /\ tx = Tx(c)
        BY <2>2, <1>1, OwnedBy
      <3>2. <<tx.call, tx.n>> = Id(c)
        BY <3>1, TxFields DEF Id
      <3> QED
        BY <3>1, <3>2, <1>1 DEF Owned
    <2>3. CASE <<tx.call, tx.n>> \notin rejected /\ tx.call # c
      <3>1. /\ tx.call \in Call \ {c} /\ tx = Tx(tx.call)
            /\ pc[tx.call] \in {"submit", "backoff", "throw"}
            /\ session[client[tx.call]] = "open" => holds[client[tx.call]] > 0
        BY <2>3, OwnedBy
      <3>2. client[tx.call] \in Conn \ {client[c]}
        BY <3>1, <1>4 DEF HasClient
      <3>3. Tx(tx.call)' = tx
        BY <3>1, <1>1 DEF Tx
      <3>4. pc'[tx.call] = pc[tx.call] /\ client'[tx.call] = client[tx.call]
        BY <3>1, <1>1
      <3> QED
        BY <3>1, <3>2, <3>3, <3>4, <1>2 DEF Owned
    <2> QED
      BY <2>1, <2>2, <2>3
  <1>6. NoneLost'
    BY <1>1, <1>3 DEF FreshInv, NoneLost
  <1>7. ASSUME NEW d \in Call, Protected(d)', pc'[d] # "fetch"
        PROVE  Protected(d) /\ pc[d] # "fetch" /\ account'[d] = account[d]
    <2>1. d # c
      BY <1>7, <1>1 DEF Protected
    <2>2. pc'[d] = pc[d] /\ client'[d] = client[d]
      BY <2>1, <1>1
    <2> QED
      BY <1>7, <1>1, <1>2, <1>4, <2>1, <2>2 DEF Protected, HasClient
  <1>8. resolved \subseteq resolved' /\ rejected \subseteq rejected'
    BY DEF Finally, Unlock, UnlockFails, Settle
  <1> QED
    BY <1>1, <1>5, <1>6, <1>7, <1>8, QuietStep

LEMMA ConnFresh ==
  ASSUME TInv, TInv', LockInv, FreshInv, NEW k \in Conn,
         IdleClose(k) \/ SessionLost(k) \/ Reap(k)
  PROVE  FreshInv'
  <1>1. /\ UNCHANGED <<calls, cached, chain, outcomes>> /\ incidents \subseteq incidents'
        /\ holds \in [Conn -> Nat] /\ session \in [Conn -> {"open", "lost", "stale"}]
        /\ \A j \in Conn \ {k} : session'[j] = session[j] /\ holds'[j] = holds[j]
    BY DEF IdleClose, SessionLost, Reap, TInv, TypeOK
  <1>2. \A c \in Call : HasClient(c) /\ client[c] = k => session'[k] = "lost"
    BY <1>1 DEF IdleClose, SessionLost, Reap, InPool, LockInv, ClientInv
  <1>3. ASSUME NEW c \in Call, HasClient(c), session'[client[c]] = "open"
        PROVE  client[c] \in Conn /\ client[c] # k
    BY <1>2, <1>3 DEF LockInv, ClientInv
  <1>4. ASSUME NEW tx \in net PROVE Owned(tx)'
    <2>1. CASE <<tx.call, tx.n>> \in rejected
      BY <2>1, <1>1 DEF Owned, outcomes
    <2>2. CASE <<tx.call, tx.n>> \notin rejected
      <3>1. /\ tx.call \in Call /\ tx = Tx(tx.call)
            /\ pc[tx.call] \in {"submit", "backoff", "throw"}
            /\ session[client[tx.call]] = "open" => holds[client[tx.call]] > 0
        BY <2>2, OwnedBy
      <3>2. Tx(tx.call)' = tx /\ pc' = pc /\ client' = client
        BY <3>1, <1>1 DEF Tx, calls
      <3>3. session'[client[tx.call]] = "open" => holds'[client[tx.call]] > 0
        BY <3>1, <1>1, <1>3 DEF HasClient
      <3> QED
        BY <3>1, <3>2, <3>3 DEF Owned
    <2> QED
      BY <2>1, <2>2
  <1>5. NoneLost'
    BY <1>1 DEF IdleClose, SessionLost, Reap, FreshInv, NoneLost
  <1>6. ASSUME NEW d \in Call, Protected(d)', pc'[d] # "fetch"
        PROVE  Protected(d) /\ pc[d] # "fetch"
    BY <1>1, <1>3, <1>6 DEF Protected, HasClient, calls
  <1> QED
    BY <1>1, <1>4, <1>5, <1>6, QuietStep DEF calls, outcomes

LEMMA CrashFresh == ASSUME TInv, TInv', LockInv, FreshInv, NEW p \in Process, Crash(p)
                    PROVE  FreshInv'
  <1>1. /\ pc \in [Call -> PC] /\ session \in [Conn -> {"open", "lost", "stale"}]
        /\ UNCHANGED <<attempt, holds, incidents, cached, chain, resolved>>
        /\ rejected' = rejected \cup {Id(c) : c \in RunningIn(p)}
        /\ \A k \in Conn : ProcOf[k] # p => session'[k] = session[k]
        /\ \A k \in Conn : session'[k] \in {session[k], "stale", "open"}
    BY DEF Crash, TInv, TypeOK
  <1>a. /\ \A c \in Call \ RunningIn(p) : /\ pc'[c] = pc[c] /\ client'[c] = client[c]
                                          /\ account'[c] = account[c]
        /\ \A c \in RunningIn(p) : pc'[c] = "idle"
    BY DEF Crash, RunningIn
  <1>2. ASSUME NEW c \in Call \ RunningIn(p), HasClient(c)
        PROVE  client[c] \in Conn /\ session'[client[c]] = session[client[c]]
    BY <1>1, <1>2 DEF LockInv, ClientInv, RunningIn, HasClient
  <1>3. ASSUME NEW tx \in net PROVE Owned(tx)'
    <2>1. CASE <<tx.call, tx.n>> \in rejected
      BY <2>1, <1>1 DEF Owned
    <2>2. CASE <<tx.call, tx.n>> \notin rejected
      <3>1. /\ tx.call \in Call /\ tx = Tx(tx.call)
            /\ pc[tx.call] \in {"submit", "backoff", "throw"}
            /\ session[client[tx.call]] = "open" => holds[client[tx.call]] > 0
        BY <2>2, OwnedBy
      <3>2. CASE tx.call \in RunningIn(p)
        <4>1. <<tx.call, tx.n>> = Id(tx.call)
          BY <3>1, TxFields DEF Id
        <4> QED
          BY <4>1, <3>2, <1>1, <1>a DEF Owned
      <3>3. CASE tx.call \notin RunningIn(p)
        <4>1. Tx(tx.call)' = tx
          BY <3>1, <3>3, <1>1, <1>a DEF Tx
        <4>2. session'[client[tx.call]] = session[client[tx.call]]
          BY <3>1, <3>3, <1>2 DEF HasClient
        <4>3. pc'[tx.call] = pc[tx.call] /\ client'[tx.call] = client[tx.call]
          BY <3>1, <3>3, <1>a
        <4> QED
          BY <4>1, <4>2, <4>3, <3>1, <1>1 DEF Owned
      <3> QED
        BY <3>2, <3>3
    <2> QED
      BY <2>1, <2>2
  <1>4. NoneLost'
    BY <1>1 DEF FreshInv, NoneLost
  <1>5. ASSUME NEW d \in Call, Protected(d)', pc'[d] # "fetch"
        PROVE  Protected(d) /\ pc[d] # "fetch" /\ account'[d] = account[d]
    <2>1. d \notin RunningIn(p)
      BY <1>5, <1>a DEF Protected
    <2> QED
      BY <2>1, <1>5, <1>1, <1>a, <1>2 DEF Protected, HasClient
  <1> QED
    BY <1>1, <1>a, <1>3, <1>4, <1>5, QuietStep

\* A transaction applied while another call is protected: its call would have to
\* hold the lock as well.
LEMMA AppliedFresh ==
  ASSUME TInv, LockInv, FreshInv, NEW tx \in net, "session" \notin incidents,
         NEW c \in Call, Protected(c)
  PROVE  tx = Tx(c) \/ <<tx.call, tx.n>> \in rejected
  <1> SUFFICES ASSUME <<tx.call, tx.n>> \notin rejected
               PROVE  tx.call = c
    BY OwnedBy
  <1>1. /\ tx.call \in Call
        /\ pc[tx.call] \in {"submit", "backoff", "throw"}
        /\ client[tx.call] \in Conn
        /\ session[client[tx.call]] = "open" => holds[client[tx.call]] > 0
    BY OwnedBy
  <1>2. HasClient(tx.call) /\ HasClient(c)
    BY <1>1 DEF Protected, HasClient
  <1>3. session[client[tx.call]] = "open"
    BY <1>1, <1>2 DEF TInv, TypeOK, FreshInv, NoneLost, LockInv, ClientInv
  <1>4. holds[client[c]] > 0 /\ client[c] \in Conn
    BY <1>2 DEF LockInv, ProtectedHolds, ClientInv
  <1> QED
    BY <1>1, <1>2, <1>3, <1>4 DEF LockInv, OneHolder, Exclusive

LEMMA NetworkFresh == ASSUME TInv, TInv', LockInv, FreshInv, Network
                      PROVE  FreshInv'
  <1> PICK tx \in net : Apply(tx) \/ Drop(tx)
    BY DEF Network
  <1>1. /\ net' = net \ {tx} /\ ledger \in Seq(TxSet)
        /\ ledger' = ledger \/ ledger' = Append(ledger, tx)
        /\ UNCHANGED <<calls, server, incidents, cached, outcomes>>
    BY DEF Apply, Drop, TInv, TypeOK
  <1>2. \A t : Owned(t)' <=> Owned(t)
    BY <1>1 DEF Owned, Tx, calls, server, outcomes
  <1>3. \A t : Applied(t)' => Applied(t) \/ t = tx
    BY <1>1 DEF Applied, ToSet
  <1>4. Uncached' /\ NetOwned' /\ NetUnapplied' /\ NoneLost'
    BY <1>1, <1>2, <1>3 DEF FreshInv, Uncached, NetOwned, NetUnapplied, NoneLost, server
  <1>5. SequenceFresh'
    <2> SUFFICES ASSUME "session" \notin incidents, NEW d \in Call, Protected(d), pc[d] # "fetch",
                        NEW i \in account[d] + 1 .. Len(ledger')
                 PROVE  ledger'[i] = Tx(d) \/ <<ledger'[i].call, ledger'[i].n>> \in rejected
      BY <1>1 DEF SequenceFresh, Protected, Tx, calls, server, outcomes
    <2>0. account[d] \in Nat
      BY DEF TInv, TypeOK
    <2>1. CASE i \in account[d] + 1 .. Len(ledger)
      <3>1. ledger'[i] = ledger[i]
        BY <1>1, <2>0, <2>1
      <3> QED
        BY <2>1, <3>1 DEF FreshInv, SequenceFresh
    <2>2. CASE i \notin account[d] + 1 .. Len(ledger)
      <3>1. ledger'[i] = tx
        BY <1>1, <2>0, <2>2
      <3> QED
        BY <3>1, AppliedFresh
    <2> QED
      BY <2>1, <2>2
  <1> QED
    BY <1>4, <1>5 DEF FreshInv

LEMMA NextFreshInv == TInv /\ LockInv /\ FreshInv /\ [Next]_vars => FreshInv'
  <1> SUFFICES ASSUME TInv, LockInv, FreshInv, [Next]_vars
               PROVE  FreshInv'
    OBVIOUS
  <1>1. TInv'
    BY NextTInv
  <1>2. CASE UNCHANGED vars
    BY <1>2 DEF vars, calls, server, chain, outcomes, FreshInv, Uncached, NetOwned,
                NetUnapplied, NoneLost, SequenceFresh, Owned, Applied, Tx, Protected
  <1> QED
    BY <1>1, <1>2, EnterFresh, BodyFresh, FinallyFresh, ConnFresh, CrashFresh, NetworkFresh
       DEF Next

\* Until a database session is lost under a call, only an attempt that
\* was given up can take the sequence number a call is submitting with.
THEOREM SequenceFreshHolds == Spec => []SequenceFresh
  <1>1. FreshInv => SequenceFresh
    BY DEF FreshInv
  <1> QED
    BY InitTInv, NextTInv, InitLockInv, NextLockInv, InitFreshInv, NextFreshInv, <1>1, PTL
       DEF Spec
-----------------------------------------------------------------------------
\* Who holds the lock.  Until an unlock is cancelled no session holds it twice.

LostFree == \A k \in Conn : session[k] = "lost" => holds[k] = 0
HeldOnce == "cancel" \notin incidents => \A k \in Conn : holds[k] <= 1

HeldInv == LostFree /\ HeldOnce /\ LockHeldByCall

LEMMA InitHeldInv == Init => HeldInv
  BY DEF Init, HeldInv, LostFree, HeldOnce, LockHeldByCall

\* A step of a call that leaves connections, sessions and locks alone, and does
\* not leave the section in which it has the lock.
LEMMA LocalHeld ==
  ASSUME TInv, HeldInv, NEW c \in Call, NEW l \in PC, Goto(c, l),
         UNCHANGED <<client, server, incidents>>,
         pc[c] \in Locking \cup Unlocking => l \in Locking \cup Unlocking
  PROVE  HeldInv'
  <1>1. \A d \in Call : pc[d] \in Locking \cup Unlocking => pc'[d] \in Locking \cup Unlocking
    BY DEF Goto, TInv, TypeOK
  <1> QED
    BY <1>1 DEF HeldInv, LostFree, HeldOnce, LockHeldByCall, server

LEMMA EnterHeld == ASSUME TInv, LockInv, HeldInv, NEW c \in Call, Enter(c)
                   PROVE  HeldInv'
  <1>1. CASE Invoke(c) \/ ConnectFails(c) \/ LockFails(c)
    BY <1>1, LocalHeld DEF Invoke, ConnectFails, LockFails
  <1>2. CASE Connect(c)
    <2>1. /\ pc' = [pc EXCEPT ![c] = "lock"] /\ pc[c] = "connect" /\ pc \in [Call -> PC]
          /\ \A d \in Call \ {c} : client'[d] = client[d]
          /\ UNCHANGED <<server, incidents>>
      BY <1>2 DEF Connect, Goto, TInv, TypeOK
    <2>2. \A d \in Call : pc[d] \in Locking \cup Unlocking =>
            client'[d] = client[d] /\ pc'[d] = pc[d]
      BY <2>1
    <2> QED
      BY <2>1, <2>2 DEF HeldInv, LostFree, HeldOnce, LockHeldByCall, server
  <1>3. CASE AcquireLock(c)
    <2>1. /\ pc' = [pc EXCEPT ![c] = "fetch"] /\ pc[c] = "lock" /\ pc \in [Call -> PC]
          /\ UNCHANGED <<client, session, incidents>>
          /\ holds' = [holds EXCEPT ![client[c]] = @ + 1] /\ holds \in [Conn -> Nat]
          /\ session[client[c]] = "open"
      BY <1>3 DEF AcquireLock, Goto, TInv, TypeOK
    <2>2. client[c] \in Conn
      BY <2>1 DEF LockInv, ClientInv, HasClient
    <2>3. "cancel" \notin incidents => holds[client[c]] = 0
      BY <2>1, <2>2 DEF HeldInv, LockHeldByCall, LockInv, Exclusive, HasClient
    <2>4. \A k \in Conn \ {client[c]} : holds'[k] = holds[k]
      BY <2>1
    <2>5. holds'[client[c]] = holds[client[c]] + 1
      BY <2>1, <2>2
    <2>6. LostFree'
      BY <2>1, <2>4 DEF HeldInv, LostFree
    <2>7. HeldOnce'
      BY <2>1, <2>3, <2>4, <2>5 DEF HeldInv, HeldOnce
    <2>8. \A d \in Call : pc[d] \in Locking \cup Unlocking => pc'[d] = pc[d]
      BY <2>1
    <2>9. pc'[c] \in Locking
      BY <2>1
    <2>10. LockHeldByCall'
      BY <2>1, <2>4, <2>8, <2>9 DEF HeldInv, LockHeldByCall
    <2> QED
      BY <2>6, <2>7, <2>10 DEF HeldInv
  <1> QED
    BY <1>1, <1>2, <1>3 DEF Enter

LEMMA BodyHeld == ASSUME TInv, HeldInv, NEW c \in Call, Body(c)
                  PROVE  HeldInv'
  BY LocalHeld DEF Body, FetchAccount, FetchFails, Submit, Resubmit, SubmitReturns,
                   SubmitRefused, SubmitRetries, SubmitFails

LEMMA FinallyHeld == ASSUME TInv, LockInv, HeldInv, NEW c \in Call, Finally(c)
                     PROVE  HeldInv'
  <1> DEFINE k == client[c]
  <1>1. /\ pc' = [pc EXCEPT ![c] = "idle"] /\ pc[c] \in Unlocking
        /\ client' = [client EXCEPT ![c] = NoConn]
        /\ pc \in [Call -> PC] /\ client \in [Call -> Conn \cup {NoConn}]
        /\ holds \in [Conn -> Nat]
        /\ session \in [Conn -> {"open", "lost", "stale"}]
    BY DEF Finally, Unlock, UnlockFails, Settle, Goto, TInv, TypeOK
  <1>2. k \in Conn
    BY <1>1 DEF LockInv, ClientInv, HasClient
  <1>3. \A d \in Call \ {c} : client'[d] = client[d] /\ pc'[d] = pc[d]
    BY <1>1
  <1>4. \A d \in Call \ {c} : pc[d] \in Locking \cup Unlocking => client[d] # k
    BY <1>1 DEF LockInv, Exclusive, HasClient
  <1>5. \A j \in Conn \ {k} : session'[j] = session[j] /\ holds'[j] = holds[j]
    BY <1>1 DEF Finally, Unlock, UnlockFails
  <1>6. /\ session'[k] = "open" \/ session'[k] = session[k]
        /\ session'[k] = "lost" => session[k] = "lost"
        /\ incidents \subseteq incidents'
        /\ "cancel" \notin incidents' => holds'[k] = 0
        /\ holds[k] = 0 => holds'[k] = 0
    <2>1. CASE Unlock(c)
      <3>1. /\ session' = session /\ incidents' = incidents
            /\ holds' = [holds EXCEPT ![k] = IF @ > 0 THEN @ - 1 ELSE 0]
        BY <2>1 DEF Unlock
      <3>2. holds'[k] = IF holds[k] > 0 THEN holds[k] - 1 ELSE 0
        BY <3>1, <1>1, <1>2
      <3>3. "cancel" \notin incidents => holds[k] <= 1
        BY <1>2 DEF HeldInv, HeldOnce
      <3>4. holds[k] \in Nat
        BY <1>1, <1>2
      <3> QED
        BY <3>1, <3>2, <3>3, <3>4
    <2>2. CASE UnlockFails(c)
      <3>1. holds' = holds /\ session'[k] = "open"
            /\ incidents' = IF session[k] = "lost" THEN incidents
                            ELSE incidents \cup {"cancel"}
        BY <2>2, <1>1, <1>2 DEF UnlockFails
      <3>2. session[k] = "lost" => holds[k] = 0
        BY <1>2 DEF HeldInv, LostFree
      <3> QED
        BY <3>1, <3>2
    <2> QED
      BY <2>1, <2>2 DEF Finally
  <1>7. LostFree'
    <2>1. session[k] = "lost" => holds[k] = 0
      BY <1>2 DEF HeldInv, LostFree
    <2>2. session'[k] = "lost" => holds'[k] = 0
      BY <2>1, <1>6
    <2> QED
      BY <1>5, <2>2 DEF HeldInv, LostFree
  <1>8. HeldOnce'
    <2> SUFFICES ASSUME "cancel" \notin incidents', NEW j \in Conn
                 PROVE  holds'[j] <= 1
      BY DEF HeldOnce
    <2> QED
      BY <1>5, <1>6 DEF HeldInv, HeldOnce
  <1>9. LockHeldByCall'
    <2> SUFFICES ASSUME "cancel" \notin incidents', NEW j \in Conn, holds'[j] > 0
                 PROVE  \/ session'[j] = "stale"
                        \/ \E d \in Call : client'[d] = j /\ pc'[d] \in Locking \cup Unlocking
      BY DEF LockHeldByCall
    <2>1. j # k /\ holds[j] > 0 /\ session'[j] = session[j] /\ "cancel" \notin incidents
      BY <1>5, <1>6
    <2>2. CASE session[j] = "stale"
      BY <2>1, <2>2
    <2>3. CASE \E d \in Call : client[d] = j /\ pc[d] \in Locking \cup Unlocking
      BY <2>1, <2>3, <1>3
    <2> QED
      BY <2>1, <2>2, <2>3 DEF HeldInv, LockHeldByCall
  <1> QED
    BY <1>7, <1>8, <1>9 DEF HeldInv

LEMMA ConnHeld == ASSUME TInv, HeldInv, NEW k \in Conn,
                         IdleClose(k) \/ SessionLost(k) \/ Reap(k)
                  PROVE  HeldInv'
  <1>1. /\ UNCHANGED <<pc, client>> /\ incidents \subseteq incidents'
        /\ holds \in [Conn -> Nat] /\ holds' = [holds EXCEPT ![k] = 0]
        /\ \A j \in Conn \ {k} : session'[j] = session[j]
    BY DEF IdleClose, SessionLost, Reap, calls, TInv, TypeOK
  <1>2. holds'[k] = 0 /\ \A j \in Conn \ {k} : holds'[j] = holds[j]
    BY <1>1
  <1>3. LostFree'
    BY <1>1, <1>2 DEF HeldInv, LostFree
  <1>4. HeldOnce'
    BY <1>1, <1>2 DEF HeldInv, HeldOnce
  <1>5. LockHeldByCall'
    BY <1>1, <1>2 DEF HeldInv, LockHeldByCall
  <1> QED
    BY <1>3, <1>4, <1>5 DEF HeldInv

LEMMA CrashHeld == ASSUME TInv, LockInv, HeldInv, NEW p \in Process, Crash(p)
                   PROVE  HeldInv'
  <1>1. /\ UNCHANGED <<holds, incidents>>
        /\ \A c \in Call \ RunningIn(p) : pc'[c] = pc[c] /\ client'[c] = client[c]
        /\ \A k \in Conn : session'[k] = IF ProcOf[k] # p THEN session[k]
                                         ELSE IF holds[k] > 0 THEN "stale" ELSE "open"
    BY DEF Crash
  <1>2. LostFree' /\ HeldOnce'
    BY <1>1 DEF HeldInv, LostFree, HeldOnce
  <1>3. \A c \in Call : pc[c] \in Locking \cup Unlocking => ProcOf[client[c]] = ProcOf[c]
    BY DEF LockInv, ClientInv, HasClient
  <1>4. LockHeldByCall'
    BY <1>1, <1>3 DEF HeldInv, LockHeldByCall, RunningIn
  <1> QED
    BY <1>2, <1>4 DEF HeldInv

LEMMA NextHeldInv == TInv /\ LockInv /\ HeldInv /\ [Next]_vars => HeldInv'
  <1> SUFFICES ASSUME TInv, LockInv, HeldInv, [Next]_vars
               PROVE  HeldInv'
    OBVIOUS
  <1>1. CASE Network \/ UNCHANGED vars
    BY <1>1 DEF Network, Apply, Drop, vars, calls, server, HeldInv, LostFree, HeldOnce,
                LockHeldByCall
  <1> QED
    BY <1>1, EnterHeld, BodyHeld, FinallyHeld, ConnHeld, CrashHeld DEF Next

\* Until an unlock is cancelled the lock is held only on behalf of a call that
\* will run its finally block, or by the session of a dead process.
THEOREM LockHeldByCallHolds == Spec => []LockHeldByCall
  <1>1. HeldInv => LockHeldByCall
    BY DEF HeldInv
  <1> QED
    BY InitTInv, NextTInv, InitLockInv, NextLockInv, InitHeldInv, NextHeldInv, <1>1, PTL
       DEF Spec
-----------------------------------------------------------------------------
\* The refinement of TaskLedger.  No two transactions are signed for one
\* attempt, none is issued before its attempt submits, and a call that returns
\* has found its own on the ledger.

Issued == net \cup ToSet(ledger)
Same(t, u) == t.call = u.call /\ t.n = u.n

IssuedOnce == \A t, u \in Issued : Same(t, u) => t = u
IssuedBySubmit ==
  \A t \in Issued :
    /\ t.n <= attempt[t.call]
    /\ t.n = attempt[t.call] => /\ pc[t.call] \notin {"connect", "lock", "fetch", "build"}
                                /\ pc[t.call] \in {"submit", "backoff"} => t = Tx(t.call)
ReturnedApplied == \A c \in Call : pc[c] = "return" => Applied(Tx(c))

PromiseInv == IssuedOnce /\ IssuedBySubmit /\ ReturnedApplied

LEMMA InitPromiseInv == Init => PromiseInv
  BY DEF Init, PromiseInv, IssuedOnce, IssuedBySubmit, ReturnedApplied, Issued, ToSet

LEMMA IssuedType == ASSUME TInv
                    PROVE  Issued \subseteq TxSet
  BY DEF TInv, TypeOK, Issued, ToSet

\* A step of one call that neither signs nor submits.
LEMMA LocalPromise ==
  ASSUME TInv, PromiseInv, NEW c \in Call, NEW l \in PC, Goto(c, l), UNCHANGED chain,
         l \in {"submit", "backoff"} => pc[c] \in {"submit", "backoff"},
         l \in {"connect", "lock", "fetch", "build"} =>
           pc[c] \in {"connect", "lock", "fetch", "build"} \/ attempt'[c] > attempt[c],
         l = "return" => Applied(Tx(c)),
         \A d \in Call : attempt'[d] = attempt[d] \/ (d = c /\ attempt'[d] = attempt[d] + 1),
         \A d \in Call : Tx(d)' = Tx(d) \/ (d = c /\ l \notin {"submit", "backoff", "return"})
  PROVE  PromiseInv'
  <1>1. /\ pc' = [pc EXCEPT ![c] = l] /\ pc \in [Call -> PC] /\ attempt \in [Call -> 0..MaxCalls]
        /\ Issued' = Issued /\ Issued \subseteq TxSet
    BY IssuedType DEF Goto, TInv, TypeOK, Issued, chain
  <1>2. IssuedOnce'
    BY <1>1 DEF PromiseInv, IssuedOnce, Same
  <1>3. IssuedBySubmit'
    <2> SUFFICES ASSUME NEW t \in Issued
                 PROVE  /\ t.n <= attempt'[t.call]
                        /\ t.n = attempt'[t.call] =>
                             /\ pc'[t.call] \notin {"connect", "lock", "fetch", "build"}
                             /\ pc'[t.call] \in {"submit", "backoff"} => t = Tx(t.call)'
      BY <1>1 DEF IssuedBySubmit
    <2>1. t.call \in Call /\ t.n \in Nat
      BY <1>1 DEF TxSet
    <2>2. t.n <= attempt[t.call]
      BY DEF PromiseInv, IssuedBySubmit
    <2>3. attempt[t.call] \in Nat /\ attempt'[t.call] \in Nat
      BY <1>1, <2>1
    <2>4. CASE attempt'[t.call] # attempt[t.call]
      BY <2>1, <2>2, <2>3, <2>4
    <2>5. CASE attempt'[t.call] = attempt[t.call] /\ t.call # c
      BY <1>1, <2>1, <2>5 DEF PromiseInv, IssuedBySubmit
    <2>6. CASE attempt'[t.call] = attempt[t.call] /\ t.call = c
      BY <1>1, <2>1, <2>2, <2>6 DEF PromiseInv, IssuedBySubmit
    <2> QED
      BY <2>4, <2>5, <2>6
  <1>4. ReturnedApplied'
    BY <1>1 DEF PromiseInv, ReturnedApplied, Applied, chain
  <1> QED
    BY <1>2, <1>3, <1>4 DEF PromiseInv

LEMMA EnterPromise == ASSUME TInv, PromiseInv, NEW c \in Call, Enter(c)
                      PROVE  PromiseInv'
  <1>0. attempt \in [Call -> 0..MaxCalls]
    BY DEF TInv, TypeOK
  <1>1. CASE Invoke(c)
    <2>1. /\ \A d \in Call \ {c} : attempt'[d] = attempt[d]
          /\ attempt'[c] = attempt[c] + 1 /\ attempt[c] \in Nat
          /\ UNCHANGED account /\ UNCHANGED chain /\ Goto(c, "connect")
      BY <1>0, <1>1 DEF Invoke
    <2>2. attempt'[c] > attempt[c]
      BY <2>1
    <2>3. \A d \in Call : Tx(d)' = Tx(d) \/ d = c
      BY <2>1 DEF Tx
    <2> QED
      BY <2>1, <2>2, <2>3, LocalPromise
  <1>2. CASE Connect(c) \/ ConnectFails(c) \/ AcquireLock(c) \/ LockFails(c)
    <2>1. UNCHANGED <<attempt, account>> /\ UNCHANGED chain
      BY <1>2 DEF Connect, ConnectFails, AcquireLock, LockFails
    <2>2. \A d \in Call : Tx(d)' = Tx(d)
      BY <2>1 DEF Tx
    <2> QED
      BY <1>2, <2>1, <2>2, LocalPromise DEF Connect, ConnectFails, AcquireLock, LockFails
  <1> QED
    BY <1>1, <1>2 DEF Enter

LEMMA PostPromise == ASSUME TInv, PromiseInv, NEW c \in Call, Submit(c) \/ Resubmit(c)
                     PROVE  PromiseInv'
  <1>1. /\ pc' = [pc EXCEPT ![c] = "submit"] /\ pc[c] \in {"build", "backoff"}
        /\ pc \in [Call -> PC] /\ attempt \in [Call -> 0..MaxCalls] /\ Issued \subseteq TxSet
        /\ UNCHANGED <<attempt, account, ledger>> /\ Post(Tx(c))
    BY IssuedType DEF Submit, Resubmit, Goto, TInv, TypeOK
  <1>2. \A d \in Call : Tx(d)' = Tx(d)
    BY <1>1 DEF Tx
  <1>3. Issued' = Issued \/ Issued' = Issued \cup {Tx(c)}
    BY <1>1 DEF Issued, Post
  <1>4. \A t \in Issued : t.call = c /\ t.n = attempt[c] => t = Tx(c)
    BY <1>1 DEF PromiseInv, IssuedBySubmit
  <1>5. IssuedOnce'
    BY <1>3, <1>4, TxFields DEF PromiseInv, IssuedOnce, Same
  <1>6. IssuedBySubmit'
    <2> SUFFICES ASSUME NEW t \in Issued'
                 PROVE  /\ t.n <= attempt[t.call]
                        /\ t.n = attempt[t.call] =>
                             /\ pc'[t.call] \notin {"connect", "lock", "fetch", "build"}
                             /\ pc'[t.call] \in {"submit", "backoff"} => t = Tx(t.call)'
      BY <1>1 DEF IssuedBySubmit
    <2>1. CASE t = Tx(c)
      BY <1>1, <1>2, <2>1, TxFields
    <2>2. CASE t \in Issued /\ t # Tx(c)
      <3>1. t.call \in Call
        BY <1>1, <2>2 DEF TxSet
      <3>2. t.n <= attempt[t.call]
        BY <2>2 DEF PromiseInv, IssuedBySubmit
      <3>3. t.n = attempt[t.call] => t.call # c
        BY <1>4, <2>2
      <3> QED
        BY <1>1, <1>2, <2>2, <3>1, <3>2, <3>3 DEF PromiseInv, IssuedBySubmit
    <2> QED
      BY <1>3, <2>1, <2>2
  <1>7. ReturnedApplied'
    BY <1>1, <1>2 DEF PromiseInv, ReturnedApplied, Applied
  <1> QED
    BY <1>5, <1>6, <1>7 DEF PromiseInv

LEMMA BodyPromise == ASSUME TInv, PromiseInv, NEW c \in Call, Body(c)
                     PROVE  PromiseInv'
  <1>0. attempt \in [Call -> 0..MaxCalls] /\ account \in [Call -> Nat]
    BY DEF TInv, TypeOK
  <1>1. CASE FetchAccount(c)
    <2>1. /\ UNCHANGED attempt /\ UNCHANGED chain /\ Goto(c, "build") /\ pc[c] = "fetch"
          /\ \A d \in Call \ {c} : account'[d] = account[d]
      BY <1>0, <1>1 DEF FetchAccount
    <2>2. \A d \in Call : Tx(d)' = Tx(d) \/ d = c
      BY <2>1 DEF Tx
    <2> QED
      BY <2>1, <2>2, LocalPromise
  <1>2. CASE FetchFails(c) \/ SubmitReturns(c) \/ SubmitRefused(c) \/ SubmitRetries(c)
             \/ SubmitFails(c)
    <2>1. UNCHANGED <<attempt, account>> /\ UNCHANGED chain
      BY <1>2 DEF FetchFails, SubmitReturns, SubmitRefused, SubmitRetries, SubmitFails
    <2>2. \A d \in Call : Tx(d)' = Tx(d)
      BY <2>1 DEF Tx
    <2> QED
      BY <1>2, <2>1, <2>2, LocalPromise
         DEF FetchFails, SubmitReturns, SubmitRefused, SubmitRetries, SubmitFails
  <1> QED
    BY <1>1, <1>2, PostPromise DEF Body

LEMMA FinallyPromise == ASSUME TInv, PromiseInv, NEW c \in Call, Finally(c)
                        PROVE  PromiseInv'
  <1>0. account \in [Call -> Nat]
    BY DEF TInv, TypeOK
  <1>1. /\ UNCHANGED attempt /\ UNCHANGED chain /\ Goto(c, "idle")
        /\ \A d \in Call \ {c} : account'[d] = account[d]
    BY <1>0 DEF Finally, Unlock, UnlockFails, Settle
  <1>2. \A d \in Call : Tx(d)' = Tx(d) \/ d = c
    BY <1>1 DEF Tx
  <1> QED
    BY <1>1, <1>2, LocalPromise

LEMMA CrashPromise == ASSUME TInv, PromiseInv, NEW p \in Process, Crash(p)
                      PROVE  PromiseInv'
  <1>1. /\ UNCHANGED attempt /\ UNCHANGED chain /\ Issued' = Issued
        /\ \A c \in Call : \/ pc'[c] = "idle"
                           \/ pc'[c] = pc[c] /\ account'[c] = account[c]
    BY DEF Crash, Issued, chain
  <1>2. \A c \in Call : pc'[c] = "idle" \/ Tx(c)' = Tx(c)
    BY <1>1 DEF Tx
  <1>3. Issued \subseteq TxSet
    BY IssuedType
  <1>4. IssuedOnce'
    BY <1>1 DEF PromiseInv, IssuedOnce, Same
  <1>5. IssuedBySubmit'
    BY <1>1, <1>2, <1>3 DEF PromiseInv, IssuedBySubmit, TxSet
  <1>6. ReturnedApplied'
    BY <1>1, <1>2 DEF PromiseInv, ReturnedApplied, Applied, chain
  <1> QED
    BY <1>4, <1>5, <1>6 DEF PromiseInv

LEMMA NetworkPromise == ASSUME TInv, PromiseInv, Network
                        PROVE  PromiseInv'
  <1> PICK tx \in net : Apply(tx) \/ Drop(tx)
    BY DEF Network
  <1>1. /\ UNCHANGED calls /\ ledger \in Seq(TxSet) /\ net' = net \ {tx}
        /\ ledger' = ledger \/ ledger' = Append(ledger, tx)
    BY DEF Apply, Drop, TInv, TypeOK
  <1>2. ToSet(ledger') \subseteq ToSet(ledger) \cup {tx} /\ ToSet(ledger) \subseteq ToSet(ledger')
    BY <1>1 DEF ToSet
  <1>3. Issued' \subseteq Issued
    BY <1>1, <1>2 DEF Issued
  <1>4. \A c \in Call : Tx(c)' = Tx(c) /\ pc'[c] = pc[c] /\ attempt'[c] = attempt[c]
    BY <1>1 DEF Tx, calls
  <1>5. \A t \in Issued : t.call \in Call
    BY IssuedType DEF TxSet
  <1>6. IssuedOnce' /\ IssuedBySubmit'
    BY <1>3, <1>4, <1>5 DEF PromiseInv, IssuedOnce, IssuedBySubmit, Same
  <1>7. ReturnedApplied'
    BY <1>2, <1>4 DEF PromiseInv, ReturnedApplied, Applied
  <1> QED
    BY <1>6, <1>7 DEF PromiseInv

LEMMA NextPromiseInv == TInv /\ PromiseInv /\ [Next]_vars => PromiseInv'
  <1> SUFFICES ASSUME TInv, PromiseInv, [Next]_vars
               PROVE  PromiseInv'
    OBVIOUS
  <1>1. CASE \/ UNCHANGED vars
             \/ \E k \in Conn : IdleClose(k) \/ SessionLost(k) \/ Reap(k)
    BY <1>1 DEF IdleClose, SessionLost, Reap, vars, calls, chain, PromiseInv, IssuedOnce,
                IssuedBySubmit, ReturnedApplied, Issued, Applied, Tx, Same
  <1> QED
    BY <1>1, EnterPromise, BodyPromise, FinallyPromise, CrashPromise, NetworkPromise
       DEF Next

\* The state of TaskLedger that a state of this module stands for.
Running == {c \in Call : pc[c] # "idle"}
Recorded == [i \in 1..Len(ledger) |-> <<ledger[i].call, ledger[i].n>>]
Promise == <<attempt, Running, Recorded, resolved, rejected>>

LEMMA PromiseVars == Ledger!tvars = Promise
  BY DEF Ledger!tvars, Promise, Running, Recorded

LEMMA InitLedger == Init => Ledger!Init
  BY DEF Init, Ledger!Init

LEMMA EnterLedger == ASSUME TInv, NEW c \in Call, Enter(c)
                     PROVE  Ledger!Next \/ UNCHANGED Promise
  <1>0. pc \in [Call -> PC]
    BY DEF TInv, TypeOK
  <1>1. CASE Invoke(c)
    <2>1. Running' = Running \cup {c} /\ c \notin Running
      BY <1>0, <1>1 DEF Invoke, Goto, Running
    <2>2. Ledger!Invoke(c)
      BY <1>1, <2>1 DEF Ledger!Invoke, Invoke, Running, outcomes, chain
    <2> QED
      BY <2>2 DEF Ledger!Next
  <1>2. CASE ConnectFails(c)
    <2>1. Running' = Running \ {c} /\ c \in Running
      BY <1>0, <1>2 DEF ConnectFails, Goto, Running
    <2>2. Ledger!Reject({c})
      BY <1>2, <2>1 DEF Ledger!Reject, Ledger!Current, ConnectFails, Running, Id, chain
    <2> QED
      BY <2>2 DEF Ledger!Next
  <1>3. CASE Connect(c) \/ AcquireLock(c) \/ LockFails(c)
    BY <1>0, <1>3 DEF Connect, AcquireLock, LockFails, Goto, Promise, Running, Recorded,
                      outcomes, chain
  <1> QED
    BY <1>1, <1>2, <1>3 DEF Enter

LEMMA BodyLedger == ASSUME TInv, NEW c \in Call, Body(c)
                    PROVE  UNCHANGED Promise
  <1>1. pc \in [Call -> PC]
    BY DEF TInv, TypeOK
  <1> QED
    BY <1>1 DEF Body, FetchAccount, FetchFails, Submit, Resubmit, SubmitReturns, SubmitRefused,
                SubmitRetries, SubmitFails, Goto, Promise, Running, Recorded, outcomes, chain

LEMMA AppliedRecorded ==
  ASSUME TInv, PromiseInv, NEW c \in Call
  PROVE  Applied(Tx(c)) => Id(c) \in ToSet(Recorded)
  <1> SUFFICES ASSUME Applied(Tx(c))
               PROVE  Id(c) \in ToSet(Recorded)
    OBVIOUS
  <1>1. PICK i \in DOMAIN ledger : ledger[i] = Tx(c)
    BY DEF Applied, ToSet
  <1>2. i \in 1..Len(ledger)
    BY <1>1 DEF TInv, TypeOK
  <1>3. i \in DOMAIN Recorded /\ Recorded[i] = Id(c)
    BY <1>1, <1>2, TxFields DEF Recorded, Id
  <1> QED
    BY <1>3, Zenon DEF ToSet

LEMMA FinallyLedger == ASSUME TInv, PromiseInv, NEW c \in Call, Finally(c)
                       PROVE  Ledger!Next
  <1>1. /\ pc \in [Call -> PC] /\ pc[c] \in Unlocking /\ UNCHANGED <<attempt, ledger>>
        /\ resolved' = IF pc[c] = "return" THEN resolved \cup {Id(c)} ELSE resolved
        /\ rejected' = IF pc[c] = "throw" THEN rejected \cup {Id(c)} ELSE rejected
    BY DEF Finally, Unlock, UnlockFails, Settle, chain, TInv, TypeOK
  <1>2. Running' = Running \ {c} /\ c \in Running
    BY <1>1 DEF Finally, Unlock, UnlockFails, Settle, Goto, Running
  <1>3. CASE pc[c] = "return"
    <2>1. Id(c) \in ToSet(Recorded)
      BY <1>3, AppliedRecorded DEF PromiseInv, ReturnedApplied
    <2>2. Ledger!Resolve(c)
      BY <1>1, <1>2, <1>3, <2>1
         DEF Ledger!Resolve, Ledger!Current, Ledger!ToSet, ToSet, Running, Recorded, Id
    <2> QED
      BY <2>2 DEF Ledger!Next
  <1>4. CASE pc[c] = "throw"
    <2>1. Ledger!Reject({c})
      BY <1>1, <1>2, <1>4 DEF Ledger!Reject, Ledger!Current, Running, Id
    <2> QED
      BY <2>1 DEF Ledger!Next
  <1> QED
    BY <1>1, <1>3, <1>4

LEMMA CrashLedger == ASSUME TInv, NEW p \in Process, Crash(p)
                     PROVE  Ledger!Next
  <1>1. Running' = Running \ RunningIn(p) /\ RunningIn(p) \subseteq Running
    BY DEF Crash, RunningIn, Running
  <1>2. Ledger!Reject(RunningIn(p))
    BY <1>1 DEF Ledger!Reject, Ledger!Current, Crash, Running, Id, chain
  <1>3. RunningIn(p) \in SUBSET Call
    BY DEF RunningIn
  <1>4. \E C \in SUBSET Call : Ledger!Reject(C)
    BY <1>2, <1>3 DEF Ledger!Reject
  <1> QED
    BY <1>4 DEF Ledger!Next

LEMMA NetworkLedger == ASSUME TInv, PromiseInv, NetUnapplied, Network
                       PROVE  Ledger!Next \/ UNCHANGED Promise
  <1> PICK tx \in net : Apply(tx) \/ Drop(tx)
    BY DEF Network
  <1>1. UNCHANGED <<attempt, Running, resolved, rejected>> /\ ledger \in Seq(TxSet)
    BY DEF Apply, Drop, Running, calls, outcomes, TInv, TypeOK
  <1>2. CASE Drop(tx)
    BY <1>1, <1>2 DEF Drop, Promise, Recorded
  <1>3. CASE Apply(tx)
    <2>1. /\ tx.call \in Call /\ tx.n \in 1..MaxCalls /\ tx \in Issued /\ ~Applied(tx)
          /\ tx.n <= attempt[tx.call] /\ attempt[tx.call] \in Nat
      BY DEF TInv, TypeOK, TxSet, PromiseInv, IssuedBySubmit, Issued, NetUnapplied
    <2>2. <<tx.call, tx.n>> \notin ToSet(Recorded)
      <3> SUFFICES ASSUME NEW i \in 1..Len(ledger), Recorded[i] = <<tx.call, tx.n>>
                   PROVE  FALSE
        BY DEF ToSet, Recorded
      <3>1. ledger[i] \in ToSet(ledger) /\ Same(ledger[i], tx)
        BY <1>1 DEF ToSet, Recorded, Same
      <3> QED
        BY <2>1, <3>1 DEF PromiseInv, IssuedOnce, Issued, Applied
    <2>3. Recorded' = Append(Recorded, <<tx.call, tx.n>>)
      <3>1. ledger' = Append(ledger, tx)
        BY <1>3 DEF Apply
      <3>2. /\ Len(ledger') = Len(ledger) + 1 /\ ledger'[Len(ledger) + 1] = tx
            /\ \A i \in 1..Len(ledger) : ledger'[i] = ledger[i]
        BY <1>1, <3>1
      <3>3. Len(ledger) \in Nat /\ Recorded \in Seq(Call \X (1..MaxCalls))
        <4>1. Len(ledger) \in Nat
          BY <1>1
        <4>2. \A i \in 1..Len(ledger) : ledger[i] \in TxSet
          BY <1>1
        <4>3. \A i \in 1..Len(ledger) :
                <<ledger[i].call, ledger[i].n>> \in Call \X (1..MaxCalls)
          BY <4>2 DEF TxSet
        <4>4. Recorded \in [1..Len(ledger) -> Call \X (1..MaxCalls)]
          BY <4>3 DEF Recorded
        <4> QED
          BY <4>1, <4>4
      <3>4. Recorded' = [i \in 1..Len(ledger) + 1 |-> IF i = Len(ledger) + 1
                                                      THEN <<tx.call, tx.n>> ELSE Recorded[i]]
        BY <3>2, <3>3 DEF Recorded
      <3>5. Len(Recorded) = Len(ledger)
        BY <3>3 DEF Recorded
      <3> QED
        BY <3>3, <3>4, <3>5
    <2>a. tx.n \in 1..attempt[tx.call]
      BY <2>1, BoundsAssumption
    <2>b. <<tx.call, tx.n>> \notin Ledger!ToSet(Recorded)
      BY <2>2 DEF ToSet, Ledger!ToSet
    <2>4. Ledger!Record(tx.call, tx.n)
      BY <1>1, <2>a, <2>b, <2>3 DEF Ledger!Record, Running, Recorded
    <2> QED
      BY <2>1, <2>4 DEF Ledger!Next
  <1> QED
    BY <1>2, <1>3

LEMMA NextLedger == TInv /\ PromiseInv /\ FreshInv /\ [Next]_vars => [Ledger!Next]_(Ledger!tvars)
  <1> SUFFICES ASSUME TInv, PromiseInv, FreshInv, [Next]_vars
               PROVE  Ledger!Next \/ UNCHANGED Promise
    BY PromiseVars DEF Promise, Running, Recorded, Ledger!tvars
  <1>1. CASE \/ UNCHANGED vars
             \/ \E k \in Conn : IdleClose(k) \/ SessionLost(k) \/ Reap(k)
    BY <1>1 DEF IdleClose, SessionLost, Reap, vars, calls, chain, outcomes, Promise, Running,
                Recorded
  <1> QED
    BY <1>1, EnterLedger, BodyLedger, FinallyLedger, CrashLedger, NetworkLedger
       DEF Next, FreshInv

\* The submission protocol implements TaskLedger: no attempt is recorded twice,
\* and one that resolves is on the ledger, whatever fails.
THEOREM KeepsPromiseHolds == Spec => KeepsPromise
  BY InitTInv, NextTInv, InitLockInv, NextLockInv, InitFreshInv, NextFreshInv,
     InitPromiseInv, NextPromiseInv, InitLedger, NextLedger, PTL
     DEF Spec, KeepsPromise, Ledger!Spec
-----------------------------------------------------------------------------
\* What TaskLedger's steps add up to, along the whole life of the protocol.

RecordedOnce == \A i, k \in 1..Len(Recorded) : Recorded[i] = Recorded[k] => i = k
ResolvedIsRecorded == resolved \subseteq ToSet(Recorded)
OneOutcome == resolved \cap rejected = {}

\* An outcome is that of an attempt that was made and is not running any more.
OutcomesArePast ==
  \A a \in resolved \cup rejected : /\ a[1] \in Call /\ a[2] \in Nat
                                    /\ a[2] <= attempt[a[1]]
                                    /\ a[1] \in Running => a[2] # attempt[a[1]]

Outcomes == RecordedOnce /\ ResolvedIsRecorded /\ OneOutcome /\ OutcomesArePast

\* The mapped ledger is a sequence of attempts.
LEMMA RecordedType ==
  ASSUME TInv
  PROVE  /\ Recorded \in Seq(AttemptSet) /\ Len(Recorded) \in Nat
         /\ ToSet(Recorded) = {Recorded[i] : i \in 1..Len(Recorded)}
  <1>1. ledger \in Seq(TxSet) /\ Len(ledger) \in Nat
    BY DEF TInv, TypeOK
  <1>2. \A i \in 1..Len(ledger) : ledger[i] \in TxSet
    BY <1>1
  <1>3. \A i \in 1..Len(ledger) : <<ledger[i].call, ledger[i].n>> \in AttemptSet
    BY <1>2 DEF TxSet, AttemptSet
  <1>4. Recorded \in [1..Len(ledger) -> AttemptSet]
    BY <1>3 DEF Recorded
  <1>5. Recorded \in Seq(AttemptSet) /\ Len(Recorded) = Len(ledger)
    BY <1>1, <1>4
  <1>6. ToSet(Recorded) = {Recorded[i] : i \in 1..Len(Recorded)}
    BY <1>4, <1>5 DEF ToSet
  <1> QED
    BY <1>1, <1>5, <1>6

LEMMA InitOutcomes == Init => Outcomes
  BY DEF Init, Recorded, Outcomes, RecordedOnce, ResolvedIsRecorded, OneOutcome,
         OutcomesArePast

\* A step that settles some running attempts, all in one way, gives each its
\* first outcome.
LEMMA SettleOutcomes ==
  ASSUME TInv, Outcomes, NEW C \in SUBSET Running,
         UNCHANGED <<attempt, Recorded>>, Running' = Running \ C,
         \/ /\ rejected' = rejected \cup {<<c, attempt[c]>> : c \in C} /\ UNCHANGED resolved
         \/ /\ resolved' = resolved \cup {<<c, attempt[c]>> : c \in C} /\ UNCHANGED rejected
            /\ {<<c, attempt[c]>> : c \in C} \subseteq ToSet(Recorded)
  PROVE  Outcomes'
  <1>1. \A c \in C : c \in Call /\ c \in Running /\ attempt[c] \in Nat
    BY DEF Running, TInv, TypeOK
  <1>2. \A c \in C : <<c, attempt[c]>> \notin resolved \cup rejected
    BY <1>1 DEF Outcomes, OutcomesArePast
  <1>3. RecordedOnce'
    BY DEF Outcomes, RecordedOnce
  <1>4. ResolvedIsRecorded'
    BY DEF Outcomes, ResolvedIsRecorded, ToSet
  <1>5. OneOutcome'
    BY <1>2 DEF Outcomes, OneOutcome
  <1>6. OutcomesArePast'
    <2> SUFFICES ASSUME NEW a \in resolved' \cup rejected'
                 PROVE  /\ a[1] \in Call /\ a[2] \in Nat /\ a[2] <= attempt[a[1]]
                        /\ a[1] \in Running' => a[2] # attempt[a[1]]
      BY DEF OutcomesArePast
    <2>1. CASE a \in resolved \cup rejected
      BY <2>1 DEF Outcomes, OutcomesArePast
    <2>2. CASE a \notin resolved \cup rejected
      <3>1. PICK c \in C : a = <<c, attempt[c]>>
        BY <2>2
      <3> QED
        BY <3>1, <1>1
    <2> QED
      BY <2>1, <2>2
  <1> QED
    BY <1>3, <1>4, <1>5, <1>6 DEF Outcomes

\* Every step of TaskLedger keeps the outcomes.
LEMMA NextOutcomes ==
  ASSUME TInv, Outcomes, [Ledger!Next]_(Ledger!tvars)
  PROVE  Outcomes'
  <1>1. ASSUME NEW c \in Call, Ledger!Invoke(c) PROVE Outcomes'
    <2>1. /\ attempt' = [attempt EXCEPT ![c] = @ + 1] /\ c \notin Running
          /\ Running' = Running \cup {c} /\ UNCHANGED <<Recorded, resolved, rejected>>
      BY <1>1 DEF Ledger!Invoke, Running, Recorded
    <2>2. attempt \in [Call -> Nat]
      BY DEF TInv, TypeOK
    <2>3. OutcomesArePast'
      BY <2>1, <2>2 DEF Outcomes, OutcomesArePast
    <2> QED
      BY <2>1, <2>3 DEF Outcomes, RecordedOnce, ResolvedIsRecorded, OneOutcome, ToSet
  <1>2. ASSUME NEW c \in Call, Ledger!Resolve(c) PROVE Outcomes'
    <2>1. /\ {c} \in SUBSET Running /\ Running' = Running \ {c}
          /\ UNCHANGED <<attempt, Recorded, rejected>>
          /\ resolved' = resolved \cup {<<c, attempt[c]>>}
          /\ <<c, attempt[c]>> \in ToSet(Recorded)
      BY <1>2 DEF Ledger!Resolve, Ledger!Current, Ledger!ToSet, ToSet, Running, Recorded
    <2>2. {<<d, attempt[d]>> : d \in {c}} = {<<c, attempt[c]>>}
      OBVIOUS
    <2>3. /\ resolved' = resolved \cup {<<d, attempt[d]>> : d \in {c}}
          /\ {<<d, attempt[d]>> : d \in {c}} \subseteq ToSet(Recorded)
      BY <2>1, <2>2
    <2> QED
      BY <2>1, <2>3, SettleOutcomes
  <1>3. ASSUME NEW C \in SUBSET Call, Ledger!Reject(C) PROVE Outcomes'
    <2>1. /\ C \in SUBSET Running /\ Running' = Running \ C
          /\ UNCHANGED <<attempt, Recorded, resolved>>
          /\ rejected' = rejected \cup {<<c, attempt[c]>> : c \in C}
      BY <1>3 DEF Ledger!Reject, Ledger!Current, Running, Recorded
    <2> QED
      BY <2>1, SettleOutcomes
  <1>4. ASSUME NEW c \in Call, NEW n \in 1..MaxCalls, Ledger!Record(c, n) PROVE Outcomes'
    <2>1. /\ <<c, n>> \notin ToSet(Recorded) /\ Recorded' = Append(Recorded, <<c, n>>)
          /\ UNCHANGED <<attempt, Running, resolved, rejected>>
      BY <1>4 DEF Ledger!Record, Ledger!ToSet, ToSet, Running, Recorded
    <2>2. <<c, n>> \in AttemptSet
      BY DEF AttemptSet
    <2>3. /\ Len(Recorded') = Len(Recorded) + 1 /\ Recorded'[Len(Recorded) + 1] = <<c, n>>
          /\ \A i \in 1..Len(Recorded) : Recorded'[i] = Recorded[i]
          /\ DOMAIN Recorded' = 1..Len(Recorded) + 1
      BY <2>1, <2>2, RecordedType
    <2>4. \A i \in 1..Len(Recorded) : Recorded[i] # <<c, n>>
      BY <2>1, RecordedType
    <2>5. RecordedOnce'
      BY <2>3, <2>4, RecordedType DEF Outcomes, RecordedOnce
    <2>6. ToSet(Recorded) \subseteq ToSet(Recorded')
      BY <2>3, RecordedType DEF ToSet
    <2>7. OutcomesArePast'
      BY <2>1 DEF Outcomes, OutcomesArePast
    <2> QED
      BY <2>1, <2>5, <2>6, <2>7 DEF Outcomes, ResolvedIsRecorded, OneOutcome
  <1>5. ASSUME UNCHANGED Ledger!tvars PROVE Outcomes'
    <2>1. UNCHANGED <<attempt, Running, Recorded, resolved, rejected>>
      BY <1>5 DEF Ledger!tvars, Running, Recorded
    <2>2. RecordedOnce' /\ OutcomesArePast'
      BY <2>1 DEF Outcomes, RecordedOnce, OutcomesArePast
    <2>3. ResolvedIsRecorded' /\ OneOutcome'
      BY <2>1 DEF Outcomes, ResolvedIsRecorded, OneOutcome, ToSet
    <2> QED
      BY <2>2, <2>3 DEF Outcomes
  <1> QED
    BY <1>1, <1>2, <1>3, <1>4, <1>5 DEF Ledger!Next

\* Every attempt ends at most once and in one way, one that resolved is on the
\* ledger, and none is there twice, whatever is lost, repeated or crashes
\* (stellar.js:10-53, broadcaster.js:47-64, retry.js:26-40).
THEOREM AttemptsEndOnce == Spec => [](RecordedOnce /\ ResolvedIsRecorded /\ OneOutcome)
  <1>1. Outcomes => RecordedOnce /\ ResolvedIsRecorded /\ OneOutcome
    BY DEF Outcomes
  <1>2. TInv /\ Outcomes /\ [Ledger!Next]_(Ledger!tvars) => Outcomes'
    BY NextOutcomes
  <1> QED
    BY InitTInv, NextTInv, InitLockInv, NextLockInv, InitFreshInv, NextFreshInv,
       InitPromiseInv, NextPromiseInv, NextLedger, InitOutcomes, <1>1, <1>2, PTL DEF Spec
=============================================================================
