------------------------------ MODULE RpcAccess ------------------------------
(***************************************************************************)
(* The fee statistics' way from the RPC node to an estimate: the node that *)
(* services/rpc-factory.js has chosen when the process was loaded, the     *)
(* read-through cache in Redis (services/rpc-cache.js) that all processes  *)
(* share, and the timeout of the fee engine, which gives a lookup up but   *)
(* does not stop it.  FeeEngine has these steps as StatsArrive and         *)
(* StatsFail; here is what happens between asking and them.                *)
(*                                                                         *)
(* Redis and the node are external.  Statistics are where they come from:  *)
(* the network of the node, and the network that the lookup was made for.  *)
(* The configuration poller changes STELLAR_NETWORK while lookups run; the *)
(* factory keeps its node.                                                 *)
(***************************************************************************)
EXTENDS Naturals

CONSTANTS
  Proc,       \* processes
  Network,    \* values of STELLAR_NETWORK
  Call,       \* lookups in progress or done
  Owner,      \* the process of each
  None,
  Faults      \* which of FaultKind may happen

FaultKind == {"redis",    \* a command is answered with an error
              "node",     \* the node refuses
              "restart"}  \* a process dies and is started again

ASSUME RpcAssumption == /\ Owner \in [Call -> Proc]
                        /\ Faults \subseteq FaultKind
                        /\ None \notin [asked : Network, node : Network]

VARIABLES
  network,   \* STELLAR_NETWORK, as each process has it now
  node,      \* the network of the node that each has chosen
  store,     \* Redis: the statistics under each network's key
  stage,     \* what each lookup waits for
  key,       \* the network in its cache key
  stats,     \* the statistics it has
  caller,    \* what the caller of withTimeout has got
  clear,     \* where clearCache is
  page,      \* the keys it deletes next
  last,      \* the cursor is '0' again
  due,       \* keys that SCAN still has to return
  old,       \* history: keys with an entry from before the clear
  moved      \* history: a process has left the network of its node

rpcVars == <<stage, key, stats, caller>>
clearVars == <<clear, page, last, due>>
vars == <<network, node, store, rpcVars, clearVars, old, moved>>

Statistics == [asked : Network, node : Network]
Stored == {n \in Network : store[n] # None}

\* The URLs of a process are of the network it is started with.
Init == /\ network \in [Proc -> Network]
        /\ node = network
        /\ store = [n \in Network |-> None]
        /\ stage = [c \in Call |-> "idle"]
        /\ key = [c \in Call |-> None]
        /\ stats = [c \in Call |-> None]
        /\ caller = [c \in Call |-> "failed"]
        /\ clear = "idle" /\ page = {} /\ last = FALSE /\ due = {}
        /\ old = {} /\ moved = FALSE
-----------------------------------------------------------------------------
\* wrapped: the lookup

\* The key is built before the first await.
Begin(c) ==
  /\ stage[c] = "idle"
  /\ stage' = [stage EXCEPT ![c] = "get"]
  /\ key' = [key EXCEPT ![c] = network[Owner[c]]]
  /\ stats' = [stats EXCEPT ![c] = None]
  /\ caller' = [caller EXCEPT ![c] = "waiting"]
  /\ UNCHANGED <<network, node, store, clearVars, old, moved>>

\* The lookup settles, with statistics or with None for an error; a caller that
\* has given up does not notice.
Settles(c, result) ==
  LET noticed == caller[c] = "waiting" /\ result # None IN
  /\ stage' = [stage EXCEPT ![c] = "idle"]
  /\ stats' = [stats EXCEPT ![c] = IF noticed THEN result ELSE None]
  /\ key' = [key EXCEPT ![c] = IF noticed THEN @ ELSE None]
  /\ caller' = [caller EXCEPT ![c] = IF noticed THEN "answered" ELSE "failed"]
  /\ UNCHANGED <<network, node, clearVars, moved>>

Hit(c) ==
  /\ stage[c] = "get" /\ store[key[c]] # None
  /\ Settles(c, store[key[c]])
  /\ UNCHANGED <<store, old>>

\* Nothing is stored, or the read failed.
Miss(c) ==
  /\ stage[c] = "get"
  /\ store[key[c]] = None \/ "redis" \in Faults
  /\ stage' = [stage EXCEPT ![c] = "fetch"]
  /\ UNCHANGED <<network, node, store, key, stats, caller, clearVars, old, moved>>

NodeAnswers(c) ==
  /\ stage[c] = "fetch"
  /\ stats' = [stats EXCEPT ![c] = [asked |-> key[c], node |-> node[Owner[c]]]]
  /\ stage' = [stage EXCEPT ![c] = "set"]
  /\ UNCHANGED <<network, node, store, key, caller, clearVars, old, moved>>

NodeFails(c) ==
  /\ "node" \in Faults /\ stage[c] = "fetch"
  /\ Settles(c, None)
  /\ UNCHANGED <<store, old>>

\* mutant: the key is built when the statistics are stored
KeyOfTheMoment(c) == network[Owner[c]]

StoreKey(c) == key[c]

SetStored(c) ==
  /\ stage[c] = "set"
  /\ store' = [store EXCEPT ![StoreKey(c)] = stats[c]]
  /\ old' = old \ {StoreKey(c)}
  /\ Settles(c, stats[c])

\* The result is served uncached.
SetFails(c) ==
  /\ "redis" \in Faults /\ stage[c] = "set"
  /\ Settles(c, stats[c])
  /\ UNCHANGED <<store, old>>

\* withTimeout: the lookup goes on, and may still store what it gets.
TimesOut(c) ==
  /\ caller[c] = "waiting"
  /\ caller' = [caller EXCEPT ![c] = "failed"]
  /\ UNCHANGED <<network, node, store, stage, key, stats, clearVars, old, moved>>

\* PX: an entry reaches its age.
Expire(n) ==
  /\ n \in Stored
  /\ store' = [store EXCEPT ![n] = None]
  /\ old' = old \ {n} /\ due' = due \ {n}
  /\ UNCHANGED <<network, node, rpcVars, clear, page, last, moved>>
-----------------------------------------------------------------------------
\* clearCache

ClearBegin ==
  /\ clear \notin {"scan", "del"}
  /\ clear' = "scan" /\ page' = {} /\ last' = FALSE
  /\ due' = Stored /\ old' = Stored
  /\ UNCHANGED <<network, node, store, rpcVars, moved>>

\* mutant: the first page is taken for all
OnePage(l) == "cleared"

\* while (cursor !== '0')
AfterPage(l) == IF l THEN "cleared" ELSE "scan"

\* SCAN may return a key at any time, but does not end before it has returned the
\* keys that were there all the time.
Scan ==
  /\ clear = "scan"
  /\ \E keys \in SUBSET Stored, l \in BOOLEAN :
       /\ l => due \subseteq keys
       /\ page' = keys /\ last' = (l /\ keys # {}) /\ due' = due \ keys
       /\ clear' = IF keys = {} THEN AfterPage(l) ELSE "del"
  /\ UNCHANGED <<network, node, store, rpcVars, old, moved>>

Del ==
  /\ clear = "del"
  /\ store' = [n \in Network |-> IF n \in page THEN None ELSE store[n]]
  /\ old' = old \ page /\ due' = due \ page
  /\ clear' = AfterPage(last) /\ page' = {} /\ last' = FALSE
  /\ UNCHANGED <<network, node, rpcVars, moved>>

ClearFails ==
  /\ "redis" \in Faults /\ clear \in {"scan", "del"}
  /\ clear' = "failed" /\ page' = {} /\ last' = FALSE /\ due' = {} /\ old' = {}
  /\ UNCHANGED <<network, node, store, rpcVars, moved>>
-----------------------------------------------------------------------------
\* applyConfig: the environment changes, the factory's nodes do not.
Reconfigure(p, n) ==
  /\ network[p] # n
  /\ network' = [network EXCEPT ![p] = n]
  /\ moved' = TRUE
  /\ UNCHANGED <<node, store, rpcVars, clearVars, old>>

\* The process is started again with the environment it was deployed with.
Restart(p) ==
  LET Kept(f, x) == [c \in Call |-> IF Owner[c] = p THEN x ELSE f[c]] IN
  /\ "restart" \in Faults
  /\ network' = [network EXCEPT ![p] = node[p]]
  /\ stage' = Kept(stage, "idle")
  /\ key' = Kept(key, None) /\ stats' = Kept(stats, None)
  /\ caller' = Kept(caller, "failed")
  /\ UNCHANGED <<node, store, clearVars, old, moved>>

Lookup(c) == \/ Begin(c) \/ Hit(c) \/ Miss(c) \/ NodeAnswers(c) \/ NodeFails(c)
             \/ SetStored(c) \/ SetFails(c) \/ TimesOut(c)

Next == \/ \E c \in Call : Lookup(c)
        \/ \E n \in Network : Expire(n)
        \/ ClearBegin \/ Scan \/ Del \/ ClearFails
        \/ \E p \in Proc, n \in Network : Reconfigure(p, n)
        \/ \E p \in Proc : Restart(p)

Spec == Init /\ [][Next]_vars
-----------------------------------------------------------------------------
\* Properties

\* Every variable has the values it may have.
TypeOK ==
  /\ network \in [Proc -> Network] /\ node \in [Proc -> Network]
  /\ store \in [Network -> Statistics \cup {None}]
  /\ stage \in [Call -> {"idle", "get", "fetch", "set"}]
  /\ key \in [Call -> Network \cup {None}]
  /\ stats \in [Call -> Statistics \cup {None}]
  /\ caller \in [Call -> {"waiting", "answered", "failed"}]
  /\ clear \in {"idle", "scan", "del", "cleared", "failed"}
  /\ page \subseteq Network /\ last \in BOOLEAN
  /\ due \subseteq Network /\ old \subseteq Network
  /\ moved \in BOOLEAN

\* An estimate is made with statistics that were looked up for the network which
\* its own process had when it asked, whoever stored them and whatever became of
\* that network meanwhile; and they are from a node of that network unless a
\* process has left the network it was started with (rpc-cache.js:190-192, 219;
\* fee-engine.js:214-232; rpc-factory.js:22-37).
OwnNetwork ==
  \A c \in Call : caller[c] = "answered" =>
    /\ stats[c].asked = key[c]
    /\ ~moved => stats[c].node = key[c]

\* When clearCache resolves, whatever lookups have stored and the pages it got,
\* Redis has no entry from before it began (rpc-cache.js:236-252).
ClearedAreGone == clear = "cleared" => old = {}
=============================================================================
