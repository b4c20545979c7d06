--------------------------- MODULE RpcAccess_proofs ---------------------------
(***************************************************************************)
(* Proofs about RpcAccess: types and its two invariants, for any number of *)
(* processes, networks and lookups.                                        *)
(***************************************************************************)
EXTENDS RpcAccess, TLAPS

\* s was looked up for network n, and is from it unless a process has moved.
Of(s, n) == s \in Statistics /\ s.asked = n /\ (~moved => s.node = n)

\* What is stored is of the network in its key.
StoreScoped == \A n \in Network : store[n] # None => Of(store[n], n)

\* A lookup keeps the key it began with, and what it has is of that network.
LookupScoped ==
  \A c \in Call : /\ stage[c] # "idle" =>
                       key[c] \in Network /\ (~moved => key[c] = node[Owner[c]])
                  /\ stage[c] = "set" \/ caller[c] = "answered" => Of(stats[c], key[c])

Unmoved == ~moved => network = node

\* Old entries are ahead of the cursor, or on the page to be deleted.
OldIsDue == /\ clear = "scan" => old \subseteq due
            /\ clear = "del" => old \subseteq due \cup page /\ (last => due = {})
            /\ clear \notin {"scan", "del"} => old = {}

Scoped == TypeOK /\ StoreScoped /\ LookupScoped /\ Unmoved

\* The initial state is of its types and has nothing stored or looked up.
LEMMA InitScoped == Init => Scoped /\ OldIsDue
BY RpcAssumption
DEF Init, Scoped, TypeOK, StoreScoped, LookupScoped, Unmoved, OldIsDue, Statistics

\* A lookup leaves the values of the clear alone.
LEMMA LookupStep ==
  ASSUME Scoped, NEW c \in Call, Lookup(c)
  PROVE  Scoped'
<1> USE RpcAssumption DEF Scoped, TypeOK, StoreScoped, LookupScoped, Unmoved, Of, clearVars
<1>0. /\ node[Owner[c]] \in Network /\ network[Owner[c]] \in Network
      /\ ~moved => network[Owner[c]] = node[Owner[c]]
  OBVIOUS
<1>1. CASE Begin(c)
  <2>1. TypeOK'
    BY <1>1, <1>0 DEF Begin
  <2> QED BY <2>1, <1>1, <1>0 DEF Begin
<1>2. ASSUME NEW r, Settles(c, r), UNCHANGED store, old' \subseteq Network,
             r = None \/ Of(r, key[c])
      PROVE  Scoped'
  <2>1. TypeOK'
    BY <1>2 DEF Settles
  <2>2. LookupScoped'
    BY <1>2 DEF Settles
  <2> QED BY <2>1, <2>2, <1>2 DEF Settles
<1>3. CASE Hit(c)
  <2>1. key[c] \in Network /\ Of(store[key[c]], key[c])
    BY <1>3 DEF Hit
  <2> QED BY <2>1, <1>2, <1>3 DEF Hit
<1>4. CASE Miss(c)
  BY <1>4 DEF Miss
<1>5. CASE NodeAnswers(c)
  <2> DEFINE s == [asked |-> key[c], node |-> node[Owner[c]]]
  <2>1. key[c] \in Network /\ Of(s, key[c])
    BY <1>5, <1>0 DEF NodeAnswers, Statistics
  <2>2. stats' = [stats EXCEPT ![c] = s] /\ stage' = [stage EXCEPT ![c] = "set"]
    BY <1>5 DEF NodeAnswers
  <2> HIDE DEF s
  <2>3. TypeOK'
    BY <2>1, <2>2, <1>5 DEF NodeAnswers
  <2>4. LookupScoped'
    BY <2>1, <2>2, <1>5 DEF NodeAnswers
  <2> QED BY <2>3, <2>4, <1>5 DEF NodeAnswers
<1>6. CASE NodeFails(c)
  BY <1>6, <1>2 DEF NodeFails
<1>7. CASE SetStored(c)
  <2>1. key[c] \in Network /\ Of(stats[c], key[c])
    BY <1>7 DEF SetStored
  <2>2. store' = [store EXCEPT ![key[c]] = stats[c]] /\ old' = old \ {key[c]}
    BY <1>7 DEF SetStored, StoreKey
  <2>3. Settles(c, stats[c])
    BY <1>7 DEF SetStored
  <2>4. TypeOK'
    BY <2>1, <2>2, <2>3 DEF Settles
  <2>5. LookupScoped'
    BY <2>1, <2>2, <2>3 DEF Settles
  <2>6. StoreScoped'
    BY <2>1, <2>2, <2>3 DEF Settles
  <2> QED BY <2>4, <2>5, <2>6, <2>3 DEF Settles
<1>8. CASE SetFails(c)
  BY <1>8, <1>2 DEF SetFails
<1>9. CASE TimesOut(c)
  BY <1>9 DEF TimesOut
<1> QED BY <1>1, <1>3, <1>4, <1>5, <1>6, <1>7, <1>8, <1>9 DEF Lookup

\* Whatever else happens removes entries, moves a process, or ends its lookups.
LEMMA OtherStep ==
  ASSUME Scoped, [Next]_vars, \A c \in Call : ~Lookup(c)
  PROVE  Scoped'
<1> USE RpcAssumption
    DEF Scoped, TypeOK, StoreScoped, LookupScoped, Unmoved, Of, clearVars, rpcVars
<1>1. ASSUME NEW n \in Network, Expire(n) PROVE Scoped'
  BY <1>1 DEF Expire
<1>2. CASE ClearBegin
  BY <1>2 DEF ClearBegin, Stored
<1>3. CASE Scan
  BY <1>3 DEF Scan, Stored, AfterPage
<1>4. CASE Del
  BY <1>4 DEF Del, AfterPage
<1>5. CASE ClearFails
  BY <1>5 DEF ClearFails
<1>6. ASSUME NEW p \in Proc, NEW n \in Network, Reconfigure(p, n) PROVE Scoped'
  BY <1>6 DEF Reconfigure
<1>7. ASSUME NEW p \in Proc, Restart(p) PROVE Scoped'
  BY <1>7 DEF Restart
<1>8. CASE UNCHANGED vars
  BY <1>8 DEF vars
<1> QED BY <1>1, <1>2, <1>3, <1>4, <1>5, <1>6, <1>7, <1>8 DEF Next

\* Scoped is inductive.
LEMMA ScopedHolds == Spec => []Scoped
<1>1. Scoped /\ [Next]_vars => Scoped'
  BY LookupStep, OtherStep
<1> QED BY InitScoped, <1>1, PTL DEF Spec

\* Every variable keeps the values it may have (RpcAccess.TypeOK).
THEOREM TypeCorrect == Spec => []TypeOK
<1>1. Scoped => TypeOK
  BY DEF Scoped
<1> QED BY ScopedHolds, <1>1, PTL

\* Whoever stored them and whatever becomes of the processes' networks meanwhile,
\* statistics answer for the network that was asked for (RpcAccess.OwnNetwork).
THEOREM OwnNetworkHolds == Spec => []OwnNetwork
<1>1. Scoped => OwnNetwork
  BY DEF Scoped, LookupScoped, Of, OwnNetwork
<1> QED BY ScopedHolds, <1>1, PTL

\* A clear that ends has deleted every entry from before it, on whatever pages SCAN
\* returned them and whatever was stored meanwhile (RpcAccess.ClearedAreGone).
THEOREM ClearedAreGoneHolds == Spec => []ClearedAreGone
<1>1. TypeOK /\ OldIsDue /\ [Next]_vars => OldIsDue'
  <2> SUFFICES ASSUME TypeOK, OldIsDue, [Next]_vars PROVE OldIsDue'
    OBVIOUS
  <2> USE DEF OldIsDue, TypeOK, clearVars, rpcVars
  <2>1. ASSUME NEW c \in Call, Lookup(c) PROVE OldIsDue'
    BY <2>1 DEF Lookup, Begin, Hit, Miss, NodeAnswers, NodeFails, SetStored, SetFails,
                TimesOut, Settles
  <2>2. ASSUME NEW n \in Network, Expire(n) PROVE OldIsDue'
    BY <2>2 DEF Expire
  <2>3. CASE ClearBegin
    BY <2>3 DEF ClearBegin
  <2>4. CASE Scan
    BY <2>4 DEF Scan, AfterPage
  <2>5. CASE Del
    BY <2>5 DEF Del, AfterPage
  <2>6. CASE ClearFails
    BY <2>6 DEF ClearFails
  <2>7. ASSUME NEW p \in Proc, NEW n \in Network, Reconfigure(p, n) PROVE OldIsDue'
    BY <2>7 DEF Reconfigure
  <2>8. ASSUME NEW p \in Proc, Restart(p) PROVE OldIsDue'
    BY <2>8 DEF Restart
  <2>9. CASE UNCHANGED vars
    BY <2>9 DEF vars
  <2> QED BY <2>1, <2>2, <2>3, <2>4, <2>5, <2>6, <2>7, <2>8, <2>9 DEF Next
<1>2. OldIsDue => ClearedAreGone
  BY DEF OldIsDue, ClearedAreGone
<1> QED BY InitScoped, TypeCorrect, <1>1, <1>2, PTL DEF Spec
=============================================================================
