-------------------------- MODULE VeroAdmin_proofs --------------------------
(***************************************************************************)
(* Proofs about VeroAdmin, for any set of accounts, any admin vectors and  *)
(* thresholds passed by callers, and any number of proposals.              *)
(***************************************************************************)
EXTENDS VeroAdmin, FiniteSetTheorems, TLAPS

LEMMA AppendedSet == ASSUME NEW S, NEW s \in Seq(S), NEW x \in S
                     PROVE  ToSet(Append(s, x)) = ToSet(s) \cup {x}
  <1>1. \A i \in 1..Len(s) : Append(s, x)[i] = s[i]
    OBVIOUS
  <1>2. Append(s, x)[Len(s) + 1] = x /\ Len(Append(s, x)) = Len(s) + 1
    OBVIOUS
  <1>3. DOMAIN Append(s, x) = 1..Len(s) + 1 /\ DOMAIN s = 1..Len(s)
    OBVIOUS
  <1> QED
    BY <1>1, <1>2, <1>3 DEF ToSet

LEMMA InitTypeOK == Init => TypeOK
  BY DEF Init, TypeOK, Hashes

LEMMA VoteType == ASSUME TypeOK, NEW a \in Address, NEW h \in Hashes, NEW e \in BOOLEAN,
                         Vote(a, h, e)
                  PROVE  /\ proposals' \in [Hashes -> Proposal] /\ DOMAIN proposals' = Hashes
                         /\ h \in Nat \X AdminAction
  BY DEF Vote, TypeOK, Proposal

LEMMA ExecuteType == ASSUME TypeOK, admins # <<>>, NEW action \in AdminAction, ExecuteAction(action)
                     PROVE  /\ admins' \in AdminVec /\ admins' # <<>>
                            /\ threshold' \in Nat /\ tasks' \subseteq PR
                            /\ \/ threshold' = threshold /\ admins' = admins
                               \/ admins' = admins /\ 1 <= threshold' /\ threshold' <= Len(admins)
                               \/ threshold' = IF threshold > Len(admins') THEN Len(admins')
                                                                            ELSE threshold
  <1> USE ThresholdArgAssumption, AdminVecAssumption DEF TypeOK, ExecuteAction, Clamped, NotEmpty
  <1>1. CASE \E pr \in PR : action = <<"RegisterTask", pr>>
    BY <1>1
  <1>2. CASE \E pr \in PR : action = <<"PurgeTask", pr>>
    BY <1>2
  <1>3. CASE \E m \in ThresholdArg : action = <<"UpdateThreshold", m>>
    <2>1. PICK m \in ThresholdArg : action = <<"UpdateThreshold", m>>
      BY <1>3
    <2>2. m \in Nat /\ Len(admins) \in Nat
      OBVIOUS
    <2>3. threshold' = m /\ m # 0 /\ m <= Len(admins) /\ admins' = admins /\ tasks' = tasks
      BY <2>1
    <2> QED
      BY <2>2, <2>3
  <1>4. CASE \E vec \in AdminVec : action = <<"UpdateAdmins", vec>>
    <2>1. PICK vec \in AdminVec : action = <<"UpdateAdmins", vec>>
      BY <1>4
    <2>2. Len(vec) \in Nat
      OBVIOUS
    <2>3. /\ admins' = vec /\ vec # <<>> /\ tasks' = tasks
          /\ threshold' = IF threshold > Len(vec) THEN Len(vec) ELSE threshold
      BY <2>1
    <2> QED
      BY <2>2, <2>3
  <1> QED
    BY <1>1, <1>2, <1>3, <1>4 DEF AdminAction

LEMMA NextTypeOK == TypeOK /\ [Next]_vars => TypeOK'
  <1> SUFFICES ASSUME TypeOK, [Next]_vars
               PROVE  TypeOK'
    OBVIOUS
  <1>1. ASSUME NEW vec \in AdminVec, NEW m \in ThresholdArg, Initialize(vec, m)
        PROVE  TypeOK'
    BY <1>1, ThresholdArgAssumption DEF Initialize, TypeOK, Hashes
  <1>2. ASSUME NEW a \in Address, NEW action \in AdminAction, Propose(a, action)
        PROVE  TypeOK'
    <2> DEFINE h == Hash(nonce, action)
    <2>1. h \in Nat \X AdminAction
      BY DEF Hash, TypeOK
    <2>2. /\ proposals' = [g \in Hashes \cup {h} |->
                            IF g = h THEN [approvals |-> <<a>>, executed |-> FALSE] ELSE proposals[g]]
          /\ UNCHANGED <<registry, nonce>>
      BY <1>2 DEF Propose
    <2>3. [approvals |-> <<a>>, executed |-> FALSE] \in Proposal
      BY DEF Proposal
    <2>4. proposals' \in [Hashes \cup {h} -> Proposal]
      BY <2>2, <2>3 DEF TypeOK
    <2> QED
      BY <2>1, <2>2, <2>4 DEF TypeOK, registry, Hashes
  <1>3. ASSUME NEW a \in Address, NEW h \in Hashes, Approve(a, h)
        PROVE  TypeOK'
    BY <1>3, VoteType DEF Approve, TypeOK, registry, Hashes
  <1>4. ASSUME NEW a \in Address, NEW h \in Hashes, ApproveAndExecute(a, h)
        PROVE  TypeOK'
    <2>1. Vote(a, h, TRUE) /\ ExecuteAction(h[2]) /\ nonce' = nonce + 1
      BY <1>4 DEF ApproveAndExecute
    <2>2. h[2] \in AdminAction
      BY <2>1, VoteType
    <2>3. admins # <<>>
      BY <2>1 DEF Vote, IsAdmin, ToSet
    <2>4. admins' \in AdminVec /\ threshold' \in Nat /\ tasks' \subseteq PR
      BY <2>1, <2>2, <2>3, ExecuteType
    <2>5. proposals' \in [Hashes -> Proposal] /\ Hashes' = Hashes
      BY <2>1, VoteType DEF Hashes
    <2> QED
      BY <2>1, <2>4, <2>5 DEF TypeOK
  <1>5. CASE UNCHANGED vars
    BY <1>5 DEF vars, registry, TypeOK, Hashes
  <1> QED
    BY <1>1, <1>2, <1>3, <1>4, <1>5 DEF Next

\* Type correctness of the contract's storage.
THEOREM TypeCorrect == Spec => []TypeOK
  BY InitTypeOK, NextTypeOK, PTL DEF Spec
-----------------------------------------------------------------------------
LEMMA ExecuteInRange ==
  ASSUME TypeOK, ThresholdInRange, admins # <<>>, NEW action \in AdminAction,
         ExecuteAction(action)
  PROVE  ThresholdInRange'
  <1>1. /\ admins \in Seq(Address) \ {<<>>} /\ admins' \in Seq(Address) \ {<<>>}
        /\ threshold \in Nat /\ threshold' \in Nat
    BY ExecuteType, AdminVecAssumption DEF TypeOK
  <1>2. 1 <= threshold /\ threshold <= Len(admins) /\ Len(admins') >= 1
    BY <1>1 DEF ThresholdInRange, Initialised
  <1> QED
    BY <1>1, <1>2, ExecuteType DEF ThresholdInRange

LEMMA NextInRange == TypeOK /\ ThresholdInRange /\ [Next]_vars => ThresholdInRange'
  <1> SUFFICES ASSUME TypeOK, ThresholdInRange, [Next]_vars
               PROVE  ThresholdInRange'
    OBVIOUS
  <1>1. ASSUME NEW vec \in AdminVec, NEW m \in ThresholdArg, Initialize(vec, m)
        PROVE  ThresholdInRange'
    BY <1>1, ThresholdArgAssumption, AdminVecAssumption DEF Initialize, ThresholdInRange
  <1>2. ASSUME NEW a \in Address, NEW action \in AdminAction, Propose(a, action)
        PROVE  ThresholdInRange'
    BY <1>2 DEF Propose, IsAdmin, ToSet, registry, ThresholdInRange, Initialised
  <1>3. ASSUME NEW a \in Address, NEW h \in Hashes, Approve(a, h)
        PROVE  ThresholdInRange'
    BY <1>3 DEF Approve, registry, ThresholdInRange, Initialised
  <1>4. ASSUME NEW a \in Address, NEW h \in Hashes, ApproveAndExecute(a, h)
        PROVE  ThresholdInRange'
    <2>1. Vote(a, h, TRUE) /\ ExecuteAction(h[2])
      BY <1>4 DEF ApproveAndExecute
    <2>2. admins # <<>>
      BY <2>1 DEF Vote, IsAdmin, ToSet
    <2> QED
      BY <2>1, <2>2, VoteType, ExecuteInRange
  <1>5. CASE UNCHANGED vars
    BY <1>5 DEF vars, registry, ThresholdInRange, Initialised, Hashes
  <1> QED
    BY <1>1, <1>2, <1>3, <1>4, <1>5 DEF Next

\* From its initialisation on, the contract's threshold is at least 1 and at
\* most the number of its admin entries, of which there is one at least, though
\* empty vectors and any threshold may be proposed.
THEOREM ThresholdInRangeHolds == Spec => []ThresholdInRange
  <1>1. Init => ThresholdInRange
    BY DEF Init, ThresholdInRange, Initialised, Hashes
  <1> QED
    BY <1>1, InitTypeOK, NextTypeOK, NextInRange, PTL DEF Spec
-----------------------------------------------------------------------------
\* Counting.  There are finitely many proposals, the executed ones are counted
\* by the nonce, and the approvals of each are distinct.  Before initialisation
\* there is no proposal.

Distinct(s) == IsFiniteSet(ToSet(s)) /\ Cardinality(ToSet(s)) = Len(s)

CountInv == /\ admins = <<>> => Hashes = {} /\ nonce = 0
            /\ IsFiniteSet(Executed)
            /\ NonceCountsExecutions
            /\ \A h \in Hashes : Distinct(proposals[h].approvals)

LEMMA VoteEffect ==
  ASSUME TypeOK, NEW a \in Address, NEW h \in Hashes, NEW e \in BOOLEAN, Vote(a, h, e)
  PROVE  /\ Hashes' = Hashes
         /\ \A g \in Hashes \ {h} : proposals'[g] = proposals[g]
         /\ proposals'[h].executed = e
         /\ proposals'[h].approvals = Append(proposals[h].approvals, a)
         /\ h \notin Executed /\ ~Voted(a, h) /\ IsAdmin(a)
         /\ proposals[h].approvals \in Seq(Address)
         /\ Executed' = IF e THEN Executed \cup {h} ELSE Executed
  <1>1. /\ proposals' = [proposals EXCEPT ![h] =
                           [approvals |-> Append(proposals[h].approvals, a), executed |-> e]]
        /\ ~proposals[h].executed /\ ~Voted(a, h) /\ IsAdmin(a)
    BY DEF Vote
  <1>2. /\ Hashes' = Hashes
        /\ \A g \in Hashes \ {h} : proposals'[g] = proposals[g]
        /\ proposals'[h] = [approvals |-> Append(proposals[h].approvals, a), executed |-> e]
    BY <1>1 DEF Hashes, TypeOK
  <1>3. proposals[h].approvals \in Seq(Address)
    BY DEF TypeOK, Proposal
  <1>4. Executed' = IF e THEN Executed \cup {h} ELSE Executed
    BY <1>1, <1>2 DEF Executed
  <1> QED
    BY <1>1, <1>2, <1>3, <1>4 DEF Executed

LEMMA VoteDistinct ==
  ASSUME TypeOK, CountInv, NEW a \in Address, NEW h \in Hashes, NEW e \in BOOLEAN, Vote(a, h, e)
  PROVE  \A g \in Hashes' : Distinct(proposals'[g].approvals)
  <1> DEFINE s == proposals[h].approvals
  <1>1. /\ s \in Seq(Address) /\ a \notin ToSet(s)
        /\ Hashes' = Hashes /\ proposals'[h].approvals = Append(s, a)
        /\ \A g \in Hashes \ {h} : proposals'[g] = proposals[g]
    BY VoteEffect DEF Voted
  <1>2. IsFiniteSet(ToSet(s)) /\ Cardinality(ToSet(s)) = Len(s)
    BY DEF CountInv, Distinct
  <1>3. Distinct(Append(s, a))
    <2>1. ToSet(Append(s, a)) = ToSet(s) \cup {a}
      BY <1>1, AppendedSet
    <2>2. Len(Append(s, a)) = Len(s) + 1
      BY <1>1
    <2> QED
      BY <1>1, <1>2, <2>1, <2>2, FS_AddElement DEF Distinct
  <1> QED
    BY <1>1, <1>3 DEF CountInv

LEMMA NextCountInv == TypeOK /\ CountInv /\ [Next]_vars => CountInv'
  <1> SUFFICES ASSUME TypeOK, CountInv, [Next]_vars
               PROVE  CountInv'
    OBVIOUS
  <1>1. ASSUME NEW vec \in AdminVec, NEW m \in ThresholdArg, Initialize(vec, m)
        PROVE  CountInv'
    <2>1. admins = <<>> /\ admins' # <<>> /\ nonce' = 0 /\ proposals' = proposals
      BY <1>1 DEF Initialize, Initialised, NotEmpty
    <2> QED
      BY <2>1 DEF CountInv, NonceCountsExecutions, Executed, Hashes
  <1>2. ASSUME NEW a \in Address, NEW action \in AdminAction, Propose(a, action)
        PROVE  CountInv'
    <2> DEFINE h == Hash(nonce, action)
    <2>1. /\ proposals' = [g \in Hashes \cup {h} |->
                            IF g = h THEN [approvals |-> <<a>>, executed |-> FALSE] ELSE proposals[g]]
          /\ UNCHANGED <<registry, nonce>> /\ h \notin Hashes /\ IsAdmin(a)
      BY <1>2 DEF Propose
    <2>2. /\ Hashes' = Hashes \cup {h}
          /\ proposals'[h] = [approvals |-> <<a>>, executed |-> FALSE]
          /\ \A g \in Hashes : proposals'[g] = proposals[g]
      BY <2>1 DEF Hashes
    <2>3. Executed' = Executed
      BY <2>1, <2>2 DEF Executed
    <2>4. Distinct(<<a>>)
      <3>1. ToSet(<<a>>) = {a}
        BY DEF ToSet
      <3> QED
        BY <3>1, FS_Singleton DEF Distinct
    <2>5. admins # <<>> /\ admins' = admins /\ nonce' = nonce
      BY <2>1 DEF IsAdmin, ToSet, registry
    <2> QED
      BY <2>2, <2>3, <2>4, <2>5 DEF CountInv, NonceCountsExecutions
  <1>3. ASSUME NEW a \in Address, NEW h \in Hashes, Approve(a, h)
        PROVE  CountInv'
    <2>1. Vote(a, h, FALSE) /\ UNCHANGED <<admins, nonce>>
      BY <1>3 DEF Approve, registry
    <2> QED
      BY <2>1, VoteEffect, VoteDistinct DEF CountInv, NonceCountsExecutions
  <1>4. ASSUME NEW a \in Address, NEW h \in Hashes, ApproveAndExecute(a, h)
        PROVE  CountInv'
    <2>1. Vote(a, h, TRUE) /\ ExecuteAction(h[2]) /\ nonce' = nonce + 1
      BY <1>4 DEF ApproveAndExecute
    <2>2. admins # <<>>
      BY <2>1 DEF Vote, IsAdmin, ToSet
    <2>3. admins' # <<>>
      BY <2>1, <2>2, VoteType, ExecuteType
    <2>4. Executed' = Executed \cup {h} /\ h \notin Executed
      BY <2>1, VoteEffect
    <2>5. IsFiniteSet(Executed') /\ Cardinality(Executed') = Cardinality(Executed) + 1
      BY <2>4, FS_AddElement DEF CountInv
    <2>6. \A g \in Hashes' : Distinct(proposals'[g].approvals)
      BY <2>1, VoteDistinct
    <2> QED
      BY <2>1, <2>3, <2>5, <2>6 DEF CountInv, NonceCountsExecutions
  <1>5. CASE UNCHANGED vars
    BY <1>5 DEF vars, registry, CountInv, NonceCountsExecutions, Executed, Hashes
  <1> QED
    BY <1>1, <1>2, <1>3, <1>4, <1>5 DEF Next

LEMMA InitCountInv == Init => CountInv
  <1> SUFFICES ASSUME Init
               PROVE  CountInv
    OBVIOUS
  <1>1. Hashes = {} /\ nonce = 0
    BY DEF Init, Hashes
  <1>2. Executed = {}
    BY <1>1 DEF Executed
  <1> QED
    BY <1>1, <1>2, FS_EmptySet DEF CountInv, NonceCountsExecutions

\* The nonce is the number of executed proposals, always.
THEOREM NonceCounts == Spec => []NonceCountsExecutions
  <1>1. CountInv => NonceCountsExecutions
    BY DEF CountInv
  <1> QED
    BY <1>1, InitTypeOK, NextTypeOK, InitCountInv, NextCountInv, PTL DEF Spec
-----------------------------------------------------------------------------
LEMMA AddsVotesOfAdmins == TypeOK /\ Next => VotesOfAdmins
  <1> SUFFICES ASSUME TypeOK, Next
               PROVE  VotesOfAdmins
    OBVIOUS
  <1>1. ASSUME NEW vec \in AdminVec, NEW m \in ThresholdArg, Initialize(vec, m)
        PROVE  VotesOfAdmins
    BY <1>1 DEF Initialize, VotesOfAdmins, Voted, Hashes
  <1>2. ASSUME NEW a \in Address, NEW action \in AdminAction, Propose(a, action)
        PROVE  VotesOfAdmins
    <2> DEFINE h == Hash(nonce, action)
    <2>1. /\ proposals' = [g \in Hashes \cup {h} |->
                            IF g = h THEN [approvals |-> <<a>>, executed |-> FALSE] ELSE proposals[g]]
          /\ h \notin Hashes /\ IsAdmin(a)
      BY <1>2 DEF Propose
    <2>2. /\ Hashes' = Hashes \cup {h} /\ proposals'[h].approvals = <<a>>
          /\ \A g \in Hashes : proposals'[g] = proposals[g]
      BY <2>1 DEF Hashes
    <2>3. ToSet(<<a>>) = {a}
      BY DEF ToSet
    <2>4. ASSUME NEW g \in Hashes', NEW b \in ToSet(proposals'[g].approvals)
          PROVE  IsAdmin(b) \/ (g \in Hashes /\ Voted(b, g))
      <3>1. CASE g = h
        BY <2>1, <2>2, <2>3, <2>4, <3>1
      <3>2. CASE g # h
        BY <2>2, <2>4, <3>2 DEF Voted
      <3> QED
        BY <3>1, <3>2
    <2> QED
      BY <2>4 DEF VotesOfAdmins
  <1>3. ASSUME NEW a \in Address, NEW h \in Hashes, NEW e \in BOOLEAN, Vote(a, h, e)
        PROVE  VotesOfAdmins
    <2>1. /\ Hashes' = Hashes /\ IsAdmin(a) /\ proposals[h].approvals \in Seq(Address)
          /\ \A g \in Hashes \ {h} : proposals'[g] = proposals[g]
          /\ proposals'[h].approvals = Append(proposals[h].approvals, a)
      BY <1>3, VoteEffect
    <2>2. ToSet(proposals'[h].approvals) = ToSet(proposals[h].approvals) \cup {a}
      BY <2>1, AppendedSet
    <2>3. \A b \in ToSet(proposals'[h].approvals) : IsAdmin(b) \/ Voted(b, h)
      BY <2>1, <2>2 DEF Voted
    <2>4. \A g \in Hashes \ {h} : \A b \in ToSet(proposals'[g].approvals) : Voted(b, g)
      BY <2>1 DEF Voted
    <2> QED
      BY <2>1, <2>3, <2>4 DEF VotesOfAdmins
  <1> QED
    BY <1>1, <1>2, <1>3 DEF Next, Approve, ApproveAndExecute

LEMMA CompletesQuorum == TypeOK /\ CountInv /\ Next => QuorumComplete
  <1> SUFFICES ASSUME TypeOK, CountInv, Next, NEW h \in Executed' \ Executed
               PROVE  /\ Executed' = Executed \cup {h}
                      /\ Cardinality(ToSet(proposals'[h].approvals)) >= threshold
    BY DEF QuorumComplete
  <1>1. PICK a \in Address, g \in Hashes : ApproveAndExecute(a, g)
    <2>1. ASSUME NEW vec \in AdminVec, NEW m \in ThresholdArg, Initialize(vec, m)
          PROVE  FALSE
      BY <2>1 DEF Initialize, Executed, Hashes
    <2>2. ASSUME NEW a \in Address, NEW action \in AdminAction, Propose(a, action)
          PROVE  FALSE
      BY <2>2 DEF Propose, Executed, Hashes
    <2>3. ASSUME NEW a \in Address, NEW g \in Hashes, Approve(a, g)
          PROVE  FALSE
      BY <2>3, VoteEffect DEF Approve
    <2> QED
      BY <2>1, <2>2, <2>3 DEF Next
  <1>2. Vote(a, g, TRUE)
    BY <1>1 DEF ApproveAndExecute
  <1>3. /\ Executed' = Executed \cup {g} /\ Hashes' = Hashes
        /\ proposals'[g].approvals = Append(proposals[g].approvals, a)
    BY <1>2, VoteEffect
  <1>4. h = g
    BY <1>3
  <1>5. Len(proposals'[g].approvals) >= threshold
    BY <1>2, <1>3 DEF Vote
  <1>6. Distinct(proposals'[g].approvals)
    BY <1>2, <1>3, VoteDistinct
  <1> QED
    BY <1>3, <1>4, <1>5, <1>6 DEF Distinct

\* Every approval is counted at the moment when its address is an admin, and a
\* proposal is executed only by a quorum of distinct ones, alone.
THEOREM ExecutionNeedsQuorumHolds == Spec => ExecutionNeedsQuorum
  <1>1. TypeOK /\ CountInv /\ [Next]_vars => [VotesOfAdmins /\ QuorumComplete]_vars
    BY AddsVotesOfAdmins, CompletesQuorum
  <1> QED
    BY <1>1, InitTypeOK, NextTypeOK, InitCountInv, NextCountInv, PTL
       DEF Spec, ExecutionNeedsQuorum

\* After initialisation admins, threshold and tasks change only by an execution,
\* and an executed proposal is final.
THEOREM ChangeOnlyByExecutionHolds == Spec => ChangeOnlyByExecution
  <1>1. TypeOK /\ [Next]_vars => [ByExecution]_vars
    <2> SUFFICES ASSUME TypeOK, Next
                 PROVE  ByExecution
      OBVIOUS
    <2>1. ASSUME NEW vec \in AdminVec, NEW m \in ThresholdArg, Initialize(vec, m)
          PROVE  ByExecution
      BY <2>1 DEF Initialize, Initialised, ByExecution, Executed, Hashes
    <2>2. ASSUME NEW a \in Address, NEW action \in AdminAction, Propose(a, action)
          PROVE  ByExecution
      BY <2>2 DEF Propose, ByExecution, Executed, Hashes
    <2>3. ASSUME NEW a \in Address, NEW h \in Hashes, Approve(a, h)
          PROVE  ByExecution
      <3>1. Vote(a, h, FALSE) /\ UNCHANGED registry
        BY <2>3 DEF Approve
      <3> QED
        BY <3>1, VoteEffect DEF ByExecution, Executed
    <2>4. ASSUME NEW a \in Address, NEW h \in Hashes, ApproveAndExecute(a, h)
          PROVE  ByExecution
      <3>1. Vote(a, h, TRUE)
        BY <2>4 DEF ApproveAndExecute
      <3> QED
        BY <3>1, VoteEffect DEF ByExecution, Executed
    <2> QED
      BY <2>1, <2>2, <2>3, <2>4 DEF Next
  <1> QED
    BY <1>1, InitTypeOK, NextTypeOK, PTL DEF Spec, ChangeOnlyByExecution
=============================================================================
