------------------------------ MODULE VeroAdmin ------------------------------
(***************************************************************************)
(* The M-of-N administration contract (contracts/vero-admin): proposals    *)
(* identified by a hash of the nonce and the action, approval votes, and   *)
(* execution of the action on the vote that reaches the threshold.         *)
(*                                                                         *)
(* An invocation that panics changes nothing, so that each operation is an *)
(* action whose guards are the panics and early returns of the code.  The  *)
(* hash is the pair it is computed from (sha256 of an injective encoding). *)
(***************************************************************************)
EXTENDS Integers, Sequences, FiniteSets, SequencesExt

CONSTANTS
  Address,      \* accounts, admins or not; require_auth makes each its own caller
  PR,           \* pull request numbers
  AdminVec,     \* the admin vectors that callers may pass, <<>> included
  ThresholdArg, \* the thresholds that callers may pass, 0 included
  MaxNonce,     \* bound: executed proposals
  MaxProposals  \* bound: stored proposals

ASSUME AdminVecAssumption == AdminVec \subseteq Seq(Address)
ASSUME ThresholdArgAssumption == ThresholdArg \subseteq Nat
ASSUME BoundsAssumption == MaxNonce \in Nat /\ MaxProposals \in Nat

VARIABLES
  admins,     \* DataKey::Admins, <<>> until initialised; a Vec may repeat an address
  threshold,  \* DataKey::Threshold
  nonce,      \* DataKey::Nonce
  tasks,      \* the keys DataKey::Task(pr) that are set
  proposals   \* DataKey::Proposal: a function on the hashes proposed so far

registry == <<admins, threshold, tasks>>
vars == <<registry, nonce, proposals>>

AdminAction ==      {<<"RegisterTask", pr>> : pr \in PR}
               \cup {<<"PurgeTask", pr>> : pr \in PR}
               \cup {<<"UpdateThreshold", m>> : m \in ThresholdArg}
               \cup {<<"UpdateAdmins", vec>> : vec \in AdminVec}

Hash(n, action) == <<n, action>>
Hashes == DOMAIN proposals
IsAdmin(a) == a \in ToSet(admins)

Init == /\ admins = <<>>
        /\ threshold = 0
        /\ nonce = 0
        /\ tasks = {}
        /\ proposals = <<>>

\* DataKey::Admins is set.  No proposal is stored before it is.
Initialised == admins # <<>> \/ Hashes # {}

EmptyAccepted(vec) == TRUE  \* mutant

\* ~vec.is_empty(), else EmptyAdminSet.
NotEmpty(vec) == vec # <<>>

\* Anyone may call it, once.
Initialize(vec, m) == /\ ~Initialised
                      /\ NotEmpty(vec)
                      /\ m # 0 /\ m <= Len(vec)
                      /\ admins' = vec
                      /\ threshold' = m
                      /\ nonce' = 0
                      /\ UNCHANGED <<tasks, proposals>>

\* The proposer's approval is counted, but reaching the threshold with it
\* executes nothing.
Propose(a, action) ==
  LET h == Hash(nonce, action) IN
  /\ IsAdmin(a)
  /\ h \notin Hashes
  /\ Cardinality(Hashes) < MaxProposals
  /\ proposals' = [g \in Hashes \cup {h} |->
                     IF g = h THEN [approvals |-> <<a>>, executed |-> FALSE] ELSE proposals[g]]
  /\ UNCHANGED <<registry, nonce>>

KeepMargin(m, vec) == m - (Len(admins) - Len(vec))  \* mutant
Clamped(m, vec) == IF m > Len(vec) THEN Len(vec) ELSE m

\* execute_action.  What an action is made of is checked here, not when it is
\* proposed: the vote that would execute it panics, and is not stored either.
ExecuteAction(action) ==
  LET arg == action[2] IN
  \/ /\ action[1] = "RegisterTask"
     /\ tasks' = tasks \cup {arg}
     /\ UNCHANGED <<admins, threshold>>
  \/ /\ action[1] = "PurgeTask"
     /\ tasks' = tasks \ {arg}
     /\ UNCHANGED <<admins, threshold>>
  \/ /\ action[1] = "UpdateThreshold"
     /\ arg # 0 /\ arg <= Len(admins)
     /\ threshold' = arg
     /\ UNCHANGED <<admins, tasks>>
  \/ /\ action[1] = "UpdateAdmins"
     /\ NotEmpty(arg)
     /\ admins' = arg
     /\ threshold' = Clamped(threshold, arg)
     /\ UNCHANGED tasks

ForgetsVotes(a, h) == FALSE  \* mutant
Voted(a, h) == a \in ToSet(proposals[h].approvals)

\* approve_action up to its decision: a second vote returns false.
Vote(a, h, executed) ==
  LET approvals == Append(proposals[h].approvals, a) IN
  /\ IsAdmin(a)
  /\ h \in Hashes
  /\ ~proposals[h].executed
  /\ ~Voted(a, h)
  /\ executed <=> Len(approvals) >= threshold
  /\ proposals' = [proposals EXCEPT ![h] = [approvals |-> approvals, executed |-> executed]]

\* mutant: the action is executed on every vote
ExecuteEagerly(a, h) == /\ Vote(a, h, FALSE)
                        /\ ExecuteAction(h[2])
                        /\ UNCHANGED nonce

Approve(a, h) == /\ Vote(a, h, FALSE)
                 /\ UNCHANGED <<registry, nonce>>

\* mutant: the nonce stays
ExecuteUncounted(a, h) == /\ Vote(a, h, TRUE)
                          /\ ExecuteAction(h[2])
                          /\ UNCHANGED nonce

ApproveAndExecute(a, h) == /\ Vote(a, h, TRUE)
                           /\ ExecuteAction(h[2])
                           /\ nonce < MaxNonce
                           /\ nonce' = nonce + 1

Next == \/ \E vec \in AdminVec, m \in ThresholdArg : Initialize(vec, m)
        \/ \E a \in Address, action \in AdminAction : Propose(a, action)
        \/ \E a \in Address, h \in Hashes : Approve(a, h)
        \/ \E a \in Address, h \in Hashes : ApproveAndExecute(a, h)

Spec == Init /\ [][Next]_vars
-----------------------------------------------------------------------------
\* Properties

Executed == {h \in Hashes : proposals[h].executed}

Proposal == [approvals : Seq(Address), executed : BOOLEAN]

\* Types of the contract's storage.
TypeOK == /\ admins \in AdminVec \cup {<<>>}
          /\ threshold \in Nat
          /\ nonce \in Nat
          /\ tasks \subseteq PR
          /\ Hashes \subseteq Nat \X AdminAction
          /\ proposals \in [Hashes -> Proposal]

\* Once initialised, the threshold is never 0 nor more than the number of admin
\* entries, though a threshold is validated against the admins of the moment of
\* execution, the admins may be replaced under it, and an empty vector may be
\* proposed as any other (admin.rs:172-193).
ThresholdInRange == Initialised => 1 <= threshold /\ threshold <= Len(admins)

\* The nonce counts the executed proposals, so that no two executions happen at
\* one nonce and no execution goes uncounted (admin.rs:148-152).
NonceCountsExecutions == nonce = Cardinality(Executed)

\* Whoever is counted by the end of a step was counted before or is an admin now.
VotesOfAdmins == \A h \in Hashes' : \A a \in ToSet(proposals'[h].approvals) :
                   IsAdmin(a) \/ (h \in Hashes /\ Voted(a, h))

QuorumComplete == \A h \in Executed' \ Executed :
                    /\ Executed' = Executed \cup {h}
                    /\ Cardinality(ToSet(proposals'[h].approvals)) >= threshold

ByExecution == /\ registry' # registry /\ admins # <<>> => Executed' # Executed
               /\ \A h \in Executed : h \in Hashes' /\ proposals'[h] = proposals[h]

\* No step adds an approval, the proposer's own included, but of an address that is
\* an admin at that moment: every approval that is ever counted was an admin's when
\* it was made.  A proposal is executed only when those approvals are of at least
\* as many distinct addresses as the threshold in force, though the admins and the
\* threshold may have changed between them, and one at a time (admin.rs:87-88,
\* 120-152).
ExecutionNeedsQuorum == [][VotesOfAdmins /\ QuorumComplete]_vars

\* After initialisation admins, threshold and tasks change only as the effect
\* of an execution, and an executed proposal stays as it is for good: neither
\* voted on, nor executed, nor proposed again (admin.rs:93-100, 132-134).
ChangeOnlyByExecution == [][ByExecution]_vars

\* lib.rs:68: "Executes the action immediately when the M threshold is reached":
\* a proposal that has the threshold's number of approvals has been executed.
ThresholdReachedExecutes ==
  \A h \in Hashes : Len(proposals[h].approvals) >= threshold => proposals[h].executed
=============================================================================
