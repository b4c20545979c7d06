----------------------------- MODULE TaskLedger -----------------------------
(***************************************************************************)
(* What a submission call of the relayer promises, with locks, sessions,   *)
(* sequence numbers, retries and the network left out.  A call is a        *)
(* concurrent user of submitTransaction (stellar.js); each of its attempts *)
(* is one invocation.  The ledger is the list of attempts whose            *)
(* transaction the Stellar network has applied.                            *)
(*                                                                         *)
(*   - an attempt is recorded at most once, whatever is resent;            *)
(*   - an attempt that resolves has been recorded;                         *)
(*   - an attempt that rejects says nothing: it may have been recorded,    *)
(*     or be recorded later.                                               *)
(***************************************************************************)
EXTENDS Naturals, Sequences, SequencesExt

CONSTANTS Call, MaxCalls

VARIABLES attempt,    \* attempt[c]: how many times c has been invoked
          running,    \* the calls whose current attempt has not settled
          recorded,   \* the attempts on the ledger, in order
          resolved,   \* attempts whose promise resolved with a hash
          rejected    \* attempts whose promise rejected, or died with its process

tvars == <<attempt, running, recorded, resolved, rejected>>

Init == /\ attempt = [c \in Call |-> 0]
        /\ running = {}
        /\ recorded = <<>>
        /\ resolved = {}
        /\ rejected = {}

Current(c) == <<c, attempt[c]>>

Invoke(c) == /\ c \notin running
             /\ attempt[c] < MaxCalls
             /\ attempt' = [attempt EXCEPT ![c] = @ + 1]
             /\ running' = running \cup {c}
             /\ UNCHANGED <<recorded, resolved, rejected>>

\* The network applies a transaction of any attempt made so far: of a running
\* one, or, late, of one whose caller has long been told that it failed.
Record(c, n) == /\ n \in 1..attempt[c]
                /\ <<c, n>> \notin ToSet(recorded)
                /\ recorded' = Append(recorded, <<c, n>>)
                /\ UNCHANGED <<attempt, running, resolved, rejected>>

Resolve(c) == /\ c \in running
              /\ Current(c) \in ToSet(recorded)
              /\ resolved' = resolved \cup {Current(c)}
              /\ running' = running \ {c}
              /\ UNCHANGED <<attempt, recorded, rejected>>

\* One call fails, or all the calls of a crashing process do.
Reject(C) == /\ C \subseteq running
             /\ rejected' = rejected \cup {Current(c) : c \in C}
             /\ running' = running \ C
             /\ UNCHANGED <<attempt, recorded, resolved>>

Next == \/ \E c \in Call : Invoke(c) \/ Resolve(c)
        \/ \E c \in Call, n \in 1..MaxCalls : Record(c, n)
        \/ \E C \in SUBSET Call : Reject(C)

Spec == Init /\ [][Next]_tvars
=============================================================================
