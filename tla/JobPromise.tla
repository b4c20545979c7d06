----------------------------- MODULE JobPromise -----------------------------
(***************************************************************************)
(* What the event queue promises of a job, with slots, workers, locks,     *)
(* retries, stalls and the network left out (queue/event-queue.js,         *)
(* workers/event-worker.js).                                               *)
(*                                                                         *)
(*   - a job is pending from its addition until it completes or is given   *)
(*     up, and is forgotten only after that; adding it in between changes  *)
(*     nothing, and neither outcome is ever revised;                       *)
(*   - a job completes only after it has been registered on the ledger;    *)
(*   - it is registered a bounded number of times, and not at all without  *)
(*     a usable payload;                                                   *)
(*   - a job that was given up says nothing: it may have been registered,  *)
(*     or be registered later, while it is known.                          *)
(***************************************************************************)
EXTENDS Naturals

CONSTANTS Job,
          Limit  \* most registrations of one job

VARIABLES status,     \* of each job: absent, pending, completed or failed
          usable,     \* jobs with a usable payload
          registered  \* registrations of each job on the ledger

jvars == <<status, usable, registered>>

Init == /\ status = [j \in Job |-> "absent"]
        /\ usable = {}
        /\ registered = [j \in Job |-> 0]

Becomes(j, s) == status' = [status EXCEPT ![j] = s]

Add(j) == /\ status[j] = "absent"
          /\ Becomes(j, "pending")
          /\ usable' \in {usable \cup {j}, usable \ {j}}
          /\ UNCHANGED registered

Register(j) == /\ status[j] # "absent"
               /\ j \in usable
               /\ registered[j] < Limit
               /\ registered' = [registered EXCEPT ![j] = @ + 1]
               /\ UNCHANGED <<status, usable>>

Complete(j) == /\ status[j] = "pending"
               /\ registered[j] > 0
               /\ Becomes(j, "completed")
               /\ UNCHANGED <<usable, registered>>

GiveUp(j) == /\ status[j] = "pending"
             /\ Becomes(j, "failed")
             /\ UNCHANGED <<usable, registered>>

Forget(j) == /\ status[j] \in {"completed", "failed"}
             /\ Becomes(j, "absent")
             /\ registered' = [registered EXCEPT ![j] = 0]
             /\ UNCHANGED usable

Next == \E j \in Job : Add(j) \/ Register(j) \/ Complete(j) \/ GiveUp(j) \/ Forget(j)

Spec == Init /\ [][Next]_jvars
=============================================================================
