---------------------------- MODULE MCEventQueue ----------------------------
(***************************************************************************)
(* EventQueue with one job that two deliveries share, one of them without  *)
(* a pull request number, and two workers of one slot each.                *)
(***************************************************************************)
EXTENDS EventQueue

CONSTANTS d1, d2, j1, w1, w2, s1, s2

JobOfC == [d \in Delivery |-> j1]
WorkerOfC == [s \in Slot |-> IF s = s2 THEN w2 ELSE w1]
=============================================================================
