---------------------------- MODULE MCBackground ----------------------------
(***************************************************************************)
(* Background with one connection, two runs of the watcher at a time, one  *)
(* transaction and one task; the services are taken in three groups.       *)
(***************************************************************************)
EXTENDS Background, TLC

CONSTANTS w1, w2, p1, t1, k1

JobOfC == (w1 :> "watcher") @@ (w2 :> "watcher") @@ (p1 :> "purge")
StartedC == {{"watcher", "purge"}, {"purge", "alerts"}, {"heartbeat", "alerts"}}
=============================================================================
