----------------------------- MODULE MCVeroAdmin -----------------------------
(***************************************************************************)
(* VeroAdmin with three accounts; the admin vectors are one of all three,  *)
(* a single admin, one that repeats an address, and the empty one.         *)
(***************************************************************************)
EXTENDS VeroAdmin

CONSTANTS a1, a2, a3

AdminVecC == {<<>>, <<a1, a2, a3>>, <<a3>>, <<a2, a2>>}
=============================================================================
