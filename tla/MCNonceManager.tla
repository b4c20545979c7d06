--------------------------- MODULE MCNonceManager ---------------------------
(***************************************************************************)
(* NonceManager on two worker processes of one pooled connection each: one *)
(* that runs two calls, one that runs a single call.                       *)
(***************************************************************************)
EXTENDS NonceManager

CONSTANTS p1, p2, c1, c2, c3, k1, k3

ProcOfC == [x \in Call \cup Conn |-> IF x \in {c3, k3} THEN p2 ELSE p1]
=============================================================================
