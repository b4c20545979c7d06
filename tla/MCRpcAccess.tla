----------------------------- MODULE MCRpcAccess -----------------------------
(***************************************************************************)
(* RpcAccess with two processes that look up at the same time.             *)
(***************************************************************************)
EXTENDS RpcAccess, TLC

CONSTANTS p1, p2, c1, c2

OwnerC == (c1 :> p1) @@ (c2 :> p2)
=============================================================================
