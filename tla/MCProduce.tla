----------------------------- MODULE MCProduce -----------------------------
(***************************************************************************)
(* A small instance of IdempotentProduce.  One producer with five sends,   *)
(* one of them of two batches, so that its sequence numbers wrap; another  *)
(* one with a single send; a retry history as long as the sends in flight. *)
(***************************************************************************)
EXTENDS IdempotentProduce

MCLayout == <<<<2>>, <<1, 1>>, <<1>>, <<2>>, <<1>>>>
MCSends  == <<5, 1>>
=============================================================================
