------------------------------ MODULE MCServer ------------------------------
(***************************************************************************)
(* Two Kafka listeners, the schema registry, and two connections at a      *)
(* time.                                                                   *)
(***************************************************************************)
EXTENDS Server

CONSTANTS l1, l2, s1, s2

MCListener == {l1, l2}
MCSlot == {s1, s2}
=============================================================================
