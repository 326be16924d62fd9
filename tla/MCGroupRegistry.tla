-------------------------- MODULE MCGroupRegistry ---------------------------
(***************************************************************************)
(* Three connections that race for two group ids, with room for as many    *)
(* objects as there are connections.                                       *)
(***************************************************************************)
EXTENDS GroupRegistry, TLC

CONSTANTS c1, c2, c3, g1, g2

MCCaller == {c1, c2, c3}
MCGroupId == {g1, g2}
=============================================================================
