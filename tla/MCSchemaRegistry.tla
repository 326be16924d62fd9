-------------------------- MODULE MCSchemaRegistry --------------------------
(***************************************************************************)
(* Two subjects and four valid schemas, one more than there are ids.       *)
(***************************************************************************)
EXTENDS SchemaRegistry, TLC

CONSTANTS s1, s2, t1, t2, t3, t4, t5

MCSubject == {s1, s2}
MCSchema == {t1, t2, t3, t4, t5}
MCValidSchema == {t1, t2, t3, t4}

Symmetry == Permutations(MCSubject) \cup Permutations(MCValidSchema)
=============================================================================
