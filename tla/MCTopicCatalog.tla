--------------------------- MODULE MCTopicCatalog ---------------------------
(***************************************************************************)
(* Three connections, two valid topic names with an id for each, and one   *)
(* name that is not valid.                                                 *)
(***************************************************************************)
EXTENDS TopicCatalog, TLC

CONSTANTS c1, c2, c3, i1, i2

MCName == {1, 2, 3}
MCInvalidName == {2}
MCTopicId == {i1, i2}
MCConnection == {c1, c2, c3}

ByName(name) == [name |-> name, id |-> NilId]
ById(id) == [name |-> NoName, id |-> id]

Ask(version, allow, topics) ==
  [version |-> version, all |-> FALSE, allow |-> allow, topics |-> topics]

MCMetadataRequest ==
  {[version |-> 12, all |-> TRUE, allow |-> TRUE, topics |-> <<>>],
   Ask(12, TRUE, <<ByName(2), ByName(1)>>),
   Ask(9, FALSE, <<ByName(1), ByName(2), ByName(1)>>),
   Ask(9, FALSE, <<ById(NilId), ByName(3)>>),
   Ask(11, TRUE, <<ById(NilId), ByName(1)>>),
   Ask(12, TRUE, <<ById(NilId)>>)}
  \cup {Ask(12, TRUE, <<ById(i), ByName(1), ById(i)>>) : i \in MCTopicId}

MCProduceTopic == {[name |-> 1, partition |-> 0], [name |-> 3, partition |-> 1],
                   [name |-> 2, partition |-> 0]}

Creatable(name, partitions, replication, error, validate_only) ==
  [name |-> name, partitions |-> partitions, replication |-> replication,
   error |-> error, validate_only |-> validate_only]

MCCreatableTopic ==
  {Creatable(1, 2, 1, "None", FALSE), Creatable(1, 2, 1, "None", TRUE),
   Creatable(2, 1, 1, "None", FALSE), Creatable(3, 0, 1, "None", FALSE),
   Creatable(3, 1, 2, "None", FALSE), Creatable(3, 1, 1, "InvalidConfig", FALSE)}

Symmetry == Permutations(MCConnection) \cup Permutations(MCTopicId)
=============================================================================
