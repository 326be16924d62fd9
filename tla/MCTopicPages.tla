---------------------------- MODULE MCTopicPages ----------------------------
(***************************************************************************)
(* Four names, the third of them not valid, topics of one or three         *)
(* partitions, and pages that end inside a topic, at the end of one, and   *)
(* on the last partition of all.                                           *)
(***************************************************************************)
EXTENDS TopicPages

CONSTANTS i1, i2, i3

MCName == 1..4
MCInvalidName == {3}
MCTopicId == {i1, i2, i3}
MCAsked == {{}, {1, 3, 4}, {2}}
MCLimit == {0, 2, 3}
MCFirstCursor == {NoCursor, [name |-> 1, partition |-> 1], [name |-> 2, partition |-> -1],
                  [name |-> 3, partition |-> 5]}
MCPartitionCounts == {1, 3}
=============================================================================
