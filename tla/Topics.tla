------------------------------- MODULE Topics -------------------------------
(***************************************************************************)
(* The state of the topic catalogue (src/broker/topics.rs) as a            *)
(* record: topics by name, and names by topic id.  One operator for each   *)
(* computation that the code runs under one acquisition of the             *)
(* catalogue's lock.  Names are numbers, ordered as the BTreeMap orders    *)
(* them; InvalidName are those that validate_name refuses.                 *)
(*                                                                         *)
(* The operators named Faulty... are slips the code avoids; they show      *)
(* which property would notice.                                            *)
(***************************************************************************)
EXTENDS Integers

CONSTANTS
  Name,               \* topic names
  InvalidName,        \* those among them that are not valid
  TopicId,            \* UUIDs other than the nil UUID
  DefaultPartitions   \* partitions of a topic created automatically

ASSUME NameAssumption == Name \subseteq Nat /\ InvalidName \subseteq Name
ASSUME DefaultAssumption == DefaultPartitions \in Nat \ {0}

ValidName == Name \ InvalidName

NewCatalog == [topics |-> [n \in {} |-> n], names_by_id |-> [i \in {} |-> i]]

Exists(catalog, name) == name \in DOMAIN catalog.topics

\* get: a name that is not valid names no topic.
Found(catalog, name) == name \in ValidName /\ Exists(catalog, name)

\* A slip: the id is not compared with those in use.
FaultyFreshIds(catalog) == TopicId

\* next_topic_id draws until the id is neither nil nor in use.
FreshIds(catalog) == TopicId \ DOMAIN catalog.names_by_id

\* insert_topic, which overwrites an entry of the same name.
InsertTopic(catalog, name, partition_count, id) ==
  [topics |-> [n \in DOMAIN catalog.topics \cup {name} |->
                 IF n = name THEN [id |-> id, partitions |-> partition_count]
                 ELSE catalog.topics[n]],
   names_by_id |-> [i \in DOMAIN catalog.names_by_id \cup {id} |->
                      IF i = id THEN name ELSE catalog.names_by_id[i]]]

\* validate_explicit_definition.
DefinitionError(name, partitions, replication_factor) ==
  CASE name \notin ValidName -> "InvalidTopicException"
    [] name \in ValidName /\ partitions <= 0 -> "InvalidPartitions"
    [] name \in ValidName /\ partitions > 0 /\ replication_factor # 1
         -> "InvalidReplicationFactor"
    [] OTHER -> "None"

\* A slip: an existing topic is no reason to refuse.
FaultyExplicitError(catalog, name, partitions, replication_factor) ==
  DefinitionError(name, partitions, replication_factor)

\* Why create_explicit and validate_explicit refuse, if they do.
ExplicitError(catalog, name, partitions, replication_factor) ==
  IF DefinitionError(name, partitions, replication_factor) # "None"
  THEN DefinitionError(name, partitions, replication_factor)
  ELSE IF Exists(catalog, name) THEN "TopicAlreadyExists" ELSE "None"
=============================================================================
