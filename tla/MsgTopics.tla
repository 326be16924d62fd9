------------------------------ MODULE MsgTopics ------------------------------
(***************************************************************************)
(* The schemas of the messages about topics: metadata, creation and        *)
(* deletion, partitions and their replicas.  Each definition is one struct *)
(* of kafka-protocol/src/messages/<file>.rs: the versions that it is valid *)
(* for, the flexible ones among them, and its fields in the order in which *)
(* they are written, with the default that impl Default gives them.        *)
(***************************************************************************)
EXTENDS WireCodec

\* alter_partition_reassignments_request.rs
ReassignablePartition == Struct(0..1, 0..1, <<
  Field("partition_index", Int32, 0),
  Field("replicas", Opt(Array(Int32)), None)>>)
ReassignableTopic == Struct(0..1, 0..1, <<
  Field("name", Str, Empty),
  Field("partitions", Array(Of(ReassignablePartition)), Empty)>>)
AlterPartitionReassignmentsRequest == Struct(0..1, 0..1, <<
  Field("timeout_ms", Int32, 60000),
  StrictIn({1}, "allow_replication_factor_change", Boolean, TRUE),
  Field("topics", Array(Of(ReassignableTopic)), Empty)>>)

\* alter_partition_reassignments_response.rs
ReassignablePartitionResponse == Struct(0..1, 0..1, <<
  Field("partition_index", Int32, 0),
  Field("error_code", Int16, 0),
  Field("error_message", Opt(Str), Some(Empty))>>)
ReassignableTopicResponse == Struct(0..1, 0..1, <<
  Field("name", Str, Empty),
  Field("partitions", Array(Of(ReassignablePartitionResponse)), Empty)>>)
AlterPartitionReassignmentsResponse == Struct(0..1, 0..1, <<
  Field("throttle_time_ms", Int32, 0),
  FieldIn({1}, "allow_replication_factor_change", Boolean, TRUE),
  Field("error_code", Int16, 0),
  Field("error_message", Opt(Str), Some(Empty)),
  Field("responses", Array(Of(ReassignableTopicResponse)), Empty)>>)

\* alter_partition_request.rs
BrokerState == Struct(2..3, 2..3, <<
  StrictIn({3}, "broker_id", Int32, 0),
  StrictIn({3}, "broker_epoch", Int64, Long(-1))>>)
AlterPartitionRequestPartitionData == Struct(2..3, 2..3, <<
  Field("partition_index", Int32, 0),
  Field("leader_epoch", Int32, 0),
  StrictIn({2}, "new_isr", Array(Int32), Empty),
  StrictIn({3}, "new_isr_with_epochs", Array(Of(BrokerState)), Empty),
  Field("leader_recovery_state", Int8, 0),
  Field("partition_epoch", Int32, 0)>>)
AlterPartitionRequestTopicData == Struct(2..3, 2..3, <<
  Field("topic_id", Uuid, NilUuid),
  Field("partitions", Array(Of(AlterPartitionRequestPartitionData)), Empty)>>)
AlterPartitionRequest == Struct(2..3, 2..3, <<
  Field("broker_id", Int32, 0),
  Field("broker_epoch", Int64, Long(-1)),
  Field("topics", Array(Of(AlterPartitionRequestTopicData)), Empty)>>)

\* alter_partition_response.rs
AlterPartitionResponsePartitionData == Struct(2..3, 2..3, <<
  Field("partition_index", Int32, 0),
  Field("error_code", Int16, 0),
  Field("leader_id", Int32, 0),
  Field("leader_epoch", Int32, 0),
  Field("isr", Array(Int32), Empty),
  Field("leader_recovery_state", Int8, 0),
  Field("partition_epoch", Int32, 0)>>)
AlterPartitionResponseTopicData == Struct(2..3, 2..3, <<
  Field("topic_id", Uuid, NilUuid),
  Field("partitions", Array(Of(AlterPartitionResponsePartitionData)), Empty)>>)
AlterPartitionResponse == Struct(2..3, 2..3, <<
  Field("throttle_time_ms", Int32, 0),
  Field("error_code", Int16, 0),
  Field("topics", Array(Of(AlterPartitionResponseTopicData)), Empty)>>)

\* alter_replica_log_dirs_request.rs
AlterReplicaLogDirTopic == Struct(1..2, {2}, <<
  Field("name", Str, Empty),
  Field("partitions", Array(Int32), Empty)>>)
AlterReplicaLogDir == Struct(1..2, {2}, <<
  Field("path", Str, Empty),
  Field("topics", Array(Of(AlterReplicaLogDirTopic)), Empty)>>)
AlterReplicaLogDirsRequest == Struct(1..2, {2}, <<
  Field("dirs", Array(Of(AlterReplicaLogDir)), Empty)>>)

\* alter_replica_log_dirs_response.rs
AlterReplicaLogDirPartitionResult == Struct(1..2, {2}, <<
  Field("partition_index", Int32, 0),
  Field("error_code", Int16, 0)>>)
AlterReplicaLogDirTopicResult == Struct(1..2, {2}, <<
  Field("topic_name", Str, Empty),
  Field("partitions", Array(Of(AlterReplicaLogDirPartitionResult)), Empty)>>)
AlterReplicaLogDirsResponse == Struct(1..2, {2}, <<
  Field("throttle_time_ms", Int32, 0),
  Field("results", Array(Of(AlterReplicaLogDirTopicResult)), Empty)>>)

\* assign_replicas_to_dirs_request.rs
AssignReplicasToDirsRequestPartitionData == Struct({0}, {0}, <<
  Field("partition_index", Int32, 0)>>)
AssignReplicasToDirsRequestTopicData == Struct({0}, {0}, <<
  Field("topic_id", Uuid, NilUuid),
  Field("partitions", Array(Of(AssignReplicasToDirsRequestPartitionData)), Empty)>>)
AssignReplicasToDirsRequestDirectoryData == Struct({0}, {0}, <<
  Field("id", Uuid, NilUuid),
  Field("topics", Array(Of(AssignReplicasToDirsRequestTopicData)), Empty)>>)
AssignReplicasToDirsRequest == Struct({0}, {0}, <<
  Field("broker_id", Int32, 0),
  Field("broker_epoch", Int64, Long(-1)),
  Field("directories", Array(Of(AssignReplicasToDirsRequestDirectoryData)), Empty)>>)

\* assign_replicas_to_dirs_response.rs
AssignReplicasToDirsResponsePartitionData == Struct({0}, {0}, <<
  Field("partition_index", Int32, 0),
  Field("error_code", Int16, 0)>>)
AssignReplicasToDirsResponseTopicData == Struct({0}, {0}, <<
  Field("topic_id", Uuid, NilUuid),
  Field("partitions", Array(Of(AssignReplicasToDirsResponsePartitionData)), Empty)>>)
AssignReplicasToDirsResponseDirectoryData == Struct({0}, {0}, <<
  Field("id", Uuid, NilUuid),
  Field("topics", Array(Of(AssignReplicasToDirsResponseTopicData)), Empty)>>)
AssignReplicasToDirsResponse == Struct({0}, {0}, <<
  Field("throttle_time_ms", Int32, 0),
  Field("error_code", Int16, 0),
  Field("directories", Array(Of(AssignReplicasToDirsResponseDirectoryData)), Empty)>>)

\* create_partitions_request.rs
CreatePartitionsAssignment == Struct(0..3, 2..3, <<Field("broker_ids", Array(Int32), Empty)>>)
CreatePartitionsTopic == Struct(0..3, 2..3, <<
  Field("name", Str, Empty),
  Field("count", Int32, 0),
  Field("assignments", Opt(Array(Of(CreatePartitionsAssignment))), Some(Empty))>>)
CreatePartitionsRequest == Struct(0..3, 2..3, <<
  Field("topics", Array(Of(CreatePartitionsTopic)), Empty),
  Field("timeout_ms", Int32, 0),
  Field("validate_only", Boolean, FALSE)>>)

\* create_partitions_response.rs
CreatePartitionsTopicResult == Struct(0..3, 2..3, <<
  Field("name", Str, Empty),
  Field("error_code", Int16, 0),
  Field("error_message", Opt(Str), None)>>)
CreatePartitionsResponse == Struct(0..3, 2..3, <<
  Field("throttle_time_ms", Int32, 0),
  Field("results", Array(Of(CreatePartitionsTopicResult)), Empty)>>)

\* create_topics_request.rs
CreatableReplicaAssignment == Struct(2..7, 5..7, <<
  Field("partition_index", Int32, 0),
  Field("broker_ids", Array(Int32), Empty)>>)
CreatableTopicConfig == Struct(2..7, 5..7, <<
  Field("name", Str, Empty),
  Field("value", Opt(Str), Some(Empty))>>)
CreatableTopic == Struct(2..7, 5..7, <<
  Field("name", Str, Empty),
  Field("num_partitions", Int32, 0),
  Field("replication_factor", Int16, 0),
  Field("assignments", Array(Of(CreatableReplicaAssignment)), Empty),
  Field("configs", Array(Of(CreatableTopicConfig)), Empty)>>)
CreateTopicsRequest == Struct(2..7, 5..7, <<
  Field("topics", Array(Of(CreatableTopic)), Empty),
  Field("timeout_ms", Int32, 60000),
  Field("validate_only", Boolean, FALSE)>>)

\* create_topics_response.rs
CreatableTopicConfigs == Struct(2..7, 5..7, <<
  StrictIn(5..7, "name", Str, Empty),
  StrictIn(5..7, "value", Opt(Str), Some(Empty)),
  StrictIn(5..7, "read_only", Boolean, FALSE),
  FieldIn(5..7, "config_source", Int8, -1),
  StrictIn(5..7, "is_sensitive", Boolean, FALSE)>>)
CreatableTopicResult == Struct(2..7, 5..7, <<
  Field("name", Str, Empty),
  FieldIn({7}, "topic_id", Uuid, NilUuid),
  Field("error_code", Int16, 0),
  Field("error_message", Opt(Str), Some(Empty)),
  TaggedIn(5..7, 0, "topic_config_error_code", Int16, 0),
  FieldIn(5..7, "num_partitions", Int32, -1),
  FieldIn(5..7, "replication_factor", Int16, -1),
  FieldIn(5..7, "configs", Opt(Array(Of(CreatableTopicConfigs))), Some(Empty))>>)
CreateTopicsResponse == Struct(2..7, 5..7, <<
  Field("throttle_time_ms", Int32, 0),
  Field("topics", Array(Of(CreatableTopicResult)), Empty)>>)

\* delete_topics_request.rs
DeleteTopicState == Struct(1..6, 4..6, <<
  StrictIn({6}, "name", Opt(Str), None),
  StrictIn({6}, "topic_id", Uuid, NilUuid)>>)
DeleteTopicsRequest == Struct(1..6, 4..6, <<
  StrictIn({6}, "topics", Array(Of(DeleteTopicState)), Empty),
  FieldIn(1..5, "topic_names", Array(Str), Empty),
  Field("timeout_ms", Int32, 0)>>)

\* delete_topics_response.rs
DeletableTopicResult == Struct(1..6, 4..6, <<
  Field("name", Opt(Str), Some(Empty)),
  FieldIn({6}, "topic_id", Uuid, NilUuid),
  Field("error_code", Int16, 0),
  FieldIn(5..6, "error_message", Opt(Str), None)>>)
DeleteTopicsResponse == Struct(1..6, 4..6, <<
  Field("throttle_time_ms", Int32, 0),
  Field("responses", Array(Of(DeletableTopicResult)), Empty)>>)

\* describe_log_dirs_request.rs
DescribableLogDirTopic == Struct(1..5, 2..5, <<
  Field("topic", Str, Empty),
  Field("partitions", Array(Int32), Empty)>>)
DescribeLogDirsRequest == Struct(1..5, 2..5, <<
  Field("topics", Opt(Array(Of(DescribableLogDirTopic))), Some(Empty))>>)

\* describe_log_dirs_response.rs
DescribeLogDirsPartition == Struct(1..5, 2..5, <<
  Field("partition_index", Int32, 0),
  Field("partition_size", Int64, Long(0)),
  Field("offset_lag", Int64, Long(0)),
  Field("is_future_key", Boolean, FALSE)>>)
DescribeLogDirsTopic == Struct(1..5, 2..5, <<
  Field("name", Str, Empty),
  Field("partitions", Array(Of(DescribeLogDirsPartition)), Empty)>>)
DescribeLogDirsResult == Struct(1..5, 2..5, <<
  Field("error_code", Int16, 0),
  Field("log_dir", Str, Empty),
  Field("topics", Array(Of(DescribeLogDirsTopic)), Empty),
  FieldIn(4..5, "total_bytes", Int64, Long(-1)),
  FieldIn(4..5, "usable_bytes", Int64, Long(-1)),
  FieldIn({5}, "is_cordoned", Boolean, FALSE)>>)
DescribeLogDirsResponse == Struct(1..5, 2..5, <<
  Field("throttle_time_ms", Int32, 0),
  FieldIn(3..5, "error_code", Int16, 0),
  Field("results", Array(Of(DescribeLogDirsResult)), Empty)>>)

\* describe_topic_partitions_request.rs
DescribeTopicPartitionsRequestCursor == Struct({0}, {0}, <<
  Field("topic_name", Str, Empty),
  Field("partition_index", Int32, 0)>>)
DescribeTopicPartitionsRequestTopicRequest == Struct({0}, {0}, <<Field("name", Str, Empty)>>)
DescribeTopicPartitionsRequest == Struct({0}, {0}, <<
  Field("topics", Array(Of(DescribeTopicPartitionsRequestTopicRequest)), Empty),
  Field("response_partition_limit", Int32, 2000),
  Field("cursor", Opt(Of(DescribeTopicPartitionsRequestCursor)), None)>>)

\* describe_topic_partitions_response.rs
DescribeTopicPartitionsResponseCursor == Struct({0}, {0}, <<
  Field("topic_name", Str, Empty),
  Field("partition_index", Int32, 0)>>)
DescribeTopicPartitionsResponsePartition == Struct({0}, {0}, <<
  Field("error_code", Int16, 0),
  Field("partition_index", Int32, 0),
  Field("leader_id", Int32, 0),
  Field("leader_epoch", Int32, -1),
  Field("replica_nodes", Array(Int32), Empty),
  Field("isr_nodes", Array(Int32), Empty),
  Field("eligible_leader_replicas", Opt(Array(Int32)), None),
  Field("last_known_elr", Opt(Array(Int32)), None),
  Field("offline_replicas", Array(Int32), Empty)>>)
DescribeTopicPartitionsResponseTopic == Struct({0}, {0}, <<
  Field("error_code", Int16, 0),
  Field("name", Opt(Str), Some(Empty)),
  Field("topic_id", Uuid, NilUuid),
  Field("is_internal", Boolean, FALSE),
  Field("partitions", Array(Of(DescribeTopicPartitionsResponsePartition)), Empty),
  Field("topic_authorized_operations", Int32, MinInt32)>>)
DescribeTopicPartitionsResponse == Struct({0}, {0}, <<
  Field("throttle_time_ms", Int32, 0),
  Field("topics", Array(Of(DescribeTopicPartitionsResponseTopic)), Empty),
  Field("next_cursor", Opt(Of(DescribeTopicPartitionsResponseCursor)), None)>>)

\* elect_leaders_request.rs
ElectLeadersRequestTopicPartitions == Struct(0..2, {2}, <<
  Field("topic", Str, Empty),
  Field("partitions", Array(Int32), Empty)>>)
ElectLeadersRequest == Struct(0..2, {2}, <<
  StrictIn(1..2, "election_type", Int8, 0),
  Field("topic_partitions", Opt(Array(Of(ElectLeadersRequestTopicPartitions))), Some(Empty)),
  Field("timeout_ms", Int32, 60000)>>)

\* elect_leaders_response.rs
ElectLeadersResponsePartitionResult == Struct(0..2, {2}, <<
  Field("partition_id", Int32, 0),
  Field("error_code", Int16, 0),
  Field("error_message", Opt(Str), Some(Empty))>>)
ReplicaElectionResult == Struct(0..2, {2}, <<
  Field("topic", Str, Empty),
  Field("partition_result", Array(Of(ElectLeadersResponsePartitionResult)), Empty)>>)
ElectLeadersResponse == Struct(0..2, {2}, <<
  Field("throttle_time_ms", Int32, 0),
  StrictIn(1..2, "error_code", Int16, 0),
  Field("replica_election_results", Array(Of(ReplicaElectionResult)), Empty)>>)

\* list_partition_reassignments_request.rs
ListPartitionReassignmentsTopics == Struct({0}, {0}, <<
  Field("name", Str, Empty),
  Field("partition_indexes", Array(Int32), Empty)>>)
ListPartitionReassignmentsRequest == Struct({0}, {0}, <<
  Field("timeout_ms", Int32, 60000),
  Field("topics", Opt(Array(Of(ListPartitionReassignmentsTopics))), None)>>)

\* list_partition_reassignments_response.rs
OngoingPartitionReassignment == Struct({0}, {0}, <<
  Field("partition_index", Int32, 0),
  Field("replicas", Array(Int32), Empty),
  Field("adding_replicas", Array(Int32), Empty),
  Field("removing_replicas", Array(Int32), Empty)>>)
OngoingTopicReassignment == Struct({0}, {0}, <<
  Field("name", Str, Empty),
  Field("partitions", Array(Of(OngoingPartitionReassignment)), Empty)>>)
ListPartitionReassignmentsResponse == Struct({0}, {0}, <<
  Field("throttle_time_ms", Int32, 0),
  Field("error_code", Int16, 0),
  Field("error_message", Opt(Str), Some(Empty)),
  Field("topics", Array(Of(OngoingTopicReassignment)), Empty)>>)

\* metadata_request.rs
MetadataRequestTopic == Struct(0..13, 9..13, <<
  FieldIn(10..13, "topic_id", Uuid, NilUuid),
  Field("name", Opt(Str), Some(Empty))>>)
MetadataRequest == Struct(0..13, 9..13, <<
  Field("topics", Opt(Array(Of(MetadataRequestTopic))), Some(Empty)),
  StrictIn(4..13, "allow_auto_topic_creation", Boolean, TRUE),
  StrictIn(8..10, "include_cluster_authorized_operations", Boolean, FALSE),
  StrictIn(8..13, "include_topic_authorized_operations", Boolean, FALSE)>>)

\* metadata_response.rs
MetadataResponseBroker == Struct(0..13, 9..13, <<
  Field("node_id", Int32, 0),
  Field("host", Str, Empty),
  Field("port", Int32, 0),
  FieldIn(1..13, "rack", Opt(Str), None)>>)
MetadataResponsePartition == Struct(0..13, 9..13, <<
  Field("error_code", Int16, 0),
  Field("partition_index", Int32, 0),
  Field("leader_id", Int32, 0),
  FieldIn(7..13, "leader_epoch", Int32, -1),
  Field("replica_nodes", Array(Int32), Empty),
  Field("isr_nodes", Array(Int32), Empty),
  FieldIn(5..13, "offline_replicas", Array(Int32), Empty)>>)
MetadataResponseTopic == Struct(0..13, 9..13, <<
  Field("error_code", Int16, 0),
  Field("name", Opt(Str), Some(Empty)),
  FieldIn(10..13, "topic_id", Uuid, NilUuid),
  FieldIn(1..13, "is_internal", Boolean, FALSE),
  Field("partitions", Array(Of(MetadataResponsePartition)), Empty),
  StrictIn(8..13, "topic_authorized_operations", Int32, MinInt32)>>)
MetadataResponse == Struct(0..13, 9..13, <<
  FieldIn(3..13, "throttle_time_ms", Int32, 0),
  Field("brokers", Array(Of(MetadataResponseBroker)), Empty),
  FieldIn(2..13, "cluster_id", Opt(Str), None),
  FieldIn(1..13, "controller_id", Int32, -1),
  Field("topics", Array(Of(MetadataResponseTopic)), Empty),
  StrictIn(8..10, "cluster_authorized_operations", Int32, MinInt32),
  FieldIn({13}, "error_code", Int16, 0)>>)

=============================================================================
