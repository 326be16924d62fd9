------------------------------ MODULE MsgCluster -----------------------------
(***************************************************************************)
(* The schemas of the messages about the cluster: headers, versions,       *)
(* features, brokers, telemetry, the controller quorum and the records of  *)
(* its log.  Each definition is one struct of kafka-                       *)
(* protocol/src/messages/<file>.rs: the versions that it is valid for, the *)
(* flexible ones among them, and its fields in the order in which they are *)
(* written, with the default that impl Default gives them.                 *)
(***************************************************************************)
EXTENDS WireCodec

\* add_raft_voter_request.rs
AddRaftVoterRequestListener == Struct(0..1, 0..1, <<
  Field("name", Str, Empty),
  Field("host", Str, Empty),
  Field("port", UInt16, 0)>>)
AddRaftVoterRequest == Struct(0..1, 0..1, <<
  Field("cluster_id", Opt(Str), Some(Empty)),
  Field("timeout_ms", Int32, 0),
  Field("voter_id", Int32, 0),
  Field("voter_directory_id", Uuid, NilUuid),
  Field("listeners", Array(Of(AddRaftVoterRequestListener)), Empty),
  StrictIn({1}, "ack_when_committed", Boolean, TRUE)>>)

\* add_raft_voter_response.rs
AddRaftVoterResponse == Struct(0..1, 0..1, <<
  Field("throttle_time_ms", Int32, 0),
  Field("error_code", Int16, 0),
  Field("error_message", Opt(Str), Some(Empty))>>)

\* api_versions_request.rs
ApiVersionsRequest == Struct(0..4, 3..4, <<
  FieldIn(3..4, "client_software_name", Str, Empty),
  FieldIn(3..4, "client_software_version", Str, Empty)>>)

\* api_versions_response.rs
ApiVersion == Struct(0..4, 3..4, <<
  Field("api_key", Int16, 0),
  Field("min_version", Int16, 0),
  Field("max_version", Int16, 0)>>)
SupportedFeatureKey == Struct(0..4, 3..4, <<
  StrictIn(3..4, "name", Str, Empty),
  StrictIn(3..4, "min_version", Int16, 0),
  StrictIn(3..4, "max_version", Int16, 0)>>)
FinalizedFeatureKey == Struct(0..4, 3..4, <<
  StrictIn(3..4, "name", Str, Empty),
  StrictIn(3..4, "max_version_level", Int16, 0),
  StrictIn(3..4, "min_version_level", Int16, 0)>>)
ApiVersionsResponse == Struct(0..4, 3..4, <<
  Field("error_code", Int16, 0),
  Field("api_keys", Array(Of(ApiVersion)), Empty),
  FieldIn(1..4, "throttle_time_ms", Int32, 0),
  TaggedIn(3..4, 0, "supported_features", Array(Of(SupportedFeatureKey)), Empty),
  TaggedIn(3..4, 1, "finalized_features_epoch", Int64, Long(-1)),
  TaggedIn(3..4, 2, "finalized_features", Array(Of(FinalizedFeatureKey)), Empty),
  TaggedIn(3..4, 3, "zk_migration_ready", Boolean, FALSE)>>)

\* begin_quorum_epoch_request.rs
BeginQuorumEpochRequestPartitionData == Struct(0..1, {1}, <<
  Field("partition_index", Int32, 0),
  FieldIn({1}, "voter_directory_id", Uuid, NilUuid),
  Field("leader_id", Int32, 0),
  Field("leader_epoch", Int32, 0)>>)
BeginQuorumEpochRequestTopicData == Struct(0..1, {1}, <<
  Field("topic_name", Str, Empty),
  Field("partitions", Array(Of(BeginQuorumEpochRequestPartitionData)), Empty)>>)
BeginQuorumEpochRequestLeaderEndpoint == Struct(0..1, {1}, <<
  StrictIn({1}, "name", Str, Empty),
  StrictIn({1}, "host", Str, Empty),
  StrictIn({1}, "port", UInt16, 0)>>)
BeginQuorumEpochRequest == Struct(0..1, {1}, <<
  Field("cluster_id", Opt(Str), None),
  FieldIn({1}, "voter_id", Int32, -1),
  Field("topics", Array(Of(BeginQuorumEpochRequestTopicData)), Empty),
  FieldIn({1}, "leader_endpoints", Array(Of(BeginQuorumEpochRequestLeaderEndpoint)), Empty)>>)

\* begin_quorum_epoch_response.rs
BeginQuorumEpochResponsePartitionData == Struct(0..1, {1}, <<
  Field("partition_index", Int32, 0),
  Field("error_code", Int16, 0),
  Field("leader_id", Int32, 0),
  Field("leader_epoch", Int32, 0)>>)
BeginQuorumEpochResponseTopicData == Struct(0..1, {1}, <<
  Field("topic_name", Str, Empty),
  Field("partitions", Array(Of(BeginQuorumEpochResponsePartitionData)), Empty)>>)
BeginQuorumEpochResponseNodeEndpoint == Struct(0..1, {1}, <<
  StrictIn({1}, "node_id", Int32, 0),
  StrictIn({1}, "host", Str, Empty),
  StrictIn({1}, "port", UInt16, 0)>>)
BeginQuorumEpochResponse == Struct(0..1, {1}, <<
  Field("error_code", Int16, 0),
  Field("topics", Array(Of(BeginQuorumEpochResponseTopicData)), Empty),
  TaggedIn({1}, 0, "node_endpoints", Array(Of(BeginQuorumEpochResponseNodeEndpoint)), Empty)>>)

\* broker_heartbeat_request.rs
BrokerHeartbeatRequest == Struct(0..2, 0..2, <<
  Field("broker_id", Int32, 0),
  Field("broker_epoch", Int64, Long(-1)),
  Field("current_metadata_offset", Int64, Long(0)),
  Field("want_fence", Boolean, FALSE),
  Field("want_shut_down", Boolean, FALSE),
  TaggedIn(1..2, 0, "offline_log_dirs", Array(Uuid), Empty),
  TaggedIn({2}, 1, "cordoned_log_dirs", Opt(Array(Uuid)), None)>>)

\* broker_heartbeat_response.rs
BrokerHeartbeatResponse == Struct(0..2, 0..2, <<
  Field("throttle_time_ms", Int32, 0),
  Field("error_code", Int16, 0),
  Field("is_caught_up", Boolean, FALSE),
  Field("is_fenced", Boolean, TRUE),
  Field("should_shut_down", Boolean, FALSE)>>)

\* broker_registration_request.rs
BrokerRegistrationRequestListener == Struct(0..4, 0..4, <<
  Field("name", Str, Empty),
  Field("host", Str, Empty),
  Field("port", UInt16, 0),
  Field("security_protocol", Int16, 0)>>)
BrokerRegistrationRequestFeature == Struct(0..4, 0..4, <<
  Field("name", Str, Empty),
  Field("min_supported_version", Int16, 0),
  Field("max_supported_version", Int16, 0)>>)
BrokerRegistrationRequest == Struct(0..4, 0..4, <<
  Field("broker_id", Int32, 0),
  Field("cluster_id", Str, Empty),
  Field("incarnation_id", Uuid, NilUuid),
  Field("listeners", Array(Of(BrokerRegistrationRequestListener)), Empty),
  Field("features", Array(Of(BrokerRegistrationRequestFeature)), Empty),
  Field("rack", Opt(Str), Some(Empty)),
  StrictIn(1..4, "is_migrating_zk_broker", Boolean, FALSE),
  FieldIn(2..4, "log_dirs", Array(Uuid), Empty),
  FieldIn(3..4, "previous_broker_epoch", Int64, Long(-1))>>)

\* broker_registration_response.rs
BrokerRegistrationResponse == Struct(0..4, 0..4, <<
  Field("throttle_time_ms", Int32, 0),
  Field("error_code", Int16, 0),
  Field("broker_epoch", Int64, Long(-1))>>)

\* control_record_type_schema.rs
ControlRecordTypeSchema == Struct({0}, {}, <<Field("_type", Int16, 0)>>)

\* controller_registration_request.rs
ControllerRegistrationRequestListener == Struct({0}, {0}, <<
  Field("name", Str, Empty),
  Field("host", Str, Empty),
  Field("port", UInt16, 0),
  Field("security_protocol", Int16, 0)>>)
ControllerRegistrationRequestFeature == Struct({0}, {0}, <<
  Field("name", Str, Empty),
  Field("min_supported_version", Int16, 0),
  Field("max_supported_version", Int16, 0)>>)
ControllerRegistrationRequest == Struct({0}, {0}, <<
  Field("controller_id", Int32, 0),
  Field("incarnation_id", Uuid, NilUuid),
  Field("zk_migration_ready", Boolean, FALSE),
  Field("listeners", Array(Of(ControllerRegistrationRequestListener)), Empty),
  Field("features", Array(Of(ControllerRegistrationRequestFeature)), Empty)>>)

\* controller_registration_response.rs
ControllerRegistrationResponse == Struct({0}, {0}, <<
  Field("throttle_time_ms", Int32, 0),
  Field("error_code", Int16, 0),
  Field("error_message", Opt(Str), Some(Empty))>>)

\* describe_cluster_request.rs
DescribeClusterRequest == Struct(0..2, 0..2, <<
  Field("include_cluster_authorized_operations", Boolean, FALSE),
  StrictIn(1..2, "endpoint_type", Int8, 1),
  StrictIn({2}, "include_fenced_brokers", Boolean, FALSE)>>)

\* describe_cluster_response.rs
DescribeClusterBroker == Struct(0..2, 0..2, <<
  Field("broker_id", Int32, 0),
  Field("host", Str, Empty),
  Field("port", Int32, 0),
  Field("rack", Opt(Str), None),
  StrictIn({2}, "is_fenced", Boolean, FALSE)>>)
DescribeClusterResponse == Struct(0..2, 0..2, <<
  Field("throttle_time_ms", Int32, 0),
  Field("error_code", Int16, 0),
  Field("error_message", Opt(Str), None),
  StrictIn(1..2, "endpoint_type", Int8, 1),
  Field("cluster_id", Str, Empty),
  Field("controller_id", Int32, -1),
  Field("brokers", Array(Of(DescribeClusterBroker)), Empty),
  Field("cluster_authorized_operations", Int32, MinInt32)>>)

\* describe_quorum_request.rs
DescribeQuorumRequestPartitionData == Struct(0..2, 0..2, <<Field("partition_index", Int32, 0)>>)
DescribeQuorumRequestTopicData == Struct(0..2, 0..2, <<
  Field("topic_name", Str, Empty),
  Field("partitions", Array(Of(DescribeQuorumRequestPartitionData)), Empty)>>)
DescribeQuorumRequest == Struct(0..2, 0..2, <<
  Field("topics", Array(Of(DescribeQuorumRequestTopicData)), Empty)>>)

\* describe_quorum_response.rs
DescribeQuorumResponseReplicaState == Struct(0..2, 0..2, <<
  Field("replica_id", Int32, 0),
  StrictIn({2}, "replica_directory_id", Uuid, NilUuid),
  Field("log_end_offset", Int64, Long(0)),
  FieldIn(1..2, "last_fetch_timestamp", Int64, Long(-1)),
  FieldIn(1..2, "last_caught_up_timestamp", Int64, Long(-1))>>)
DescribeQuorumResponsePartitionData == Struct(0..2, 0..2, <<
  Field("partition_index", Int32, 0),
  Field("error_code", Int16, 0),
  FieldIn({2}, "error_message", Opt(Str), Some(Empty)),
  Field("leader_id", Int32, 0),
  Field("leader_epoch", Int32, 0),
  Field("high_watermark", Int64, Long(0)),
  Field("current_voters", Array(Of(DescribeQuorumResponseReplicaState)), Empty),
  Field("observers", Array(Of(DescribeQuorumResponseReplicaState)), Empty)>>)
DescribeQuorumResponseTopicData == Struct(0..2, 0..2, <<
  Field("topic_name", Str, Empty),
  Field("partitions", Array(Of(DescribeQuorumResponsePartitionData)), Empty)>>)
DescribeQuorumResponseListener == Struct(0..2, 0..2, <<
  StrictIn({2}, "name", Str, Empty),
  StrictIn({2}, "host", Str, Empty),
  StrictIn({2}, "port", UInt16, 0)>>)
Node == Struct(0..2, 0..2, <<
  StrictIn({2}, "node_id", Int32, 0),
  StrictIn({2}, "listeners", Array(Of(DescribeQuorumResponseListener)), Empty)>>)
DescribeQuorumResponse == Struct(0..2, 0..2, <<
  Field("error_code", Int16, 0),
  FieldIn({2}, "error_message", Opt(Str), Some(Empty)),
  Field("topics", Array(Of(DescribeQuorumResponseTopicData)), Empty),
  StrictIn({2}, "nodes", Array(Of(Node)), Empty)>>)

\* end_quorum_epoch_request.rs
ReplicaInfo == Struct(0..1, {1}, <<
  StrictIn({1}, "candidate_id", Int32, 0),
  StrictIn({1}, "candidate_directory_id", Uuid, NilUuid)>>)
EndQuorumEpochRequestPartitionData == Struct(0..1, {1}, <<
  Field("partition_index", Int32, 0),
  Field("leader_id", Int32, 0),
  Field("leader_epoch", Int32, 0),
  FieldIn({0}, "preferred_successors", Array(Int32), Empty),
  FieldIn({1}, "preferred_candidates", Array(Of(ReplicaInfo)), Empty)>>)
EndQuorumEpochRequestTopicData == Struct(0..1, {1}, <<
  Field("topic_name", Str, Empty),
  Field("partitions", Array(Of(EndQuorumEpochRequestPartitionData)), Empty)>>)
EndQuorumEpochRequestLeaderEndpoint == Struct(0..1, {1}, <<
  StrictIn({1}, "name", Str, Empty),
  StrictIn({1}, "host", Str, Empty),
  StrictIn({1}, "port", UInt16, 0)>>)
EndQuorumEpochRequest == Struct(0..1, {1}, <<
  Field("cluster_id", Opt(Str), None),
  Field("topics", Array(Of(EndQuorumEpochRequestTopicData)), Empty),
  FieldIn({1}, "leader_endpoints", Array(Of(EndQuorumEpochRequestLeaderEndpoint)), Empty)>>)

\* end_quorum_epoch_response.rs
EndQuorumEpochResponsePartitionData == Struct(0..1, {1}, <<
  Field("partition_index", Int32, 0),
  Field("error_code", Int16, 0),
  Field("leader_id", Int32, 0),
  Field("leader_epoch", Int32, 0)>>)
EndQuorumEpochResponseTopicData == Struct(0..1, {1}, <<
  Field("topic_name", Str, Empty),
  Field("partitions", Array(Of(EndQuorumEpochResponsePartitionData)), Empty)>>)
EndQuorumEpochResponseNodeEndpoint == Struct(0..1, {1}, <<
  StrictIn({1}, "node_id", Int32, 0),
  StrictIn({1}, "host", Str, Empty),
  StrictIn({1}, "port", UInt16, 0)>>)
EndQuorumEpochResponse == Struct(0..1, {1}, <<
  Field("error_code", Int16, 0),
  Field("topics", Array(Of(EndQuorumEpochResponseTopicData)), Empty),
  TaggedIn({1}, 0, "node_endpoints", Array(Of(EndQuorumEpochResponseNodeEndpoint)), Empty)>>)

\* envelope_request.rs
EnvelopeRequest == Struct({0}, {0}, <<
  Field("request_data", Bytes, Empty),
  Field("request_principal", Opt(Bytes), Some(Empty)),
  Field("client_host_address", Bytes, Empty)>>)

\* envelope_response.rs
EnvelopeResponse == Struct({0}, {0}, <<
  Field("response_data", Opt(Bytes), None),
  Field("error_code", Int16, 0)>>)

\* get_telemetry_subscriptions_request.rs
GetTelemetrySubscriptionsRequest == Struct({0}, {0}, <<
  Field("client_instance_id", Uuid, NilUuid)>>)

\* get_telemetry_subscriptions_response.rs
GetTelemetrySubscriptionsResponse == Struct({0}, {0}, <<
  Field("throttle_time_ms", Int32, 0),
  Field("error_code", Int16, 0),
  Field("client_instance_id", Uuid, NilUuid),
  Field("subscription_id", Int32, 0),
  Field("accepted_compression_types", Array(Int8), Empty),
  Field("push_interval_ms", Int32, 0),
  Field("telemetry_max_bytes", Int32, 0),
  Field("delta_temporality", Boolean, FALSE),
  Field("requested_metrics", Array(Str), Empty)>>)

\* k_raft_version_record.rs
KRaftVersionRecord == Struct({0}, {0}, <<
  Field("version", Int16, 0),
  Field("k_raft_version", Int16, 0)>>)

\* leader_change_message.rs
LeaderChangeMessageVoter == Struct(0..1, 0..1, <<
  Field("voter_id", Int32, 0),
  StrictIn({1}, "voter_directory_id", Uuid, NilUuid)>>)
LeaderChangeMessage == Struct(0..1, 0..1, <<
  Field("version", Int16, 0),
  Field("leader_id", Int32, 0),
  Field("voters", Array(Of(LeaderChangeMessageVoter)), Empty),
  Field("granting_voters", Array(Of(LeaderChangeMessageVoter)), Empty)>>)

\* push_telemetry_request.rs
PushTelemetryRequest == Struct({0}, {0}, <<
  Field("client_instance_id", Uuid, NilUuid),
  Field("subscription_id", Int32, 0),
  Field("terminating", Boolean, FALSE),
  Field("compression_type", Int8, 0),
  Field("metrics", Bytes, Empty)>>)

\* push_telemetry_response.rs
PushTelemetryResponse == Struct({0}, {0}, <<
  Field("throttle_time_ms", Int32, 0),
  Field("error_code", Int16, 0)>>)

\* remove_raft_voter_request.rs
RemoveRaftVoterRequest == Struct({0}, {0}, <<
  Field("cluster_id", Opt(Str), Some(Empty)),
  Field("voter_id", Int32, 0),
  Field("voter_directory_id", Uuid, NilUuid)>>)

\* remove_raft_voter_response.rs
RemoveRaftVoterResponse == Struct({0}, {0}, <<
  Field("throttle_time_ms", Int32, 0),
  Field("error_code", Int16, 0),
  Field("error_message", Opt(Str), Some(Empty))>>)

\* request_header.rs
RequestHeader == Struct(1..2, {2}, <<
  Field("request_api_key", Int16, 0),
  Field("request_api_version", Int16, 0),
  Field("correlation_id", Int32, 0),
  Field("client_id", Opt(PlainStr), Some(Empty))>>)

\* response_header.rs
ResponseHeader == Struct(0..1, {1}, <<Field("correlation_id", Int32, 0)>>)

\* snapshot_footer_record.rs
SnapshotFooterRecord == Struct({0}, {0}, <<Field("version", Int16, 0)>>)

\* snapshot_header_record.rs
SnapshotHeaderRecord == Struct({0}, {0}, <<
  Field("version", Int16, 0),
  Field("last_contained_log_timestamp", Int64, Long(0))>>)

\* unregister_broker_request.rs
UnregisterBrokerRequest == Struct({0}, {0}, <<Field("broker_id", Int32, 0)>>)

\* unregister_broker_response.rs
UnregisterBrokerResponse == Struct({0}, {0}, <<
  Field("throttle_time_ms", Int32, 0),
  Field("error_code", Int16, 0),
  Field("error_message", Opt(Str), Some(Empty))>>)

\* update_features_request.rs
FeatureUpdateKey == Struct(0..2, 0..2, <<
  Field("feature", Str, Empty),
  Field("max_version_level", Int16, 0),
  StrictIn({0}, "allow_downgrade", Boolean, FALSE),
  StrictIn(1..2, "upgrade_type", Int8, 1)>>)
UpdateFeaturesRequest == Struct(0..2, 0..2, <<
  Field("timeout_ms", Int32, 60000),
  Field("feature_updates", Array(Of(FeatureUpdateKey)), Empty),
  StrictIn(1..2, "validate_only", Boolean, FALSE)>>)

\* update_features_response.rs
UpdatableFeatureResult == Struct(0..2, 0..2, <<
  Field("feature", Str, Empty),
  Field("error_code", Int16, 0),
  Field("error_message", Opt(Str), Some(Empty))>>)
UpdateFeaturesResponse == Struct(0..2, 0..2, <<
  Field("throttle_time_ms", Int32, 0),
  Field("error_code", Int16, 0),
  Field("error_message", Opt(Str), Some(Empty)),
  FieldIn(0..1, "results", Array(Of(UpdatableFeatureResult)), Empty)>>)

\* update_raft_voter_request.rs
UpdateRaftVoterRequestKRaftVersionFeature == Struct({0}, {0}, <<
  Field("min_supported_version", Int16, 0),
  Field("max_supported_version", Int16, 0)>>)
UpdateRaftVoterRequestListener == Struct({0}, {0}, <<
  Field("name", Str, Empty),
  Field("host", Str, Empty),
  Field("port", UInt16, 0)>>)
UpdateRaftVoterRequest == Struct({0}, {0}, <<
  Field("cluster_id", Opt(Str), Some(Empty)),
  Field("current_leader_epoch", Int32, 0),
  Field("voter_id", Int32, 0),
  Field("voter_directory_id", Uuid, NilUuid),
  Field("listeners", Array(Of(UpdateRaftVoterRequestListener)), Empty),
  Field("k_raft_version_feature", Of(UpdateRaftVoterRequestKRaftVersionFeature),
      Default(UpdateRaftVoterRequestKRaftVersionFeature))>>)

\* update_raft_voter_response.rs
CurrentLeader == Struct({0}, {0}, <<
  Field("leader_id", Int32, -1),
  Field("leader_epoch", Int32, -1),
  Field("host", Str, Empty),
  Field("port", Int32, 0)>>)
UpdateRaftVoterResponse == Struct({0}, {0}, <<
  Field("throttle_time_ms", Int32, 0),
  Field("error_code", Int16, 0),
  TaggedIn({0}, 0, "current_leader", Of(CurrentLeader), Default(CurrentLeader))>>)

\* vote_request.rs
VoteRequestPartitionData == Struct(0..2, 0..2, <<
  Field("partition_index", Int32, 0),
  Field("replica_epoch", Int32, 0),
  Field("replica_id", Int32, 0),
  FieldIn(1..2, "replica_directory_id", Uuid, NilUuid),
  FieldIn(1..2, "voter_directory_id", Uuid, NilUuid),
  Field("last_offset_epoch", Int32, 0),
  Field("last_offset", Int64, Long(0)),
  StrictIn({2}, "pre_vote", Boolean, FALSE)>>)
VoteRequestTopicData == Struct(0..2, 0..2, <<
  Field("topic_name", Str, Empty),
  Field("partitions", Array(Of(VoteRequestPartitionData)), Empty)>>)
VoteRequest == Struct(0..2, 0..2, <<
  Field("cluster_id", Opt(Str), None),
  FieldIn(1..2, "voter_id", Int32, -1),
  Field("topics", Array(Of(VoteRequestTopicData)), Empty)>>)

\* vote_response.rs
VoteResponseNodeEndpoint == Struct(0..2, 0..2, <<
  StrictIn(1..2, "node_id", Int32, 0),
  StrictIn(1..2, "host", Str, Empty),
  StrictIn(1..2, "port", UInt16, 0)>>)
VoteResponsePartitionData == Struct(0..2, 0..2, <<
  Field("partition_index", Int32, 0),
  Field("error_code", Int16, 0),
  Field("leader_id", Int32, 0),
  Field("leader_epoch", Int32, 0),
  Field("vote_granted", Boolean, FALSE)>>)
VoteResponseTopicData == Struct(0..2, 0..2, <<
  Field("topic_name", Str, Empty),
  Field("partitions", Array(Of(VoteResponsePartitionData)), Empty)>>)
VoteResponse == Struct(0..2, 0..2, <<
  Field("error_code", Int16, 0),
  Field("topics", Array(Of(VoteResponseTopicData)), Empty),
  TaggedIn(1..2, 0, "node_endpoints", Array(Of(VoteResponseNodeEndpoint)), Empty)>>)

\* voters_record.rs
VotersRecordEndpoint == Struct({0}, {0}, <<
  Field("name", Str, Empty),
  Field("host", Str, Empty),
  Field("port", UInt16, 0)>>)
VotersRecordKRaftVersionFeature == Struct({0}, {0}, <<
  Field("min_supported_version", Int16, 0),
  Field("max_supported_version", Int16, 0)>>)
VotersRecordVoter == Struct({0}, {0}, <<
  Field("voter_id", Int32, 0),
  Field("voter_directory_id", Uuid, NilUuid),
  Field("endpoints", Array(Of(VotersRecordEndpoint)), Empty),
  Field("k_raft_version_feature", Of(VotersRecordKRaftVersionFeature),
      Default(VotersRecordKRaftVersionFeature))>>)
VotersRecord == Struct({0}, {0}, <<
  Field("version", Int16, 0),
  Field("voters", Array(Of(VotersRecordVoter)), Empty)>>)

=============================================================================
