------------------------------- MODULE MsgShare ------------------------------
(***************************************************************************)
(* The schemas of the messages about share groups: fetching, acknowledging,*)
(* and the state that brokers keep for them.  Each definition is one struct*)
(* of kafka-protocol/src/messages/<file>.rs: the versions that it is valid *)
(* for, the flexible ones among them, and its fields in the order in which *)
(* they are written, with the default that impl Default gives them.        *)
(***************************************************************************)
EXTENDS WireCodec

\* alter_share_group_offsets_request.rs
AlterShareGroupOffsetsRequestPartition == Struct({0}, {0}, <<
  Field("partition_index", Int32, 0),
  Field("start_offset", Int64, Long(0))>>)
AlterShareGroupOffsetsRequestTopic == Struct({0}, {0}, <<
  Field("topic_name", Str, Empty),
  Field("partitions", Array(Of(AlterShareGroupOffsetsRequestPartition)), Empty)>>)
AlterShareGroupOffsetsRequest == Struct({0}, {0}, <<
  Field("group_id", Str, Empty),
  Field("topics", Array(Of(AlterShareGroupOffsetsRequestTopic)), Empty)>>)

\* alter_share_group_offsets_response.rs
AlterShareGroupOffsetsResponsePartition == Struct({0}, {0}, <<
  Field("partition_index", Int32, 0),
  Field("error_code", Int16, 0),
  Field("error_message", Opt(Str), None)>>)
AlterShareGroupOffsetsResponseTopic == Struct({0}, {0}, <<
  Field("topic_name", Str, Empty),
  Field("topic_id", Uuid, NilUuid),
  Field("partitions", Array(Of(AlterShareGroupOffsetsResponsePartition)), Empty)>>)
AlterShareGroupOffsetsResponse == Struct({0}, {0}, <<
  Field("throttle_time_ms", Int32, 0),
  Field("error_code", Int16, 0),
  Field("error_message", Opt(Str), None),
  Field("responses", Array(Of(AlterShareGroupOffsetsResponseTopic)), Empty)>>)

\* delete_share_group_offsets_request.rs
DeleteShareGroupOffsetsRequestTopic == Struct({0}, {0}, <<Field("topic_name", Str, Empty)>>)
DeleteShareGroupOffsetsRequest == Struct({0}, {0}, <<
  Field("group_id", Str, Empty),
  Field("topics", Array(Of(DeleteShareGroupOffsetsRequestTopic)), Empty)>>)

\* delete_share_group_offsets_response.rs
DeleteShareGroupOffsetsResponseTopic == Struct({0}, {0}, <<
  Field("topic_name", Str, Empty),
  Field("topic_id", Uuid, NilUuid),
  Field("error_code", Int16, 0),
  Field("error_message", Opt(Str), None)>>)
DeleteShareGroupOffsetsResponse == Struct({0}, {0}, <<
  Field("throttle_time_ms", Int32, 0),
  Field("error_code", Int16, 0),
  Field("error_message", Opt(Str), None),
  Field("responses", Array(Of(DeleteShareGroupOffsetsResponseTopic)), Empty)>>)

\* delete_share_group_state_request.rs
DeleteShareGroupStateRequestPartitionData == Struct({0}, {0}, <<Field("partition", Int32, 0)>>)
DeleteStateData == Struct({0}, {0}, <<
  Field("topic_id", Uuid, NilUuid),
  Field("partitions", Array(Of(DeleteShareGroupStateRequestPartitionData)), Empty)>>)
DeleteShareGroupStateRequest == Struct({0}, {0}, <<
  Field("group_id", Str, Empty),
  Field("topics", Array(Of(DeleteStateData)), Empty)>>)

\* delete_share_group_state_response.rs
DeleteShareGroupStateResponsePartitionResult == Struct({0}, {0}, <<
  Field("partition", Int32, 0),
  Field("error_code", Int16, 0),
  Field("error_message", Opt(Str), None)>>)
DeleteStateResult == Struct({0}, {0}, <<
  Field("topic_id", Uuid, NilUuid),
  Field("partitions", Array(Of(DeleteShareGroupStateResponsePartitionResult)), Empty)>>)
DeleteShareGroupStateResponse == Struct({0}, {0}, <<
  Field("results", Array(Of(DeleteStateResult)), Empty)>>)

\* describe_share_group_offsets_request.rs
DescribeShareGroupOffsetsRequestTopic == Struct(0..1, 0..1, <<
  Field("topic_name", Str, Empty),
  Field("partitions", Array(Int32), Empty)>>)
DescribeShareGroupOffsetsRequestGroup == Struct(0..1, 0..1, <<
  Field("group_id", Str, Empty),
  Field("topics", Opt(Array(Of(DescribeShareGroupOffsetsRequestTopic))), Some(Empty))>>)
DescribeShareGroupOffsetsRequest == Struct(0..1, 0..1, <<
  Field("groups", Array(Of(DescribeShareGroupOffsetsRequestGroup)), Empty)>>)

\* describe_share_group_offsets_response.rs
DescribeShareGroupOffsetsResponsePartition == Struct(0..1, 0..1, <<
  Field("partition_index", Int32, 0),
  Field("start_offset", Int64, Long(0)),
  Field("leader_epoch", Int32, 0),
  FieldIn({1}, "lag", Int64, Long(-1)),
  Field("error_code", Int16, 0),
  Field("error_message", Opt(Str), None)>>)
DescribeShareGroupOffsetsResponseTopic == Struct(0..1, 0..1, <<
  Field("topic_name", Str, Empty),
  Field("topic_id", Uuid, NilUuid),
  Field("partitions", Array(Of(DescribeShareGroupOffsetsResponsePartition)), Empty)>>)
DescribeShareGroupOffsetsResponseGroup == Struct(0..1, 0..1, <<
  Field("group_id", Str, Empty),
  Field("topics", Array(Of(DescribeShareGroupOffsetsResponseTopic)), Empty),
  Field("error_code", Int16, 0),
  Field("error_message", Opt(Str), None)>>)
DescribeShareGroupOffsetsResponse == Struct(0..1, 0..1, <<
  Field("throttle_time_ms", Int32, 0),
  Field("groups", Array(Of(DescribeShareGroupOffsetsResponseGroup)), Empty)>>)

\* initialize_share_group_state_request.rs
InitializeShareGroupStateRequestPartitionData == Struct({0}, {0}, <<
  Field("partition", Int32, 0),
  Field("state_epoch", Int32, 0),
  Field("start_offset", Int64, Long(0))>>)
InitializeStateData == Struct({0}, {0}, <<
  Field("topic_id", Uuid, NilUuid),
  Field("partitions", Array(Of(InitializeShareGroupStateRequestPartitionData)), Empty)>>)
InitializeShareGroupStateRequest == Struct({0}, {0}, <<
  Field("group_id", Str, Empty),
  Field("topics", Array(Of(InitializeStateData)), Empty)>>)

\* initialize_share_group_state_response.rs
InitializeShareGroupStateResponsePartitionResult == Struct({0}, {0}, <<
  Field("partition", Int32, 0),
  Field("error_code", Int16, 0),
  Field("error_message", Opt(Str), None)>>)
InitializeStateResult == Struct({0}, {0}, <<
  Field("topic_id", Uuid, NilUuid),
  Field("partitions", Array(Of(InitializeShareGroupStateResponsePartitionResult)), Empty)>>)
InitializeShareGroupStateResponse == Struct({0}, {0}, <<
  Field("results", Array(Of(InitializeStateResult)), Empty)>>)

\* read_share_group_state_request.rs
ReadShareGroupStateRequestPartitionData == Struct({0}, {0}, <<
  Field("partition", Int32, 0),
  Field("leader_epoch", Int32, 0)>>)
ReadStateData == Struct({0}, {0}, <<
  Field("topic_id", Uuid, NilUuid),
  Field("partitions", Array(Of(ReadShareGroupStateRequestPartitionData)), Empty)>>)
ReadShareGroupStateRequest == Struct({0}, {0}, <<
  Field("group_id", Str, Empty),
  Field("topics", Array(Of(ReadStateData)), Empty)>>)

\* read_share_group_state_response.rs
ReadShareGroupStateResponseStateBatch == Struct({0}, {0}, <<
  Field("first_offset", Int64, Long(0)),
  Field("last_offset", Int64, Long(0)),
  Field("delivery_state", Int8, 0),
  Field("delivery_count", Int16, 0)>>)
ReadShareGroupStateResponsePartitionResult == Struct({0}, {0}, <<
  Field("partition", Int32, 0),
  Field("error_code", Int16, 0),
  Field("error_message", Opt(Str), None),
  Field("state_epoch", Int32, 0),
  Field("start_offset", Int64, Long(0)),
  Field("state_batches", Array(Of(ReadShareGroupStateResponseStateBatch)), Empty)>>)
ReadStateResult == Struct({0}, {0}, <<
  Field("topic_id", Uuid, NilUuid),
  Field("partitions", Array(Of(ReadShareGroupStateResponsePartitionResult)), Empty)>>)
ReadShareGroupStateResponse == Struct({0}, {0}, <<
  Field("results", Array(Of(ReadStateResult)), Empty)>>)

\* read_share_group_state_summary_request.rs
ReadShareGroupStateSummaryRequestPartitionData == Struct(0..1, 0..1, <<
  Field("partition", Int32, 0),
  Field("leader_epoch", Int32, 0)>>)
ReadStateSummaryData == Struct(0..1, 0..1, <<
  Field("topic_id", Uuid, NilUuid),
  Field("partitions", Array(Of(ReadShareGroupStateSummaryRequestPartitionData)), Empty)>>)
ReadShareGroupStateSummaryRequest == Struct(0..1, 0..1, <<
  Field("group_id", Str, Empty),
  Field("topics", Array(Of(ReadStateSummaryData)), Empty)>>)

\* read_share_group_state_summary_response.rs
ReadShareGroupStateSummaryResponsePartitionResult == Struct(0..1, 0..1, <<
  Field("partition", Int32, 0),
  Field("error_code", Int16, 0),
  Field("error_message", Opt(Str), None),
  Field("state_epoch", Int32, 0),
  Field("leader_epoch", Int32, 0),
  Field("start_offset", Int64, Long(0)),
  FieldIn({1}, "delivery_complete_count", Int32, -1)>>)
ReadStateSummaryResult == Struct(0..1, 0..1, <<
  Field("topic_id", Uuid, NilUuid),
  Field("partitions", Array(Of(ReadShareGroupStateSummaryResponsePartitionResult)), Empty)>>)
ReadShareGroupStateSummaryResponse == Struct(0..1, 0..1, <<
  Field("results", Array(Of(ReadStateSummaryResult)), Empty)>>)

\* share_acknowledge_request.rs
ShareAcknowledgeRequestAcknowledgementBatch == Struct(1..2, 1..2, <<
  Field("first_offset", Int64, Long(0)),
  Field("last_offset", Int64, Long(0)),
  Field("acknowledge_types", Array(Int8), Empty)>>)
AcknowledgePartition == Struct(1..2, 1..2, <<
  Field("partition_index", Int32, 0),
  Field("acknowledgement_batches", Array(Of(ShareAcknowledgeRequestAcknowledgementBatch)),
      Empty)>>)
AcknowledgeTopic == Struct(1..2, 1..2, <<
  Field("topic_id", Uuid, NilUuid),
  Field("partitions", Array(Of(AcknowledgePartition)), Empty)>>)
ShareAcknowledgeRequest == Struct(1..2, 1..2, <<
  Field("group_id", Opt(Str), None),
  Field("member_id", Opt(Str), Some(Empty)),
  Field("share_session_epoch", Int32, 0),
  StrictIn({2}, "is_renew_ack", Boolean, FALSE),
  Field("topics", Array(Of(AcknowledgeTopic)), Empty)>>)

\* share_acknowledge_response.rs
ShareAcknowledgeResponseLeaderIdAndEpoch == Struct(1..2, 1..2, <<
  Field("leader_id", Int32, 0),
  Field("leader_epoch", Int32, 0)>>)
ShareAcknowledgeResponseNodeEndpoint == Struct(1..2, 1..2, <<
  Field("node_id", Int32, 0),
  Field("host", Str, Empty),
  Field("port", Int32, 0),
  Field("rack", Opt(Str), None)>>)
ShareAcknowledgeResponsePartitionData == Struct(1..2, 1..2, <<
  Field("partition_index", Int32, 0),
  Field("error_code", Int16, 0),
  Field("error_message", Opt(Str), None),
  Field("current_leader", Of(ShareAcknowledgeResponseLeaderIdAndEpoch),
      Default(ShareAcknowledgeResponseLeaderIdAndEpoch))>>)
ShareAcknowledgeTopicResponse == Struct(1..2, 1..2, <<
  Field("topic_id", Uuid, NilUuid),
  Field("partitions", Array(Of(ShareAcknowledgeResponsePartitionData)), Empty)>>)
ShareAcknowledgeResponse == Struct(1..2, 1..2, <<
  Field("throttle_time_ms", Int32, 0),
  Field("error_code", Int16, 0),
  Field("error_message", Opt(Str), None),
  FieldIn({2}, "acquisition_lock_timeout_ms", Int32, 0),
  Field("responses", Array(Of(ShareAcknowledgeTopicResponse)), Empty),
  Field("node_endpoints", Array(Of(ShareAcknowledgeResponseNodeEndpoint)), Empty)>>)

\* share_fetch_request.rs
ShareFetchRequestAcknowledgementBatch == Struct(1..2, 1..2, <<
  Field("first_offset", Int64, Long(0)),
  Field("last_offset", Int64, Long(0)),
  Field("acknowledge_types", Array(Int8), Empty)>>)
ShareFetchRequestFetchPartition == Struct(1..2, 1..2, <<
  Field("partition_index", Int32, 0),
  FieldIn({}, "partition_max_bytes", Int32, 0),
  Field("acknowledgement_batches", Array(Of(ShareFetchRequestAcknowledgementBatch)), Empty)>>)
ShareFetchRequestFetchTopic == Struct(1..2, 1..2, <<
  Field("topic_id", Uuid, NilUuid),
  Field("partitions", Array(Of(ShareFetchRequestFetchPartition)), Empty)>>)
ShareFetchRequestForgottenTopic == Struct(1..2, 1..2, <<
  Field("topic_id", Uuid, NilUuid),
  Field("partitions", Array(Int32), Empty)>>)
ShareFetchRequest == Struct(1..2, 1..2, <<
  Field("group_id", Opt(Str), None),
  Field("member_id", Opt(Str), Some(Empty)),
  Field("share_session_epoch", Int32, 0),
  Field("max_wait_ms", Int32, 0),
  Field("min_bytes", Int32, 0),
  Field("max_bytes", Int32, MaxInt32),
  Field("max_records", Int32, 0),
  Field("batch_size", Int32, 0),
  FieldIn({2}, "share_acquire_mode", Int8, 0),
  StrictIn({2}, "is_renew_ack", Boolean, FALSE),
  Field("topics", Array(Of(ShareFetchRequestFetchTopic)), Empty),
  Field("forgotten_topics_data", Array(Of(ShareFetchRequestForgottenTopic)), Empty)>>)

\* share_fetch_response.rs
AcquiredRecords == Struct(1..2, 1..2, <<
  Field("first_offset", Int64, Long(0)),
  Field("last_offset", Int64, Long(0)),
  Field("delivery_count", Int16, 0)>>)
ShareFetchResponseLeaderIdAndEpoch == Struct(1..2, 1..2, <<
  Field("leader_id", Int32, 0),
  Field("leader_epoch", Int32, 0)>>)
ShareFetchResponseNodeEndpoint == Struct(1..2, 1..2, <<
  Field("node_id", Int32, 0),
  Field("host", Str, Empty),
  Field("port", Int32, 0),
  Field("rack", Opt(Str), None)>>)
ShareFetchResponsePartitionData == Struct(1..2, 1..2, <<
  Field("partition_index", Int32, 0),
  Field("error_code", Int16, 0),
  Field("error_message", Opt(Str), None),
  Field("acknowledge_error_code", Int16, 0),
  Field("acknowledge_error_message", Opt(Str), None),
  Field("current_leader", Of(ShareFetchResponseLeaderIdAndEpoch),
      Default(ShareFetchResponseLeaderIdAndEpoch)),
  Field("records", Opt(Bytes), Some(Empty)),
  Field("acquired_records", Array(Of(AcquiredRecords)), Empty)>>)
ShareFetchableTopicResponse == Struct(1..2, 1..2, <<
  Field("topic_id", Uuid, NilUuid),
  Field("partitions", Array(Of(ShareFetchResponsePartitionData)), Empty)>>)
ShareFetchResponse == Struct(1..2, 1..2, <<
  Field("throttle_time_ms", Int32, 0),
  Field("error_code", Int16, 0),
  Field("error_message", Opt(Str), None),
  Field("acquisition_lock_timeout_ms", Int32, 0),
  Field("responses", Array(Of(ShareFetchableTopicResponse)), Empty),
  Field("node_endpoints", Array(Of(ShareFetchResponseNodeEndpoint)), Empty)>>)

\* write_share_group_state_request.rs
WriteShareGroupStateRequestStateBatch == Struct(0..1, 0..1, <<
  Field("first_offset", Int64, Long(0)),
  Field("last_offset", Int64, Long(0)),
  Field("delivery_state", Int8, 0),
  Field("delivery_count", Int16, 0)>>)
WriteShareGroupStateRequestPartitionData == Struct(0..1, 0..1, <<
  Field("partition", Int32, 0),
  Field("state_epoch", Int32, 0),
  Field("leader_epoch", Int32, 0),
  Field("start_offset", Int64, Long(0)),
  FieldIn({1}, "delivery_complete_count", Int32, -1),
  Field("state_batches", Array(Of(WriteShareGroupStateRequestStateBatch)), Empty)>>)
WriteStateData == Struct(0..1, 0..1, <<
  Field("topic_id", Uuid, NilUuid),
  Field("partitions", Array(Of(WriteShareGroupStateRequestPartitionData)), Empty)>>)
WriteShareGroupStateRequest == Struct(0..1, 0..1, <<
  Field("group_id", Str, Empty),
  Field("topics", Array(Of(WriteStateData)), Empty)>>)

\* write_share_group_state_response.rs
WriteShareGroupStateResponsePartitionResult == Struct(0..1, 0..1, <<
  Field("partition", Int32, 0),
  Field("error_code", Int16, 0),
  Field("error_message", Opt(Str), None)>>)
WriteStateResult == Struct(0..1, 0..1, <<
  Field("topic_id", Uuid, NilUuid),
  Field("partitions", Array(Of(WriteShareGroupStateResponsePartitionResult)), Empty)>>)
WriteShareGroupStateResponse == Struct(0..1, 0..1, <<
  Field("results", Array(Of(WriteStateResult)), Empty)>>)

=============================================================================
