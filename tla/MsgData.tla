------------------------------- MODULE MsgData -------------------------------
(***************************************************************************)
(* The schemas of the messages about reading and writing records, with     *)
(* producers and transactions.  Each definition is one struct of kafka-    *)
(* protocol/src/messages/<file>.rs: the versions that it is valid for, the *)
(* flexible ones among them, and its fields in the order in which they are *)
(* written, with the default that impl Default gives them.                 *)
(***************************************************************************)
EXTENDS WireCodec

\* add_offsets_to_txn_request.rs
AddOffsetsToTxnRequest == Struct(0..4, 3..4, <<
  Field("transactional_id", Str, Empty),
  Field("producer_id", Int64, Long(0)),
  Field("producer_epoch", Int16, 0),
  Field("group_id", Str, Empty)>>)

\* add_offsets_to_txn_response.rs
AddOffsetsToTxnResponse == Struct(0..4, 3..4, <<
  Field("throttle_time_ms", Int32, 0),
  Field("error_code", Int16, 0)>>)

\* add_partitions_to_txn_request.rs
AddPartitionsToTxnTopic == Struct(0..5, 3..5, <<
  Field("name", Str, Empty),
  Field("partitions", Array(Int32), Empty)>>)
AddPartitionsToTxnTransaction == Struct(0..5, 3..5, <<
  StrictIn(4..5, "transactional_id", Str, Empty),
  StrictIn(4..5, "producer_id", Int64, Long(0)),
  StrictIn(4..5, "producer_epoch", Int16, 0),
  StrictIn(4..5, "verify_only", Boolean, FALSE),
  StrictIn(4..5, "topics", Array(Of(AddPartitionsToTxnTopic)), Empty)>>)
AddPartitionsToTxnRequest == Struct(0..5, 3..5, <<
  StrictIn(4..5, "transactions", Array(Of(AddPartitionsToTxnTransaction)), Empty),
  StrictIn(0..3, "v3_and_below_transactional_id", Str, Empty),
  StrictIn(0..3, "v3_and_below_producer_id", Int64, Long(0)),
  StrictIn(0..3, "v3_and_below_producer_epoch", Int16, 0),
  StrictIn(0..3, "v3_and_below_topics", Array(Of(AddPartitionsToTxnTopic)), Empty)>>)

\* add_partitions_to_txn_response.rs
AddPartitionsToTxnPartitionResult == Struct(0..5, 3..5, <<
  Field("partition_index", Int32, 0),
  Field("partition_error_code", Int16, 0)>>)
AddPartitionsToTxnTopicResult == Struct(0..5, 3..5, <<
  Field("name", Str, Empty),
  Field("results_by_partition", Array(Of(AddPartitionsToTxnPartitionResult)), Empty)>>)
AddPartitionsToTxnResult == Struct(0..5, 3..5, <<
  StrictIn(4..5, "transactional_id", Str, Empty),
  StrictIn(4..5, "topic_results", Array(Of(AddPartitionsToTxnTopicResult)), Empty)>>)
AddPartitionsToTxnResponse == Struct(0..5, 3..5, <<
  Field("throttle_time_ms", Int32, 0),
  FieldIn(4..5, "error_code", Int16, 0),
  StrictIn(4..5, "results_by_transaction", Array(Of(AddPartitionsToTxnResult)), Empty),
  StrictIn(0..3, "results_by_topic_v3_and_below", Array(Of(AddPartitionsToTxnTopicResult)),
      Empty)>>)

\* allocate_producer_ids_request.rs
AllocateProducerIdsRequest == Struct({0}, {0}, <<
  Field("broker_id", Int32, 0),
  Field("broker_epoch", Int64, Long(-1))>>)

\* allocate_producer_ids_response.rs
AllocateProducerIdsResponse == Struct({0}, {0}, <<
  Field("throttle_time_ms", Int32, 0),
  Field("error_code", Int16, 0),
  Field("producer_id_start", Int64, Long(0)),
  Field("producer_id_len", Int32, 0)>>)

\* delete_records_request.rs
DeleteRecordsPartition == Struct(0..2, {2}, <<
  Field("partition_index", Int32, 0),
  Field("offset", Int64, Long(0))>>)
DeleteRecordsTopic == Struct(0..2, {2}, <<
  Field("name", Str, Empty),
  Field("partitions", Array(Of(DeleteRecordsPartition)), Empty)>>)
DeleteRecordsRequest == Struct(0..2, {2}, <<
  Field("topics", Array(Of(DeleteRecordsTopic)), Empty),
  Field("timeout_ms", Int32, 0)>>)

\* delete_records_response.rs
DeleteRecordsPartitionResult == Struct(0..2, {2}, <<
  Field("partition_index", Int32, 0),
  Field("low_watermark", Int64, Long(0)),
  Field("error_code", Int16, 0)>>)
DeleteRecordsTopicResult == Struct(0..2, {2}, <<
  Field("name", Str, Empty),
  Field("partitions", Array(Of(DeleteRecordsPartitionResult)), Empty)>>)
DeleteRecordsResponse == Struct(0..2, {2}, <<
  Field("throttle_time_ms", Int32, 0),
  Field("topics", Array(Of(DeleteRecordsTopicResult)), Empty)>>)

\* describe_producers_request.rs
DescribeProducersRequestTopicRequest == Struct({0}, {0}, <<
  Field("name", Str, Empty),
  Field("partition_indexes", Array(Int32), Empty)>>)
DescribeProducersRequest == Struct({0}, {0}, <<
  Field("topics", Array(Of(DescribeProducersRequestTopicRequest)), Empty)>>)

\* describe_producers_response.rs
ProducerState == Struct({0}, {0}, <<
  Field("producer_id", Int64, Long(0)),
  Field("producer_epoch", Int32, 0),
  Field("last_sequence", Int32, -1),
  Field("last_timestamp", Int64, Long(-1)),
  Field("coordinator_epoch", Int32, 0),
  Field("current_txn_start_offset", Int64, Long(-1))>>)
PartitionResponse == Struct({0}, {0}, <<
  Field("partition_index", Int32, 0),
  Field("error_code", Int16, 0),
  Field("error_message", Opt(Str), None),
  Field("active_producers", Array(Of(ProducerState)), Empty)>>)
TopicResponse == Struct({0}, {0}, <<
  Field("name", Str, Empty),
  Field("partitions", Array(Of(PartitionResponse)), Empty)>>)
DescribeProducersResponse == Struct({0}, {0}, <<
  Field("throttle_time_ms", Int32, 0),
  Field("topics", Array(Of(TopicResponse)), Empty)>>)

\* describe_transactions_request.rs
DescribeTransactionsRequest == Struct({0}, {0}, <<
  Field("transactional_ids", Array(Str), Empty)>>)

\* describe_transactions_response.rs
DescribeTransactionsResponseTopicData == Struct({0}, {0}, <<
  Field("topic", Str, Empty),
  Field("partitions", Array(Int32), Empty)>>)
DescribeTransactionsResponseTransactionState == Struct({0}, {0}, <<
  Field("error_code", Int16, 0),
  Field("transactional_id", Str, Empty),
  Field("transaction_state", Str, Empty),
  Field("transaction_timeout_ms", Int32, 0),
  Field("transaction_start_time_ms", Int64, Long(0)),
  Field("producer_id", Int64, Long(0)),
  Field("producer_epoch", Int16, 0),
  Field("topics", Array(Of(DescribeTransactionsResponseTopicData)), Empty)>>)
DescribeTransactionsResponse == Struct({0}, {0}, <<
  Field("throttle_time_ms", Int32, 0),
  Field("transaction_states", Array(Of(DescribeTransactionsResponseTransactionState)), Empty)>>)

\* end_txn_marker.rs
EndTxnMarker == Struct({0}, {}, <<Field("coordinator_epoch", Int32, 0)>>)

\* end_txn_request.rs
EndTxnRequest == Struct(0..5, 3..5, <<
  Field("transactional_id", Str, Empty),
  Field("producer_id", Int64, Long(0)),
  Field("producer_epoch", Int16, 0),
  Field("committed", Boolean, FALSE)>>)

\* end_txn_response.rs
EndTxnResponse == Struct(0..5, 3..5, <<
  Field("throttle_time_ms", Int32, 0),
  Field("error_code", Int16, 0),
  FieldIn({5}, "producer_id", Int64, Long(-1)),
  FieldIn({5}, "producer_epoch", Int16, -1)>>)

\* fetch_request.rs
FetchRequestFetchPartition == Struct(4..18, 12..18, <<
  Field("partition", Int32, 0),
  FieldIn(9..18, "current_leader_epoch", Int32, -1),
  Field("fetch_offset", Int64, Long(0)),
  StrictIn(12..18, "last_fetched_epoch", Int32, -1),
  FieldIn(5..18, "log_start_offset", Int64, Long(-1)),
  Field("partition_max_bytes", Int32, 0),
  TaggedIn(17..18, 0, "replica_directory_id", Uuid, NilUuid),
  TaggedIn({18}, 1, "high_watermark", Int64, LongMax)>>)
FetchRequestReplicaState == Struct(4..18, 12..18, <<
  StrictIn(15..18, "replica_id", Int32, -1),
  StrictIn(15..18, "replica_epoch", Int64, Long(-1))>>)
FetchRequestFetchTopic == Struct(4..18, 12..18, <<
  FieldIn(4..12, "topic", Str, Empty),
  FieldIn(13..18, "topic_id", Uuid, NilUuid),
  Field("partitions", Array(Of(FetchRequestFetchPartition)), Empty)>>)
FetchRequestForgottenTopic == Struct(4..18, 12..18, <<
  FieldIn(7..12, "topic", Str, Empty),
  FieldIn(13..18, "topic_id", Uuid, NilUuid),
  StrictIn(7..18, "partitions", Array(Int32), Empty)>>)
FetchRequest == Struct(4..18, 12..18, <<
  TaggedIn(12..18, 0, "cluster_id", Opt(Str), None),
  StrictIn(4..14, "replica_id", Int32, -1),
  TaggedIn(15..18, 1, "replica_state", Of(FetchRequestReplicaState),
      Default(FetchRequestReplicaState)),
  Field("max_wait_ms", Int32, 0),
  Field("min_bytes", Int32, 0),
  Field("max_bytes", Int32, MaxInt32),
  Field("isolation_level", Int8, 0),
  FieldIn(7..18, "session_id", Int32, 0),
  FieldIn(7..18, "session_epoch", Int32, -1),
  Field("topics", Array(Of(FetchRequestFetchTopic)), Empty),
  StrictIn(7..18, "forgotten_topics_data", Array(Of(FetchRequestForgottenTopic)), Empty),
  FieldIn(11..18, "rack_id", Str, Empty)>>)

\* fetch_response.rs
AbortedTransaction == Struct(4..18, 12..18, <<
  Field("producer_id", Int64, Long(0)),
  Field("first_offset", Int64, Long(0))>>)
FetchResponseEpochEndOffset == Struct(4..18, 12..18, <<
  StrictIn(12..18, "epoch", Int32, -1),
  StrictIn(12..18, "end_offset", Int64, Long(-1))>>)
FetchResponseLeaderIdAndEpoch == Struct(4..18, 12..18, <<
  StrictIn(12..18, "leader_id", Int32, -1),
  StrictIn(12..18, "leader_epoch", Int32, -1)>>)
FetchResponseSnapshotId == Struct(4..18, 12..18, <<
  Field("end_offset", Int64, Long(-1)),
  Field("epoch", Int32, -1)>>)
FetchResponsePartitionData == Struct(4..18, 12..18, <<
  Field("partition_index", Int32, 0),
  Field("error_code", Int16, 0),
  Field("high_watermark", Int64, Long(0)),
  Field("last_stable_offset", Int64, Long(-1)),
  FieldIn(5..18, "log_start_offset", Int64, Long(-1)),
  TaggedIn(12..18, 0, "diverging_epoch", Of(FetchResponseEpochEndOffset),
      Default(FetchResponseEpochEndOffset)),
  TaggedIn(12..18, 1, "current_leader", Of(FetchResponseLeaderIdAndEpoch),
      Default(FetchResponseLeaderIdAndEpoch)),
  TaggedIn(12..18, 2, "snapshot_id", Of(FetchResponseSnapshotId),
      Default(FetchResponseSnapshotId)),
  Field("aborted_transactions", Opt(Array(Of(AbortedTransaction))), Some(Empty)),
  StrictIn(11..18, "preferred_read_replica", Int32, -1),
  Field("records", Opt(Bytes), Some(Empty))>>)
FetchableTopicResponse == Struct(4..18, 12..18, <<
  FieldIn(4..12, "topic", Str, Empty),
  FieldIn(13..18, "topic_id", Uuid, NilUuid),
  Field("partitions", Array(Of(FetchResponsePartitionData)), Empty)>>)
FetchResponseNodeEndpoint == Struct(4..18, 12..18, <<
  StrictIn(16..18, "node_id", Int32, 0),
  StrictIn(16..18, "host", Str, Empty),
  StrictIn(16..18, "port", Int32, 0),
  StrictIn(16..18, "rack", Opt(Str), None)>>)
FetchResponse == Struct(4..18, 12..18, <<
  Field("throttle_time_ms", Int32, 0),
  FieldIn(7..18, "error_code", Int16, 0),
  StrictIn(7..18, "session_id", Int32, 0),
  Field("responses", Array(Of(FetchableTopicResponse)), Empty),
  TaggedIn(16..18, 0, "node_endpoints", Array(Of(FetchResponseNodeEndpoint)), Empty)>>)

\* fetch_snapshot_request.rs
FetchSnapshotRequestSnapshotId == Struct(0..1, 0..1, <<
  Field("end_offset", Int64, Long(0)),
  Field("epoch", Int32, 0)>>)
FetchSnapshotRequestPartitionSnapshot == Struct(0..1, 0..1, <<
  Field("partition", Int32, 0),
  Field("current_leader_epoch", Int32, 0),
  Field("snapshot_id", Of(FetchSnapshotRequestSnapshotId),
      Default(FetchSnapshotRequestSnapshotId)),
  Field("position", Int64, Long(0)),
  TaggedIn({1}, 0, "replica_directory_id", Uuid, NilUuid)>>)
FetchSnapshotRequestTopicSnapshot == Struct(0..1, 0..1, <<
  Field("name", Str, Empty),
  Field("partitions", Array(Of(FetchSnapshotRequestPartitionSnapshot)), Empty)>>)
FetchSnapshotRequest == Struct(0..1, 0..1, <<
  TaggedIn(0..1, 0, "cluster_id", Opt(Str), None),
  Field("replica_id", Int32, -1),
  Field("max_bytes", Int32, MaxInt32),
  Field("topics", Array(Of(FetchSnapshotRequestTopicSnapshot)), Empty)>>)

\* fetch_snapshot_response.rs
FetchSnapshotResponseSnapshotId == Struct(0..1, 0..1, <<
  Field("end_offset", Int64, Long(0)),
  Field("epoch", Int32, 0)>>)
FetchSnapshotResponseLeaderIdAndEpoch == Struct(0..1, 0..1, <<
  Field("leader_id", Int32, 0),
  Field("leader_epoch", Int32, 0)>>)
FetchSnapshotResponsePartitionSnapshot == Struct(0..1, 0..1, <<
  Field("index", Int32, 0),
  Field("error_code", Int16, 0),
  Field("snapshot_id", Of(FetchSnapshotResponseSnapshotId),
      Default(FetchSnapshotResponseSnapshotId)),
  TaggedIn(0..1, 0, "current_leader", Of(FetchSnapshotResponseLeaderIdAndEpoch),
      Default(FetchSnapshotResponseLeaderIdAndEpoch)),
  Field("size", Int64, Long(0)),
  Field("position", Int64, Long(0)),
  Field("unaligned_records", Bytes, Empty)>>)
FetchSnapshotResponseTopicSnapshot == Struct(0..1, 0..1, <<
  Field("name", Str, Empty),
  Field("partitions", Array(Of(FetchSnapshotResponsePartitionSnapshot)), Empty)>>)
FetchSnapshotResponseNodeEndpoint == Struct(0..1, 0..1, <<
  StrictIn({1}, "node_id", Int32, 0),
  StrictIn({1}, "host", Str, Empty),
  StrictIn({1}, "port", UInt16, 0)>>)
FetchSnapshotResponse == Struct(0..1, 0..1, <<
  Field("throttle_time_ms", Int32, 0),
  Field("error_code", Int16, 0),
  Field("topics", Array(Of(FetchSnapshotResponseTopicSnapshot)), Empty),
  TaggedIn({1}, 0, "node_endpoints", Array(Of(FetchSnapshotResponseNodeEndpoint)), Empty)>>)

\* init_producer_id_request.rs
InitProducerIdRequest == Struct(0..6, 2..6, <<
  Field("transactional_id", Opt(Str), Some(Empty)),
  Field("transaction_timeout_ms", Int32, 0),
  StrictIn(3..6, "producer_id", Int64, Long(-1)),
  StrictIn(3..6, "producer_epoch", Int16, -1),
  StrictIn({6}, "enable_2_pc", Boolean, FALSE),
  StrictIn({6}, "keep_prepared_txn", Boolean, FALSE)>>)

\* init_producer_id_response.rs
InitProducerIdResponse == Struct(0..6, 2..6, <<
  Field("throttle_time_ms", Int32, 0),
  Field("error_code", Int16, 0),
  Field("producer_id", Int64, Long(-1)),
  Field("producer_epoch", Int16, 0),
  StrictIn({6}, "ongoing_txn_producer_id", Int64, Long(-1)),
  StrictIn({6}, "ongoing_txn_producer_epoch", Int16, -1)>>)

\* list_offsets_request.rs
ListOffsetsPartition == Struct(1..11, 6..11, <<
  Field("partition_index", Int32, 0),
  FieldIn(4..11, "current_leader_epoch", Int32, -1),
  Field("timestamp", Int64, Long(0))>>)
ListOffsetsTopic == Struct(1..11, 6..11, <<
  Field("name", Str, Empty),
  Field("partitions", Array(Of(ListOffsetsPartition)), Empty)>>)
ListOffsetsRequest == Struct(1..11, 6..11, <<
  Field("replica_id", Int32, 0),
  StrictIn(2..11, "isolation_level", Int8, 0),
  Field("topics", Array(Of(ListOffsetsTopic)), Empty),
  FieldIn(10..11, "timeout_ms", Int32, 0)>>)

\* list_offsets_response.rs
ListOffsetsPartitionResponse == Struct(1..11, 6..11, <<
  Field("partition_index", Int32, 0),
  Field("error_code", Int16, 0),
  Field("timestamp", Int64, Long(-1)),
  Field("offset", Int64, Long(-1)),
  StrictIn(4..11, "leader_epoch", Int32, -1)>>)
ListOffsetsTopicResponse == Struct(1..11, 6..11, <<
  Field("name", Str, Empty),
  Field("partitions", Array(Of(ListOffsetsPartitionResponse)), Empty)>>)
ListOffsetsResponse == Struct(1..11, 6..11, <<
  FieldIn(2..11, "throttle_time_ms", Int32, 0),
  Field("topics", Array(Of(ListOffsetsTopicResponse)), Empty)>>)

\* list_transactions_request.rs
ListTransactionsRequest == Struct(0..2, 0..2, <<
  Field("state_filters", Array(Str), Empty),
  Field("producer_id_filters", Array(Int64), Empty),
  StrictIn(1..2, "duration_filter", Int64, Long(-1)),
  StrictIn({2}, "transactional_id_pattern", Opt(Str), None)>>)

\* list_transactions_response.rs
ListTransactionsResponseTransactionState == Struct(0..2, 0..2, <<
  Field("transactional_id", Str, Empty),
  Field("producer_id", Int64, Long(0)),
  Field("transaction_state", Str, Empty)>>)
ListTransactionsResponse == Struct(0..2, 0..2, <<
  Field("throttle_time_ms", Int32, 0),
  Field("error_code", Int16, 0),
  Field("unknown_state_filters", Array(Str), Empty),
  Field("transaction_states", Array(Of(ListTransactionsResponseTransactionState)), Empty)>>)

\* offset_for_leader_epoch_request.rs
OffsetForLeaderPartition == Struct(2..4, {4}, <<
  Field("partition", Int32, 0),
  Field("current_leader_epoch", Int32, -1),
  Field("leader_epoch", Int32, 0)>>)
OffsetForLeaderTopic == Struct(2..4, {4}, <<
  Field("topic", Str, Empty),
  Field("partitions", Array(Of(OffsetForLeaderPartition)), Empty)>>)
OffsetForLeaderEpochRequest == Struct(2..4, {4}, <<
  FieldIn(3..4, "replica_id", Int32, -2),
  Field("topics", Array(Of(OffsetForLeaderTopic)), Empty)>>)

\* offset_for_leader_epoch_response.rs
OffsetForLeaderEpochResponseEpochEndOffset == Struct(2..4, {4}, <<
  Field("error_code", Int16, 0),
  Field("partition", Int32, 0),
  Field("leader_epoch", Int32, -1),
  Field("end_offset", Int64, Long(-1))>>)
OffsetForLeaderTopicResult == Struct(2..4, {4}, <<
  Field("topic", Str, Empty),
  Field("partitions", Array(Of(OffsetForLeaderEpochResponseEpochEndOffset)), Empty)>>)
OffsetForLeaderEpochResponse == Struct(2..4, {4}, <<
  Field("throttle_time_ms", Int32, 0),
  Field("topics", Array(Of(OffsetForLeaderTopicResult)), Empty)>>)

\* produce_request.rs
PartitionProduceData == Struct(3..13, 9..13, <<
  Field("index", Int32, 0),
  Field("records", Opt(Bytes), Some(Empty))>>)
TopicProduceData == Struct(3..13, 9..13, <<
  FieldIn(3..12, "name", Str, Empty),
  FieldIn({13}, "topic_id", Uuid, NilUuid),
  Field("partition_data", Array(Of(PartitionProduceData)), Empty)>>)
ProduceRequest == Struct(3..13, 9..13, <<
  Field("transactional_id", Opt(Str), None),
  Field("acks", Int16, 0),
  Field("timeout_ms", Int32, 0),
  Field("topic_data", Array(Of(TopicProduceData)), Empty)>>)

\* produce_response.rs
BatchIndexAndErrorMessage == Struct(3..13, 9..13, <<
  StrictIn(8..13, "batch_index", Int32, 0),
  StrictIn(8..13, "batch_index_error_message", Opt(Str), None)>>)
ProduceResponseLeaderIdAndEpoch == Struct(3..13, 9..13, <<
  StrictIn(10..13, "leader_id", Int32, -1),
  StrictIn(10..13, "leader_epoch", Int32, -1)>>)
ProduceResponseNodeEndpoint == Struct(3..13, 9..13, <<
  StrictIn(10..13, "node_id", Int32, 0),
  StrictIn(10..13, "host", Str, Empty),
  StrictIn(10..13, "port", Int32, 0),
  StrictIn(10..13, "rack", Opt(Str), None)>>)
PartitionProduceResponse == Struct(3..13, 9..13, <<
  Field("index", Int32, 0),
  Field("error_code", Int16, 0),
  Field("base_offset", Int64, Long(0)),
  Field("log_append_time_ms", Int64, Long(-1)),
  FieldIn(5..13, "log_start_offset", Int64, Long(-1)),
  FieldIn(8..13, "record_errors", Array(Of(BatchIndexAndErrorMessage)), Empty),
  FieldIn(8..13, "error_message", Opt(Str), None),
  TaggedIn(10..13, 0, "current_leader", Of(ProduceResponseLeaderIdAndEpoch),
      Default(ProduceResponseLeaderIdAndEpoch))>>)
TopicProduceResponse == Struct(3..13, 9..13, <<
  FieldIn(3..12, "name", Str, Empty),
  FieldIn({13}, "topic_id", Uuid, NilUuid),
  Field("partition_responses", Array(Of(PartitionProduceResponse)), Empty)>>)
ProduceResponse == Struct(3..13, 9..13, <<
  Field("responses", Array(Of(TopicProduceResponse)), Empty),
  Field("throttle_time_ms", Int32, 0),
  TaggedIn(10..13, 0, "node_endpoints", Array(Of(ProduceResponseNodeEndpoint)), Empty)>>)

\* txn_offset_commit_request.rs
TxnOffsetCommitRequestPartition == Struct(0..5, 3..5, <<
  Field("partition_index", Int32, 0),
  Field("committed_offset", Int64, Long(0)),
  FieldIn(2..5, "committed_leader_epoch", Int32, -1),
  Field("committed_metadata", Opt(Str), Some(Empty))>>)
TxnOffsetCommitRequestTopic == Struct(0..5, 3..5, <<
  Field("name", Str, Empty),
  Field("partitions", Array(Of(TxnOffsetCommitRequestPartition)), Empty)>>)
TxnOffsetCommitRequest == Struct(0..5, 3..5, <<
  Field("transactional_id", Str, Empty),
  Field("group_id", Str, Empty),
  Field("producer_id", Int64, Long(0)),
  Field("producer_epoch", Int16, 0),
  StrictIn(3..5, "generation_id", Int32, -1),
  StrictIn(3..5, "member_id", Str, Empty),
  StrictIn(3..5, "group_instance_id", Opt(Str), None),
  Field("topics", Array(Of(TxnOffsetCommitRequestTopic)), Empty)>>)

\* txn_offset_commit_response.rs
TxnOffsetCommitResponsePartition == Struct(0..5, 3..5, <<
  Field("partition_index", Int32, 0),
  Field("error_code", Int16, 0)>>)
TxnOffsetCommitResponseTopic == Struct(0..5, 3..5, <<
  Field("name", Str, Empty),
  Field("partitions", Array(Of(TxnOffsetCommitResponsePartition)), Empty)>>)
TxnOffsetCommitResponse == Struct(0..5, 3..5, <<
  Field("throttle_time_ms", Int32, 0),
  Field("topics", Array(Of(TxnOffsetCommitResponseTopic)), Empty)>>)

\* write_txn_markers_request.rs
WritableTxnMarkerTopic == Struct(1..2, 1..2, <<
  Field("name", Str, Empty),
  Field("partition_indexes", Array(Int32), Empty)>>)
WritableTxnMarker == Struct(1..2, 1..2, <<
  Field("producer_id", Int64, Long(0)),
  Field("producer_epoch", Int16, 0),
  Field("transaction_result", Boolean, FALSE),
  Field("topics", Array(Of(WritableTxnMarkerTopic)), Empty),
  Field("coordinator_epoch", Int32, 0),
  FieldIn({2}, "transaction_version", Int8, 0)>>)
WriteTxnMarkersRequest == Struct(1..2, 1..2, <<
  Field("markers", Array(Of(WritableTxnMarker)), Empty)>>)

\* write_txn_markers_response.rs
WritableTxnMarkerPartitionResult == Struct(1..2, 1..2, <<
  Field("partition_index", Int32, 0),
  Field("error_code", Int16, 0)>>)
WritableTxnMarkerTopicResult == Struct(1..2, 1..2, <<
  Field("name", Str, Empty),
  Field("partitions", Array(Of(WritableTxnMarkerPartitionResult)), Empty)>>)
WritableTxnMarkerResult == Struct(1..2, 1..2, <<
  Field("producer_id", Int64, Long(0)),
  Field("topics", Array(Of(WritableTxnMarkerTopicResult)), Empty)>>)
WriteTxnMarkersResponse == Struct(1..2, 1..2, <<
  Field("markers", Array(Of(WritableTxnMarkerResult)), Empty)>>)

=============================================================================
