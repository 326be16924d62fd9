---------------------------- MODULE MsgNextGroups ----------------------------
(***************************************************************************)
(* The schemas of the messages about the newer group protocols: consumer,  *)
(* share and streams groups.  Each definition is one struct of kafka-      *)
(* protocol/src/messages/<file>.rs: the versions that it is valid for, the *)
(* flexible ones among them, and its fields in the order in which they are *)
(* written, with the default that impl Default gives them.                 *)
(***************************************************************************)
EXTENDS WireCodec

\* consumer_group_describe_request.rs
ConsumerGroupDescribeRequest == Struct(0..1, 0..1, <<
  Field("group_ids", Array(Str), Empty),
  Field("include_authorized_operations", Boolean, FALSE)>>)

\* consumer_group_describe_response.rs
ConsumerGroupDescribeResponseTopicPartitions == Struct(0..1, 0..1, <<
  Field("topic_id", Uuid, NilUuid),
  Field("topic_name", Str, Empty),
  Field("partitions", Array(Int32), Empty)>>)
ConsumerGroupDescribeResponseAssignment == Struct(0..1, 0..1, <<
  Field("topic_partitions", Array(Of(ConsumerGroupDescribeResponseTopicPartitions)), Empty)>>)
ConsumerGroupDescribeResponseMember == Struct(0..1, 0..1, <<
  Field("member_id", Str, Empty),
  Field("instance_id", Opt(Str), None),
  Field("rack_id", Opt(Str), None),
  Field("member_epoch", Int32, 0),
  Field("client_id", Str, Empty),
  Field("client_host", Str, Empty),
  Field("subscribed_topic_names", Array(Str), Empty),
  Field("subscribed_topic_regex", Opt(Str), None),
  Field("assignment", Of(ConsumerGroupDescribeResponseAssignment),
      Default(ConsumerGroupDescribeResponseAssignment)),
  Field("target_assignment", Of(ConsumerGroupDescribeResponseAssignment),
      Default(ConsumerGroupDescribeResponseAssignment)),
  FieldIn({1}, "member_type", Int8, -1)>>)
ConsumerGroupDescribeResponseDescribedGroup == Struct(0..1, 0..1, <<
  Field("error_code", Int16, 0),
  Field("error_message", Opt(Str), None),
  Field("group_id", Str, Empty),
  Field("group_state", Str, Empty),
  Field("group_epoch", Int32, 0),
  Field("assignment_epoch", Int32, 0),
  Field("assignor_name", Str, Empty),
  Field("members", Array(Of(ConsumerGroupDescribeResponseMember)), Empty),
  Field("authorized_operations", Int32, MinInt32)>>)
ConsumerGroupDescribeResponse == Struct(0..1, 0..1, <<
  Field("throttle_time_ms", Int32, 0),
  Field("groups", Array(Of(ConsumerGroupDescribeResponseDescribedGroup)), Empty)>>)

\* consumer_group_heartbeat_request.rs
ConsumerGroupHeartbeatRequestTopicPartitions == Struct(0..1, 0..1, <<
  Field("topic_id", Uuid, NilUuid),
  Field("partitions", Array(Int32), Empty)>>)
ConsumerGroupHeartbeatRequest == Struct(0..1, 0..1, <<
  Field("group_id", Str, Empty),
  Field("member_id", Str, Empty),
  Field("member_epoch", Int32, 0),
  Field("instance_id", Opt(Str), None),
  Field("rack_id", Opt(Str), None),
  Field("rebalance_timeout_ms", Int32, -1),
  Field("subscribed_topic_names", Opt(Array(Str)), None),
  StrictIn({1}, "subscribed_topic_regex", Opt(Str), None),
  Field("server_assignor", Opt(Str), None),
  Field("topic_partitions", Opt(Array(Of(ConsumerGroupHeartbeatRequestTopicPartitions))),
      None)>>)

\* consumer_group_heartbeat_response.rs
ConsumerGroupHeartbeatResponseTopicPartitions == Struct(0..1, 0..1, <<
  Field("topic_id", Uuid, NilUuid),
  Field("partitions", Array(Int32), Empty)>>)
ConsumerGroupHeartbeatResponseAssignment == Struct(0..1, 0..1, <<
  Field("topic_partitions", Array(Of(ConsumerGroupHeartbeatResponseTopicPartitions)), Empty)>>)
ConsumerGroupHeartbeatResponse == Struct(0..1, 0..1, <<
  Field("throttle_time_ms", Int32, 0),
  Field("error_code", Int16, 0),
  Field("error_message", Opt(Str), None),
  Field("member_id", Opt(Str), None),
  Field("member_epoch", Int32, 0),
  Field("heartbeat_interval_ms", Int32, 0),
  Field("assignment", Opt(Of(ConsumerGroupHeartbeatResponseAssignment)), None)>>)

\* share_group_describe_request.rs
ShareGroupDescribeRequest == Struct({1}, {1}, <<
  Field("group_ids", Array(Str), Empty),
  Field("include_authorized_operations", Boolean, FALSE)>>)

\* share_group_describe_response.rs
ShareGroupDescribeResponseTopicPartitions == Struct({1}, {1}, <<
  Field("topic_id", Uuid, NilUuid),
  Field("topic_name", Str, Empty),
  Field("partitions", Array(Int32), Empty)>>)
ShareGroupDescribeResponseAssignment == Struct({1}, {1}, <<
  Field("topic_partitions", Array(Of(ShareGroupDescribeResponseTopicPartitions)), Empty)>>)
ShareGroupDescribeResponseMember == Struct({1}, {1}, <<
  Field("member_id", Str, Empty),
  Field("rack_id", Opt(Str), None),
  Field("member_epoch", Int32, 0),
  Field("client_id", Str, Empty),
  Field("client_host", Str, Empty),
  Field("subscribed_topic_names", Array(Str), Empty),
  Field("assignment", Of(ShareGroupDescribeResponseAssignment),
      Default(ShareGroupDescribeResponseAssignment))>>)
ShareGroupDescribeResponseDescribedGroup == Struct({1}, {1}, <<
  Field("error_code", Int16, 0),
  Field("error_message", Opt(Str), None),
  Field("group_id", Str, Empty),
  Field("group_state", Str, Empty),
  Field("group_epoch", Int32, 0),
  Field("assignment_epoch", Int32, 0),
  Field("assignor_name", Str, Empty),
  Field("members", Array(Of(ShareGroupDescribeResponseMember)), Empty),
  Field("authorized_operations", Int32, MinInt32)>>)
ShareGroupDescribeResponse == Struct({1}, {1}, <<
  Field("throttle_time_ms", Int32, 0),
  Field("groups", Array(Of(ShareGroupDescribeResponseDescribedGroup)), Empty)>>)

\* share_group_heartbeat_request.rs
ShareGroupHeartbeatRequest == Struct({1}, {1}, <<
  Field("group_id", Str, Empty),
  Field("member_id", Str, Empty),
  Field("member_epoch", Int32, 0),
  Field("rack_id", Opt(Str), None),
  Field("subscribed_topic_names", Opt(Array(Str)), None)>>)

\* share_group_heartbeat_response.rs
ShareGroupHeartbeatResponseTopicPartitions == Struct({1}, {1}, <<
  Field("topic_id", Uuid, NilUuid),
  Field("partitions", Array(Int32), Empty)>>)
ShareGroupHeartbeatResponseAssignment == Struct({1}, {1}, <<
  Field("topic_partitions", Array(Of(ShareGroupHeartbeatResponseTopicPartitions)), Empty)>>)
ShareGroupHeartbeatResponse == Struct({1}, {1}, <<
  Field("throttle_time_ms", Int32, 0),
  Field("error_code", Int16, 0),
  Field("error_message", Opt(Str), None),
  Field("member_id", Opt(Str), None),
  Field("member_epoch", Int32, 0),
  Field("heartbeat_interval_ms", Int32, 0),
  Field("assignment", Opt(Of(ShareGroupHeartbeatResponseAssignment)), None)>>)

\* streams_group_describe_request.rs
StreamsGroupDescribeRequest == Struct({0}, {0}, <<
  Field("group_ids", Array(Str), Empty),
  Field("include_authorized_operations", Boolean, FALSE)>>)

\* streams_group_describe_response.rs
StreamsGroupDescribeResponseTaskIds == Struct({0}, {0}, <<
  Field("subtopology_id", Str, Empty),
  Field("partitions", Array(Int32), Empty)>>)
StreamsGroupDescribeResponseAssignment == Struct({0}, {0}, <<
  Field("active_tasks", Array(Of(StreamsGroupDescribeResponseTaskIds)), Empty),
  Field("standby_tasks", Array(Of(StreamsGroupDescribeResponseTaskIds)), Empty),
  Field("warmup_tasks", Array(Of(StreamsGroupDescribeResponseTaskIds)), Empty)>>)
StreamsGroupDescribeResponseKeyValue == Struct({0}, {0}, <<
  Field("key", Str, Empty),
  Field("value", Str, Empty)>>)
StreamsGroupDescribeResponseTopicInfo == Struct({0}, {0}, <<
  Field("name", Str, Empty),
  Field("partitions", Int32, 0),
  Field("replication_factor", Int16, 0),
  Field("topic_configs", Array(Of(StreamsGroupDescribeResponseKeyValue)), Empty)>>)
StreamsGroupDescribeResponseSubtopology == Struct({0}, {0}, <<
  Field("subtopology_id", Str, Empty),
  Field("source_topics", Array(Str), Empty),
  Field("repartition_sink_topics", Array(Str), Empty),
  Field("state_changelog_topics", Array(Of(StreamsGroupDescribeResponseTopicInfo)), Empty),
  Field("repartition_source_topics", Array(Of(StreamsGroupDescribeResponseTopicInfo)), Empty)>>)
StreamsGroupDescribeResponseTopology == Struct({0}, {0}, <<
  Field("epoch", Int32, 0),
  Field("subtopologies", Opt(Array(Of(StreamsGroupDescribeResponseSubtopology))), None)>>)
StreamsGroupDescribeResponseEndpoint == Struct({0}, {0}, <<
  Field("host", Str, Empty),
  Field("port", UInt16, 0)>>)
StreamsGroupDescribeResponseTaskOffset == Struct({0}, {0}, <<
  Field("subtopology_id", Str, Empty),
  Field("partition", Int32, 0),
  Field("offset", Int64, Long(0))>>)
StreamsGroupDescribeResponseMember == Struct({0}, {0}, <<
  Field("member_id", Str, Empty),
  Field("member_epoch", Int32, 0),
  Field("instance_id", Opt(Str), None),
  Field("rack_id", Opt(Str), None),
  Field("client_id", Str, Empty),
  Field("client_host", Str, Empty),
  Field("topology_epoch", Int32, 0),
  Field("process_id", Str, Empty),
  Field("user_endpoint", Opt(Of(StreamsGroupDescribeResponseEndpoint)), None),
  Field("client_tags", Array(Of(StreamsGroupDescribeResponseKeyValue)), Empty),
  Field("task_offsets", Array(Of(StreamsGroupDescribeResponseTaskOffset)), Empty),
  Field("task_end_offsets", Array(Of(StreamsGroupDescribeResponseTaskOffset)), Empty),
  Field("assignment", Of(StreamsGroupDescribeResponseAssignment),
      Default(StreamsGroupDescribeResponseAssignment)),
  Field("target_assignment", Of(StreamsGroupDescribeResponseAssignment),
      Default(StreamsGroupDescribeResponseAssignment)),
  Field("is_classic", Boolean, FALSE)>>)
StreamsGroupDescribeResponseDescribedGroup == Struct({0}, {0}, <<
  Field("error_code", Int16, 0),
  Field("error_message", Opt(Str), None),
  Field("group_id", Str, Empty),
  Field("group_state", Str, Empty),
  Field("group_epoch", Int32, 0),
  Field("assignment_epoch", Int32, 0),
  Field("topology", Opt(Of(StreamsGroupDescribeResponseTopology)), None),
  Field("members", Array(Of(StreamsGroupDescribeResponseMember)), Empty),
  Field("authorized_operations", Int32, MinInt32)>>)
StreamsGroupDescribeResponse == Struct({0}, {0}, <<
  Field("throttle_time_ms", Int32, 0),
  Field("groups", Array(Of(StreamsGroupDescribeResponseDescribedGroup)), Empty)>>)

\* streams_group_heartbeat_request.rs
CopartitionGroup == Struct({0}, {0}, <<
  Field("source_topics", Array(Int16), Empty),
  Field("source_topic_regex", Array(Int16), Empty),
  Field("repartition_source_topics", Array(Int16), Empty)>>)
StreamsGroupHeartbeatRequestEndpoint == Struct({0}, {0}, <<
  Field("host", Str, Empty),
  Field("port", UInt16, 0)>>)
StreamsGroupHeartbeatRequestKeyValue == Struct({0}, {0}, <<
  Field("key", Str, Empty),
  Field("value", Str, Empty)>>)
StreamsGroupHeartbeatRequestTopicInfo == Struct({0}, {0}, <<
  Field("name", Str, Empty),
  Field("partitions", Int32, 0),
  Field("replication_factor", Int16, 0),
  Field("topic_configs", Array(Of(StreamsGroupHeartbeatRequestKeyValue)), Empty)>>)
StreamsGroupHeartbeatRequestSubtopology == Struct({0}, {0}, <<
  Field("subtopology_id", Str, Empty),
  Field("source_topics", Array(Str), Empty),
  Field("source_topic_regex", Array(Str), Empty),
  Field("state_changelog_topics", Array(Of(StreamsGroupHeartbeatRequestTopicInfo)), Empty),
  Field("repartition_sink_topics", Array(Str), Empty),
  Field("repartition_source_topics", Array(Of(StreamsGroupHeartbeatRequestTopicInfo)), Empty),
  Field("copartition_groups", Array(Of(CopartitionGroup)), Empty)>>)
StreamsGroupHeartbeatRequestTopology == Struct({0}, {0}, <<
  Field("epoch", Int32, 0),
  Field("subtopologies", Array(Of(StreamsGroupHeartbeatRequestSubtopology)), Empty)>>)
StreamsGroupHeartbeatRequestTaskIds == Struct({0}, {0}, <<
  Field("subtopology_id", Str, Empty),
  Field("partitions", Array(Int32), Empty)>>)
StreamsGroupHeartbeatRequestTaskOffset == Struct({0}, {0}, <<
  Field("subtopology_id", Str, Empty),
  Field("partition", Int32, 0),
  Field("offset", Int64, Long(0))>>)
StreamsGroupHeartbeatRequest == Struct({0}, {0}, <<
  Field("group_id", Str, Empty),
  Field("member_id", Str, Empty),
  Field("member_epoch", Int32, 0),
  Field("endpoint_information_epoch", Int32, 0),
  Field("instance_id", Opt(Str), None),
  Field("rack_id", Opt(Str), None),
  Field("rebalance_timeout_ms", Int32, -1),
  Field("topology", Opt(Of(StreamsGroupHeartbeatRequestTopology)), None),
  Field("active_tasks", Opt(Array(Of(StreamsGroupHeartbeatRequestTaskIds))), None),
  Field("standby_tasks", Opt(Array(Of(StreamsGroupHeartbeatRequestTaskIds))), None),
  Field("warmup_tasks", Opt(Array(Of(StreamsGroupHeartbeatRequestTaskIds))), None),
  Field("process_id", Opt(Str), None),
  Field("user_endpoint", Opt(Of(StreamsGroupHeartbeatRequestEndpoint)), None),
  Field("client_tags", Opt(Array(Of(StreamsGroupHeartbeatRequestKeyValue))), None),
  Field("task_offsets", Opt(Array(Of(StreamsGroupHeartbeatRequestTaskOffset))), None),
  Field("task_end_offsets", Opt(Array(Of(StreamsGroupHeartbeatRequestTaskOffset))), None),
  Field("shutdown_application", Boolean, FALSE)>>)

\* streams_group_heartbeat_response.rs
StreamsGroupHeartbeatResponseEndpoint == Struct({0}, {0}, <<
  Field("host", Str, Empty),
  Field("port", UInt16, 0)>>)
StreamsGroupHeartbeatResponseTopicPartition == Struct({0}, {0}, <<
  Field("topic", Str, Empty),
  Field("partitions", Array(Int32), Empty)>>)
EndpointToPartitions == Struct({0}, {0}, <<
  Field("user_endpoint", Of(StreamsGroupHeartbeatResponseEndpoint),
      Default(StreamsGroupHeartbeatResponseEndpoint)),
  Field("active_partitions", Array(Of(StreamsGroupHeartbeatResponseTopicPartition)), Empty),
  Field("standby_partitions", Array(Of(StreamsGroupHeartbeatResponseTopicPartition)), Empty)>>)
Status == Struct({0}, {0}, <<
  Field("status_code", Int8, 0),
  Field("status_detail", Str, Empty)>>)
StreamsGroupHeartbeatResponseTaskIds == Struct({0}, {0}, <<
  Field("subtopology_id", Str, Empty),
  Field("partitions", Array(Int32), Empty)>>)
StreamsGroupHeartbeatResponse == Struct({0}, {0}, <<
  Field("throttle_time_ms", Int32, 0),
  Field("error_code", Int16, 0),
  Field("error_message", Opt(Str), None),
  Field("member_id", Str, Empty),
  Field("member_epoch", Int32, 0),
  Field("heartbeat_interval_ms", Int32, 0),
  Field("acceptable_recovery_lag", Int32, 0),
  Field("task_offset_interval_ms", Int32, 0),
  Field("status", Opt(Array(Of(Status))), Some(Empty)),
  Field("active_tasks", Opt(Array(Of(StreamsGroupHeartbeatResponseTaskIds))), None),
  Field("standby_tasks", Opt(Array(Of(StreamsGroupHeartbeatResponseTaskIds))), None),
  Field("warmup_tasks", Opt(Array(Of(StreamsGroupHeartbeatResponseTaskIds))), None),
  Field("endpoint_information_epoch", Int32, 0),
  Field("partitions_by_user_endpoint", Opt(Array(Of(EndpointToPartitions))), None)>>)

=============================================================================
