------------------------------ MODULE MsgGroups ------------------------------
(***************************************************************************)
(* The schemas of the messages about classic consumer groups: their        *)
(* membership, their committed offsets, and the two messages that clients  *)
(* exchange through them.  Each definition is one struct of kafka-         *)
(* protocol/src/messages/<file>.rs: the versions that it is valid for, the *)
(* flexible ones among them, and its fields in the order in which they are *)
(* written, with the default that impl Default gives them.                 *)
(***************************************************************************)
EXTENDS WireCodec

\* consumer_protocol_assignment.rs
ConsumerProtocolAssignmentTopicPartition == Struct(0..3, {}, <<
  Field("topic", Str, Empty),
  Field("partitions", Array(Int32), Empty)>>)
ConsumerProtocolAssignment == Struct(0..3, {}, <<
  Field("assigned_partitions", Array(Of(ConsumerProtocolAssignmentTopicPartition)), Empty),
  Field("user_data", Opt(Bytes), None)>>)

\* consumer_protocol_subscription.rs
ConsumerProtocolSubscriptionTopicPartition == Struct(0..3, {}, <<
  StrictIn(1..3, "topic", Str, Empty),
  StrictIn(1..3, "partitions", Array(Int32), Empty)>>)
ConsumerProtocolSubscription == Struct(0..3, {}, <<
  Field("topics", Array(Str), Empty),
  Field("user_data", Opt(Bytes), None),
  FieldIn(1..3, "owned_partitions", Array(Of(ConsumerProtocolSubscriptionTopicPartition)),
      Empty),
  FieldIn(2..3, "generation_id", Int32, -1),
  FieldIn({3}, "rack_id", Opt(Str), None)>>)

\* delete_groups_request.rs
DeleteGroupsRequest == Struct(0..2, {2}, <<Field("groups_names", Array(Str), Empty)>>)

\* delete_groups_response.rs
DeletableGroupResult == Struct(0..2, {2}, <<
  Field("group_id", Str, Empty),
  Field("error_code", Int16, 0)>>)
DeleteGroupsResponse == Struct(0..2, {2}, <<
  Field("throttle_time_ms", Int32, 0),
  Field("results", Array(Of(DeletableGroupResult)), Empty)>>)

\* describe_groups_request.rs
DescribeGroupsRequest == Struct(0..6, 5..6, <<
  Field("groups", Array(Str), Empty),
  StrictIn(3..6, "include_authorized_operations", Boolean, FALSE)>>)

\* describe_groups_response.rs
DescribedGroupMember == Struct(0..6, 5..6, <<
  Field("member_id", Str, Empty),
  FieldIn(4..6, "group_instance_id", Opt(Str), None),
  Field("client_id", Str, Empty),
  Field("client_host", Str, Empty),
  Field("member_metadata", Bytes, Empty),
  Field("member_assignment", Bytes, Empty)>>)
DescribeGroupsResponseDescribedGroup == Struct(0..6, 5..6, <<
  Field("error_code", Int16, 0),
  StrictIn({6}, "error_message", Opt(Str), None),
  Field("group_id", Str, Empty),
  Field("group_state", Str, Empty),
  Field("protocol_type", Str, Empty),
  Field("protocol_data", Str, Empty),
  Field("members", Array(Of(DescribedGroupMember)), Empty),
  StrictIn(3..6, "authorized_operations", Int32, MinInt32)>>)
DescribeGroupsResponse == Struct(0..6, 5..6, <<
  FieldIn(1..6, "throttle_time_ms", Int32, 0),
  Field("groups", Array(Of(DescribeGroupsResponseDescribedGroup)), Empty)>>)

\* find_coordinator_request.rs
FindCoordinatorRequest == Struct(0..6, 3..6, <<
  StrictIn(0..3, "key", Str, Empty),
  StrictIn(1..6, "key_type", Int8, 0),
  StrictIn(4..6, "coordinator_keys", Array(Str), Empty)>>)

\* find_coordinator_response.rs
Coordinator == Struct(0..6, 3..6, <<
  StrictIn(4..6, "key", Str, Empty),
  StrictIn(4..6, "node_id", Int32, 0),
  StrictIn(4..6, "host", Str, Empty),
  StrictIn(4..6, "port", Int32, 0),
  StrictIn(4..6, "error_code", Int16, 0),
  FieldIn(4..6, "error_message", Opt(Str), Some(Empty))>>)
FindCoordinatorResponse == Struct(0..6, 3..6, <<
  FieldIn(1..6, "throttle_time_ms", Int32, 0),
  StrictIn(0..3, "error_code", Int16, 0),
  FieldIn(1..3, "error_message", Opt(Str), Some(Empty)),
  StrictIn(0..3, "node_id", Int32, 0),
  StrictIn(0..3, "host", Str, Empty),
  StrictIn(0..3, "port", Int32, 0),
  StrictIn(4..6, "coordinators", Array(Of(Coordinator)), Empty)>>)

\* heartbeat_request.rs
HeartbeatRequest == Struct(0..4, {4}, <<
  Field("group_id", Str, Empty),
  Field("generation_id", Int32, 0),
  Field("member_id", Str, Empty),
  StrictIn(3..4, "group_instance_id", Opt(Str), None)>>)

\* heartbeat_response.rs
HeartbeatResponse == Struct(0..4, {4}, <<
  FieldIn(1..4, "throttle_time_ms", Int32, 0),
  Field("error_code", Int16, 0)>>)

\* join_group_request.rs
JoinGroupRequestProtocol == Struct(0..9, 6..9, <<
  Field("name", Str, Empty),
  Field("metadata", Bytes, Empty)>>)
JoinGroupRequest == Struct(0..9, 6..9, <<
  Field("group_id", Str, Empty),
  Field("session_timeout_ms", Int32, 0),
  FieldIn(1..9, "rebalance_timeout_ms", Int32, -1),
  Field("member_id", Str, Empty),
  StrictIn(5..9, "group_instance_id", Opt(Str), None),
  Field("protocol_type", Str, Empty),
  Field("protocols", Array(Of(JoinGroupRequestProtocol)), Empty),
  FieldIn(8..9, "reason", Opt(Str), None)>>)

\* join_group_response.rs
JoinGroupResponseMember == Struct(0..9, 6..9, <<
  Field("member_id", Str, Empty),
  FieldIn(5..9, "group_instance_id", Opt(Str), None),
  Field("metadata", Bytes, Empty)>>)
JoinGroupResponse == Struct(0..9, 6..9, <<
  FieldIn(2..9, "throttle_time_ms", Int32, 0),
  Field("error_code", Int16, 0),
  Field("generation_id", Int32, -1),
  FieldIn(7..9, "protocol_type", Opt(Str), None),
  Field("protocol_name", Opt(Str), Some(Empty)),
  Field("leader", Str, Empty),
  StrictIn({9}, "skip_assignment", Boolean, FALSE),
  Field("member_id", Str, Empty),
  Field("members", Array(Of(JoinGroupResponseMember)), Empty)>>)

\* leave_group_request.rs
MemberIdentity == Struct(0..5, 4..5, <<
  StrictIn(3..5, "member_id", Str, Empty),
  StrictIn(3..5, "group_instance_id", Opt(Str), None),
  FieldIn({5}, "reason", Opt(Str), None)>>)
LeaveGroupRequest == Struct(0..5, 4..5, <<
  Field("group_id", Str, Empty),
  StrictIn(0..2, "member_id", Str, Empty),
  StrictIn(3..5, "members", Array(Of(MemberIdentity)), Empty)>>)

\* leave_group_response.rs
MemberResponse == Struct(0..5, 4..5, <<
  StrictIn(3..5, "member_id", Str, Empty),
  StrictIn(3..5, "group_instance_id", Opt(Str), Some(Empty)),
  StrictIn(3..5, "error_code", Int16, 0)>>)
LeaveGroupResponse == Struct(0..5, 4..5, <<
  FieldIn(1..5, "throttle_time_ms", Int32, 0),
  Field("error_code", Int16, 0),
  StrictIn(3..5, "members", Array(Of(MemberResponse)), Empty)>>)

\* list_groups_request.rs
ListGroupsRequest == Struct(0..5, 3..5, <<
  StrictIn(4..5, "states_filter", Array(Str), Empty),
  StrictIn({5}, "types_filter", Array(Str), Empty)>>)

\* list_groups_response.rs
ListedGroup == Struct(0..5, 3..5, <<
  Field("group_id", Str, Empty),
  Field("protocol_type", Str, Empty),
  FieldIn(4..5, "group_state", Str, Empty),
  FieldIn({5}, "group_type", Str, Empty)>>)
ListGroupsResponse == Struct(0..5, 3..5, <<
  FieldIn(1..5, "throttle_time_ms", Int32, 0),
  Field("error_code", Int16, 0),
  Field("groups", Array(Of(ListedGroup)), Empty)>>)

\* offset_commit_request.rs
OffsetCommitRequestPartition == Struct(2..10, 8..10, <<
  Field("partition_index", Int32, 0),
  Field("committed_offset", Int64, Long(0)),
  FieldIn(6..10, "committed_leader_epoch", Int32, -1),
  Field("committed_metadata", Opt(Str), Some(Empty))>>)
OffsetCommitRequestTopic == Struct(2..10, 8..10, <<
  FieldIn(2..9, "name", Str, Empty),
  FieldIn({10}, "topic_id", Uuid, NilUuid),
  Field("partitions", Array(Of(OffsetCommitRequestPartition)), Empty)>>)
OffsetCommitRequest == Struct(2..10, 8..10, <<
  Field("group_id", Str, Empty),
  Field("generation_id_or_member_epoch", Int32, -1),
  Field("member_id", Str, Empty),
  StrictIn(7..10, "group_instance_id", Opt(Str), None),
  FieldIn(2..4, "retention_time_ms", Int64, Long(-1)),
  Field("topics", Array(Of(OffsetCommitRequestTopic)), Empty)>>)

\* offset_commit_response.rs
OffsetCommitResponsePartition == Struct(2..10, 8..10, <<
  Field("partition_index", Int32, 0),
  Field("error_code", Int16, 0)>>)
OffsetCommitResponseTopic == Struct(2..10, 8..10, <<
  FieldIn(2..9, "name", Str, Empty),
  FieldIn({10}, "topic_id", Uuid, NilUuid),
  Field("partitions", Array(Of(OffsetCommitResponsePartition)), Empty)>>)
OffsetCommitResponse == Struct(2..10, 8..10, <<
  FieldIn(3..10, "throttle_time_ms", Int32, 0),
  Field("topics", Array(Of(OffsetCommitResponseTopic)), Empty)>>)

\* offset_delete_request.rs
OffsetDeleteRequestPartition == Struct({0}, {}, <<Field("partition_index", Int32, 0)>>)
OffsetDeleteRequestTopic == Struct({0}, {}, <<
  Field("name", Str, Empty),
  Field("partitions", Array(Of(OffsetDeleteRequestPartition)), Empty)>>)
OffsetDeleteRequest == Struct({0}, {}, <<
  Field("group_id", Str, Empty),
  Field("topics", Array(Of(OffsetDeleteRequestTopic)), Empty)>>)

\* offset_delete_response.rs
OffsetDeleteResponsePartition == Struct({0}, {}, <<
  Field("partition_index", Int32, 0),
  Field("error_code", Int16, 0)>>)
OffsetDeleteResponseTopic == Struct({0}, {}, <<
  Field("name", Str, Empty),
  Field("partitions", Array(Of(OffsetDeleteResponsePartition)), Empty)>>)
OffsetDeleteResponse == Struct({0}, {}, <<
  Field("error_code", Int16, 0),
  Field("throttle_time_ms", Int32, 0),
  Field("topics", Array(Of(OffsetDeleteResponseTopic)), Empty)>>)

\* offset_fetch_request.rs
OffsetFetchRequestTopic == Struct(1..10, 6..10, <<
  StrictIn(1..7, "name", Str, Empty),
  StrictIn(1..7, "partition_indexes", Array(Int32), Empty)>>)
OffsetFetchRequestTopics == Struct(1..10, 6..10, <<
  FieldIn(8..9, "name", Str, Empty),
  FieldIn({10}, "topic_id", Uuid, NilUuid),
  StrictIn(8..10, "partition_indexes", Array(Int32), Empty)>>)
OffsetFetchRequestGroup == Struct(1..10, 6..10, <<
  StrictIn(8..10, "group_id", Str, Empty),
  FieldIn(9..10, "member_id", Opt(Str), None),
  FieldIn(9..10, "member_epoch", Int32, -1),
  StrictIn(8..10, "topics", Opt(Array(Of(OffsetFetchRequestTopics))), Some(Empty))>>)
OffsetFetchRequest == Struct(1..10, 6..10, <<
  StrictIn(1..7, "group_id", Str, Empty),
  StrictIn(1..7, "topics", Opt(Array(Of(OffsetFetchRequestTopic))), Some(Empty)),
  StrictIn(8..10, "groups", Array(Of(OffsetFetchRequestGroup)), Empty),
  StrictIn(7..10, "require_stable", Boolean, FALSE)>>)

\* offset_fetch_response.rs
OffsetFetchResponsePartition == Struct(1..10, 6..10, <<
  StrictIn(1..7, "partition_index", Int32, 0),
  StrictIn(1..7, "committed_offset", Int64, Long(0)),
  FieldIn(5..7, "committed_leader_epoch", Int32, -1),
  StrictIn(1..7, "metadata", Opt(Str), Some(Empty)),
  StrictIn(1..7, "error_code", Int16, 0)>>)
OffsetFetchResponseTopic == Struct(1..10, 6..10, <<
  StrictIn(1..7, "name", Str, Empty),
  StrictIn(1..7, "partitions", Array(Of(OffsetFetchResponsePartition)), Empty)>>)
OffsetFetchResponsePartitions == Struct(1..10, 6..10, <<
  StrictIn(8..10, "partition_index", Int32, 0),
  StrictIn(8..10, "committed_offset", Int64, Long(0)),
  FieldIn(8..10, "committed_leader_epoch", Int32, -1),
  StrictIn(8..10, "metadata", Opt(Str), Some(Empty)),
  StrictIn(8..10, "error_code", Int16, 0)>>)
OffsetFetchResponseTopics == Struct(1..10, 6..10, <<
  FieldIn(8..9, "name", Str, Empty),
  FieldIn({10}, "topic_id", Uuid, NilUuid),
  StrictIn(8..10, "partitions", Array(Of(OffsetFetchResponsePartitions)), Empty)>>)
OffsetFetchResponseGroup == Struct(1..10, 6..10, <<
  StrictIn(8..10, "group_id", Str, Empty),
  StrictIn(8..10, "topics", Array(Of(OffsetFetchResponseTopics)), Empty),
  StrictIn(8..10, "error_code", Int16, 0)>>)
OffsetFetchResponse == Struct(1..10, 6..10, <<
  FieldIn(3..10, "throttle_time_ms", Int32, 0),
  StrictIn(1..7, "topics", Array(Of(OffsetFetchResponseTopic)), Empty),
  FieldIn(2..7, "error_code", Int16, 0),
  StrictIn(8..10, "groups", Array(Of(OffsetFetchResponseGroup)), Empty)>>)

\* sync_group_request.rs
SyncGroupRequestAssignment == Struct(0..5, 4..5, <<
  Field("member_id", Str, Empty),
  Field("assignment", Bytes, Empty)>>)
SyncGroupRequest == Struct(0..5, 4..5, <<
  Field("group_id", Str, Empty),
  Field("generation_id", Int32, 0),
  Field("member_id", Str, Empty),
  StrictIn(3..5, "group_instance_id", Opt(Str), None),
  FieldIn({5}, "protocol_type", Opt(Str), None),
  FieldIn({5}, "protocol_name", Opt(Str), None),
  Field("assignments", Array(Of(SyncGroupRequestAssignment)), Empty)>>)

\* sync_group_response.rs
SyncGroupResponse == Struct(0..5, 4..5, <<
  FieldIn(1..5, "throttle_time_ms", Int32, 0),
  Field("error_code", Int16, 0),
  FieldIn({5}, "protocol_type", Opt(Str), None),
  FieldIn({5}, "protocol_name", Opt(Str), None),
  Field("assignment", Bytes, Empty)>>)

=============================================================================
