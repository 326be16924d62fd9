------------------------------ MODULE ApiKeys -------------------------------
(***************************************************************************)
(* The tables of kafka-protocol/src/messages.rs, which tie the messages    *)
(* together: the number of each API, the schemas of its request and of its *)
(* response, the versions that decode_frame lets through, and the versions *)
(* of the headers before the two bodies.                                   *)
(***************************************************************************)
EXTENDS MsgData, MsgGroups, MsgNextGroups, MsgShare, MsgTopics, MsgAdmin, MsgCluster

\* enum ApiKey.
ApiKey ==
  [Produce |-> 0, Fetch |-> 1, ListOffsets |-> 2, Metadata |-> 3, OffsetCommit |-> 8,
   OffsetFetch |-> 9, FindCoordinator |-> 10, JoinGroup |-> 11, Heartbeat |-> 12,
   LeaveGroup |-> 13, SyncGroup |-> 14, DescribeGroups |-> 15, ListGroups |-> 16,
   SaslHandshake |-> 17, ApiVersions |-> 18, CreateTopics |-> 19, DeleteTopics |-> 20,
   DeleteRecords |-> 21, InitProducerId |-> 22, OffsetForLeaderEpoch |-> 23,
   AddPartitionsToTxn |-> 24, AddOffsetsToTxn |-> 25, EndTxn |-> 26,
   WriteTxnMarkers |-> 27, TxnOffsetCommit |-> 28, DescribeAcls |-> 29, CreateAcls |-> 30,
   DeleteAcls |-> 31, DescribeConfigs |-> 32, AlterConfigs |-> 33,
   AlterReplicaLogDirs |-> 34, DescribeLogDirs |-> 35, SaslAuthenticate |-> 36,
   CreatePartitions |-> 37, CreateDelegationToken |-> 38, RenewDelegationToken |-> 39,
   ExpireDelegationToken |-> 40, DescribeDelegationToken |-> 41, DeleteGroups |-> 42,
   ElectLeaders |-> 43, IncrementalAlterConfigs |-> 44, AlterPartitionReassignments |-> 45,
   ListPartitionReassignments |-> 46, OffsetDelete |-> 47, DescribeClientQuotas |-> 48,
   AlterClientQuotas |-> 49, DescribeUserScramCredentials |-> 50,
   AlterUserScramCredentials |-> 51, Vote |-> 52, BeginQuorumEpoch |-> 53,
   EndQuorumEpoch |-> 54, DescribeQuorum |-> 55, AlterPartition |-> 56,
   UpdateFeatures |-> 57, Envelope |-> 58, FetchSnapshot |-> 59, DescribeCluster |-> 60,
   DescribeProducers |-> 61, BrokerRegistration |-> 62, BrokerHeartbeat |-> 63,
   UnregisterBroker |-> 64, DescribeTransactions |-> 65, ListTransactions |-> 66,
   AllocateProducerIds |-> 67, ConsumerGroupHeartbeat |-> 68, ConsumerGroupDescribe |-> 69,
   ControllerRegistration |-> 70, GetTelemetrySubscriptions |-> 71, PushTelemetry |-> 72,
   AssignReplicasToDirs |-> 73, ListConfigResources |-> 74, DescribeTopicPartitions |-> 75,
   ShareGroupHeartbeat |-> 76, ShareGroupDescribe |-> 77, ShareFetch |-> 78,
   ShareAcknowledge |-> 79, AddRaftVoter |-> 80, RemoveRaftVoter |-> 81,
   UpdateRaftVoter |-> 82, InitializeShareGroupState |-> 83, ReadShareGroupState |-> 84,
   WriteShareGroupState |-> 85, DeleteShareGroupState |-> 86,
   ReadShareGroupStateSummary |-> 87, StreamsGroupHeartbeat |-> 88,
   StreamsGroupDescribe |-> 89, DescribeShareGroupOffsets |-> 90,
   AlterShareGroupOffsets |-> 91, DeleteShareGroupOffsets |-> 92]

ApiKeys == DOMAIN ApiKey

\* impl TryFrom<i16> for ApiKey: the API of a number, if it has one.
TryFrom(n) == LET named == {k \in ApiKeys : ApiKey[k] = n}
              IN  IF named = {} THEN None ELSE Some(CHOOSE k \in named : TRUE)

\* The bodies of enum RequestKind, by which its encode and decode go.
RequestKind ==
  [Produce |-> ProduceRequest, Fetch |-> FetchRequest, ListOffsets |-> ListOffsetsRequest,
   Metadata |-> MetadataRequest, OffsetCommit |-> OffsetCommitRequest,
   OffsetFetch |-> OffsetFetchRequest, FindCoordinator |-> FindCoordinatorRequest,
   JoinGroup |-> JoinGroupRequest, Heartbeat |-> HeartbeatRequest,
   LeaveGroup |-> LeaveGroupRequest, SyncGroup |-> SyncGroupRequest,
   DescribeGroups |-> DescribeGroupsRequest, ListGroups |-> ListGroupsRequest,
   SaslHandshake |-> SaslHandshakeRequest, ApiVersions |-> ApiVersionsRequest,
   CreateTopics |-> CreateTopicsRequest, DeleteTopics |-> DeleteTopicsRequest,
   DeleteRecords |-> DeleteRecordsRequest, InitProducerId |-> InitProducerIdRequest,
   OffsetForLeaderEpoch |-> OffsetForLeaderEpochRequest,
   AddPartitionsToTxn |-> AddPartitionsToTxnRequest,
   AddOffsetsToTxn |-> AddOffsetsToTxnRequest, EndTxn |-> EndTxnRequest,
   WriteTxnMarkers |-> WriteTxnMarkersRequest, TxnOffsetCommit |-> TxnOffsetCommitRequest,
   DescribeAcls |-> DescribeAclsRequest, CreateAcls |-> CreateAclsRequest,
   DeleteAcls |-> DeleteAclsRequest, DescribeConfigs |-> DescribeConfigsRequest,
   AlterConfigs |-> AlterConfigsRequest,
   AlterReplicaLogDirs |-> AlterReplicaLogDirsRequest,
   DescribeLogDirs |-> DescribeLogDirsRequest,
   SaslAuthenticate |-> SaslAuthenticateRequest,
   CreatePartitions |-> CreatePartitionsRequest,
   CreateDelegationToken |-> CreateDelegationTokenRequest,
   RenewDelegationToken |-> RenewDelegationTokenRequest,
   ExpireDelegationToken |-> ExpireDelegationTokenRequest,
   DescribeDelegationToken |-> DescribeDelegationTokenRequest,
   DeleteGroups |-> DeleteGroupsRequest, ElectLeaders |-> ElectLeadersRequest,
   IncrementalAlterConfigs |-> IncrementalAlterConfigsRequest,
   AlterPartitionReassignments |-> AlterPartitionReassignmentsRequest,
   ListPartitionReassignments |-> ListPartitionReassignmentsRequest,
   OffsetDelete |-> OffsetDeleteRequest,
   DescribeClientQuotas |-> DescribeClientQuotasRequest,
   AlterClientQuotas |-> AlterClientQuotasRequest,
   DescribeUserScramCredentials |-> DescribeUserScramCredentialsRequest,
   AlterUserScramCredentials |-> AlterUserScramCredentialsRequest, Vote |-> VoteRequest,
   BeginQuorumEpoch |-> BeginQuorumEpochRequest, EndQuorumEpoch |-> EndQuorumEpochRequest,
   DescribeQuorum |-> DescribeQuorumRequest, AlterPartition |-> AlterPartitionRequest,
   UpdateFeatures |-> UpdateFeaturesRequest, Envelope |-> EnvelopeRequest,
   FetchSnapshot |-> FetchSnapshotRequest, DescribeCluster |-> DescribeClusterRequest,
   DescribeProducers |-> DescribeProducersRequest,
   BrokerRegistration |-> BrokerRegistrationRequest,
   BrokerHeartbeat |-> BrokerHeartbeatRequest,
   UnregisterBroker |-> UnregisterBrokerRequest,
   DescribeTransactions |-> DescribeTransactionsRequest,
   ListTransactions |-> ListTransactionsRequest,
   AllocateProducerIds |-> AllocateProducerIdsRequest,
   ConsumerGroupHeartbeat |-> ConsumerGroupHeartbeatRequest,
   ConsumerGroupDescribe |-> ConsumerGroupDescribeRequest,
   ControllerRegistration |-> ControllerRegistrationRequest,
   GetTelemetrySubscriptions |-> GetTelemetrySubscriptionsRequest,
   PushTelemetry |-> PushTelemetryRequest,
   AssignReplicasToDirs |-> AssignReplicasToDirsRequest,
   ListConfigResources |-> ListConfigResourcesRequest,
   DescribeTopicPartitions |-> DescribeTopicPartitionsRequest,
   ShareGroupHeartbeat |-> ShareGroupHeartbeatRequest,
   ShareGroupDescribe |-> ShareGroupDescribeRequest, ShareFetch |-> ShareFetchRequest,
   ShareAcknowledge |-> ShareAcknowledgeRequest, AddRaftVoter |-> AddRaftVoterRequest,
   RemoveRaftVoter |-> RemoveRaftVoterRequest, UpdateRaftVoter |-> UpdateRaftVoterRequest,
   InitializeShareGroupState |-> InitializeShareGroupStateRequest,
   ReadShareGroupState |-> ReadShareGroupStateRequest,
   WriteShareGroupState |-> WriteShareGroupStateRequest,
   DeleteShareGroupState |-> DeleteShareGroupStateRequest,
   ReadShareGroupStateSummary |-> ReadShareGroupStateSummaryRequest,
   StreamsGroupHeartbeat |-> StreamsGroupHeartbeatRequest,
   StreamsGroupDescribe |-> StreamsGroupDescribeRequest,
   DescribeShareGroupOffsets |-> DescribeShareGroupOffsetsRequest,
   AlterShareGroupOffsets |-> AlterShareGroupOffsetsRequest,
   DeleteShareGroupOffsets |-> DeleteShareGroupOffsetsRequest]

\* The bodies of enum ResponseKind.
ResponseKind ==
  [Produce |-> ProduceResponse, Fetch |-> FetchResponse,
   ListOffsets |-> ListOffsetsResponse, Metadata |-> MetadataResponse,
   OffsetCommit |-> OffsetCommitResponse, OffsetFetch |-> OffsetFetchResponse,
   FindCoordinator |-> FindCoordinatorResponse, JoinGroup |-> JoinGroupResponse,
   Heartbeat |-> HeartbeatResponse, LeaveGroup |-> LeaveGroupResponse,
   SyncGroup |-> SyncGroupResponse, DescribeGroups |-> DescribeGroupsResponse,
   ListGroups |-> ListGroupsResponse, SaslHandshake |-> SaslHandshakeResponse,
   ApiVersions |-> ApiVersionsResponse, CreateTopics |-> CreateTopicsResponse,
   DeleteTopics |-> DeleteTopicsResponse, DeleteRecords |-> DeleteRecordsResponse,
   InitProducerId |-> InitProducerIdResponse,
   OffsetForLeaderEpoch |-> OffsetForLeaderEpochResponse,
   AddPartitionsToTxn |-> AddPartitionsToTxnResponse,
   AddOffsetsToTxn |-> AddOffsetsToTxnResponse, EndTxn |-> EndTxnResponse,
   WriteTxnMarkers |-> WriteTxnMarkersResponse,
   TxnOffsetCommit |-> TxnOffsetCommitResponse, DescribeAcls |-> DescribeAclsResponse,
   CreateAcls |-> CreateAclsResponse, DeleteAcls |-> DeleteAclsResponse,
   DescribeConfigs |-> DescribeConfigsResponse, AlterConfigs |-> AlterConfigsResponse,
   AlterReplicaLogDirs |-> AlterReplicaLogDirsResponse,
   DescribeLogDirs |-> DescribeLogDirsResponse,
   SaslAuthenticate |-> SaslAuthenticateResponse,
   CreatePartitions |-> CreatePartitionsResponse,
   CreateDelegationToken |-> CreateDelegationTokenResponse,
   RenewDelegationToken |-> RenewDelegationTokenResponse,
   ExpireDelegationToken |-> ExpireDelegationTokenResponse,
   DescribeDelegationToken |-> DescribeDelegationTokenResponse,
   DeleteGroups |-> DeleteGroupsResponse, ElectLeaders |-> ElectLeadersResponse,
   IncrementalAlterConfigs |-> IncrementalAlterConfigsResponse,
   AlterPartitionReassignments |-> AlterPartitionReassignmentsResponse,
   ListPartitionReassignments |-> ListPartitionReassignmentsResponse,
   OffsetDelete |-> OffsetDeleteResponse,
   DescribeClientQuotas |-> DescribeClientQuotasResponse,
   AlterClientQuotas |-> AlterClientQuotasResponse,
   DescribeUserScramCredentials |-> DescribeUserScramCredentialsResponse,
   AlterUserScramCredentials |-> AlterUserScramCredentialsResponse, Vote |-> VoteResponse,
   BeginQuorumEpoch |-> BeginQuorumEpochResponse,
   EndQuorumEpoch |-> EndQuorumEpochResponse, DescribeQuorum |-> DescribeQuorumResponse,
   AlterPartition |-> AlterPartitionResponse, UpdateFeatures |-> UpdateFeaturesResponse,
   Envelope |-> EnvelopeResponse, FetchSnapshot |-> FetchSnapshotResponse,
   DescribeCluster |-> DescribeClusterResponse,
   DescribeProducers |-> DescribeProducersResponse,
   BrokerRegistration |-> BrokerRegistrationResponse,
   BrokerHeartbeat |-> BrokerHeartbeatResponse,
   UnregisterBroker |-> UnregisterBrokerResponse,
   DescribeTransactions |-> DescribeTransactionsResponse,
   ListTransactions |-> ListTransactionsResponse,
   AllocateProducerIds |-> AllocateProducerIdsResponse,
   ConsumerGroupHeartbeat |-> ConsumerGroupHeartbeatResponse,
   ConsumerGroupDescribe |-> ConsumerGroupDescribeResponse,
   ControllerRegistration |-> ControllerRegistrationResponse,
   GetTelemetrySubscriptions |-> GetTelemetrySubscriptionsResponse,
   PushTelemetry |-> PushTelemetryResponse,
   AssignReplicasToDirs |-> AssignReplicasToDirsResponse,
   ListConfigResources |-> ListConfigResourcesResponse,
   DescribeTopicPartitions |-> DescribeTopicPartitionsResponse,
   ShareGroupHeartbeat |-> ShareGroupHeartbeatResponse,
   ShareGroupDescribe |-> ShareGroupDescribeResponse, ShareFetch |-> ShareFetchResponse,
   ShareAcknowledge |-> ShareAcknowledgeResponse, AddRaftVoter |-> AddRaftVoterResponse,
   RemoveRaftVoter |-> RemoveRaftVoterResponse,
   UpdateRaftVoter |-> UpdateRaftVoterResponse,
   InitializeShareGroupState |-> InitializeShareGroupStateResponse,
   ReadShareGroupState |-> ReadShareGroupStateResponse,
   WriteShareGroupState |-> WriteShareGroupStateResponse,
   DeleteShareGroupState |-> DeleteShareGroupStateResponse,
   ReadShareGroupStateSummary |-> ReadShareGroupStateSummaryResponse,
   StreamsGroupHeartbeat |-> StreamsGroupHeartbeatResponse,
   StreamsGroupDescribe |-> StreamsGroupDescribeResponse,
   DescribeShareGroupOffsets |-> DescribeShareGroupOffsetsResponse,
   AlterShareGroupOffsets |-> AlterShareGroupOffsetsResponse,
   DeleteShareGroupOffsets |-> DeleteShareGroupOffsetsResponse]

\* ApiKey::valid_versions.
ValidVersions ==
  [Produce |-> 3..13, Fetch |-> 4..18, ListOffsets |-> 1..11, Metadata |-> 0..13,
   OffsetCommit |-> 2..10, OffsetFetch |-> 1..10, FindCoordinator |-> 0..6,
   JoinGroup |-> 0..9, Heartbeat |-> 0..4, LeaveGroup |-> 0..5, SyncGroup |-> 0..5,
   DescribeGroups |-> 0..6, ListGroups |-> 0..5, SaslHandshake |-> 0..1,
   ApiVersions |-> 0..4, CreateTopics |-> 2..7, DeleteTopics |-> 1..6,
   DeleteRecords |-> 0..2, InitProducerId |-> 0..6, OffsetForLeaderEpoch |-> 2..4,
   AddPartitionsToTxn |-> 0..5, AddOffsetsToTxn |-> 0..4, EndTxn |-> 0..5,
   WriteTxnMarkers |-> 1..2, TxnOffsetCommit |-> 0..5, DescribeAcls |-> 1..3,
   CreateAcls |-> 1..3, DeleteAcls |-> 1..3, DescribeConfigs |-> 1..4,
   AlterConfigs |-> 0..2, AlterReplicaLogDirs |-> 1..2, DescribeLogDirs |-> 1..5,
   SaslAuthenticate |-> 0..2, CreatePartitions |-> 0..3, CreateDelegationToken |-> 1..3,
   RenewDelegationToken |-> 1..2, ExpireDelegationToken |-> 1..2,
   DescribeDelegationToken |-> 1..3, DeleteGroups |-> 0..2, ElectLeaders |-> 0..2,
   IncrementalAlterConfigs |-> 0..1, AlterPartitionReassignments |-> 0..1,
   ListPartitionReassignments |-> 0..0, OffsetDelete |-> 0..0,
   DescribeClientQuotas |-> 0..1, AlterClientQuotas |-> 0..1,
   DescribeUserScramCredentials |-> 0..0, AlterUserScramCredentials |-> 0..0,
   Vote |-> 0..2, BeginQuorumEpoch |-> 0..1, EndQuorumEpoch |-> 0..1,
   DescribeQuorum |-> 0..2, AlterPartition |-> 2..3, UpdateFeatures |-> 0..2,
   Envelope |-> 0..0, FetchSnapshot |-> 0..1, DescribeCluster |-> 0..2,
   DescribeProducers |-> 0..0, BrokerRegistration |-> 0..4, BrokerHeartbeat |-> 0..2,
   UnregisterBroker |-> 0..0, DescribeTransactions |-> 0..0, ListTransactions |-> 0..2,
   AllocateProducerIds |-> 0..0, ConsumerGroupHeartbeat |-> 0..1,
   ConsumerGroupDescribe |-> 0..1, ControllerRegistration |-> 0..0,
   GetTelemetrySubscriptions |-> 0..0, PushTelemetry |-> 0..0,
   AssignReplicasToDirs |-> 0..0, ListConfigResources |-> 0..1,
   DescribeTopicPartitions |-> 0..0, ShareGroupHeartbeat |-> 1..1,
   ShareGroupDescribe |-> 1..1, ShareFetch |-> 1..2, ShareAcknowledge |-> 1..2,
   AddRaftVoter |-> 0..1, RemoveRaftVoter |-> 0..0, UpdateRaftVoter |-> 0..0,
   InitializeShareGroupState |-> 0..0, ReadShareGroupState |-> 0..0,
   WriteShareGroupState |-> 0..1, DeleteShareGroupState |-> 0..0,
   ReadShareGroupStateSummary |-> 0..1, StreamsGroupHeartbeat |-> 0..0,
   StreamsGroupDescribe |-> 0..0, DescribeShareGroupOffsets |-> 0..1,
   AlterShareGroupOffsets |-> 0..0, DeleteShareGroupOffsets |-> 0..0]

\* The test that the functions header_version of the bodies make: it has no
\* upper end, so it also decides for the versions after the last valid one.
FlexibleFrom(struct, v) == \E first \in struct.flexible : v >= first

\* ApiKey::request_header_version and ApiKey::response_header_version.  The
\* response to ApiVersions has the oldest header in every version, for a client
\* that does not know yet what the broker speaks.
RequestHeaderVersion(k, v) == IF FlexibleFrom(RequestKind[k], v) THEN 2 ELSE 1
ResponseHeaderVersion(k, v) ==
  IF k # "ApiVersions" /\ FlexibleFrom(ResponseKind[k], v) THEN 1 ELSE 0

\* The messages that are the body of neither a request nor a response: the
\* headers, and what clients and brokers keep in records.
LoneMessages ==
  [ConsumerProtocolAssignment |-> ConsumerProtocolAssignment,
   ConsumerProtocolSubscription |-> ConsumerProtocolSubscription,
   ControlRecordTypeSchema |-> ControlRecordTypeSchema,
   DefaultPrincipalData |-> DefaultPrincipalData, EndTxnMarker |-> EndTxnMarker,
   KRaftVersionRecord |-> KRaftVersionRecord, LeaderChangeMessage |-> LeaderChangeMessage,
   RequestHeader |-> RequestHeader, ResponseHeader |-> ResponseHeader,
   SnapshotFooterRecord |-> SnapshotFooterRecord,
   SnapshotHeaderRecord |-> SnapshotHeaderRecord, VotersRecord |-> VotersRecord]
=============================================================================
