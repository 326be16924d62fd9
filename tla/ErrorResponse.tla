---------------------------- MODULE ErrorResponse ----------------------------
(***************************************************************************)
(* The responses of kafka/error_response.rs to a request whose version the *)
(* schemas know and the broker does not support: each says so in the shape *)
(* of its API, about everything that the request asked for.                *)
(***************************************************************************)
EXTENDS RequestRouter

\* The codes of enum ResponseError that the broker uses.
ErrorCode ==
  [UnknownServerError |-> -1, OffsetOutOfRange |-> 1, CorruptMessage |-> 2,
   UnknownTopicOrPartition |-> 3, BrokerNotAvailable |-> 8, InvalidTopicException |-> 17,
   InvalidRequiredAcks |-> 21, IllegalGeneration |-> 22, InconsistentGroupProtocol |-> 23,
   InvalidGroupId |-> 24, UnknownMemberId |-> 25, RebalanceInProgress |-> 27,
   UnsupportedVersion |-> 35, TopicAlreadyExists |-> 36, InvalidPartitions |-> 37,
   InvalidReplicationFactor |-> 38, InvalidReplicaAssignment |-> 39, InvalidConfig |-> 40,
   InvalidRequest |-> 42, UnsupportedForMessageFormat |-> 43,
   OutOfOrderSequenceNumber |-> 45, DuplicateSequenceNumber |-> 46,
   InvalidProducerEpoch |-> 47, UnknownProducerId |-> 59, GroupIdNotFound |-> 69,
   MemberIdRequired |-> 79, UnknownTopicId |-> 100, MismatchedEndpointType |-> 114,
   UnsupportedEndpointType |-> 115]

UnsupportedCode == ErrorCode.UnsupportedVersion

\* The wording of a message is abstracted to a few bytes.
Message == <<110, 111>>

\* iter().map(...).collect().
Map(seq, Op(_)) == [i \in DOMAIN seq |-> Op(seq[i])]

\* unwrap_or_default of an optional sequence.
OrEmpty(option) == IF option = None THEN Empty ELSE option[1]

----------------------------------------------------------------------------
(* One per API *)

UnsupportedProduce(request, version) ==
  LET Partition(p) == With(PartitionProduceResponse,
        [index |-> p.index, error_code |-> UnsupportedCode, base_offset |-> Long(-1),
         log_append_time_ms |-> Long(-1), log_start_offset |-> Long(-1),
         error_message |-> IF version >= 8 THEN Some(Message) ELSE None])
      Topic(t) == With(TopicProduceResponse,
        [name |-> t.name, topic_id |-> t.topic_id,
         partition_responses |-> Map(t.partition_data, Partition)])
  IN  With(ProduceResponse, [responses |-> Map(request.topic_data, Topic)])

UnsupportedFetch(request) ==
  LET Partition(p) == With(FetchResponsePartitionData,
        [partition_index |-> p.partition, error_code |-> UnsupportedCode,
         high_watermark |-> Long(-1), last_stable_offset |-> Long(-1),
         log_start_offset |-> Long(-1), aborted_transactions |-> Some(Empty),
         records |-> Some(Empty)])
      Topic(t) == With(FetchableTopicResponse,
        [topic |-> t.topic, topic_id |-> t.topic_id, partitions |-> Map(t.partitions, Partition)])
  IN  With(FetchResponse,
           [error_code |-> UnsupportedCode, responses |-> Map(request.topics, Topic)])

\* A slip: the topics are collected by name, and one that is there twice is
\* answered once.
FaultyListOffsets(request) ==
  LET Partition(p) == With(ListOffsetsPartitionResponse,
        [partition_index |-> p.partition_index, error_code |-> UnsupportedCode])
      Topic(t) == With(ListOffsetsTopicResponse,
        [name |-> t.name, partitions |-> Map(t.partitions, Partition)])
      Collect(done, t) == IF \E i \in DOMAIN done : done[i].name = t.name THEN done
                          ELSE Append(done, Topic(t))
  IN  With(ListOffsetsResponse, [topics |-> FoldLeft(Collect, <<>>, request.topics)])

UnsupportedListOffsets(request) ==
  LET Partition(p) == With(ListOffsetsPartitionResponse,
        [partition_index |-> p.partition_index, error_code |-> UnsupportedCode,
         timestamp |-> Long(-1), offset |-> Long(-1), leader_epoch |-> -1])
      Topic(t) == With(ListOffsetsTopicResponse,
        [name |-> t.name, partitions |-> Map(t.partitions, Partition)])
  IN  With(ListOffsetsResponse, [topics |-> Map(request.topics, Topic)])

UnsupportedMetadata(request) ==
  LET Topic(t) == With(MetadataResponseTopic,
        [error_code |-> UnsupportedCode, name |-> t.name, topic_id |-> t.topic_id])
  IN  With(MetadataResponse,
           [controller_id |-> -1, topics |-> Map(OrEmpty(request.topics), Topic),
            error_code |-> UnsupportedCode])

UnsupportedOffsetCommit(request) ==
  LET Partition(p) == With(OffsetCommitResponsePartition,
        [partition_index |-> p.partition_index, error_code |-> UnsupportedCode])
      Topic(t) == With(OffsetCommitResponseTopic,
        [name |-> t.name, topic_id |-> t.topic_id, partitions |-> Map(t.partitions, Partition)])
  IN  With(OffsetCommitResponse, [topics |-> Map(request.topics, Topic)])

\* Three shapes: the error is told with every partition, once for the whole
\* response, or with every group.
UnsupportedOffsetFetch(request, version) ==
  LET Partition(struct, index) == With(struct,
        [partition_index |-> index, committed_offset |-> Long(-1),
         committed_leader_epoch |-> -1, metadata |-> None, error_code |-> UnsupportedCode])
      Topic(t) == With(OffsetFetchResponseTopic,
        [name |-> t.name,
         partitions |-> Map(t.partition_indexes,
                            LAMBDA i : Partition(OffsetFetchResponsePartition, i))])
      GroupTopic(t) == With(OffsetFetchResponseTopics,
        [name |-> t.name, topic_id |-> t.topic_id,
         partitions |-> Map(t.partition_indexes,
                            LAMBDA i : Partition(OffsetFetchResponsePartitions, i))])
      Group(g) == With(OffsetFetchResponseGroup,
        [group_id |-> g.group_id, topics |-> Map(OrEmpty(g.topics), GroupTopic),
         error_code |-> UnsupportedCode])
  IN  CASE version < 2 ->
             With(OffsetFetchResponse, [topics |-> Map(OrEmpty(request.topics), Topic)])
        [] version \in 2..7 -> With(OffsetFetchResponse, [error_code |-> UnsupportedCode])
        [] version > 7 -> With(OffsetFetchResponse, [groups |-> Map(request.groups, Group)])

UnsupportedFindCoordinator(request, version) ==
  LET nowhere == [node_id |-> -1, host |-> Empty, port |-> -1, error_code |-> UnsupportedCode,
                  error_message |-> Some(IF version = 0 THEN Empty ELSE Message)]
      Coordinate(key) == [With(Coordinator, nowhere) EXCEPT !.key = key]
  IN  IF version <= 3 THEN With(FindCoordinatorResponse, nowhere)
      ELSE With(FindCoordinatorResponse,
                [coordinators |-> Map(request.coordinator_keys, Coordinate)])

UnsupportedJoinGroup ==
  With(JoinGroupResponse, [error_code |-> UnsupportedCode, generation_id |-> -1,
                           protocol_type |-> None, protocol_name |-> Some(Empty)])
UnsupportedHeartbeat == With(HeartbeatResponse, [error_code |-> UnsupportedCode])
UnsupportedLeaveGroup == With(LeaveGroupResponse, [error_code |-> UnsupportedCode])
UnsupportedSyncGroup ==
  With(SyncGroupResponse,
       [error_code |-> UnsupportedCode, protocol_type |-> None, protocol_name |-> None])

UnsupportedDescribeGroups(request) ==
  LET Group(g) == With(DescribeGroupsResponseDescribedGroup,
        [error_code |-> UnsupportedCode, error_message |-> None, group_id |-> g])
  IN  With(DescribeGroupsResponse, [groups |-> Map(request.groups, Group)])

UnsupportedListGroups == With(ListGroupsResponse, [error_code |-> UnsupportedCode])

UnsupportedCreateTopics(request) ==
  LET Topic(t) == With(CreatableTopicResult,
        [name |-> t.name, error_code |-> UnsupportedCode, error_message |-> Some(Message),
         num_partitions |-> -1, replication_factor |-> -1, configs |-> Some(Empty)])
  IN  With(CreateTopicsResponse, [topics |-> Map(request.topics, Topic)])

UnsupportedInitProducerId ==
  With(InitProducerIdResponse,
       [error_code |-> UnsupportedCode, producer_id |-> Long(-1), producer_epoch |-> -1,
        ongoing_txn_producer_id |-> Long(-1), ongoing_txn_producer_epoch |-> -1])

UnsupportedDescribeConfigs(request) ==
  LET Result(r) == With(DescribeConfigsResult,
        [error_code |-> UnsupportedCode, error_message |-> Some(Message),
         resource_type |-> r.resource_type, resource_name |-> r.resource_name])
  IN  With(DescribeConfigsResponse, [results |-> Map(request.resources, Result)])

UnsupportedDescribeCluster ==
  With(DescribeClusterResponse,
       [error_code |-> UnsupportedCode, error_message |-> Some(Message)])

UnsupportedDescribeTopicPartitions(request) ==
  LET Topic(t) == With(DescribeTopicPartitionsResponseTopic,
        [error_code |-> UnsupportedCode, name |-> Some(t.name), topic_id |-> NilUuid])
  IN  With(DescribeTopicPartitionsResponse, [topics |-> Map(request.topics, Topic)])

\* unsupported_api_versions: the client learns the versions of ApiVersions,
\* to ask again.
UnsupportedApiVersionsBody ==
  With(ApiVersionsResponse,
       [error_code |-> UnsupportedCode,
        api_keys |-> <<With(ApiVersion, [api_key |-> ApiKey.ApiVersions,
                                         min_version |-> 0, max_version |-> 4])>>,
        finalized_features_epoch |-> Long(-1)])

----------------------------------------------------------------------------
\* unsupported_version.
UnsupportedVersion(k, version, body) ==
  CASE k = "Produce" -> UnsupportedProduce(body, version)
    [] k = "Fetch" -> UnsupportedFetch(body)
    [] k = "ListOffsets" -> UnsupportedListOffsets(body)
    [] k = "Metadata" -> UnsupportedMetadata(body)
    [] k = "OffsetCommit" -> UnsupportedOffsetCommit(body)
    [] k = "OffsetFetch" -> UnsupportedOffsetFetch(body, version)
    [] k = "FindCoordinator" -> UnsupportedFindCoordinator(body, version)
    [] k = "JoinGroup" -> UnsupportedJoinGroup
    [] k = "Heartbeat" -> UnsupportedHeartbeat
    [] k = "LeaveGroup" -> UnsupportedLeaveGroup
    [] k = "SyncGroup" -> UnsupportedSyncGroup
    [] k = "DescribeGroups" -> UnsupportedDescribeGroups(body)
    [] k = "ListGroups" -> UnsupportedListGroups
    [] k = "ApiVersions" -> UnsupportedApiVersionsBody
    [] k = "CreateTopics" -> UnsupportedCreateTopics(body)
    [] k = "InitProducerId" -> UnsupportedInitProducerId
    [] k = "DescribeConfigs" -> UnsupportedDescribeConfigs(body)
    [] k = "DescribeCluster" -> UnsupportedDescribeCluster
    [] k = "DescribeTopicPartitions" -> UnsupportedDescribeTopicPartitions(body)
=============================================================================
