--------------------------- MODULE TopicHandlers ----------------------------
(***************************************************************************)
(* The responses of the handlers that read and write topics: produce.rs,   *)
(* fetch.rs, list_offsets.rs, metadata.rs, create_topics.rs,               *)
(* describe_configs.rs and describe_topic_partitions.rs, in the versions   *)
(* that the broker supports.  What the catalog and the logs do is the      *)
(* subject of other modules; here their outcomes are left open, and a      *)
(* handler is the set of the responses that it can build for a request.    *)
(* What the handler itself decides is kept: which outcomes a request can   *)
(* have, in what order and under which names they are told, and which      *)
(* fields are set in which version.                                        *)
(***************************************************************************)
EXTENDS ErrorResponse

\* The broker, and samples of what it may hold.
BrokerId == 1
Host == <<104>>
Port == 9092
CLUSTER_ID == <<109>>
Offsets == {Long(0), Long(5)}
Records == <<1, 2, 3>>
NewId == [i \in 1..16 |-> i]
StoredTopic(name) == [name |-> name, id |-> NewId, partition_count |-> 2]
SomeTopic == StoredTopic(<<116>>)

\* The sequences that have, for every item of seq, one of its outcomes.
Each(seq, Outcomes(_)) ==
  FoldLeft(LAMBDA done, item : {Append(d, c) : d \in done, c \in Outcomes(item)}, {<<>>}, seq)

\* The order of strings: lexicographic, by bytes.
Before(a, b) ==
  \/ Len(a) < Len(b) /\ \A i \in DOMAIN a : a[i] = b[i]
  \/ \E i \in DOMAIN a \cap DOMAIN b : a[i] < b[i] /\ \A j \in 1..(i - 1) : a[j] = b[j]

\* The items of seq whose key no earlier item has (HashSet::insert).
FirstOfEach(seq, Key(_)) ==
  FoldLeft(LAMBDA done, x : IF \E i \in DOMAIN done : Key(done[i]) = Key(x) THEN done
                            ELSE Append(done, x), <<>>, seq)

----------------------------------------------------------------------------
(* produce.rs, fetch.rs and list_offsets.rs *)

ProduceError(p, code) ==
  With(PartitionProduceResponse,
       [index |-> p.index, error_code |-> code, base_offset |-> Long(-1),
        log_append_time_ms |-> Long(-1), log_start_offset |-> Long(0)])

\* What the records, their producer and the log may object to.
AppendCodes ==
  {ErrorCode.UnsupportedForMessageFormat, ErrorCode.CorruptMessage, ErrorCode.UnknownProducerId,
   ErrorCode.InvalidProducerEpoch, ErrorCode.OutOfOrderSequenceNumber,
   ErrorCode.DuplicateSequenceNumber}

ProducePartition(p) ==
  {ProduceError(p, ErrorCode.UnknownTopicOrPartition)}
    \cup (IF p.records = None THEN {ProduceError(p, ErrorCode.CorruptMessage)}
          ELSE {ProduceError(p, code) : code \in AppendCodes}
                 \cup {With(PartitionProduceResponse,
                            [index |-> p.index, base_offset |-> offset,
                             log_append_time_ms |-> Long(-1), log_start_offset |-> Long(0)])
                         : offset \in Offsets})

ProduceTopic(t, topic_errors) ==
  LET failed == {Map(t.partition_data, LAMBDA p : ProduceError(p, code)) : code \in topic_errors}
      partitions == IF topic_errors # {} THEN failed ELSE Each(t.partition_data, ProducePartition)
  IN  {With(TopicProduceResponse, [name |-> t.name, partition_responses |-> ps])
         : ps \in partitions}

Produce(request) ==
  LET request_errors ==
        CASE request.acks \notin -1..1 -> {ErrorCode.InvalidRequiredAcks}
          [] request.acks \in -1..1 /\ request.transactional_id # None ->
               {ErrorCode.UnsupportedForMessageFormat}
          [] OTHER -> {}
      Topic(t) == IF request_errors # {} THEN ProduceTopic(t, request_errors)
                  ELSE ProduceTopic(t, {})
                         \cup ProduceTopic(t, {ErrorCode.UnknownTopicOrPartition,
                                               ErrorCode.InvalidTopicException})
  IN  {With(ProduceResponse, [responses |-> ts]) : ts \in Each(request.topic_data, Topic)}

FetchPartition(p) ==
  LET Data(code, watermark, records) == With(FetchResponsePartitionData,
        [partition_index |-> p.partition, error_code |-> code, high_watermark |-> watermark,
         last_stable_offset |-> watermark, aborted_transactions |-> Some(Empty),
         records |-> Some(records)])
  IN  {Data(code, Long(-1), Empty)
         : code \in {ErrorCode.UnknownTopicOrPartition, ErrorCode.OffsetOutOfRange}}
        \cup {Data(0, offset, records) : offset \in Offsets, records \in {Empty, Records}}

Fetch(request) ==
  LET Topic(t) == {With(FetchableTopicResponse, [topic |-> t.topic, partitions |-> ps])
                     : ps \in Each(t.partitions, FetchPartition)}
  IN  {With(FetchResponse, [responses |-> ts]) : ts \in Each(request.topics, Topic)}

\* The earliest offset, the next one, or a time, which is not supported.
ListOffsetsOf(p) ==
  LET Answer(code, offset) == With(ListOffsetsPartitionResponse,
        [partition_index |-> p.partition_index, error_code |-> code, timestamp |-> Long(-1),
         offset |-> offset, leader_epoch |-> -1])
  IN  {Answer(ErrorCode.UnknownTopicOrPartition, Long(-1))}
        \cup CASE p.timestamp = Long(-2) -> {Answer(0, Long(0))}
               [] p.timestamp = Long(-1) -> {Answer(0, offset) : offset \in Offsets}
               [] OTHER -> {Answer(ErrorCode.UnsupportedForMessageFormat, Long(-1))}

ListOffsets(request) ==
  LET Topic(t) == {With(ListOffsetsTopicResponse, [name |-> t.name, partitions |-> ps])
                     : ps \in Each(t.partitions, ListOffsetsOf)}
  IN  {With(ListOffsetsResponse, [topics |-> ts]) : ts \in Each(request.topics, Topic)}

----------------------------------------------------------------------------
(* metadata.rs, create_topics.rs and the other descriptions *)

TOPIC_AUTHORIZED_OPERATIONS == 3576
CLUSTER_AUTHORIZED_OPERATIONS == 8096
\* A slip: the operations are set whether or not they are asked for.
FaultyAuthorizedOperations(include, value) == value

OptionalAuthorizedOperations(include, value) == IF include THEN value ELSE MinInt32

MetadataTopic(topic) ==
  With(MetadataResponseTopic,
       [name |-> Some(topic.name), topic_id |-> topic.id,
        partitions |-> [i \in 1..topic.partition_count |->
          With(MetadataResponsePartition,
               [partition_index |-> i - 1, leader_id |-> BrokerId, leader_epoch |-> 0,
                replica_nodes |-> <<BrokerId>>, isr_nodes |-> <<BrokerId>>])]])
MetadataErrorTopic(name, id, code) ==
  With(MetadataResponseTopic, [error_code |-> code, name |-> name, topic_id |-> id])

TopicsByName(requested) ==
  LET Answers(t) ==
        IF t.name = None
        THEN {MetadataErrorTopic(None, NilUuid, ErrorCode.InvalidTopicException)}
        ELSE {MetadataTopic(StoredTopic(t.name[1]))}
               \cup {MetadataErrorTopic(t.name, NilUuid, code)
                       : code \in {ErrorCode.UnknownTopicOrPartition,
                                   ErrorCode.InvalidTopicException}}
  IN  Each(FirstOfEach(requested, LAMBDA t : t.name), Answers)

\* The ids that no topic has come first.
TopicsById(requested) ==
  LET ids == FirstOfEach(Map(SelectSeq(requested, LAMBDA t : t.topic_id # NilUuid),
                             LAMBDA t : t.topic_id), LAMBDA id : id)
      UnknownId(id) == MetadataErrorTopic(None, id, ErrorCode.UnknownTopicId)
      KnownId(id) == MetadataTopic([SomeTopic EXCEPT !.id = id])
  IN  {Map(SelectSeq(ids, LAMBDA id : id \notin known), UnknownId)
         \o Map(SelectSeq(ids, LAMBDA id : id \in known), KnownId)
         : known \in SUBSET {ids[i] : i \in DOMAIN ids}}

HasTopicId(requested) == \E i \in DOMAIN requested : requested[i].topic_id # NilUuid
HasNullName(requested) == \E i \in DOMAIN requested : requested[i].name = None

TopicsForRequest(request, version) ==
  CASE request.topics = None -> {<<>>, <<MetadataTopic(SomeTopic)>>}
    [] request.topics = Some(Empty) -> {<<>>}
    [] OTHER -> IF version >= 12 /\ HasTopicId(request.topics[1])
                THEN TopicsById(request.topics[1])
                ELSE TopicsByName(request.topics[1])

\* request_error: 0 when there is none.
MetadataRequestError(request, version) ==
  LET requested == OrEmpty(request.topics)
  IN  CASE version \in 10..11 /\ (HasTopicId(requested) \/ HasNullName(requested)) ->
             ErrorCode.InvalidRequest
        [] version >= 12 /\ ~HasTopicId(requested) /\ HasNullName(requested) ->
             ErrorCode.UnknownServerError
        [] OTHER -> 0

MetadataRequestErrorResponse(request, version, code) ==
  With(MetadataResponse,
       [topics |-> Map(OrEmpty(request.topics),
                       LAMBDA t : MetadataErrorTopic(Some(OrEmpty(t.name)), t.topic_id, code)),
        error_code |-> IF version >= 13 THEN code ELSE 0])

Metadata(request, version) ==
  LET code == MetadataRequestError(request, version)
      Authorized(t) ==
        IF t.error_code = ErrorCode.UnknownTopicId THEN t
        ELSE [t EXCEPT !.topic_authorized_operations =
                OptionalAuthorizedOperations(request.include_topic_authorized_operations,
                                             TOPIC_AUTHORIZED_OPERATIONS)]
  IN  IF code # 0 THEN {MetadataRequestErrorResponse(request, version, code)}
      ELSE {With(MetadataResponse,
                 [brokers |-> <<With(MetadataResponseBroker,
                                     [node_id |-> BrokerId, host |-> Host, port |-> Port])>>,
                  cluster_id |-> Some(CLUSTER_ID), controller_id |-> BrokerId,
                  topics |-> Map(topics, Authorized),
                  cluster_authorized_operations |->
                    OptionalAuthorizedOperations(request.include_cluster_authorized_operations,
                                                 CLUSTER_AUTHORIZED_OPERATIONS)])
              : topics \in TopicsForRequest(request, version)}

\* create_one: what the request says is judged before what the catalog says.
CreateOne(t, validate_only) ==
  LET Failed(code) == With(CreatableTopicResult,
        [name |-> t.name, error_code |-> code, error_message |-> Some(Message)])
      Created(id, partitions) == With(CreatableTopicResult,
        [name |-> t.name, error_message |-> None, num_partitions |-> partitions,
         replication_factor |-> 1, configs |-> Some(Empty), topic_id |-> id])
      topic_errors == {ErrorCode.TopicAlreadyExists, ErrorCode.InvalidTopicException,
                       ErrorCode.InvalidPartitions, ErrorCode.InvalidReplicationFactor}
  IN  CASE t.assignments # Empty -> {Failed(ErrorCode.InvalidReplicaAssignment)}
        [] t.assignments = Empty /\ t.configs # Empty -> {Failed(ErrorCode.InvalidConfig)}
        [] OTHER ->
             {Failed(code) : code \in topic_errors}
               \cup {IF validate_only THEN Created(NilUuid, t.num_partitions)
                     ELSE Created(NewId, SomeTopic.partition_count)}

CreateTopics(request) ==
  {With(CreateTopicsResponse, [topics |-> ts])
     : ts \in Each(request.topics, LAMBDA t : CreateOne(t, request.validate_only))}

\* The names of topics, and the name of the broker, are the only resources.
DescribeConfigs(request) ==
  LET Result(r) ==
        {With(DescribeConfigsResult,
              [error_code |-> code, error_message |-> None,
               resource_type |-> r.resource_type, resource_name |-> r.resource_name])
           : code \in CASE r.resource_type = 2 -> {0, ErrorCode.UnknownTopicOrPartition}
                       [] r.resource_type = 4 -> {0, ErrorCode.BrokerNotAvailable}
                       [] OTHER -> {ErrorCode.InvalidRequest}}
  IN  {With(DescribeConfigsResponse, [results |-> rs]) : rs \in Each(request.resources, Result)}

----------------------------------------------------------------------------
(* describe_topic_partitions.rs *)

DescribedTopic(name, partitions) ==
  With(DescribeTopicPartitionsResponseTopic,
       [name |-> Some(name), topic_id |-> NewId,
        topic_authorized_operations |-> TOPIC_AUTHORIZED_OPERATIONS,
        partitions |-> Map(partitions, LAMBDA p :
          With(DescribeTopicPartitionsResponsePartition,
               [partition_index |-> p, leader_id |-> BrokerId, leader_epoch |-> 0,
                replica_nodes |-> <<BrokerId>>, isr_nodes |-> <<BrokerId>>,
                eligible_leader_replicas |-> Some(Empty), last_known_elr |-> Some(Empty)]))])
DescribedErrorTopic(name, code) ==
  With(DescribeTopicPartitionsResponseTopic, [error_code |-> code, name |-> Some(name)])
ResourceErrorTopic(name, code) ==
  [DescribedErrorTopic(name, code) EXCEPT
     !.topic_authorized_operations = TOPIC_AUTHORIZED_OPERATIONS]

\* A slip: the topic of the cursor is taken for one that was listed.
FaultyFromCursor(cursor, name) == cursor = None \/ Before(cursor[1].topic_name, name)

FromCursor(cursor, name) == cursor = None \/ ~Before(name, cursor[1].topic_name)

\* selected_names: the names in their order, from the one in the cursor on;
\* None when the cursor is not one that the request can have.
SelectedNames(request, catalog) ==
  LET asked == {request.topics[i].name : i \in DOMAIN request.topics}
      names == IF asked # {} THEN asked ELSE catalog
      cursor == request.cursor
      invalid == /\ cursor # None
                 /\ \/ cursor[1].partition_index < 0
                    \/ asked # {} /\ cursor[1].topic_name \notin names
  IN  IF invalid THEN None
      ELSE Some(SetToSortSeq({n \in names : FromCursor(cursor, n)}, Before))

\* Where the limit cuts the partitions of these names is left open here:
\* TopicPages is about it.  A page holds the first names, each with an outcome,
\* and stops inside the last topic or after it.
DescribeTopicPartitions(request) ==
  LET Outcomes(name) ==
        {DescribedTopic(name, ps) : ps \in {<<>>, <<0>>, <<0, 1>>, <<1>>}}
          \cup {ResourceErrorTopic(name, code)
                  : code \in {ErrorCode.UnknownTopicOrPartition, ErrorCode.InvalidTopicException}}
      Cursor(name, p) == With(DescribeTopicPartitionsResponseCursor,
                              [topic_name |-> name, partition_index |-> p])
      Page(topics, cursor) ==
        With(DescribeTopicPartitionsResponse, [topics |-> topics, next_cursor |-> cursor])
      Stops(names, n) ==
        {<<<<0>>, Cursor(names[n], 1)>>}
          \cup IF n < Len(names) THEN {<<<<0, 1>>, Cursor(names[n + 1], 0)>>,
                                       <<<<1>>, Cursor(names[n + 1], 0)>>} ELSE {}
      Stopped(names, n) ==
        {Page(Append(ts, DescribedTopic(names[n], stop[1])), Some(stop[2]))
           : ts \in Each(SubSeq(names, 1, n - 1), Outcomes), stop \in Stops(names, n)}
      Pages(names) ==
        {Page(ts, None) : ts \in Each(names, Outcomes)}
          \cup UNION {Stopped(names, n) : n \in DOMAIN names}
      Answers(selected) ==
        IF selected = None
        THEN {With(DescribeTopicPartitionsResponse,
                   [topics |-> Map(request.topics, LAMBDA t :
                                 DescribedErrorTopic(t.name, ErrorCode.InvalidRequest))])}
        ELSE Pages(selected[1])
  IN  UNION {Answers(SelectedNames(request, catalog)) : catalog \in {{}, {SomeTopic.name}}}
=============================================================================
