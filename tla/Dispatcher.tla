----------------------------- MODULE Dispatcher ------------------------------
(***************************************************************************)
(* The responses of the other handlers, those of the groups, of the        *)
(* coordinator and of the cluster, and dispatch of kafka/dispatcher.rs,    *)
(* which hands each request to its handler.  As in TopicHandlers, a        *)
(* handler is the set of the responses that it can build: what a group     *)
(* does with a request is the subject of the module Group.                 *)
(***************************************************************************)
EXTENDS TopicHandlers

\* group_error.rs: the codes of the errors of a group.
GroupErrorCodes ==
  {ErrorCode.UnknownMemberId, ErrorCode.IllegalGeneration, ErrorCode.RebalanceInProgress,
   ErrorCode.InconsistentGroupProtocol, ErrorCode.InvalidRequest}

\* Samples of what a group may hold.
SomeMember == <<109, 49>>
SomeGroup == <<103>>
Metadatum == <<7>>

\* allocate_member_id: the name of the client, or "consumer", a hyphen, and the
\* digits of a number; here it is 0 or 10.
Consumer == <<99, 111, 110, 115, 117, 109, 101, 114>>
AllocatedId(client_id, digits) ==
  (IF client_id = None THEN Consumer ELSE client_id[1]) \o <<45>> \o digits

\* The other member of the group has an id that JoinGroup could carry, given to
\* this client or to another.
JoinGroup(request, client_id) ==
  LET Failed(code, member) == With(JoinGroupResponse,
        [error_code |-> code, generation_id |-> -1, protocol_name |-> Some(Empty),
         member_id |-> member])
      new == {AllocatedId(client_id, digits) : digits \in {<<48>>, <<49, 48>>}}
      others == {SomeMember} \cup {id \in new : Len(id) <= MaxLength(Str, FALSE)}
      Members(other) == <<With(JoinGroupResponseMember,
                               [member_id |-> other, group_instance_id |-> None,
                                metadata |-> Metadatum])>>
      Joined(other, listed) == With(JoinGroupResponse,
        [generation_id |-> 1, protocol_name |-> Some(Message), leader |-> other,
         member_id |-> request.member_id, members |-> listed])
  IN  IF request.group_instance_id # None
      THEN {Failed(ErrorCode.UnsupportedVersion, request.member_id)}
      ELSE {Failed(code, request.member_id) : code \in GroupErrorCodes}
             \cup (IF request.member_id = Empty
                   THEN {Failed(ErrorCode.MemberIdRequired, id) : id \in new}
                   ELSE UNION {{Joined(other, Members(other)), Joined(other, Empty)}
                                 : other \in others})

\* The code that a group answers with, unless the member is a static one.
MemberCodes(group_instance_id) ==
  IF group_instance_id # None THEN {ErrorCode.UnsupportedVersion} ELSE {0} \cup GroupErrorCodes

SyncGroup(request) ==
  {With(SyncGroupResponse,
        [error_code |-> code, assignment |-> IF code = 0 THEN Metadatum ELSE Empty])
     : code \in MemberCodes(request.group_instance_id)}

Heartbeat(request) ==
  {With(HeartbeatResponse, [error_code |-> code]) : code \in MemberCodes(request.group_instance_id)}

\* One member, told by the code of the response, or several, told one by one.
LeaveGroup(request, version) ==
  LET Member(m) == {With(MemberResponse,
                         [member_id |-> m.member_id, group_instance_id |-> None,
                          error_code |-> code]) : code \in MemberCodes(m.group_instance_id)}
  IN  IF version <= 2
      THEN {With(LeaveGroupResponse, [error_code |-> code]) : code \in MemberCodes(None)}
      ELSE {With(LeaveGroupResponse, [members |-> ms]) : ms \in Each(request.members, Member)}

\* One code for all the partitions: the offsets are committed together.
OffsetCommit(request) ==
  LET Partition(p, code) == With(OffsetCommitResponsePartition,
        [partition_index |-> p.partition_index, error_code |-> code])
      Topic(t, code) == With(OffsetCommitResponseTopic,
        [name |-> t.name, partitions |-> Map(t.partitions, LAMBDA p : Partition(p, code))])
  IN  {With(OffsetCommitResponse, [topics |-> Map(request.topics, LAMBDA t : Topic(t, code))])
         : code \in MemberCodes(request.group_instance_id)}

\* fetch_offsets and group_by_topic: every partition that was asked for, or
\* everything that is stored, by the order of the topics; the offsets of a
\* group that exists are sorted before they are grouped.
OffsetFetch(request) ==
  LET Partition(i, offset, metadata) == With(OffsetFetchResponsePartition,
        [partition_index |-> i, committed_offset |-> Long(offset),
         committed_leader_epoch |-> -1, metadata |-> metadata])
      Missing(i) == {Partition(i, -1, None)}
      Stored(i) == {Partition(i, 5, None), Partition(i, 5, Some(Message))}
      requested == OrEmpty(request.topics)
      PartitionsOf(name) ==
        FoldLeft(LAMBDA ps, t : IF t.name = name THEN ps \o t.partition_indexes ELSE ps,
                 <<>>, requested)
      names == SetToSortSeq({n \in {requested[i].name : i \in DOMAIN requested} :
                               PartitionsOf(n) # <<>>}, Before)
      Topic(name, ps) == With(OffsetFetchResponseTopic, [name |-> name, partitions |-> ps])
      NoGroup(name) == {Topic(name, ps) : ps \in Each(PartitionsOf(name), Missing)}
      InGroup(name) == {Topic(name, ps) : ps \in Each(SortSeq(PartitionsOf(name), <),
                                                      LAMBDA i : Missing(i) \cup Stored(i))}
      everything == {<<>>} \cup {<<Topic(SomeTopic.name, <<p>>)>> : p \in Stored(0)}
      topics == IF request.topics = None THEN everything
                ELSE Each(names, NoGroup) \cup Each(names, InGroup)
  IN  {With(OffsetFetchResponse, [topics |-> ts]) : ts \in topics}

ListGroups ==
  {With(ListGroupsResponse, [groups |-> gs])
     : gs \in {<<>>, <<With(ListedGroup, [group_id |-> SomeGroup, protocol_type |-> Message])>>}}

DescribeGroups(request) ==
  LET member == With(DescribedGroupMember,
        [member_id |-> SomeMember, client_id |-> Message, member_metadata |-> Metadatum,
         member_assignment |-> Metadatum])
      Group(id) ==
        {With(DescribeGroupsResponseDescribedGroup,
              [group_id |-> id, group_state |-> Message, protocol_type |-> Message,
               protocol_data |-> Message, members |-> ms]) : ms \in {<<>>, <<member>>}}
          \cup {With(DescribeGroupsResponseDescribedGroup,
                     [error_code |-> ErrorCode.GroupIdNotFound, group_id |-> id])}
  IN  {With(DescribeGroupsResponse, [groups |-> gs]) : gs \in Each(request.groups, Group)}

InitProducerId(request) ==
  LET Failed(code) == With(InitProducerIdResponse,
        [error_code |-> code, producer_id |-> Long(-1), producer_epoch |-> -1])
  IN  IF request.transactional_id # None THEN {Failed(ErrorCode.UnsupportedForMessageFormat)}
      ELSE {With(InitProducerIdResponse, [producer_id |-> Long(5), producer_epoch |-> 0]),
            Failed(ErrorCode.UnknownServerError)}

FindCoordinator(request) ==
  LET Failed(code) == With(FindCoordinatorResponse,
        [error_code |-> code, error_message |-> Some(Message), node_id |-> -1, port |-> -1])
  IN  CASE request.key = Empty -> {Failed(ErrorCode.InvalidGroupId)}
        [] request.key # Empty /\ request.key_type # 0 -> {Failed(ErrorCode.UnsupportedVersion)}
        [] OTHER -> {With(FindCoordinatorResponse,
                          [error_message |-> None, node_id |-> BrokerId, host |-> Host,
                           port |-> Port])}

DescribeCluster(request) ==
  LET Failed(code) == With(DescribeClusterResponse,
        [error_code |-> code, error_message |-> Some(Message)])
  IN  CASE request.endpoint_type = 1 ->
             {With(DescribeClusterResponse,
                   [endpoint_type |-> 1, cluster_id |-> CLUSTER_ID, controller_id |-> BrokerId,
                    brokers |-> <<With(DescribeClusterBroker,
                                       [broker_id |-> BrokerId, host |-> Host, port |-> Port])>>,
                    cluster_authorized_operations |->
                      OptionalAuthorizedOperations(request.include_cluster_authorized_operations,
                                                   CLUSTER_AUTHORIZED_OPERATIONS)])}
        [] request.endpoint_type = 2 -> {Failed(ErrorCode.MismatchedEndpointType)}
        [] OTHER -> {Failed(ErrorCode.UnsupportedEndpointType)}

\* What the broker advertises is its registry.
ApiVersions ==
  {With(ApiVersionsResponse,
        [api_keys |-> Map(CAPABILITIES, LAMBDA c :
           With(ApiVersion, [api_key |-> ApiKey[c.api], min_version |-> c.min,
                             max_version |-> c.max]))])}

----------------------------------------------------------------------------
\* dispatch, with what it takes from the header.
Dispatch(k, header, body) ==
  CASE k = "ApiVersions" -> ApiVersions
    [] k = "Metadata" -> Metadata(body, header.request_api_version)
    [] k = "CreateTopics" -> CreateTopics(body)
    [] k = "Produce" -> Produce(body)
    [] k = "ListOffsets" -> ListOffsets(body)
    [] k = "Fetch" -> Fetch(body)
    [] k = "FindCoordinator" -> FindCoordinator(body)
    [] k = "JoinGroup" -> JoinGroup(body, header.client_id)
    [] k = "SyncGroup" -> SyncGroup(body)
    [] k = "Heartbeat" -> Heartbeat(body)
    [] k = "LeaveGroup" -> LeaveGroup(body, header.request_api_version)
    [] k = "OffsetCommit" -> OffsetCommit(body)
    [] k = "OffsetFetch" -> OffsetFetch(body)
    [] k = "ListGroups" -> ListGroups
    [] k = "DescribeGroups" -> DescribeGroups(body)
    [] k = "InitProducerId" -> InitProducerId(body)
    [] k = "DescribeConfigs" -> DescribeConfigs(body)
    [] k = "DescribeCluster" -> DescribeCluster(body)
    [] k = "DescribeTopicPartitions" -> DescribeTopicPartitions(body)
=============================================================================
