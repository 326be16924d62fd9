------------------------------ MODULE Exchange -------------------------------
(***************************************************************************)
(* One exchange over a connection, in bytes.  A client writes a request in *)
(* some version of its API; the broker decodes the frame (codec.rs),       *)
(* routes it (request_router.rs), answers it through a handler or with a   *)
(* rejection (dispatcher.rs, error_response.rs), and writes the response   *)
(* if it can be encoded and fits in a frame; the client reads it.  The     *)
(* frame may arrive cut short, or with bytes that are not its own.  The    *)
(* messages that the broker itself never writes or reads, for which the    *)
(* crate kafka-protocol has codecs all the same, are written and read by   *)
(* two peers.                                                              *)
(***************************************************************************)
EXTENDS Dispatcher

CONSTANTS Bodies(_, _),    \* the values of a struct to write in a version
          Headers(_),      \* the headers of a request of an API
          MAX_FRAME_SIZE   \* the bytes that a frame may have

VARIABLES
  asked,      \* what is to be sent: its kind, its API or name, its version
  sent,       \* the value that was written: a header, for requests, and a body
  wire,       \* the bytes on their way
  damaged,    \* they are not the ones that were written
  stage,      \* how far the exchange has come
  decoded,    \* what the broker made of the frame
  answer,     \* the response that it wrote
  received    \* what the client, or the peer, made of the bytes
vars == <<asked, sent, wire, damaged, stage, decoded, answer, received>>

Nothing == <<>>

\* The struct behind a message that two peers exchange.
PeerStruct(kind, name) ==
  IF kind = "response" THEN ResponseKind[name] ELSE LoneMessages[name]

\* Every version that a schema has and, for requests, the one after the last.
Init ==
  /\ asked \in [kind : {"request"}, name : ApiKeys, version : -1..20]
               \cup [kind : {"response"}, name : ApiKeys, version : 0..20]
               \cup [kind : {"lone"}, name : DOMAIN LoneMessages, version : 0..20]
  /\ IF asked.kind = "request"
     THEN \E v \in ValidVersions[asked.name] : asked.version \in {v, v + 1}
     ELSE asked.version \in PeerStruct(asked.kind, asked.name).valid
  /\ sent = Nothing /\ wire = <<>> /\ damaged = FALSE /\ stage = "start"
  /\ decoded = Nothing /\ answer = Nothing /\ received = Nothing

----------------------------------------------------------------------------
(* The client *)

InSchema == asked.version \in ValidVersions[asked.name]

\* A request.  The body of a version that the schemas do not have is of no
\* known shape: here it is one byte.
WriteRequest ==
  /\ stage = "start" /\ asked.kind = "request"
  /\ \E header \in Headers(asked),
        body \in IF InSchema THEN Bodies(RequestKind[asked.name], asked.version) ELSE {Nothing} :
       /\ sent' = [header |-> header, body |-> body]
       /\ IF InSchema /\ Bails(RequestKind[asked.name], body, asked.version)
          THEN stage' = "refused" /\ wire' = <<>>
          ELSE /\ stage' = "written"
               /\ wire' = Encode(RequestHeader, header,
                                 RequestHeaderVersion(asked.name, asked.version))
                            \o (IF InSchema THEN Encode(RequestKind[asked.name], body, asked.version)
                                ELSE <<0>>)
  /\ UNCHANGED <<asked, damaged, decoded, answer, received>>

\* The version in which a client reads a response: the one that it asked in,
\* but for an ApiVersions request of a version that the broker may not know.
ReadVersion == IF InSchema THEN asked.version ELSE 0

ReadResponse ==
  /\ stage = "answered"
  /\ LET header == Decode(ResponseHeader, wire, 1, ResponseHeaderVersion(asked.name, ReadVersion))
     IN  received' = IF header.ok
                     THEN [header |-> header.value,
                           body |-> Decode(ResponseKind[asked.name], wire, header.at, ReadVersion)]
                     ELSE Fail
  /\ stage' = "read"
  /\ UNCHANGED <<asked, sent, wire, damaged, decoded, answer>>

----------------------------------------------------------------------------
(* The network *)

\* The frame loses its last byte, or its second half, or gets a byte more.
Damage ==
  /\ stage = "written" /\ asked.kind = "request" /\ ~damaged
  /\ wire' \in {SubSeq(wire, 1, Len(wire) - 1), SubSeq(wire, 1, Len(wire) \div 2),
                Append(wire, 0)}
  /\ damaged' = TRUE
  /\ UNCHANGED <<asked, sent, stage, decoded, answer, received>>

----------------------------------------------------------------------------
(* The broker *)

\* What read_frame refuses to read and write_frame to write.
TooLarge(frame) == Len(frame) > MAX_FRAME_SIZE

\* read_frame and decode_frame; a frame that one of them refuses closes the
\* connection.
ReceiveFrame ==
  /\ stage = "written" /\ asked.kind = "request"
  /\ decoded' = IF TooLarge(wire) THEN Malformed("length") ELSE DecodeFrame(wire)
  /\ stage' = IF decoded'.kind = "error" THEN "closed" ELSE "decoded"
  /\ UNCHANGED <<asked, sent, wire, damaged, answer, received>>

\* write_response: a body that cannot be encoded closes the connection, and
\* so does a frame that is too large for write_frame.
WriteResponse(body) ==
  LET k == AnsweredApi(decoded)
      v == EncodingVersion(decoded)
      encoded == EncodeResponse(k, v, decoded.header.correlation_id, body)
  IN  /\ answer' = body
      /\ \/ ResponseBails(k, v, body) /\ stage' = "unwritable" /\ wire' = <<>>
         \/ /\ ~ResponseBails(k, v, body)
            /\ IF TooLarge(encoded) THEN stage' = "too large" /\ wire' = <<>>
               ELSE stage' = "answered" /\ wire' = encoded

\* handle_one for a request that a handler serves.
ServeRequest ==
  /\ stage = "decoded" /\ Route(decoded) = "dispatch"
  /\ \E body \in Dispatch(decoded.api_key, decoded.header, decoded.body) :
       IF ExpectsResponse(decoded) THEN WriteResponse(body)
       ELSE stage' = "silent" /\ answer' = body /\ wire' = <<>>
  /\ UNCHANGED <<asked, sent, damaged, decoded, received>>

\* ... and for one that the router answers, drops, or does not know.
RejectRequest ==
  /\ stage = "decoded" /\ Route(decoded) = "respond"
  /\ WriteResponse(IF decoded.kind = "unsupported_api_versions" THEN UnsupportedApiVersionsBody
                   ELSE UnsupportedVersion(decoded.api_key, decoded.header.request_api_version,
                                           decoded.body))
  /\ UNCHANGED <<asked, sent, damaged, decoded, received>>

DropRequest ==
  /\ stage = "decoded" /\ Route(decoded) \in {"no response", "unsupported api"}
  /\ stage' = IF Route(decoded) = "no response" THEN "silent" ELSE "closed"
  /\ wire' = <<>>
  /\ UNCHANGED <<asked, sent, damaged, decoded, answer, received>>

----------------------------------------------------------------------------
(* Two peers *)

WriteMessage ==
  /\ stage = "start" /\ asked.kind # "request"
  /\ LET struct == PeerStruct(asked.kind, asked.name)
     IN  \E body \in Bodies(struct, asked.version) :
           /\ sent' = [body |-> body]
           /\ IF Bails(struct, body, asked.version) THEN stage' = "refused" /\ wire' = <<>>
              ELSE stage' = "written" /\ wire' = Encode(struct, body, asked.version)
  /\ UNCHANGED <<asked, damaged, decoded, answer, received>>

ReadMessage ==
  /\ stage = "written" /\ asked.kind # "request"
  /\ received' = [body |-> Decode(PeerStruct(asked.kind, asked.name), wire, 1, asked.version)]
  /\ stage' = "read"
  /\ UNCHANGED <<asked, sent, wire, damaged, decoded, answer>>

----------------------------------------------------------------------------
Next ==
  \/ WriteRequest \/ Damage \/ ReceiveFrame
  \/ ServeRequest \/ RejectRequest \/ DropRequest \/ ReadResponse
  \/ WriteMessage \/ ReadMessage

Spec == Init /\ [][Next]_vars

----------------------------------------------------------------------------
(* What a version of a message can say *)

RECURSIVE Kept(_, _, _), KeptField(_, _, _)

\* The part of a value that survives a version: the fields that the version
\* has, in the structs inside it too, and the defaults of all the others.
KeptField(type, x, v) ==
  CASE type.kind \notin {"array", "struct"} -> x
    [] type.kind \in {"array", "struct"} /\ type.optional ->
         IF x = None THEN None ELSE Some(KeptField([type EXCEPT !.optional = FALSE], x[1], v))
    [] type.kind = "array" /\ ~type.optional -> [i \in DOMAIN x |-> KeptField(type.of, x[i], v)]
    [] type.kind = "struct" /\ ~type.optional -> Kept(type.of, x, v)
Kept(struct, x, v) ==
  LET named(name) == CHOOSE i \in DOMAIN struct.fields : struct.fields[i].name = name
  IN  [name \in DOMAIN x |->
         IF name = Unknown THEN IF v \in struct.flexible THEN x[name] ELSE Empty
         ELSE LET f == struct.fields[named(name)]
              IN  IF v \in f.versions THEN KeptField(f.type, x[name], v) ELSE f.default]

RECURSIVE CodesIn(_, _, _)

\* The error codes that a reader of a value finds in it.
CodesIn(struct, x, v) ==
  LET FieldCodes(f) ==
        CASE f.name = "error_code" -> {x[f.name]}
          [] f.type.kind = "array" /\ ~f.type.optional /\ f.type.of.kind = "struct" ->
               UNION {CodesIn(f.type.of.of, x[f.name][i], v) : i \in DOMAIN x[f.name]}
          [] OTHER -> {}
  IN  UNION {FieldCodes(struct.fields[i])
               : i \in {j \in DOMAIN struct.fields : v \in struct.fields[j].versions}}

\* A version of a struct has this field.
Has(struct, name, v) ==
  \E i \in DOMAIN struct.fields : struct.fields[i].name = name /\ v \in struct.fields[i].versions

\* What a request asks about, one entry per thing and in order, for the APIs
\* whose responses answer entry by entry.
Entries(topics, Id(_), partitions, Entry(_, _)) ==
  FlattenSeq(Map(topics, LAMBDA t : Map(t[partitions], LAMBDA p : Entry(Id(t), p))))
NameAndId(t) == <<t.name, t.topic_id>>
NameOnly(t) == t.name
PartitionIndex(topic, p) == <<topic, p.partition_index>>

AskedAbout(k, v, b) ==
  CASE k = "Produce" ->
         Entries(b.topic_data, NameAndId, "partition_data", LAMBDA topic, p : <<topic, p.index>>)
    [] k = "Fetch" -> Entries(b.topics, LAMBDA t : <<t.topic, t.topic_id>>, "partitions",
                              LAMBDA topic, p : <<topic, p.partition>>)
    [] k = "ListOffsets" -> Entries(b.topics, NameOnly, "partitions", PartitionIndex)
    [] k = "OffsetCommit" -> Entries(b.topics, NameAndId, "partitions", PartitionIndex)
    [] k = "OffsetFetch" /\ v <= 7 ->
         Entries(OrEmpty(b.topics), NameOnly, "partition_indexes", LAMBDA topic, p : <<topic, p>>)
    [] k = "OffsetFetch" /\ v > 7 -> Map(b.groups, LAMBDA g : g.group_id)
    [] k = "Metadata" -> Map(OrEmpty(b.topics), NameAndId)
    [] k = "CreateTopics" -> Map(b.topics, NameOnly)
    [] k = "DescribeTopicPartitions" -> Map(b.topics, LAMBDA t : Some(t.name))
    [] k = "DescribeGroups" -> b.groups
    [] k = "DescribeConfigs" -> Map(b.resources, LAMBDA r : <<r.resource_type, r.resource_name>>)
    [] k = "FindCoordinator" /\ v > 3 -> b.coordinator_keys
    [] k = "LeaveGroup" /\ v > 2 -> Map(b.members, LAMBDA m : m.member_id)
    [] OTHER -> <<>>

\* What a response tells, in the same way: what each entry is about, and its
\* error code.
Told(items, Id(_)) == Map(items, LAMBDA x : [about |-> Id(x), code |-> x.error_code])
PartitionCode(topic, p) == [about |-> <<topic, p.partition_index>>, code |-> p.error_code]

Answered(k, v, b) ==
  CASE k = "Produce" ->
         Entries(b.responses, NameAndId, "partition_responses",
                 LAMBDA topic, p : [about |-> <<topic, p.index>>, code |-> p.error_code])
    [] k = "Fetch" ->
         Entries(b.responses, LAMBDA t : <<t.topic, t.topic_id>>, "partitions", PartitionCode)
    [] k = "ListOffsets" -> Entries(b.topics, NameOnly, "partitions", PartitionCode)
    [] k = "OffsetCommit" -> Entries(b.topics, NameAndId, "partitions", PartitionCode)
    [] k = "OffsetFetch" /\ v <= 7 -> Entries(b.topics, NameOnly, "partitions", PartitionCode)
    [] k = "OffsetFetch" /\ v > 7 -> Told(b.groups, LAMBDA g : g.group_id)
    [] k = "Metadata" -> Told(b.topics, NameAndId)
    [] k = "CreateTopics" -> Told(b.topics, NameOnly)
    [] k = "DescribeTopicPartitions" -> Told(b.topics, NameOnly)
    [] k = "DescribeGroups" -> Told(b.groups, LAMBDA g : g.group_id)
    [] k = "DescribeConfigs" -> Told(b.results, LAMBDA r : <<r.resource_type, r.resource_name>>)
    [] k = "FindCoordinator" /\ v > 3 -> Told(b.coordinators, LAMBDA c : c.key)
    [] k = "LeaveGroup" /\ v > 2 -> Told(b.members, LAMBDA m : m.member_id)
    [] OTHER -> <<>>
ToldAbout(k, v, b) == Map(Answered(k, v, b), LAMBDA x : x.about)

----------------------------------------------------------------------------
(* Properties *)

Rejected == decoded # Nothing /\ decoded.kind # "error" /\ Route(decoded) = "respond"
Served == decoded # Nothing /\ decoded.kind # "error" /\ Route(decoded) = "dispatch"

\* What is read is what was written, as far as the version can say it, and
\* nothing is left over: for the requests, the responses and their headers,
\* of every API, and for the other messages (encode against decode).
NothingIsLost ==
  /\ stage \in {"decoded", "closed"} /\ ~damaged /\ ~TooLarge(wire) /\ InSchema =>
       decoded = DecodedRequest(asked.name,
                   Kept(RequestHeader, sent.header, RequestHeaderVersion(asked.name, asked.version)),
                   Kept(RequestKind[asked.name], sent.body, asked.version))
  /\ stage = "read" /\ asked.kind = "request" =>
       /\ received.header.correlation_id = sent.header.correlation_id
       /\ received.body = Ok(Kept(ResponseKind[asked.name], answer, ReadVersion), Len(wire) + 1)
  /\ stage = "read" /\ asked.kind # "request" =>
       received.body = Ok(Kept(PeerStruct(asked.kind, asked.name), sent.body, asked.version),
                          Len(wire) + 1)

\* compute_size announces what encode writes.  Inside a tag buffer the one is
\* written before the other, and a reader relies on it.
SizesAgree ==
  /\ stage = "written" /\ ~damaged /\ asked.kind = "request" /\ InSchema =>
       Len(wire) = ComputeSize(RequestHeader, sent.header,
                               RequestHeaderVersion(asked.name, asked.version))
                     + ComputeSize(RequestKind[asked.name], sent.body, asked.version)
  /\ stage = "written" /\ asked.kind # "request" =>
       Len(wire) = ComputeSize(PeerStruct(asked.kind, asked.name), sent.body, asked.version)

\* The codecs of every message agree with each other in every version.
CodecsAgree == NothingIsLost /\ SizesAgree

\* A frame that was cut short, or that has bytes after its end, is never taken
\* for a request (decode_frame), not even for another one.
DamageIsNoticed == damaged /\ InSchema => stage \in {"written", "closed"}

\* Whatever a handler or the router answers, in whatever version it was asked,
\* it can be encoded in that version: no field is set that the version does not
\* have, and no string is too long.  There is one exception: the member id that
\* JoinGroup makes of the name of the client and a number (allocate_member_id),
\* which no member can have before it was told, may be too long to be told.
OnlyNewIdsAreUnwritable ==
  stage = "unwritable" =>
    /\ asked.name = "JoinGroup" /\ answer.error_code = ErrorCode.MemberIdRequired
    /\ Len(answer.member_id) > MaxLength(Str, FALSE)
    /\ ~Bails(JoinGroupResponse, [answer EXCEPT !.member_id = Empty], asked.version)

\* The response has an error code of its own, beside those of its entries.
HasOneCode == Has(ResponseKind[asked.name], "error_code", ReadVersion)

\* The client of a rejected version learns of it: every error code in the
\* response says UNSUPPORTED_VERSION, and there is one for all of the request,
\* or one for every single thing that it asked about (error_response.rs).  A
\* request that names nothing may thus be answered without any code; whether it
\* still asks for something is the subject of AdjacentRejectionSaysSo.
RejectionIsTold ==
  stage = "read" /\ Rejected =>
    /\ CodesIn(ResponseKind[asked.name], received.body.value, ReadVersion) \subseteq {UnsupportedCode}
    /\ \/ HasOneCode
       \/ Answered(asked.name, asked.version, received.body.value)
            = Map(AskedAbout(asked.name, asked.version, decoded.body),
                  LAMBDA x : [about |-> x, code |-> UnsupportedCode])

\* "Every schema-known adjacent unsupported version returns a decodable
\* UNSUPPORTED_VERSION response": when the version next to a supported one asks
\* about anything, the response has the code.  It does not hold of a Metadata
\* request of version 3 for all topics: it names none, and before version 13
\* there is no code for the whole response (unsupported_metadata).
AdjacentRejectionSaysSo ==
  /\ stage = "read" /\ Rejected /\ decoded.kind = "request"
  /\ \E d \in {-1, 1} : Supports(FindCapability(asked.name)[1], asked.version + d)
  /\ \/ AskedAbout(asked.name, asked.version, decoded.body) # <<>>
     \/ asked.name = "Metadata" /\ decoded.body.topics = None
  => UnsupportedCode \in CodesIn(ResponseKind[asked.name], received.body.value, ReadVersion)

\* The same entries, as often, in whatever order.
SameEntries(s, t) ==
  \A e \in ToSet(s) \cup ToSet(t) :
    Cardinality({i \in DOMAIN s : s[i] = e}) = Cardinality({i \in DOMAIN t : t[i] = e})

\* The topics of a Metadata response: those that the request identifies, if it
\* does that for any, or else those that it names, each of them once; and after
\* an error in the request itself, one for one, those in the request.
MetadataIsComplete(request, told) ==
  LET topics == OrEmpty(request.topics)
      ids == {topics[i].topic_id : i \in DOMAIN topics} \ {NilUuid}
      Lists(n, expected) == /\ {told[i][n] : i \in DOMAIN told} = expected
                            /\ Len(told) = Cardinality(expected)
  IN  CASE MetadataRequestError(request, asked.version) # 0 ->
             told = Map(topics, LAMBDA t : <<Some(OrEmpty(t.name)), t.topic_id>>)
        [] request.topics = None -> \A i, j \in DOMAIN told : told[i] = told[j] => i = j
        [] OTHER -> IF asked.version >= 12 /\ ids # {} THEN Lists(2, ids)
                    ELSE Lists(1, {topics[i].name : i \in DOMAIN topics})

\* The topics of a DescribeTopicPartitions response: in their order and once,
\* none but those that the request names, if it does, from the cursor on; all of
\* these, or up to the next cursor; and after an error in the cursor, one for
\* one, those in the request.
PageIsComplete(request, response, told) ==
  LET asks == {Some(request.topics[i].name) : i \in DOMAIN request.topics}
      InPage(name) ==
        /\ request.cursor # None => ~Before(name[1], request.cursor[1].topic_name)
        /\ \/ response.next_cursor = None
           \/ Before(name[1], response.next_cursor[1].topic_name)
           \/ /\ name[1] = response.next_cursor[1].topic_name
              /\ response.next_cursor[1].partition_index > 0
      refused == /\ request.cursor # None
                 /\ \/ request.cursor[1].partition_index < 0
                    \/ asks # {} /\ Some(request.cursor[1].topic_name) \notin asks
  IN  IF refused THEN told = Map(request.topics, LAMBDA t : Some(t.name))
      ELSE /\ \A i, j \in DOMAIN told : i < j => Before(told[i][1], told[j][1])
           /\ \A i \in DOMAIN told : InPage(told[i])
           /\ asks # {} => ToSet(told) = {name \in asks : InPage(name)}

\* A response is about what its request asked about: entry for entry, except
\* that OffsetFetch may group its entries by topic in another order, and lists
\* what there is when it is asked for everything, that Metadata and
\* DescribeTopicPartitions merge the topics that are asked for twice, and that a
\* rejection may have one error for everything instead.
AnswersWhatWasAsked ==
  stage = "read" /\ asked.kind = "request" /\ decoded.kind = "request" =>
    LET response == received.body.value
        told == ToldAbout(asked.name, asked.version, response)
        about == AskedAbout(asked.name, asked.version, decoded.body)
    IN  CASE Rejected -> told = about \/ (told = <<>> /\ HasOneCode)
          [] Served /\ asked.name = "Metadata" -> MetadataIsComplete(decoded.body, told)
          [] Served /\ asked.name = "DescribeTopicPartitions" ->
               PageIsComplete(decoded.body, response, told)
          [] Served /\ asked.name = "OffsetFetch" ->
               decoded.body.topics = None \/ SameEntries(told, about)
          [] OTHER -> told = about

\* What ApiVersions advertises is what is served: a request reaches its
\* handler exactly when the response to ApiVersions lists its version.
AdvertisedIsServed ==
  decoded # Nothing /\ decoded.kind = "request" =>
    LET Lists(entry) == /\ entry.api_key = ApiKey[decoded.api_key]
                        /\ decoded.header.request_api_version
                             \in entry.min_version..entry.max_version
    IN  (Route(decoded) = "dispatch")
          <=> \A response \in ApiVersions : \E i \in DOMAIN response.api_keys :
                 Lists(response.api_keys[i])
=============================================================================
