---------------------------- MODULE RequestRouter ----------------------------
(***************************************************************************)
(* From the bytes of a frame to what is done with it: the frame decoder    *)
(* and the response encoder of kafka/codec.rs, the registry of supported   *)
(* versions of kafka/capabilities.rs, and route of kafka/request_router.rs *)
(* without the bodies of the responses.                                    *)
(***************************************************************************)
EXTENDS ApiKeys

Capability(api, min, max) == [api |-> api, min |-> min, max |-> max]

\* CAPABILITIES, in the order of the table.
CAPABILITIES == <<
  Capability("Produce", 7, 7), Capability("Fetch", 4, 4), Capability("ListOffsets", 3, 3),
  Capability("Metadata", 4, 13), Capability("OffsetCommit", 7, 7),
  Capability("OffsetFetch", 5, 5), Capability("FindCoordinator", 2, 2),
  Capability("JoinGroup", 5, 5), Capability("Heartbeat", 3, 3),
  Capability("LeaveGroup", 1, 3), Capability("SyncGroup", 3, 3),
  Capability("DescribeGroups", 0, 0), Capability("ListGroups", 0, 0),
  Capability("ApiVersions", 3, 4), Capability("CreateTopics", 4, 7),
  Capability("InitProducerId", 0, 0), Capability("DescribeConfigs", 1, 1),
  Capability("DescribeCluster", 2, 2), Capability("DescribeTopicPartitions", 0, 0)>>

RECURSIVE SearchBetween(_, _, _)

\* capability(): a binary search by API key, which finds an entry only where
\* the order of the table puts it.
SearchBetween(k, low, high) ==
  IF low > high THEN None
  ELSE LET mid == (low + high) \div 2
           key == ApiKey[CAPABILITIES[mid].api]
       IN  CASE key = ApiKey[k] -> Some(CAPABILITIES[mid])
             [] key < ApiKey[k] -> SearchBetween(k, mid + 1, high)
             [] key > ApiKey[k] -> SearchBetween(k, low, mid - 1)
FindCapability(k) == SearchBetween(k, 1, Len(CAPABILITIES))

\* A slip: the last version of the window is outside of it.
FaultySupports(capability, v) == capability.min <= v /\ v < capability.max

Supports(capability, v) == capability.min <= v /\ v <= capability.max

----------------------------------------------------------------------------
(* codec.rs *)

\* The errors of decode_frame, by the stage that found them, and what it
\* returns when it finds none.
Malformed(stage) == [kind |-> "error", stage |-> stage]
DecodedRequest(k, header, body) ==
  [kind |-> "request", api_key |-> k, header |-> header, body |-> body]
UnsupportedApiVersions(header) == [kind |-> "unsupported_api_versions", header |-> header]

\* A slip: nothing looks at what follows the body.
FaultyDecodedBody(frame, k, header, body) ==
  IF body.ok THEN DecodedRequest(k, header, body.value) ELSE Malformed("body")

\* decode_frame, from the end to the beginning: after the body, after the
\* header, after the API key and the version, and the whole.
DecodedBody(frame, k, header, body) ==
  CASE ~body.ok -> Malformed("body")
    [] body.ok /\ body.at <= Len(frame) -> Malformed("trailing bytes")
    [] OTHER -> DecodedRequest(k, header, body.value)
DecodedHeader(frame, k, version, header) ==
  CASE ~header.ok -> Malformed("header")
    [] header.ok /\ version \notin ValidVersions[k] -> UnsupportedApiVersions(header.value)
    [] OTHER -> DecodedBody(frame, k, header.value,
                            Decode(RequestKind[k], frame, header.at, version))
DecodedKey(frame, api, version) ==
  CASE api = None -> Malformed("unknown key")
    [] api \notin {None, Some("ApiVersions")} /\ version \notin ValidVersions[api[1]] ->
         Malformed("version")
    [] OTHER -> DecodedHeader(frame, api[1], version,
                  Decode(RequestHeader, frame, 1, RequestHeaderVersion(api[1], version)))
DecodeFrame(frame) ==
  IF Len(frame) < 8 THEN Malformed("prefix")
  ELSE DecodedKey(frame, TryFrom(Signed(SubSeq(frame, 1, 2))), Signed(SubSeq(frame, 3, 4)))

\* DecodedRequest::expects_response.
ExpectsResponse(request) == ~(request.api_key = "Produce" /\ request.body.acks = 0)

\* encode_response: the header and the body, unless one of them refuses.
ResponseBails(k, v, body) ==
  \/ Bails(ResponseHeader, Default(ResponseHeader), ResponseHeaderVersion(k, v))
  \/ Bails(ResponseKind[k], body, v)
EncodeResponse(k, v, correlation_id, body) ==
  Encode(ResponseHeader, With(ResponseHeader, [correlation_id |-> correlation_id]),
         ResponseHeaderVersion(k, v))
    \o Encode(ResponseKind[k], body, v)

----------------------------------------------------------------------------
(* request_router.rs *)

\* route: what happens to a decoded frame.
Route(decoded) ==
  IF decoded.kind = "unsupported_api_versions" THEN "respond"
  ELSE LET capability == FindCapability(decoded.api_key)
       IN  CASE capability = None -> "unsupported api"
             [] capability # None /\ Supports(capability[1], decoded.header.request_api_version) ->
                  "dispatch"
             [] capability # None /\ ~Supports(capability[1], decoded.header.request_api_version)
                  /\ decoded.api_key = "Produce" /\ ~ExpectsResponse(decoded) -> "no response"
             [] OTHER -> "respond"

\* The version that the response of an answered frame is written in.
EncodingVersion(decoded) ==
  IF decoded.kind = "unsupported_api_versions" THEN 0 ELSE decoded.header.request_api_version
AnsweredApi(decoded) ==
  IF decoded.kind = "unsupported_api_versions" THEN "ApiVersions" ELSE decoded.api_key
=============================================================================
