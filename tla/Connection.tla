----------------------------- MODULE Connection -----------------------------
(***************************************************************************)
(* One Kafka connection (src/kafka/connection.rs): frames are read,        *)
(* decoded (frame.rs, codec.rs), routed (request_router.rs), dispatched    *)
(* (dispatcher.rs) and answered one at a time, while the client may send   *)
(* many without waiting.  The shutdown of the broker drops the request     *)
(* being served wherever it stands.  The handlers themselves are the       *)
(* subject of the other modules; here a dispatch is one effect.            *)
(*                                                                         *)
(* The operators named Faulty... are slips the code avoids; they show      *)
(* which property would notice.                                            *)
(***************************************************************************)
EXTENDS Integers, Sequences, Functions

CONSTANTS
  Frame,      \* [length, api, version, malformed, acks]
  MaxFrames   \* bounds the frames of a client

ASSUME FramesAssumption == MaxFrames \in Nat

VARIABLES
  frames,     \* the frames that the client has sent; ids are their places
  eof,        \* the client has closed its side
  read,       \* how many frames the broker has read
  stage,      \* where handle_one is
  effects,    \* the ids of the requests that were dispatched, in order
  responses   \* the ids of the requests that were answered, in order

connection_vars == <<frames, eof, read, stage, effects, responses>>

ConnectionInit ==
  /\ frames = <<>> /\ eof = FALSE
  /\ read = 0 /\ stage = "read"
  /\ effects = <<>> /\ responses = <<>>

----------------------------------------------------------------------------
(* Decoding and routing *)

\* decode_frame.  An ApiVersions request of any version has a header that
\* can be read; other requests must be in the range of the protocol schema.
\* "body" covers a body that cannot be decoded and one that leaves bytes.
DecodeFrame(f) ==
  CASE f.malformed = "prefix" \/ f.api = "Unknown" -> "Error"
    [] f.api \notin {"Unknown", "ApiVersions"} /\ f.version = "outside" -> "Error"
    [] f.malformed = "header" -> "Error"
    [] f.api = "ApiVersions" /\ f.version = "outside" /\ f.malformed \in {"no", "body"}
         -> "UnsupportedApiVersions"
    [] f.malformed = "body" /\ f.version # "outside" -> "Error"
    [] OTHER -> "Request"

\* DecodedRequest::expects_response.
ExpectsResponse(f) == ~(f.api = "Produce" /\ f.acks = 0)

\* decode_frame and route.
Route(f) ==
  CASE DecodeFrame(f) = "Error" -> "Error"
    [] DecodeFrame(f) = "UnsupportedApiVersions" -> "Respond"
    [] DecodeFrame(f) = "Request" /\ f.api = "Unadvertised" -> "Error"
    [] DecodeFrame(f) = "Request" /\ f.api # "Unadvertised" /\ f.version = "supported"
         -> "Dispatch"
    [] OTHER -> IF ExpectsResponse(f) THEN "Respond" ELSE "NoResponse"

----------------------------------------------------------------------------
(* The client *)

Send(f) ==
  /\ ~eof
  /\ Len(frames) < MaxFrames
  /\ frames # <<>> => frames[Len(frames)].length # "partial"
  /\ frames' = Append(frames, f)
  /\ UNCHANGED <<eof, read, stage, effects, responses>>

Close ==
  /\ ~eof
  /\ eof' = TRUE
  /\ UNCHANGED <<frames, read, stage, effects, responses>>

----------------------------------------------------------------------------
(* handle_one *)

NextFrame == frames[read + 1]

\* A slip: the end of the stream is taken for an empty read.
FaultyReadEof ==
  /\ stage = "read"
  /\ read = Len(frames)
  /\ eof
  /\ UNCHANGED connection_vars

\* read_frame: the stream ends between two frames.
ReadEof ==
  /\ stage = "read"
  /\ read = Len(frames)
  /\ eof
  /\ stage' = "closed"
  /\ UNCHANGED <<frames, eof, read, effects, responses>>

\* read_frame fails: a length that is negative or too large, or a stream
\* that ends inside a frame.
ReadFails ==
  /\ stage = "read"
  /\ read < Len(frames)
  /\ NextFrame.length = "invalid" \/ (NextFrame.length = "partial" /\ eof)
  /\ stage' = "closed"
  /\ UNCHANGED <<frames, eof, read, effects, responses>>

AfterRead(route) ==
  CASE route = "Dispatch" -> "dispatch"
    [] route = "Respond" -> "write"
    [] route = "NoResponse" -> "read"
    [] route = "Error" -> "closed"

\* A frame is read, decoded and routed.
ReadFrame ==
  /\ stage = "read"
  /\ read < Len(frames)
  /\ NextFrame.length = "whole"
  /\ read' = read + 1
  /\ stage' = AfterRead(Route(NextFrame))
  /\ UNCHANGED <<frames, eof, effects, responses>>

\* A slip: the answer is written while the request is dispatched.
FaultyDispatch ==
  /\ stage = "dispatch"
  /\ responses' = IF ExpectsResponse(frames[read]) THEN Append(responses, read) ELSE responses
  /\ stage' = "read"
  /\ UNCHANGED <<frames, eof, read, effects>>

\* Dispatcher::dispatch has run the handler.
Dispatch ==
  /\ stage = "dispatch"
  /\ effects' = Append(effects, read)
  /\ stage' = IF ExpectsResponse(frames[read]) THEN "write" ELSE "read"
  /\ UNCHANGED <<frames, eof, read, responses>>

\* write_response.
Write ==
  /\ stage = "write"
  /\ responses' = Append(responses, read)
  /\ stage' = "read"
  /\ UNCHANGED <<frames, eof, read, effects>>

\* write_response fails: the response cannot be encoded, or is too large for a
\* frame, or the client is gone.  Which responses these are is the subject of
\* Exchange; here any may be.
WriteFails ==
  /\ stage = "write"
  /\ stage' = "closed"
  /\ UNCHANGED <<frames, eof, read, effects, responses>>

\* serve: shutdown.changed() is ready first, and handle_one is dropped.
ShutdownChanged ==
  /\ stage # "closed"
  /\ stage' = "closed"
  /\ UNCHANGED <<frames, eof, read, effects, responses>>

HandleOne == ReadEof \/ ReadFails \/ ReadFrame \/ Dispatch \/ Write \/ WriteFails

ConnectionNext == (\E f \in Frame : Send(f)) \/ Close \/ HandleOne \/ ShutdownChanged

\* Every handler comes to an end, and the socket takes what is written.
ConnectionSpec ==
  ConnectionInit /\ [][ConnectionNext]_connection_vars /\ WF_connection_vars(HandleOne)

----------------------------------------------------------------------------
\* The state of the connection has its type; no frame is read after one
\* that ends the connection.
ConnectionTypeOK ==
  /\ frames \in Seq(Frame) /\ eof \in BOOLEAN
  /\ read \in 0..Len(frames)
  /\ stage \in {"read", "dispatch", "write", "closed"}
  /\ \A k \in 1..(read - 1) : frames[k].length = "whole" /\ Route(frames[k]) # "Error"

Increasing(ids) == \A i, j \in DOMAIN ids : i < j => ids[i] < ids[j]

\* Among the first n requests: those that a client may expect an answer to,
\* and those that have an effect.
WithAnswer(n) ==
  {k \in 1..n : ExpectsResponse(frames[k]) /\ Route(frames[k]) \in {"Dispatch", "Respond"}}
WithEffect(n) == {k \in 1..n : Route(frames[k]) = "Dispatch"}

\* Responses come in the order of the requests, one for each that expects
\* one and none for the others; only the request being served, or dropped,
\* is unanswered.
AnsweredInOrder ==
  /\ Increasing(responses)
  /\ Range(responses) \subseteq WithAnswer(read)
  /\ WithAnswer(read) \subseteq Range(responses) \cup (IF stage = "read" THEN {} ELSE {read})

\* Requests take effect in the order in which they were sent, each once, and
\* before they are answered.
EffectsInOrder ==
  /\ Increasing(effects)
  /\ Range(effects) \subseteq WithEffect(read)
  /\ WithEffect(read)
       \subseteq Range(effects) \cup (IF stage \in {"read", "write"} THEN {} ELSE {read})
  /\ Range(responses) \cap WithEffect(read) \subseteq Range(effects)

\* Pipelined requests keep their order, in effect and in answer.
InOrder == ConnectionTypeOK /\ AnsweredInOrder /\ EffectsInOrder

\* A connection whose client has closed it is closed by the broker, after the
\* frames that are still to be read.
ClosedAfterEof == eof ~> stage = "closed"
=============================================================================
