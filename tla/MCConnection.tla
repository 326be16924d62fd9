---------------------------- MODULE MCConnection ----------------------------
(***************************************************************************)
(* A client that sends up to three frames, of every kind that decoding and *)
(* routing tell apart.                                                     *)
(***************************************************************************)
EXTENDS Connection

Kind(length, api, version, malformed, acks) ==
  [length |-> length, api |-> api, version |-> version, malformed |-> malformed, acks |-> acks]

MCFrame ==
  {Kind("whole", api, version, malformed, 1) :
     api \in {"ApiVersions", "Fetch"}, version \in {"supported", "unsupported", "outside"},
     malformed \in {"no", "body"}}
  \cup {Kind("whole", "Produce", version, "no", acks) :
          version \in {"supported", "unsupported"}, acks \in {0, 1}}
  \cup {Kind("whole", "Unadvertised", "unsupported", "no", 1),
        Kind("whole", "Unknown", "outside", "no", 1),
        Kind("whole", "ApiVersions", "outside", "header", 1),
        Kind("whole", "Unknown", "outside", "prefix", 1),
        Kind("invalid", "Fetch", "supported", "no", 1),
        Kind("partial", "Fetch", "supported", "no", 1)}
=============================================================================
