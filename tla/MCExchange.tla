----------------------------- MODULE MCExchange ------------------------------
(***************************************************************************)
(* Samples of messages.  A field is tried with the values at the ends of   *)
(* its type, the absent one among them, in a message that is otherwise     *)
(* empty and in one in which everything is set; a string may need a length *)
(* of two bytes, and a sequence may have two items, the same or different  *)
(* ones, or one that is set and one that is not.  The name of a client may *)
(* be so long that a member id made of it is, or is not, a string.         *)
(***************************************************************************)
EXTENDS Exchange

LongText == [i \in 1..127 |-> 97]

RECURSIVE FilledIn(_, _, _), FilledStruct(_, _, _), Samples(_, _), Variants(_, _)

\* A value with everything in it that the version has, the n-th of its kind.
FilledIn(type, n, v) ==
  LET set == CASE type.kind = "bool" -> TRUE
               [] type.kind \in {"int", "uint"} -> n
               [] type.kind = "long" -> Long(n)
               [] type.kind = "uuid" -> [i \in 1..16 |-> n]
               [] type.kind = "bytes" -> <<97, n>>
               [] type.kind = "array" -> [i \in 1..(3 - n) |-> FilledIn(type.of, i, v)]
               [] type.kind = "struct" -> FilledStruct(type.of, n, v)
  IN  IF type.optional THEN Some(set) ELSE set
FilledStruct(struct, n, v) ==
  [name \in DOMAIN struct.default |->
     IF name = Unknown THEN Empty
     ELSE LET f == struct.fields[CHOOSE i \in DOMAIN struct.fields : struct.fields[i].name = name]
          IN  IF v \in f.versions THEN FilledIn(f.type, n, v) ELSE f.default]

Samples(type, v) ==
  LET set == CASE type.kind = "bool" -> {TRUE, FALSE}
               [] type.kind = "int" /\ type.width = 1 -> {-128, 0, 2, 4, 127}
               [] type.kind = "int" /\ type.width = 2 -> {-32768, 0, 32767}
               [] type.kind = "int" /\ type.width = 4 -> {MinInt32, -1, MaxInt32}
               [] type.kind = "uint" -> {65535}
               [] type.kind = "long" -> {Long(-2), Long(-1), <<MinInt32, MaxInt32>>}
               [] type.kind = "uuid" -> {NilUuid, [i \in 1..16 |-> 15 * i]}
               [] type.kind = "bytes" -> {Empty, <<98>>, LongText}
               [] type.kind = "array" ->
                    {Empty, <<FilledIn(type.of, 1, v), FilledIn(type.of, 1, v)>>}
                      \cup {<<x>> : x \in Samples(type.of, v)}
                      \cup (IF type.of.kind = "struct"
                            THEN {<<FilledIn(type.of, 1, v), Default(type.of.of)>>} ELSE {})
               [] type.kind = "struct" -> Variants(type.of, v)
  IN  IF type.optional THEN {None} \cup {Some(x) : x \in set} ELSE set
Variants(struct, v) ==
  LET bases == {Default(struct), FilledStruct(struct, 1, v)}
      strange == [t \in {9} |-> <<1>>]
  IN  bases
        \cup {[base EXCEPT ![Unknown] = strange] : base \in bases}
        \cup UNION {{[base EXCEPT ![struct.fields[i].name] = x]
                       : base \in bases, x \in Samples(struct.fields[i].type, v)}
                     : i \in DOMAIN struct.fields}

LongName == [i \in 1..32765 |-> 99]
MCClients(a) ==
  {Some(<<99>>)}
    \cup (IF a.name = "ListGroups" THEN {None, Some(Empty)} ELSE {})
    \cup (IF a.name = "JoinGroup" /\ a.version = 5 THEN {None, Some(LongName)} ELSE {})
MCHeaders(a) ==
  {With(RequestHeader, [request_api_key |-> ApiKey[a.name], request_api_version |-> a.version,
                        correlation_id |-> 7, client_id |-> client])
     : client \in MCClients(a)}
=============================================================================
