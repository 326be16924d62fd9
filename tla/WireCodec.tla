----------------------------- MODULE WireCodec ------------------------------
(***************************************************************************)
(* The wire format of the Kafka protocol: the types of                     *)
(* kafka-protocol/src/protocol/types.rs and the encode, compute_size and   *)
(* decode functions that protocol_codegen (generate.rs) writes for every   *)
(* struct of every message.  Those functions all have one shape, which the *)
(* fields of the struct determine; so a struct is described here by its    *)
(* schema, and the shape is written once, as operators on schemas.  The    *)
(* schemas are in the modules Msg...                                       *)
(*                                                                         *)
(* A byte is a number in 0..255 and a buffer a sequence of bytes.  A       *)
(* string, like any other sequence of bytes, is its bytes; the strings of  *)
(* the models are in ASCII, so the UTF-8 check of a decoder always passes. *)
(* An integer of 64 bits, and an f64, is the pair of its halves of 32      *)
(* bits, each of them signed.  None is <<>> and Some(x) is <<x>>.          *)
(***************************************************************************)
EXTENDS Integers, SequencesExt

None == <<>>
Some(x) == <<x>>
Empty == <<>>

\* An i64 that fits in 32 bits, and the largest one of all.
Long(n) == <<IF n < 0 THEN -1 ELSE 0, n>>
MaxInt32 == 2147483647
MinInt32 == -MaxInt32 - 1
LongMax == <<MaxInt32, -1>>
NilUuid == [i \in 1..16 |-> 0]

----------------------------------------------------------------------------
(* Types *)

Boolean == [kind |-> "bool",   optional |-> FALSE]
Int8    == [kind |-> "int",    optional |-> FALSE, width |-> 1]
Int16   == [kind |-> "int",    optional |-> FALSE, width |-> 2]
Int32   == [kind |-> "int",    optional |-> FALSE, width |-> 4]
UInt16  == [kind |-> "uint",   optional |-> FALSE, width |-> 2]
Int64   == [kind |-> "long",   optional |-> FALSE]
Float64 == [kind |-> "long",   optional |-> FALSE]
Uuid    == [kind |-> "uuid",   optional |-> FALSE]

\* "prefix" is the width of the length before the data, in the versions that
\* are not flexible; in the flexible ones a length is a varint (the types
\* named Compact...), unless the schema says that the string stays plain.
Str      == [kind |-> "bytes", optional |-> FALSE, prefix |-> 2, plain |-> FALSE]
PlainStr == [kind |-> "bytes", optional |-> FALSE, prefix |-> 2, plain |-> TRUE]
Bytes    == [kind |-> "bytes", optional |-> FALSE, prefix |-> 4, plain |-> FALSE]

Array(type) == [kind |-> "array", optional |-> FALSE, prefix |-> 4, plain |-> FALSE,
                of |-> type]
Of(struct)  == [kind |-> "struct", optional |-> FALSE, of |-> struct]
Opt(type)   == [type EXCEPT !.optional = TRUE]

----------------------------------------------------------------------------
(* Schemas *)

NotTagged == -1

FieldSchema(name, type, versions, default, strict, tag) ==
  [name |-> name, type |-> type, versions |-> versions, default |-> default,
   strict |-> strict, tag |-> tag]

\* A field that every version of the struct carries; one that only some
\* carry and the others drop; one that the other versions refuse to drop
\* when it is set; and one that travels in the tag buffer.
Field(name, type, default) == FieldSchema(name, type, Int, default, FALSE, NotTagged)
FieldIn(versions, name, type, default) ==
  FieldSchema(name, type, versions, default, FALSE, NotTagged)
StrictIn(versions, name, type, default) ==
  FieldSchema(name, type, versions, default, TRUE, NotTagged)
TaggedIn(versions, tag, name, type, default) ==
  FieldSchema(name, type, versions, default, FALSE, tag)

Unknown == "unknown_tagged_fields"

\* impl Default: the fields that no version knows are a map from tags to
\* bytes, empty at first.
DefaultOf(fields) ==
  [f \in {fields[i].name : i \in DOMAIN fields} \cup {Unknown} |->
     IF f = Unknown THEN Empty
     ELSE fields[CHOOSE i \in DOMAIN fields : fields[i].name = f].default]

Struct(valid, flexible, fields) ==
  [valid |-> valid, flexible |-> flexible, fields |-> fields,
   default |-> DefaultOf(fields)]

Default(struct) == struct.default

\* The builders with_<field>: a struct whose fields have the given values.
With(struct, set) == [f \in DOMAIN struct.default |->
                        IF f \in DOMAIN set THEN set[f] ELSE struct.default[f]]

IsFlexible(struct, v) == v \in struct.flexible

\* The fields that version v carries in their place, and those that it may
\* carry in the tag buffer, in the order of their tags.
Carried(struct, v) ==
  SelectSeq(struct.fields, LAMBDA f : v \in f.versions /\ f.tag = NotTagged)
Tagged(struct, v) ==
  SortSeq(SelectSeq(struct.fields, LAMBDA f : v \in f.versions /\ f.tag # NotTagged),
          LAMBDA f, g : f.tag < g.tag)

KnownTags(struct) == {struct.fields[i].tag : i \in DOMAIN struct.fields} \ {NotTagged}

\* The tagged fields that a value sets, which are the ones that are written.
TaggedSet(struct, x, v) == SelectSeq(Tagged(struct, v), LAMBDA f : x[f.name] # f.default)

----------------------------------------------------------------------------
(* Primitive encodings *)

\* put_i8, put_i16, put_i32 and put_u16.
BigEndian(width, n) == [i \in 1..width |-> (n \div 256^(width - i)) % 256]

RECURSIVE UnsignedVarInt(_)
UnsignedVarInt(n) ==
  IF n < 128 THEN <<n>> ELSE <<128 + (n % 128)>> \o UnsignedVarInt(n \div 128)

\* UnsignedVarInt::compute_size.
UnsignedVarIntSize(n) ==
  CASE n < 128 -> 1 [] n \in 128..16383 -> 2 [] n \in 16384..2097151 -> 3
    [] n \in 2097152..268435455 -> 4 [] OTHER -> 5

\* The length before a string, a sequence of bytes or an array, -1 for None.
Length(type, n, flexible) ==
  IF flexible /\ ~type.plain THEN UnsignedVarInt(n + 1) ELSE BigEndian(type.prefix, n)
LengthSize(type, n, flexible) ==
  IF flexible /\ ~type.plain THEN UnsignedVarIntSize(n + 1) ELSE type.prefix

\* The longest data that the prefix can announce.
MaxLength(type, flexible) ==
  IF type.prefix = 2 /\ (type.plain \/ ~flexible) THEN 32767 ELSE MaxInt32

\* write_unknown_tagged_fields, over the range of tags above the known ones.
UnknownWritten(struct, x) ==
  SetToSortSeq({t \in DOMAIN x[Unknown] : \A k \in KnownTags(struct) : t > k}, <)
UnknownTaggedField(t, bytes) == UnsignedVarInt(t) \o UnsignedVarInt(Len(bytes)) \o bytes

\* compute_unknown_tagged_fields_size, over all of them.
UnknownTaggedFieldsSize(x) ==
  LET Size(t) == UnsignedVarIntSize(t) + UnsignedVarIntSize(Len(x[Unknown][t]))
                   + Len(x[Unknown][t])
  IN  FoldLeft(LAMBDA n, t : n + Size(t), 0, SetToSeq(DOMAIN x[Unknown]))

----------------------------------------------------------------------------
(* Encoding *)

RECURSIVE ComputeSize(_, _, _), ComputeFieldSize(_, _, _, _)

\* Encoder::compute_size of a type, in a version that is flexible or not.
ComputeFieldSize(type, x, v, flexible) ==
  IF type.optional THEN
    IF type.kind = "struct"
    THEN IF x = None THEN 1 ELSE 1 + ComputeSize(type.of, x[1], v)
    ELSE IF x = None THEN LengthSize(type, -1, flexible)
         ELSE ComputeFieldSize([type EXCEPT !.optional = FALSE], x[1], v, flexible)
  ELSE
  CASE type.kind = "bool" -> 1
    [] type.kind \in {"int", "uint"} -> type.width
    [] type.kind = "long" -> 8
    [] type.kind = "uuid" -> 16
    [] type.kind = "bytes" -> LengthSize(type, Len(x), flexible) + Len(x)
    [] type.kind = "array" ->
         FoldLeft(LAMBDA n, y : n + ComputeFieldSize(type.of, y, v, flexible),
                  LengthSize(type, Len(x), flexible), x)
    [] type.kind = "struct" -> ComputeSize(type.of, x, v)

\* Encodable::compute_size of a struct, which checks neither the version nor
\* the fields that the version does not have.
ComputeSize(struct, x, v) ==
  LET flexible == IsFlexible(struct, v)
      Size(f) == ComputeFieldSize(f.type, x[f.name], v, flexible)
      tagged == TaggedSet(struct, x, v)
      TaggedSize(f) == UnsignedVarIntSize(f.tag) + UnsignedVarIntSize(Size(f)) + Size(f)
      body == FoldLeft(LAMBDA n, f : n + Size(f), 0, Carried(struct, v))
  IN  IF ~flexible THEN body
      ELSE body + UnsignedVarIntSize(Cardinality(DOMAIN x[Unknown]) + Len(tagged))
             + FoldLeft(LAMBDA n, f : n + TaggedSize(f), 0, tagged)
             + UnknownTaggedFieldsSize(x)

RECURSIVE Encode(_, _, _), EncodeField(_, _, _, _)

\* Encoder::encode of a type.
EncodeField(type, x, v, flexible) ==
  IF type.optional THEN
    IF type.kind = "struct"
    THEN IF x = None THEN BigEndian(1, -1) ELSE BigEndian(1, 1) \o Encode(type.of, x[1], v)
    ELSE IF x = None THEN Length(type, -1, flexible)
         ELSE EncodeField([type EXCEPT !.optional = FALSE], x[1], v, flexible)
  ELSE
  CASE type.kind = "bool" -> <<IF x THEN 1 ELSE 0>>
    [] type.kind \in {"int", "uint"} -> BigEndian(type.width, x)
    [] type.kind = "long" -> BigEndian(4, x[1]) \o BigEndian(4, x[2])
    [] type.kind = "uuid" -> x
    [] type.kind = "bytes" -> Length(type, Len(x), flexible) \o x
    [] type.kind = "array" ->
         FoldLeft(LAMBDA buf, y : buf \o EncodeField(type.of, y, v, flexible),
                  Length(type, Len(x), flexible), x)
    [] type.kind = "struct" -> Encode(type.of, x, v)

\* The tag buffer (write_encode_tag_buffer): how many fields it has, the known
\* ones that are set, each with its tag and the size that compute_size gives
\* it, and the unknown ones.
TagBuffer(struct, x, v) ==
  LET tagged == TaggedSet(struct, x, v)
      OneField(f) == UnsignedVarInt(f.tag)
                  \o UnsignedVarInt(ComputeFieldSize(f.type, x[f.name], v, TRUE))
                  \o EncodeField(f.type, x[f.name], v, TRUE)
  IN  UnsignedVarInt(Cardinality(DOMAIN x[Unknown]) + Len(tagged))
        \o FoldLeft(LAMBDA buf, f : buf \o OneField(f), <<>>, tagged)
        \o FoldLeft(LAMBDA buf, t : buf \o UnknownTaggedField(t, x[Unknown][t]), <<>>,
                    UnknownWritten(struct, x))

\* What Encodable::encode of a struct has written when it returns Ok.
Encode(struct, x, v) ==
  LET flexible == IsFlexible(struct, v)
  IN  FoldLeft(LAMBDA buf, f : buf \o EncodeField(f.type, x[f.name], v, flexible),
               <<>>, Carried(struct, v))
        \o (IF flexible THEN TagBuffer(struct, x, v) ELSE <<>>)

RECURSIVE Bails(_, _, _), FieldBails(_, _, _, _)

\* The errors of Encoder::encode: data that is too long for its length.
FieldBails(type, x, v, flexible) ==
  CASE type.optional -> x # None /\ FieldBails([type EXCEPT !.optional = FALSE], x[1], v, flexible)
    [] ~type.optional /\ type.kind = "bytes" -> Len(x) > MaxLength(type, flexible)
    [] ~type.optional /\ type.kind = "array" ->
         \E i \in DOMAIN x : FieldBails(type.of, x[i], v, flexible)
    [] ~type.optional /\ type.kind = "struct" -> Bails(type.of, x, v)
    [] OTHER -> FALSE

\* The errors of Encodable::encode: a version that the struct does not have,
\* and a field that is set although the version has no place for it.
Bails(struct, x, v) ==
  \/ v \notin struct.valid
  \/ \E i \in DOMAIN struct.fields :
       LET f == struct.fields[i]
       IN  \/ f.strict /\ v \notin f.versions /\ x[f.name] # f.default
           \/ /\ v \in f.versions
              /\ f.tag = NotTagged \/ (IsFlexible(struct, v) /\ x[f.name] # f.default)
              /\ FieldBails(f.type, x[f.name], v, IsFlexible(struct, v))

----------------------------------------------------------------------------
(* Decoding: a decoder starts at a place of the buffer, and yields whether   *)
(* it succeeded, what it read and the place after it.                        *)

Fail == [ok |-> FALSE]
Ok(x, at) == [ok |-> TRUE, value |-> x, at |-> at]

\* The ? operator: go on with what was read, and with the place after it.
Then(d, Rest(_, _)) == IF d.ok THEN Rest(d.value, d.at) ELSE Fail

\* try_get_bytes.
Take(buf, at, n) ==
  IF n < 0 \/ at + n - 1 > Len(buf) THEN Fail ELSE Ok(SubSeq(buf, at, at + n - 1), at + n)

Unsigned(bytes) == FoldLeft(LAMBDA n, b : 256 * n + b, 0, bytes)
Signed(bytes) ==
  FoldLeft(LAMBDA n, b : 256 * n + b,
           IF bytes[1] < 128 THEN bytes[1] ELSE bytes[1] - 256, Tail(bytes))

DecodeInt(buf, at, width) ==
  Then(Take(buf, at, width), LAMBDA bytes, next : Ok(Signed(bytes), next))

RECURSIVE DecodeVarInt(_, _, _, _)

\* UnsignedVarInt::decode, from the i-th of at most five bytes.
DecodeVarInt(buf, at, i, value) ==
  IF at > Len(buf) THEN Fail
  ELSE LET b == buf[at]
           next == value + (b % 128) * 128^i
       IN  IF b < 128 \/ i = 4 THEN Ok(next, at + 1) ELSE DecodeVarInt(buf, at + 1, i + 1, next)

\* The length before a string, a sequence of bytes or an array.
DecodeLength(type, buf, at, flexible) ==
  IF flexible /\ ~type.plain
  THEN Then(DecodeVarInt(buf, at, 0, 0), LAMBDA n, next : Ok(n - 1, next))
  ELSE DecodeInt(buf, at, type.prefix)

\* A slip: an absent value is taken for a damaged one.
FaultyBadLength(type, n) == n < 0

\* match length: -1 is None, which only an optional may be, and no other
\* length is negative.
BadLength(type, n) == n < -1 \/ (n = -1 /\ ~type.optional)

\* The decoders of the types of a fixed length.
DecodePlain(type, buf, at) ==
  CASE type.kind = "bool" ->
         Then(Take(buf, at, 1), LAMBDA bytes, next : Ok(bytes[1] # 0, next))
    [] type.kind = "int" -> DecodeInt(buf, at, type.width)
    [] type.kind = "uint" ->
         Then(Take(buf, at, type.width), LAMBDA bytes, next : Ok(Unsigned(bytes), next))
    [] type.kind = "long" ->
         Then(Take(buf, at, 8), LAMBDA bytes, next :
                Ok(<<Signed(SubSeq(bytes, 1, 4)), Signed(SubSeq(bytes, 5, 8))>>, next))
    [] type.kind = "uuid" -> Take(buf, at, 16)

RECURSIVE Decode(_, _, _, _), DecodeField(_, _, _, _, _)

\* n items of an array, one after the other.
DecodeItems(type, buf, at, v, flexible, n) ==
  FoldLeft(LAMBDA r, i :
             Then(r, LAMBDA items, here :
               Then(DecodeField(type, buf, here, v, flexible), LAMBDA item, next :
                 Ok(Append(items, item), next))),
           Ok(<<>>, at), [i \in 1..n |-> i])

\* A value of an optional type is wrapped in Some.
Wrap(type, d) ==
  Then(d, LAMBDA x, next : Ok(IF type.optional THEN Some(x) ELSE x, next))

\* Decoder::decode of a type.
DecodeField(type, buf, at, v, flexible) ==
  CASE type.kind \in {"bytes", "array"} ->
         Then(DecodeLength(type, buf, at, flexible), LAMBDA n, next :
           CASE BadLength(type, n) -> Fail
             [] ~BadLength(type, n) /\ n = -1 -> Ok(None, next)
             [] OTHER -> Wrap(type, IF type.kind = "bytes" THEN Take(buf, next, n)
                                    ELSE DecodeItems(type.of, buf, next, v, flexible, n)))
    [] type.kind = "struct" ->
         Then(IF type.optional THEN DecodeInt(buf, at, 1) ELSE Ok(1, at), LAMBDA present, next :
           IF present = 1 THEN Wrap(type, Decode(type.of, buf, next, v)) ELSE Ok(None, next))
    [] OTHER -> DecodePlain(type, buf, at)

\* One field of the tag buffer (write_decode_tag_buffer): a known tag is decoded
\* by its type, whatever the size says, and is an error in a version that
\* does not have it; the bytes of an unknown one are kept.
DecodeKnown(f, x, buf, at, v) ==
  IF v \notin f.versions THEN Fail
  ELSE Then(DecodeField(f.type, buf, at, v, TRUE), LAMBDA y, next :
         Ok([x EXCEPT ![f.name] = y], next))
DecodeUnknown(tag, size, x, buf, at) ==
  Then(Take(buf, at, size), LAMBDA bytes, next :
    Ok([x EXCEPT ![Unknown] = [t \in DOMAIN @ \cup {tag} |-> IF t = tag THEN bytes ELSE @[t]]],
       next))
DecodeTagged(struct, x, buf, at, v) ==
  Then(DecodeVarInt(buf, at, 0, 0), LAMBDA tag, then :
    Then(DecodeVarInt(buf, then, 0, 0), LAMBDA size, next :
      IF tag \in KnownTags(struct)
      THEN DecodeKnown(SelectSeq(struct.fields, LAMBDA g : g.tag = tag)[1], x, buf, next, v)
      ELSE DecodeUnknown(tag, size, x, buf, next)))

DecodeTagBuffer(struct, x, buf, at, v) ==
  Then(DecodeVarInt(buf, at, 0, 0), LAMBDA n, next :
    FoldLeft(LAMBDA r, i : Then(r, LAMBDA y, here : DecodeTagged(struct, y, buf, here, v)),
             Ok(x, next), [i \in 1..n |-> i]))

\* Decodable::decode of a struct: the fields that the version has, in order,
\* and then the tag buffer; the others keep their defaults.
Decode(struct, buf, at, v) ==
  IF v \notin struct.valid THEN Fail
  ELSE Then(FoldLeft(LAMBDA r, f :
                       Then(r, LAMBDA x, here :
                         Then(DecodeField(f.type, buf, here, v, IsFlexible(struct, v)),
                              LAMBDA y, next : Ok([x EXCEPT ![f.name] = y], next))),
                     Ok(Default(struct), at), Carried(struct, v)),
            LAMBDA x, next :
              IF IsFlexible(struct, v) THEN DecodeTagBuffer(struct, x, buf, next, v)
              ELSE Ok(x, next))
=============================================================================
