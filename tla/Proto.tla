------------------------------- MODULE Proto -------------------------------
(***************************************************************************)
(* The protocol buffers of the native API (components/api/proto.h and      *)
(* proto.cpp): how the fields of a message become bytes, and how decode    *)
(* takes them back.  A message is a function from the names of its fields  *)
(* to values: Booleans, integers, sequences of bytes, and the bits of a    *)
(* float as a number.  Which fields a message has, how encode writes and   *)
(* how the decode_ functions read each is a schema (module Messages).      *)
(*                                                                         *)
(* A uint32_t has Mod32 values here, a uint64_t Mod64: the code's widths   *)
(* are 2^32 and 2^64, more than TLC's integers hold.  A varint carries     *)
(* seven bits in each byte as in the code.                                 *)
(***************************************************************************)
EXTENDS Integers, Sequences, SequencesExt

CONSTANTS Quarter,      \* values of one byte of a fixed32: 2^8 in the code
          Mod64         \* values of a uint64_t

Mod32 == Quarter ^ 4

ASSUME WidthAssumption ==
    /\ Quarter \in Nat /\ Quarter >= 4 /\ Quarter % 2 = 0
    /\ Mod64 \in Nat /\ Mod64 % Mod32 = 0

\* static_cast<uint32_t> and static_cast<int32_t>.
Uint32(n) == n % Mod32
Int32(n) == IF n % Mod32 < Mod32 \div 2 THEN n % Mod32 ELSE (n % Mod32) - Mod32

Bytes(n, count) == [k \in 1..count |-> (n \div Quarter ^ (k - 1)) % Quarter]
-----------------------------------------------------------------------------
(***************************************************************************)
(* Variable length integers.                                               *)
(***************************************************************************)
Septets(n) ==
    LET from[k \in Nat] == IF k < 128 THEN <<k>> ELSE <<128 + (k % 128)>> \o from[k \div 128]
    IN from[n]

\* encode takes the value as a uint32_t.
VarInt(n) == Septets(Uint32(n))

NoVarInt == [value |-> 0, consumed |-> 0]

\* The varint buf starts with; none if no byte of buf ends it.
Parse(buf) ==
    LET ends == {k \in DOMAIN buf : buf[k] < 128}
        n == CHOOSE k \in ends : \A j \in ends : k <= j
    IN IF ends = {} THEN NoVarInt
       ELSE [value |-> FoldRight(LAMBDA b, v : (128 * v + (b % 128)) % Mod64, SubSeq(buf, 1, n), 0),
             consumed |-> n]

Drop(buf, n) == SubSeq(buf, n + 1, Len(buf))
-----------------------------------------------------------------------------
(***************************************************************************)
(* ProtoWriteBuffer.  A field of a schema's encode list names the function *)
(* that writes it; a repeated one is written once for each element, with   *)
(* force.                                                                  *)
(***************************************************************************)
Written(kind, id, name) == [kind |-> kind, id |-> id, name |-> name, many |-> FALSE, schema |-> <<>>]
string(id, name) == Written("string", id, name)
bool(id, name) == Written("bool", id, name)
uint32(id, name) == Written("uint32", id, name)
int32(id, name) == Written("int32", id, name)
sint32(id, name) == Written("sint32", id, name)
enum(id, name) == Written("enum", id, name)
float(id, name) == Written("float", id, name)
fixed32(id, name) == Written("fixed32", id, name)
message(id, name, schema) == [Written("message", id, name) EXCEPT !.schema = schema]
every(f) == [f EXCEPT !.many = TRUE]

encode_field_raw(id, type) == VarInt(8 * id + type)

\* The bits of a negative zero, which compares equal to zero.
NegativeZero == Mod32 \div 2

\* The overload for std::string does not pass force on: an empty string is never written.
encode_string(id, s) ==
    IF s = <<>> THEN <<>> ELSE encode_field_raw(id, 2) \o VarInt(Len(s)) \o s

encode_uint32(id, n, force) ==
    IF n = 0 /\ ~force THEN <<>> ELSE encode_field_raw(id, 0) \o VarInt(n)

\* A forced FALSE is written as 1 too.
encode_bool(id, b, force) == IF ~b /\ ~force THEN <<>> ELSE encode_field_raw(id, 0) \o <<1>>

encode_fixed32(id, n, force) ==
    IF n = 0 /\ ~force THEN <<>> ELSE encode_field_raw(id, 5) \o Bytes(n, 4)

\* Does not pass force on either: a zero is never written.
encode_float(id, bits, force) ==
    IF bits \in {0, NegativeZero} /\ ~force THEN <<>> ELSE encode_fixed32(id, bits, FALSE)

\* A negative int32_t goes through encode_int64 and so, as VarInt takes 32 bits, as a uint32_t.
encode_int32(id, n, force) == encode_uint32(id, n, force)

encode_sint32(id, n, force) ==
    encode_uint32(id, IF n < 0 THEN Uint32(-(2 * n) - 1) ELSE Uint32(2 * n), force)

RECURSIVE Encode(_, _)

\* One value, forced if it is an element of a repeated field.
encode(f, x) ==
    CASE f.kind = "string" -> encode_string(f.id, x)
      [] f.kind \in {"uint32", "enum"} -> encode_uint32(f.id, x, f.many)
      [] f.kind = "bool" -> encode_bool(f.id, x, f.many)
      [] f.kind = "fixed32" -> encode_fixed32(f.id, x, f.many)
      [] f.kind = "float" -> encode_float(f.id, x, f.many)
      [] f.kind = "int32" -> encode_int32(f.id, x, f.many)
      [] f.kind = "sint32" -> encode_sint32(f.id, x, f.many)
      [] f.kind = "message" ->
            LET nested == Encode(f.schema, x)
            IN encode_field_raw(f.id, 2) \o VarInt(Len(nested)) \o nested

\* The bytes of message m.
Encode(schema, m) ==
    LET Field(f) == IF f.many THEN FlattenSeq([k \in DOMAIN m[f.name] |-> encode(f, m[f.name][k])])
                    ELSE encode(f, m[f.name])
    IN FlattenSeq([k \in DOMAIN schema.encode |-> Field(schema.encode[k])])
-----------------------------------------------------------------------------
(***************************************************************************)
(* ProtoMessage::decode.  A field of a schema's decode set names the cast  *)
(* that its case of decode_varint, decode_length or decode_32bit applies.  *)
(***************************************************************************)
Read(wire, cast, id, name) ==
    [wire |-> wire, cast |-> cast, id |-> id, name |-> name, many |-> FALSE, schema |-> <<>>]
as_string(id, name) == Read(2, "string", id, name)
as_bool(id, name) == Read(0, "bool", id, name)
as_uint32(id, name) == Read(0, "uint32", id, name)
as_int32(id, name) == Read(0, "int32", id, name)
as_sint32(id, name) == Read(0, "sint32", id, name)
as_enum(id, name) == Read(0, "uint32", id, name)
as_float(id, name) == Read(5, "raw", id, name)
as_fixed32(id, name) == Read(5, "raw", id, name)
as_message(id, name, schema) == [Read(2, "message", id, name) EXCEPT !.schema = schema]
push_back(r) == [r EXCEPT !.many = TRUE]

\* The members' initial values (api_pb2.h): zero, false, or empty.
Default(r) ==
    CASE r.many \/ r.cast = "string" -> <<>>
      [] ~r.many /\ r.cast = "bool" -> FALSE
      [] OTHER -> 0
Defaults(schema) ==
    [name \in {r.name : r \in schema.decode} |-> Default(CHOOSE r \in schema.decode : r.name = name)]

\* The next field of buf and what comes after it; Broken where decode gives up.
Broken == [wire |-> 1, id |-> 0, data |-> 0, rest |-> <<>>]
NextField(buf) ==
    LET tag == Parse(buf)
        after == Drop(buf, tag.consumed)
        number == Parse(after)
        body == Drop(after, number.consumed)
        length == Uint32(number.value)
        Field(data, rest) ==
            [wire |-> tag.value % 8, id |-> Uint32(tag.value) \div 8, data |-> data, rest |-> rest]
    IN CASE tag = NoVarInt -> Broken
         [] tag # NoVarInt /\ tag.value % 8 = 0 /\ number # NoVarInt -> Field(number.value, body)
         [] tag # NoVarInt /\ tag.value % 8 = 2 /\ number # NoVarInt /\ length <= Len(body) ->
                Field(SubSeq(body, 1, length), Drop(body, length))
         [] tag # NoVarInt /\ tag.value % 8 = 5 /\ Len(after) >= 4 ->
                Field(FoldRight(LAMBDA b, v : Quarter * v + b, SubSeq(after, 1, 4), 0), Drop(after, 4))
         [] OTHER -> Broken

RECURSIVE Decode(_, _, _)

Cast(r, data) ==
    CASE r.cast \in {"string", "raw"} -> data
      [] r.cast = "bool" -> data # 0
      [] r.cast = "uint32" -> Uint32(data)
      [] r.cast = "int32" -> Int32(data)
      [] r.cast = "sint32" ->
            IF data % 2 = 1 THEN Int32(-(data \div 2) - 1) ELSE Int32(data \div 2)
      [] r.cast = "message" -> Decode(r.schema, data, Defaults(r.schema))

\* Message m after field f; a field the message does not know is passed over.
Take(schema, m, f) ==
    LET known == {r \in schema.decode : r.wire = f.wire /\ r.id = f.id}
    IN IF known = {} THEN m
       ELSE LET r == CHOOSE r \in known : TRUE
            IN [m EXCEPT ![r.name] = IF r.many THEN Append(@, Cast(r, f.data)) ELSE Cast(r, f.data)]

\* Message m after the fields of buf.
\* Mutant: a field the message does not know ends the message.
Decode_KnownOnly(schema, buf, m) ==
    LET f == NextField(buf)
    IN IF buf = <<>> \/ f.wire = Broken.wire \/ Take(schema, m, f) = m THEN m
       ELSE Decode(schema, f.rest, Take(schema, m, f))
Decode(schema, buf, m) ==
    LET f == NextField(buf)
    IN IF buf = <<>> \/ f.wire = Broken.wire THEN m ELSE Decode(schema, f.rest, Take(schema, m, f))
=============================================================================
