-------------------------------- MODULE Wire --------------------------------
(***************************************************************************)
(* Messages of the native API between the device and a client: written     *)
(* field by field, framed (send_buffer), carried by TCP in pieces of any   *)
(* size (on_data_), taken out of recv_buffer_ (parse_recv_buffer_) and     *)
(* decoded; and the services a client may call with typed arguments        *)
(* (user_services).  Module Api models the connection that carries them.   *)
(*                                                                         *)
(* The client is not in this repository: it writes as protocol buffers     *)
(* have it (ClientEncode), may be a version ahead and use a field the      *)
(* device does not know, and reads what the device sends as the device     *)
(* would.  One message is under way at a time, a PingRequest behind it.    *)
(***************************************************************************)
EXTENDS Messages

CONSTANTS Sample,       \* values tried for a field, by the function that writes it
          Services,     \* the user services, in order: records [name, key, types]
          Calls         \* argument lists tried, for each

VARIABLES stream,       \* bytes sent that have not arrived
          recv_buffer_,
          due,          \* messages under way, as the reader is to find them: [type, value]
          handled,      \* messages found since
          to,           \* who reads: the device or the client
          listing,      \* what the client was told of a service last
          asked,        \* the calls under way, as lists of arguments ...
          called        \* ... and those that a service was executed with

vars == <<stream, recv_buffer_, due, handled, to, listing, asked, called>>

-----------------------------------------------------------------------------
(***************************************************************************)
(* The client's encoding: elements of repeated fields are all written, a   *)
(* negative integer as 64 bits, a float unless all of its bits are zero.   *)
(***************************************************************************)
RECURSIVE ClientEncode(_, _)
client_encode(f, x) ==
    CASE f.kind = "string" /\ f.many /\ x = <<>> -> encode_field_raw(f.id, 2) \o VarInt(0)
      [] f.kind = "bool" -> encode_uint32(f.id, IF x THEN 1 ELSE 0, f.many)
      [] f.kind = "float" -> encode_fixed32(f.id, x, f.many)
      [] f.kind = "int32" /\ x < 0 -> encode_field_raw(f.id, 0) \o Septets(x % Mod64)
      [] f.kind = "message" ->
            LET nested == ClientEncode(f.schema, x)
            IN encode_field_raw(f.id, 2) \o VarInt(Len(nested)) \o nested
      [] OTHER -> encode(f, x)
ClientEncode(schema, m) ==
    LET Field(f) == IF f.many THEN FlattenSeq([k \in DOMAIN m[f.name] |-> client_encode(f, m[f.name][k])])
                    ELSE client_encode(f, m[f.name])
    IN FlattenSeq([k \in DOMAIN schema.encode |-> Field(schema.encode[k])])

\* A field that this version does not have, of each wire type; the last is one it cannot skip.
NewFields == {VarInt(800) \o VarInt(300), VarInt(802) \o <<2, 128, 7>>, VarInt(805) \o <<1, 2, 3, 0>>, <<>>}
Fixed64 == VarInt(801) \o <<1, 0, 0, 0, 0, 0, 0, 0>>
-----------------------------------------------------------------------------
(***************************************************************************)
(* What of a message reaches the reader.  The device's encoding loses      *)
(* empty strings, FALSE and zero floats in a list, and the sign of a zero. *)
(***************************************************************************)
RECURSIVE Kept(_, _)
KeptField(f, x) ==
    CASE f.kind = "string" /\ f.many -> SelectSeq(x, LAMBDA s : s # <<>>)
      [] f.kind = "bool" /\ f.many -> [k \in DOMAIN x |-> TRUE]
      [] f.kind = "float" /\ f.many -> SelectSeq(x, LAMBDA bits : bits # 0)
      [] f.kind = "float" /\ ~f.many /\ x = NegativeZero -> 0
      [] f.kind = "message" /\ f.many -> [k \in DOMAIN x |-> Kept(f.schema, x[k])]
      [] OTHER -> x
Kept(schema, m) ==
    [name \in DOMAIN m |-> KeptField(CHOOSE f \in ToSet(schema.encode) : f.name = name, m[name])]

(***************************************************************************)
(* Messages tried: one field off its default at a time, and all at once.   *)
(***************************************************************************)
RECURSIVE Samples(_)
SamplesOf(f) ==
    LET one == IF f.kind = "message" THEN Samples(f.schema) ELSE Sample[f.kind]
    IN IF f.many THEN {<<x>> : x \in one} \cup {<<x, CHOOSE y \in one : TRUE, x>> : x \in one} ELSE one
All(schema) ==
    [name \in DOMAIN Defaults(schema) |->
        CHOOSE x \in SamplesOf(CHOOSE f \in ToSet(schema.encode) : f.name = name) : TRUE]
Samples(schema) ==
    {Defaults(schema), All(schema)} \cup
    UNION {{[Defaults(schema) EXCEPT ![f.name] = x] : x \in SamplesOf(f)} : f \in ToSet(schema.encode)}
Sends == [type \in DOMAIN sent |-> Samples(sent[type])]
Requests == [type \in DOMAIN read_message |-> Samples(read_message[type])]
Full == [type \in DOMAIN read_message |-> All(read_message[type])]
-----------------------------------------------------------------------------
(***************************************************************************)
(* Framing.                                                                *)
(***************************************************************************)
\* send_buffer: a zero, the length and the type go before the body.
Frame(type, body) == <<0>> \o VarInt(Len(body)) \o VarInt(type) \o body

\* parse_recv_buffer_: is there a whole message in buf, and where?
NextFrame(buf) ==
    LET size == Parse(Tail(buf))
        type == Parse(Drop(buf, 1 + size.consumed))
        i == 1 + size.consumed + type.consumed
    IN [whole |-> /\ size # NoVarInt /\ type # NoVarInt
                  /\ Len(buf) - i >= Uint32(size.value),
        type |-> Uint32(type.value), first |-> i, last |-> i + Uint32(size.value)]

Idle == stream = <<>> /\ recv_buffer_ = <<>>

\* A message and a PingRequest, type 7, are sent to r.
Under(type, body, value, r) ==
    /\ stream' = Frame(type, body) \o Frame(7, <<>>)
    /\ due' = <<[type |-> type, value |-> value], [type |-> 7, value |-> Defaults(PingRequest)]>>
    /\ to' = r

\* The device sends a message; the listing of a service, type 41, is send_list_service.
Send(type) ==
    /\ due = <<>> /\ listing = <<>>
    /\ \E m \in Sends[type] :
        Under(type, Encode(sent[type], m), Kept(sent[type], m), "client")
    /\ UNCHANGED <<recv_buffer_, handled, listing, asked, called>>

\* The client sends a message.
Request(type) ==
    /\ due = <<>> /\ listing = <<>>
    /\ \E m \in Requests[type] : Under(type, ClientEncode(read_message[type], m), m, "device")
    /\ UNCHANGED <<recv_buffer_, handled, listing, asked, called>>

\* A newer client's has new fields before and after those that the device knows.
NewerRequest(type) ==
    /\ due = <<>> /\ listing = <<>>
    /\ \E x \in NewFields, y \in NewFields \cup {Fixed64} :
        Under(type, x \o ClientEncode(read_message[type], Full[type]) \o y, Full[type], "device")
    /\ UNCHANGED <<recv_buffer_, handled, listing, asked, called>>

\* And its messages may be of types that the device does not know, with bodies like any.
NewTypes == {2, 53, 300}
NewerMessage(type) ==
    /\ due = <<>> /\ listing = <<>>
    /\ \E body \in {<<>>, Fixed64, Frame(7, <<>>)} : stream' = Frame(type, body) \o Frame(7, <<>>)
    /\ due' = <<[type |-> 7, value |-> Defaults(PingRequest)]>>
    /\ to' = "device"
    /\ UNCHANGED <<recv_buffer_, handled, listing, asked, called>>
-----------------------------------------------------------------------------
(***************************************************************************)
(* User services.                                                          *)
(***************************************************************************)
\* ServiceArgType.
ArgTypes == <<"bool", "int", "float", "string", "bool_array", "int_array", "float_array", "string_array">>

to_service_arg_type(t) == CHOOSE k \in 0..7 : ArgTypes[k + 1] = t

encode_list_service_response(s) ==
    [name |-> s.name, key |-> s.key,
     args |-> [k \in DOMAIN s.types |->
                [name |-> <<96 + k>>, type |-> to_service_arg_type(s.types[k])]]]

\* Mutant: an integer is looked for where older clients put it.
get_execute_arg_value_Legacy(t, arg) ==
    CASE t = "int" -> arg.legacy_int
      [] t \in {"bool", "float", "string"} -> arg[t \o "_"]
      [] OTHER -> arg[t]
get_execute_arg_value(t, arg) ==
    CASE t = "int" -> IF arg.legacy_int # 0 THEN arg.legacy_int ELSE arg.int_
      [] t \in {"bool", "float", "string"} -> arg[t \o "_"]
      [] OTHER -> arg[t]

\* The executions of s on a request: one if the request is for s, else none.
execute_service(s, req) ==
    IF req.key # s.key \/ Len(req.args) # Len(s.types) THEN <<>>
    ELSE <<[k \in DOMAIN s.types |-> get_execute_arg_value(s.types[k], req.args[k])]>>

\* The client puts a value where its type says; clients before version 1.3 know legacy_int only.
ClientArgument(type, x, legacy) ==
    LET t == ArgTypes[type + 1]
        name == CASE t = "int" -> IF legacy THEN "legacy_int" ELSE "int_"
                  [] t \in {"bool", "float", "string"} -> t \o "_"
                  [] OTHER -> t
    IN [Defaults(ExecuteServiceArgument) EXCEPT ![name] = x]

\* The device lists a service to the client.
send_list_service(s) ==
    /\ due = <<>> /\ listing = <<>>
    /\ Under(41, Encode(ListEntitiesServicesResponse, encode_list_service_response(s)),
             encode_list_service_response(s), "client")
    /\ UNCHANGED <<recv_buffer_, handled, listing, asked, called>>

\* The client calls the service it was told of, with values of the types it was told.
Call(i) == \E args \in Calls[i], legacy \in BOOLEAN :
    /\ due = <<>>
    /\ \E told \in ToSet(listing) :
        /\ told.key = Services[i].key
        /\ LET request ==
                [key |-> told.key,
                 args |-> [k \in DOMAIN args |-> ClientArgument(told.args[k].type, args[k], legacy)]]
           IN Under(42, ClientEncode(ExecuteServiceRequest, request), request, "device")
    /\ asked' = <<args>> /\ listing' = <<>>
    /\ UNCHANGED <<recv_buffer_, handled, called>>
-----------------------------------------------------------------------------
\* on_data_: the next k bytes arrive.
on_data_(k) ==
    /\ k \in 1..Len(stream)
    /\ recv_buffer_' = recv_buffer_ \o SubSeq(stream, 1, k)
    /\ stream' = Drop(stream, k)
    /\ UNCHANGED <<due, handled, to, listing, asked, called>>

\* One message is taken out of recv_buffer_ and decoded, if its type is known; the client notes a
\* listing, the device executes what a request is for.
parse_recv_buffer_ ==
    LET f == NextFrame(recv_buffer_)
        known == IF to = "device" THEN read_message ELSE sent
        schema == known[f.type]
        m == Decode(schema, SubSeq(recv_buffer_, f.first + 1, f.last), Defaults(schema))
    IN /\ recv_buffer_ # <<>> /\ recv_buffer_[1] = 0
       /\ f.whole
       /\ recv_buffer_' = Drop(recv_buffer_, f.last)
       /\ handled' = IF f.type \in DOMAIN known THEN Append(handled, [type |-> f.type, value |-> m]) ELSE handled
       /\ listing' = IF f.type = 41 THEN <<m>> ELSE listing
       /\ called' = IF f.type # 42 THEN called
                    ELSE FlattenSeq([i \in DOMAIN Services |-> execute_service(Services[i], m)])
       /\ UNCHANGED <<stream, due, to, asked>>

\* Nothing is under way any more; the client may call the service it was told of, once.
Quiet ==
    /\ Idle /\ due # <<>> /\ Len(handled) = Len(due)
    /\ due' = <<>> /\ handled' = <<>>
    /\ to' = "device"
    /\ asked' = <<>> /\ called' = <<>>
    /\ listing' \in {listing, <<>>}
    /\ UNCHANGED <<stream, recv_buffer_>>

Init ==
    /\ stream = <<>> /\ recv_buffer_ = <<>>
    /\ due = <<>> /\ handled = <<>>
    /\ to = "device"
    /\ listing = <<>>
    /\ asked = <<>> /\ called = <<>>

\* One of the two has something to say; module Reports makes a specification of these actions.
Talks ==
    \/ \E type \in DOMAIN sent \ {41} : Send(type)
    \/ \E type \in DOMAIN read_message : Request(type) \/ NewerRequest(type)
    \/ \E type \in NewTypes : NewerMessage(type)
    \/ \E i \in DOMAIN Services : send_list_service(Services[i]) \/ Call(i)
-----------------------------------------------------------------------------
(***************************************************************************)
(* Properties.                                                             *)
(***************************************************************************)
\* Whatever pieces TCP delivers, the reader finds the messages that were sent, in order, each
\* with the values it was sent with, but for what the device's encoding loses (Kept); a field the
\* reader does not know costs it nothing of the others, nor does a message (parse_recv_buffer_, decode, encode, and
\* every message of api_pb2.cpp).
ReadAsSent == IsPrefix(handled, due)

\* A service is executed with the arguments the client gave it, whichever member of the request
\* carries them (user_services).
CalledAsAsked == handled # <<>> => called = asked

\* Once everything has arrived, there is a whole message in what has not been handled: none waits
\* for bytes that come after it (parse_recv_buffer_).
AllIsRead == stream = <<>> /\ recv_buffer_ # <<>> => NextFrame(recv_buffer_).whole

\* What is sent arrives: all of it, as it was sent.
Conveyed == ReadAsSent /\ AllIsRead
=============================================================================
