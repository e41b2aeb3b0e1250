-------------------------------- MODULE Wire --------------------------------
(***************************************************************************)
(* The messages of the gRPC service and their codec, src/proto.            *)
(*                                                                         *)
(* Every message is generated from one pattern, so a message is here a row *)
(* of a schema, and the functions encode, decode, toJSON, fromJSON and     *)
(* fromPartial of its MessageFns object are the operators of this module   *)
(* applied to that row.  Bytes are abstracted to the sequence of tagged    *)
(* fields they spell: [num, wt, body], where a field of wire type 2 with a *)
(* message inside has that message's fields as its body.                   *)
(*                                                                         *)
(* A JavaScript value is a tuple that starts with its type.  An object is  *)
(* a function that gives the value of each key, or Absent; a Date is an    *)
(* object without keys of its own.  Conversions (String, Number, Boolean,  *)
(* Math.round) are applied to values that have the field's type already,   *)
(* where they change nothing.                                              *)
(*                                                                         *)
(* encode and decode call each other message by message.  Here they are    *)
(* functions of the number of levels that are left: decode throws when it  *)
(* has none left, and for encode there are always enough.                  *)
(***************************************************************************)
EXTENDS Integers, Sequences, SequencesExt

CONSTANTS
  RecursionLimit,  \* 100 in every decode
  Text,            \* the strings a value may be
  Keys,            \* the keys an object may have
  Nesting          \* bound: objects and arrays inside each other in a value

ASSUME RecursionLimitAssumption == RecursionLimit \in Nat
ASSUME ValuesAssumption ==
  /\ Keys \subseteq Text /\ IsFiniteSet(Keys)
  /\ Nesting \in Nat

Undef   == <<"undefined">>
Null    == <<"null">>
Date    == <<"date">>
Func    == <<"function">>
Bool(b) == <<"boolean", b>>
Num(n)  == <<"number", n>>
Str(s)  == <<"string", s>>
List(s) == <<"array", s>>
Obj(f)  == <<"object", f>>
Msg(m)  == <<"message", m>>
Bytes(wire) == <<"bytes", wire>>

Absent   == <<"absent">>
Type(v)  == v[1]
NoKeys   == [k \in Keys |-> Absent]
Keyed(v) == IF Type(v) = "object" THEN v[2] ELSE NoKeys

\* An object literal, written as a record.
Literal(r) == Obj([k \in Keys |-> IF k \in DOMAIN r THEN r[k] ELSE Absent])

Scalars    == ({"boolean"} \X BOOLEAN) \cup ({"number"} \X Int) \cup ({"string"} \X Text)
Objects(S) == {"object"} \X [Keys -> S \cup {Absent}]
Lists(S)   == {"array"} \X Seq(S)

\* The values wrap does not throw on, with up to n objects and arrays inside each other.
Values[n \in Nat] ==
  IF n = 0
  THEN Scalars \cup {Undef, Null}
  ELSE LET inner == Values[n - 1]
       IN  Scalars \cup {Undef, Null, Date} \cup Objects(inner) \cup Lists(inner)

AnyValue == Values[Nesting]
-----------------------------------------------------------------------------
(***************************************************************************)
(* The schema.  The number of a field is its place, as jobqueue.proto and  *)
(* struct.proto number them.  A field is "implicit" when it is left out at *)
(* its default, "explicit" when it is left out if undefined, "list" or     *)
(* "map" when it may occur many times.                                     *)
(***************************************************************************)
Field(name, kind, rule) == [name |-> name, alias |-> name, kind |-> kind, rule |-> rule]

\* A field fromJSON also reads under its name in the .proto file.
Aliased(f, alias) == [f EXCEPT !.alias = alias]

CreateQueueRequest   == <<Field("queueName", "string", "implicit")>>
PushRequest          == <<Field("queueId", "string", "implicit"),
                          Field("jobData", "Struct", "explicit"),
                          Field("metadata", "Struct", "explicit")>>
ListenQueueRequest   == <<Field("queue", "string", "implicit"),
                          Field("concurrency", "int32", "implicit")>>
DeleteQueueRequest   == <<Field("queueId", "string", "implicit")>>
ListenQueueStreamResponse ==
  <<Aliased(Field("queueConnectResponse", "QueueConnectResponse", "explicit"),
            "queue_connect_response"),
    Aliased(Field("jobDataResponse", "JobDataResponse", "explicit"), "job_data_response")>>
JobDataResponse      == <<Field("jobData", "Struct", "explicit")>>
QueueConnectResponse == <<Field("workerId", "string", "implicit")>>
SuccessBoolResponse  == <<Field("success", "bool", "implicit")>>
HearthbeatRequest    == <<Field("worker", "string", "implicit")>>
JobInfoRequest       == <<Field("jobID", "string", "implicit"),
                          Field("workerID", "string", "implicit")>>
Empty                == <<>>
Struct               == <<Field("fields", "Struct_FieldsEntry", "map")>>
Struct_FieldsEntry   == <<Field("key", "string", "implicit"),
                          Field("value", "Value", "explicit")>>
Value                == <<Aliased(Field("nullValue", "enum", "explicit"), "null_value"),
                          Aliased(Field("numberValue", "double", "explicit"), "number_value"),
                          Aliased(Field("stringValue", "string", "explicit"), "string_value"),
                          Aliased(Field("boolValue", "bool", "explicit"), "bool_value"),
                          Aliased(Field("structValue", "Struct", "explicit"), "struct_value"),
                          Aliased(Field("listValue", "ListValue", "explicit"), "list_value")>>
ListValue            == <<Field("values", "Value", "list")>>

Schema ==
  [CreateQueueRequest |-> CreateQueueRequest, PushRequest |-> PushRequest,
   ListenQueueRequest |-> ListenQueueRequest, DeleteQueueRequest |-> DeleteQueueRequest,
   ListenQueueStreamResponse |-> ListenQueueStreamResponse, JobDataResponse |-> JobDataResponse,
   QueueConnectResponse |-> QueueConnectResponse, SuccessBoolResponse |-> SuccessBoolResponse,
   HearthbeatRequest |-> HearthbeatRequest, JobInfoRequest |-> JobInfoRequest, Empty |-> Empty,
   Struct |-> Struct, Struct_FieldsEntry |-> Struct_FieldsEntry, Value |-> Value,
   ListValue |-> ListValue]

Types == DOMAIN Schema

WireType(kind) ==
  CASE kind \in {"int32", "bool", "enum"} -> 0 [] kind = "double" -> 1 [] OTHER -> 2

Default(f) ==
  CASE f.rule = "map"      -> NoKeys
    [] f.rule = "list"     -> <<>>
    [] f.rule = "explicit" -> Undef
    [] f.rule = "implicit" /\ f.kind = "string" -> Str("")
    [] f.rule = "implicit" /\ f.kind = "bool"   -> Bool(FALSE)
    [] OTHER               -> Num(0)

FieldNamed(type, name) ==
  Schema[type][CHOOSE i \in DOMAIN Schema[type] : Schema[type][i].name = name]
FieldNames(type)       == {Schema[type][i].name : i \in DOMAIN Schema[type]}

\* createBase...: every field at its default.
CreateBase(type) == [name \in FieldNames(type) |-> Default(FieldNamed(type, name))]
-----------------------------------------------------------------------------
(***************************************************************************)
(* wrap and unwrap: between JavaScript values and the messages Struct,     *)
(* Value and ListValue.                                                    *)
(***************************************************************************)
ValueField(v) ==
  CASE Type(v) = "null"    -> "nullValue"
    [] Type(v) = "boolean" -> "boolValue"
    [] Type(v) = "number"  -> "numberValue"
    [] Type(v) = "string"  -> "stringValue"
    [] Type(v) = "array"   -> "listValue"
    [] OTHER               -> "structValue"

ValueWrap(v) ==
  IF v = Undef
  THEN CreateBase("Value")
  ELSE [CreateBase("Value") EXCEPT ![ValueField(v)] = IF v = Null THEN Num(0) ELSE v]

\* Mutant of ValueUnwrap: the fields are tested for truth, so "", 0 and false are lost.
ValueUnwrapTruthy(m) ==
  CASE m.stringValue \notin {Undef, Str("")} -> m.stringValue
    [] m.numberValue \notin {Undef, Num(0)}  -> m.numberValue
    [] m.boolValue \notin {Undef, Bool(FALSE)} -> m.boolValue
    [] m.structValue # Undef -> m.structValue
    [] m.listValue # Undef   -> m.listValue
    [] OTHER -> Null

\* The first field that is set, in this order.
ValueUnwrap(m) ==
  CASE m.stringValue # Undef -> m.stringValue
    [] m.stringValue = Undef /\ m.numberValue # Undef -> m.numberValue
    [] m.stringValue = Undef /\ m.numberValue = Undef /\ m.boolValue # Undef -> m.boolValue
    [] OTHER -> CASE m.structValue # Undef -> m.structValue
                  [] m.structValue = Undef /\ m.listValue # Undef -> m.listValue
                  [] OTHER -> IF m.nullValue # Undef THEN Null ELSE Undef

\* What a field of this kind holds for a message read from the wire, and what is encoded.
Unwrap(kind, m) ==
  CASE kind = "Value"     -> ValueUnwrap(m)
    [] kind = "Struct"    -> Obj(m.fields)
    [] kind = "ListValue" -> List(m.values)
    [] OTHER              -> Msg(m)

Wrap(kind, v) ==
  CASE kind = "Value"     -> ValueWrap(v)
    [] kind = "Struct"    -> [fields |-> Keyed(v)]
    [] kind = "ListValue" -> [values |-> v[2]]
    [] OTHER              -> v[2]

\* What a field may hold: a value, or one of the messages that are inside others.
Holding(type) == {"message"} \X [FieldNames(type) -> AnyValue]
Held == AnyValue \cup Holding("Struct_FieldsEntry")
          \cup Holding("QueueConnectResponse") \cup Holding("JobDataResponse")

\* A message no wrap throws on: no function is anywhere in its values.  Values past the
\* bound Nesting are refused as well, where the code would encode them.
Encodable(m) == \A name \in DOMAIN m : m[name] \in Held
-----------------------------------------------------------------------------
(***************************************************************************)
(* encode.  enc gives the wire of the messages inside, by type and value.  *)
(***************************************************************************)

\* The values a field is written with, one per occurrence on the wire.
Occurrences(f, v) ==
  CASE f.rule = "list" -> v
    [] f.rule = "map"  -> LET keys == SetToSeq({k \in Keys : v[k] \notin {Absent, Undef}})
                          IN  [i \in DOMAIN keys |->
                                 Msg([key |-> Str(keys[i]), value |-> v[keys[i]]])]
    [] OTHER           -> IF v = Default(f) THEN <<>> ELSE <<v>>

Body(kind, v, enc) == IF kind \in Types THEN Bytes(enc[<<kind, v>>]) ELSE v

Written(num, f, v, enc) ==
  LET vs == Occurrences(f, v)
  IN  [i \in DOMAIN vs |->
         [num |-> num, wt |-> WireType(f.kind), body |-> Body(f.kind, vs[i], enc)]]

Fields(type, m, enc) ==
  FlattenSeq([i \in DOMAIN Schema[type] |->
                Written(i, Schema[type][i], m[Schema[type][i].name], enc)])

\* The wire of the messages of at most n levels.
EncodeAt[n \in Nat] ==
  IF n = 0
  THEN [kv \in Types \X Held |-> <<>>]
  ELSE [kv \in Types \X Held |-> Fields(kv[1], Wrap(kv[1], kv[2]), EncodeAt[n - 1])]

\* The messages inside each other in a message: three for each object.
Levels == 3 * Nesting + 1

Encode(type, m) == Fields(type, m, EncodeAt[Levels])
-----------------------------------------------------------------------------
(***************************************************************************)
(* decode.  dec gives the message of the wires inside, by type and wire.   *)
(* End-of-group tags and tag 0, which end the loop and which no encoder of *)
(* these messages writes, are left out.                                    *)
(***************************************************************************)
TaggedFields(S) == [num : Nat, wt : 0..5, body : S]

Wires[n \in Nat] ==
  IF n = 0
  THEN Seq(TaggedFields(Scalars))
  ELSE Seq(TaggedFields(Scalars \cup ({"bytes"} \X Wires[n - 1])))

\* The case of the switch that takes a tag: the number and the wire type agree.
Known(type, x) ==
  x.num \in DOMAIN Schema[type] /\ WireType(Schema[type][x.num].kind) = x.wt

\* A field read: the last occurrence wins, a repeated one is collected, and an entry of
\* a map without a value is dropped.
Store(f, m, v) ==
  CASE f.rule = "list" -> [m EXCEPT ![f.name] = Append(@, v)]
    [] f.rule = "map"  -> IF v[2].value = Undef
                          THEN m
                          ELSE [m EXCEPT ![f.name] = [@ EXCEPT ![v[2].key[2]] = v[2].value]]
    [] OTHER           -> [m EXCEPT ![f.name] = v]

Failed(type) == [ok |-> FALSE, message |-> CreateBase(type)]

\* One turn of the loop of decode.  What matches no case is skipped.
Read(type, dec, acc, x) ==
  LET f     == Schema[type][x.num]
      inner == dec[<<f.kind, x.body[2]>>]
  IN  CASE ~acc.ok \/ ~Known(type, x) -> acc
        [] acc.ok /\ Known(type, x) /\ f.kind \notin Types ->
             [acc EXCEPT !.message = Store(f, @, x.body)]
        [] OTHER ->
             IF inner.ok
             THEN [acc EXCEPT !.message = Store(f, @, Unwrap(f.kind, inner.message))]
             ELSE Failed(type)

ReadAll(type, dec, wire) ==
  LET acc[i \in 0..Len(wire)] ==
        IF i = 0
        THEN [ok |-> TRUE, message |-> CreateBase(type)]
        ELSE Read(type, dec, acc[i - 1], wire[i])
  IN  acc[Len(wire)]

\* What decode returns when its depth is n below the limit.
DecodeAt[n \in Nat] ==
  IF n = 0
  THEN [tw \in Types \X Wires[Levels] |-> Failed(tw[1])]
  ELSE [tw \in Types \X Wires[Levels] |-> ReadAll(tw[1], DecodeAt[n - 1], tw[2])]

Decode(type, wire) == DecodeAt[RecursionLimit][<<type, wire>>]
-----------------------------------------------------------------------------
(***************************************************************************)
(* toJSON, fromJSON and fromPartial.  An object they read or write has a   *)
(* value for some of the names.  Nested(kind, x) is their call for a       *)
(* message inside; such a message has none inside itself.                  *)
(***************************************************************************)
IsSet(v)  == v \notin {Undef, Null}
Inner     == Types \ {"Struct", "Struct_FieldsEntry", "Value", "ListValue"}
AsIs(t, x) == x

WriteJSON(Nested(_, _), type, m) ==
  LET Present == {name \in FieldNames(type) : m[name] # Default(FieldNamed(type, name))}
      AsJSON(f, v) == CASE f.kind \in Inner -> Msg(Nested(f.kind, v[2]))
                        [] f.kind = "enum"   -> Str("NULL_VALUE")
                        [] OTHER             -> v
  IN  [name \in Present |-> AsJSON(FieldNamed(type, name), m[name])]

InnerToJSON(t, x) == WriteJSON(AsIs, t, x)
ToJSON(type, m) == WriteJSON(InnerToJSON, type, m)

\* Mutant of Given: the name in the .proto file is the only one read.
GivenAlias(f, o) == IF f.alias \in DOMAIN o THEN o[f.alias] ELSE Default(f)

\* What an object has for a field: under its name, else under its alias.
Given(f, o) ==
  LET set == {n \in {f.name, f.alias} \cap DOMAIN o : f.rule \in {"map", "list"} \/ IsSet(o[n])}
  IN  CASE f.name \in set  -> o[f.name]
        [] f.name \notin set /\ f.alias \in set -> o[f.alias]
        [] OTHER           -> Default(f)

ReadJSON(Nested(_, _), type, o) ==
  LET Parse(f, v) == CASE f.rule \in {"map", "list"} -> v
                       [] OTHER ->
                            CASE v = Default(f)     -> v
                              [] v # Default(f) /\ f.kind \in Inner -> Msg(Nested(f.kind, v[2]))
                              [] v # Default(f) /\ f.kind = "enum" ->
                                   Num(IF v = Str("NULL_VALUE") THEN 0 ELSE -1)
                              [] OTHER              -> v
  IN  [name \in FieldNames(type) |-> LET f == FieldNamed(type, name) IN Parse(f, Given(f, o))]

InnerFromJSON(t, x) == ReadJSON(AsIs, t, x)
FromJSON(type, o) == ReadJSON(InnerFromJSON, type, o)

TakePartial(Nested(_, _), type, o) ==
  LET Take(f, v) == CASE f.rule = "map"  -> [k \in Keys |-> IF v[k] = Undef THEN Absent ELSE v[k]]
                      [] f.rule = "list" -> v
                      [] OTHER ->
                           CASE ~IsSet(v)         -> Default(f)
                             [] IsSet(v) /\ f.kind \in Inner -> Msg(Nested(f.kind, v[2]))
                             [] OTHER             -> v
  IN  [name \in FieldNames(type) |->
         LET f == FieldNamed(type, name)
         IN  Take(f, IF name \in DOMAIN o THEN o[name] ELSE Default(f))]

InnerFromPartial(t, x) == TakePartial(AsIs, t, x)
FromPartial(type, o) == TakePartial(InnerFromPartial, type, o)
=============================================================================
