----------------------------- MODULE GrpcCalls -----------------------------
(***************************************************************************)
(* One message of the gRPC service on its way: a method is called with a   *)
(* request, or its handler answers, the stub serializes it, and the other  *)
(* side deserializes it.  A request of push that arrived is followed by    *)
(* the delivery of its job on the stream of a worker, so the data of a job *)
(* can be traced from the caller of push to the method work of a client,   *)
(* and its metadata to the Job object that decides on its retries.         *)
(*                                                                         *)
(*   step     idle, sent, refused (encode threw), received                 *)
(*   method, leg, message   what is sent; leg is request or response       *)
(*   wire     the fields of the bytes under way                            *)
(*   result   what decode returned: ok is FALSE when it threw              *)
(*   pushed   history: the request of push the delivery under way is for   *)
(***************************************************************************)
EXTENDS Wire, JobClass, FiniteSetsExt

CONSTANT Sent  \* the records [method, leg, message] a behaviour may start with

JobKeys   == {"ID", "queue", "status", "data", "createdAt", "_metadata"}
RetryKeys == {"retry", "attempts", "backoff", "type", "delay", "currentAttempt"}

\* The keys and strings this module writes and reads itself are among the others.
ASSUME JobKeysAssumption ==
  JobKeys \cup RetryKeys \subseteq Keys /\ {"id", "Available", "new"} \subseteq Text

VARIABLES step, method, leg, message, wire, result, pushed

vars == <<step, method, leg, message, wire, result, pushed>>

\* The types of each method.
QueueService ==
  LET Unary(request) == [request |-> request, response |-> "SuccessBoolResponse"]
  IN  [createQueue |-> Unary("CreateQueueRequest"),
       push        |-> Unary("PushRequest"),
       listenQueue |-> [request |-> "ListenQueueRequest", response |-> "ListenQueueStreamResponse"],
       deleteQueue |-> Unary("DeleteQueueRequest"),
       hearthbeat  |-> Unary("HearthbeatRequest"),
       ack         |-> Unary("JobInfoRequest"),
       error       |-> Unary("JobInfoRequest")]

TypeOf(mth, l)  == QueueService[mth][l]
Nothing         == [ok |-> TRUE, message |-> NoKeys]
NoPush          == CreateBase("PushRequest")

\* The names of the fields and the types of their values, as the interfaces of the
\* generated code declare them.
Fits(f, v) ==
  \/ f.rule = "explicit" /\ v = Undef
  \/ Type(v) = CASE f.kind = "string" -> "string"
                 [] f.kind = "bool"   -> "boolean"
                 [] f.kind = "int32"  -> "number"
                 [] f.kind = "Struct" -> "object"
                 [] OTHER             -> "message"

HasFields(type, m) ==
  /\ m = [name \in FieldNames(type) |-> m[name]]
  /\ \A name \in FieldNames(type) : Fits(FieldNamed(type, name), m[name])

IsMessage(type, m) ==
  /\ HasFields(type, m)
  /\ \A name \in DOMAIN m :
       Type(m[name]) = "message" => HasFields(FieldNamed(type, name).kind, m[name][2])

ASSUME SentAssumption ==
  \A s \in Sent : /\ s.method \in DOMAIN QueueService /\ s.leg \in {"request", "response"}
                  /\ IsMessage(TypeOf(s.method, s.leg), s.message)

\* The metadata a job is created with: {} when the request has none.
MetaOf(request) == IF request.metadata = Undef THEN Obj(NoKeys) ELSE request.metadata

\* What JSON makes of a value that was read from the wire, in which there are no dates and
\* no functions: undefined is left out of an object, and is null in a list.  JSON.stringify
\* and JSON.parse do so to the metadata, the Json column to the data.
JsonAt[n \in Nat] ==
  IF n = 0
  THEN [v \in AnyValue |-> v]
  ELSE LET inner == JsonAt[n - 1]
           Entry(x) == IF x \in {Absent, Undef} THEN Absent ELSE inner[x]
           Item(x)  == IF x = Undef THEN Null ELSE inner[x]
       IN  [v \in AnyValue |->
              CASE Type(v) = "object" -> Obj([k \in Keys |-> Entry(v[2][k])])
                [] Type(v) = "array"  -> List([i \in DOMAIN v[2] |-> Item(v[2][i])])
                [] OTHER -> v]

Json(v) == JsonAt[Nesting][v]

\* Mutant of JobObject: the metadata is not parsed, as in popMany.
JobObjectUnparsed(request) ==
  Literal([ID |-> Str("id"), queue |-> request.queueId, status |-> Str("Available"),
           data |-> Json(request.jobData), createdAt |-> Date, _metadata |-> Str("{}")])

\* The object the dispatcher writes for the job of a request: Job.create, the row, pop.
\* Data and metadata have been through JSON; created_at is a Date.
JobObject(request) ==
  Literal([ID |-> Str("id"), queue |-> request.queueId, status |-> Str("Available"),
           data |-> Json(request.jobData), createdAt |-> Date,
           _metadata |-> Json(MetaOf(request))])

\* The metadata of the Job object, once it is read as a JobMetadata.
JobMetadataOf(request) ==
  LET meta    == Keyed(MetaOf(request))
      retry   == Keyed(meta["retry"])
      backoff == Keyed(retry["backoff"])
      Counter(v) == IF v \in {Absent, Undef} THEN 0 ELSE v[2]
  IN  IF meta["retry"] \in {Absent, Undef}
      THEN Metadata(NoRetry)
      ELSE Metadata(RetryMeta(retry["attempts"][2], backoff["type"][2], backoff["delay"][2],
                              Counter(retry["currentAttempt"])))

Delivery(request) ==
  [queueConnectResponse |-> Undef,
   jobDataResponse |-> Msg([jobData |-> JobObject(request)])]

Init ==
  /\ step = "idle"
  /\ method = "push" /\ leg = "request" /\ message = NoPush
  /\ wire = <<>>
  /\ result = Nothing
  /\ pushed = NoPush

Write(mth, l, m) ==
  /\ method' = mth /\ leg' = l /\ message' = m
  /\ IF Encodable(m)
     THEN step' = "sent" /\ wire' = Encode(TypeOf(mth, l), m)
     ELSE step' = "refused" /\ wire' = <<>>
  /\ result' = Nothing

\* requestSerialize, responseSerialize
Serialize ==
  /\ step = "idle"
  /\ \E s \in Sent : Write(s.method, s.leg, s.message)
  /\ UNCHANGED pushed

\* Fields the schema of no message has.
NewFields == {[num |-> 9, wt |-> 2, body |-> Str("new")], [num |-> 1, wt |-> 5, body |-> Num(1)]}

\* The sender was generated from a newer jobqueue.proto, with one more field.
NewerSender(x) ==
  /\ step = "sent"
  /\ \A i \in DOMAIN wire : wire[i] # x
  /\ \E i \in 1..Len(wire) + 1 : wire' = InsertAt(wire, i, x)
  /\ UNCHANGED <<step, method, leg, message, result, pushed>>

\* requestDeserialize, responseDeserialize
Deserialize ==
  /\ step = "sent"
  /\ step' = "received"
  /\ result' = Decode(TypeOf(method, leg), wire)
  /\ UNCHANGED <<method, leg, message, wire, pushed>>

\* The job of a request of push that arrived is popped and sent to a worker.  It need not
\* be: the insert may fail, and does if the client of the database refuses undefined in
\* the lists of data instead of making it null.
Deliver ==
  /\ step = "received" /\ method = "push" /\ leg = "request"
  /\ result.ok /\ result.message.jobData # Undef
  /\ Write("listenQueue", "response", Delivery(result.message))
  /\ pushed' = message

Next ==
  \/ Serialize
  \/ \E x \in NewFields : NewerSender(x)
  \/ Deserialize
  \/ Deliver

Spec == Init /\ [][Next]_vars
-----------------------------------------------------------------------------
(***************************************************************************)
(* The reference: what a value is once it has crossed the wire, and how    *)
(* deep its decoding goes below the decode of the Value that holds it.     *)
(***************************************************************************)
CrossedAt[n \in Nat] ==
  IF n = 0
  THEN [v \in AnyValue |-> [value |-> v, depth |-> 0]]
  ELSE LET inner == CrossedAt[n - 1]
           Kept(f)     == {k \in Keys : f[k] \notin {Absent, Undef}}
           Object(f)   == [k \in Keys |-> IF k \in Kept(f) THEN inner[f[k]].value ELSE Absent]
           Array(s)    == [i \in DOMAIN s |-> inner[s[i]].value]
           Deep(extra, S) == Max({1} \cup {extra + inner[x].depth : x \in S})
       IN  [v \in AnyValue |->
              CASE Type(v) = "date"   -> [value |-> Obj(NoKeys), depth |-> 1]
                [] Type(v) = "object" -> [value |-> Obj(Object(v[2])),
                                          depth |-> Deep(3, {v[2][k] : k \in Kept(v[2])})]
                [] Type(v) = "array"  -> [value |-> List(Array(v[2])),
                                          depth |-> Deep(2, {v[2][i] : i \in DOMAIN v[2]})]
                [] OTHER -> [value |-> v, depth |-> 0]]

Crossed(v) == CrossedAt[Nesting][v]

\* A field that holds a message has it one level deeper than its values.
Plain(v) ==
  IF Type(v) = "message" THEN Msg([name \in DOMAIN v[2] |-> Crossed(v[2][name]).value])
                         ELSE Crossed(v).value
Depth(v) ==
  IF Type(v) = "message" THEN 1 + Max({Crossed(v[2][name]).depth : name \in DOMAIN v[2]})
                         ELSE Crossed(v).depth

DepthOf(m) == Max({Depth(m[name]) : name \in DOMAIN m})

\* The receiver reads the message its caller passed: no field lost, mixed up or added,
\* whatever fields a newer sender adds and wherever; only undefined object fields are
\* dropped, and dates, which have no keys of their own, arrive empty.  It refuses the
\* message exactly when its values nest too deep, and never for being wide.
CallsArriveIntact ==
  step = "received" =>
    /\ result.ok <=> DepthOf(message) < RecursionLimit
    /\ result.ok => result.message = [name \in DOMAIN message |-> Plain(message[name])]

\* What push accepts reaches work with the data and metadata that arrived, as JSON has
\* them: the second crossing changes nothing more.  Unless they are so deep that the four
\* levels a delivery wraps around them pass the limit: such a job is in the table, but no
\* worker can read it.
DeliveredIfAccepted ==
  step = "received" /\ pushed # NoPush =>
    LET data == pushed.jobData
        meta == MetaOf(pushed)
        job  == result.message.jobDataResponse[2].jobData[2]
    IN  /\ result.ok <=> 4 + Max({Depth(data), Depth(meta)}) < RecursionLimit
        /\ result.ok => job["data"] = Json(Plain(data)) /\ job["_metadata"] = Json(Plain(meta))

\* A value of the metadata a client may send: a JobMetadata, as job.metadata.ts has it.
IsJobMetadata(v) ==
  LET retry   == Keyed(v)["retry"]
      backoff == Keyed(retry)["backoff"]
  IN  \/ retry \in {Absent, Undef}
      \/ /\ Keyed(retry)["attempts"] \in {"number"} \X Int
         /\ Keyed(backoff)["type"] \in {Str("fixed"), Str("exponential")}
         /\ Keyed(backoff)["delay"] \in {"number"} \X Nat
         /\ \/ Keyed(retry)["currentAttempt"] \in {Absent, Undef}
            \/ Keyed(retry)["currentAttempt"] \in {"number"} \X Int

\* The sender wants one attempt at least, and counts those made before from 0.  (retry()
\* grants one retry to attempts of 0 or less: nothing says what such metadata asks for.)
Countable(retry) == retry.defined => retry.attempts >= 1 /\ retry.currentAttempt >= 0

AsksForRetries ==
  /\ step = "received" /\ method = "push" /\ leg = "request" /\ result.ok
  /\ IsJobMetadata(MetaOf(message)) /\ Countable(JobMetadataOf(message).retry)

\* The Job object made of a push, which is not the one error() rebuilds from the row,
\* grants exactly the retries its sender asked for and then refuses, however often it is
\* asked.  The delays are constant, or doubled from one to the next, as the example of the
\* test lists it (1 s, 2 s, 4 s).
RetriesAsAsked ==
  AsksForRetries => Grants(JobMetadataOf(result.message), JobMetadataOf(message).retry)

\* What toJSON writes, fromJSON reads back, under either name of a field; fromPartial
\* changes no complete message.
JsonKeeps(type, m) ==
  LET json  == ToJSON(type, m)
      AliasOf(name) == FieldNamed(type, name).alias
      snake == [a \in {AliasOf(n) : n \in DOMAIN json} |->
                  json[CHOOSE n \in DOMAIN json : AliasOf(n) = a]]
  IN  FromJSON(type, json) = m /\ FromJSON(type, snake) = m /\ FromPartial(type, m) = m

JsonAndPartialKeep ==
  step \in {"sent", "received"} =>
    LET type == TypeOf(method, leg)
        data == IF type = "PushRequest" THEN Keyed(message.jobData) ELSE NoKeys
    IN  /\ JsonKeeps(type, message)
        /\ \A k \in Keys : data[k] # Absent => JsonKeeps("Value", ValueWrap(data[k]))
=============================================================================
