---------------------------- MODULE MCGrpcCalls ----------------------------
(***************************************************************************)
(* Instances of GrpcCalls for TLC: every message of the service with small *)
(* fields, and jobs whose data nests from not at all to past the limit.    *)
(***************************************************************************)
EXTENDS GrpcCalls

Leaves == {Null, Undef, Date, Bool(FALSE), Bool(TRUE), Num(0), Num(1), Str(""), Str("a")}
SmallObjects(S) == {Literal(f) : f \in UNION {[K -> S] : K \in SUBSET {"", "k"}}}
SmallLists(S)   == {List(s) : s \in UNION {[1..n -> S] : n \in 0..2}}
Only(v)         == Literal([k |-> v])

\* n objects, or one object and n lists, inside each other.
RECURSIVE Chain(_), Listed(_)
Chain(n)  == IF n = 0 THEN Num(1) ELSE Only(Chain(n - 1))
Listed(n) == IF n = 0 THEN Str("") ELSE List(<<Listed(n - 1)>>)

Data ==
  SmallObjects(Leaves)
    \cup {Only(v) : v \in SmallLists(Leaves)}
    \cup {Only(Only(v)) : v \in Leaves \cup {Func}}
    \cup {Chain(n) : n \in 1..6} \cup {Only(Listed(n)) : n \in 1..7}

Retries(attempts, type, delay, current) ==
  Literal([retry |-> Literal([attempts |-> Num(attempts), currentAttempt |-> current,
                              backoff  |-> Literal([type |-> Str(type), delay |-> Num(delay)])]),
           lease_time |-> Num(0)])
SomeRetries == Retries(2, "fixed", 1, Undef)
AllRetries  == {Retries(n, type, delay, current) :
                  n \in 0..4, type \in {"fixed", "exponential"}, delay \in {0, 1000},
                  current \in {Absent, Undef} \cup {Num(c) : c \in -1..5}}

Messages(mth, l) ==
  LET Names == {Str(""), Str("q")}
  IN  CASE l = "response" /\ mth # "listenQueue" -> {[success |-> b] : b \in {Bool(FALSE), Bool(TRUE)}}
        [] l = "response" -> {[queueConnectResponse |-> Msg([workerId |-> n]),
                               jobDataResponse |-> Undef] : n \in Names}
        [] mth = "createQueue" -> [queueName : Names]
        [] mth = "deleteQueue" -> [queueId : Names]
        [] mth = "hearthbeat"  -> [worker : Names]
        [] mth = "listenQueue" -> [queue : Names, concurrency : {Num(-1), Num(0), Num(3)}]
        [] mth = "push" -> [queueId : Names, jobData : Data \cup {Undef},
                            metadata : {Undef, Obj(NoKeys), SomeRetries}]
                           \cup [queueId : Names, jobData : {Undef}, metadata : AllRetries]
        [] OTHER -> [jobID : Names, workerID : Names]

MCText == STRING
MCKeys == JobKeys \cup RetryKeys \cup {"", "k", "lease_time"}

MCSent == UNION {[method : {mth}, leg : {l}, message : Messages(mth, l)] :
                   mth \in DOMAIN QueueService, l \in {"request", "response"}}
=============================================================================
