----------------------------- MODULE QueueAdmin -----------------------------
(***************************************************************************)
(* The queues: rows of the Queue table, Queue objects in the server's      *)
(* QueueRegistry, and the workers their schedulers know.  createQueue and  *)
(* the factory insert and then register, deleteQueue deletes the row only, *)
(* the load at start registers what it read, listenQueue looks the object  *)
(* up (queue.grpc.service.ts, factory.ts, queue.service.ts,                *)
(* load.database.ts, queue.registry.ts).  Calls are in flight between      *)
(* their statement and their continuation, and the server may restart.     *)
(***************************************************************************)
EXTENDS Integers, FiniteSets, Functions

CONSTANTS
  Queues,      \* names
  Workers,     \* streams, each accepted once
  MaxObjects,  \* bound: Queue objects created
  MaxJobs,     \* bound: jobs pushed to one queue
  Calls,       \* bounds the calls of createQueue in flight
  DbFails      \* whether a statement may fail

ASSUME QueueAssumptions ==
  {MaxObjects, MaxJobs} \subseteq Nat /\ DbFails \in BOOLEAN

NoQueue == 0
Objects == 1..MaxObjects
Step == {"idle", "insert", "add"}
CreateCall == [step : Step, name : Queues, object : Objects \cup {NoQueue}]

VARIABLES
  rows,      \* names in the table Queue
  jobs,      \* jobs pushed to each queue
  objects,   \* Queue objects created so far
  registry,  \* QueueRegistry: the object under each name, or NoQueue
  creating,  \* calls of createQueue and of the factory
  loading,   \* "find", "add", "done", "failed"
  found,     \* what findMany of the load returned
  unread,    \* history: rows there when the server started that the load has not read
  listens,   \* the object each worker was pushed on, NoQueue if none
  listener,  \* the name each connected worker asked for
  orderly    \* history: since the server started, callers have waited for the load and
             \* created no queue that was registered or being created

vars == <<rows, jobs, objects, registry, creating, loading, found, unread, listens, listener,
          orderly>>

NoName == "none"

ASSUME NamesAssumption == Queues # {} /\ NoName \notin Queues /\ IsFiniteSet(Queues)

Idle == [step |-> "idle", name |-> CHOOSE q \in Queues : TRUE, object |-> NoQueue]

Init ==
  /\ rows \in SUBSET Queues
  /\ jobs = [q \in Queues |-> 0]
  /\ objects = 0
  /\ registry = [q \in Queues |-> NoQueue]
  /\ creating = [c \in Calls |-> Idle]
  /\ loading = "find" /\ found = {} /\ unread = rows
  /\ listens = [w \in Workers |-> NoQueue]
  /\ listener = [w \in Workers |-> NoName]
  /\ orderly = TRUE

Registered(q) == registry[q] # NoQueue

\* A call for q is under way.
BeingCreated(q) == \E c \in Calls : creating[c].step # "idle" /\ creating[c].name = q

\* createQueue, or the factory: the Queue object is made before the insert.
CreateQueue(c, q) ==
  /\ creating[c] = Idle /\ objects < MaxObjects
  /\ orderly' = (orderly /\ loading = "done" /\ ~Registered(q) /\ ~BeingCreated(q))
  /\ objects' = objects + 1
  /\ creating' = [creating EXCEPT ![c] = [step |-> "insert", name |-> q, object |-> objects']]
  /\ UNCHANGED <<rows, jobs, registry, loading, found, unread, listens, listener>>

\* JobQueueService.create swallows every error, a duplicate name above all, so
\* the call goes on as if it had inserted.
Inserted(c) == [creating[c] EXCEPT !.step = "add"]

Insert(c) ==
  /\ creating[c].step = "insert"
  /\ \/ rows' = rows \cup {creating[c].name}
     \/ DbFails /\ UNCHANGED rows
  /\ creating' = [creating EXCEPT ![c] = Inserted(c)]
  /\ UNCHANGED <<jobs, objects, registry, loading, found, unread, listens, listener, orderly>>

\* The continuation of both: the object replaces the one under its name.
Add(c) ==
  /\ creating[c].step = "add"
  /\ registry' = [registry EXCEPT ![creating[c].name] = creating[c].object]
  /\ creating' = [creating EXCEPT ![c] = Idle]
  /\ UNCHANGED <<rows, jobs, objects, loading, found, unread, listens, listener, orderly>>

\* deleteQueue: the foreign key of Job refuses it while jobs refer to the row.
\* The registry keeps the object.
DeleteQueue(q) ==
  /\ q \in rows /\ jobs[q] = 0
  /\ rows' = rows \ {q} /\ unread' = unread \ {q}
  /\ UNCHANGED <<jobs, objects, registry, creating, loading, found, listens, listener, orderly>>

\* push: the foreign key wants the row.
Push(q) ==
  /\ q \in rows /\ jobs[q] < MaxJobs
  /\ jobs' = [jobs EXCEPT ![q] = @ + 1]
  /\ UNCHANGED <<rows, objects, registry, creating, loading, found, unread, listens,
                 listener, orderly>>

\* loadQueuesToRegistry: the read.
LoadFind ==
  /\ loading = "find"
  /\ loading' = "add" /\ found' = rows /\ unread' = {}
  /\ UNCHANGED <<rows, jobs, objects, registry, creating, listens, listener, orderly>>

\* The read is rejected: bootstrap neither catches that nor loads again.
LoadFails ==
  /\ loading = "find" /\ DbFails
  /\ loading' = "failed"
  /\ UNCHANGED <<rows, jobs, objects, registry, creating, found, unread, listens,
                 listener, orderly>>

\* The object the load makes for q: they are numbered in any order.
NewObjects == {f \in [found -> objects + 1..objects + Cardinality(found)] :
                 \A q, r \in found : f[q] = f[r] => q = r}

\* Mutant of Loaded: the registry becomes what was read.
LoadedAlone(q, f) == IF q \in found THEN f[q] ELSE NoQueue

Loaded(q, f) == IF q \in found THEN f[q] ELSE registry[q]

LoadAdd ==
  /\ loading = "add"
  /\ objects + Cardinality(found) <= MaxObjects
  /\ \E f \in NewObjects : registry' = [q \in Queues |-> Loaded(q, f)]
  /\ objects' = objects + Cardinality(found)
  /\ loading' = "done" /\ found' = {}
  /\ UNCHANGED <<rows, jobs, creating, unread, listens, listener, orderly>>

\* Mutant of QueueFor: an unknown queue gets an object that is not registered.
QueueForFresh(q) == IF registry[q] = NoQueue THEN objects + 1 ELSE registry[q]

QueueFor(q) == registry[q]

\* listenQueue: without an object the worker stays unscheduled.
ListenQueue(w, q) ==
  /\ listener[w] = NoName
  /\ orderly' = (orderly /\ loading = "done")
  /\ listener' = [listener EXCEPT ![w] = q]
  /\ listens' = [listens EXCEPT ![w] = QueueFor(q)]
  /\ UNCHANGED <<rows, jobs, objects, registry, creating, loading, found, unread>>

\* The process dies: the table stays, calls under way end where they are, and
\* the streams are gone.
Restart ==
  /\ registry' = [q \in Queues |-> NoQueue]
  /\ creating' = [c \in Calls |-> Idle]
  /\ loading' = "find" /\ found' = {} /\ unread' = rows
  /\ listens' = [w \in Workers |-> NoQueue]
  /\ listener' = [w \in Workers |-> NoName]
  /\ orderly' = TRUE
  /\ UNCHANGED <<rows, jobs, objects>>

Next ==
  \/ \E c \in Calls : Insert(c) \/ Add(c) \/ \E q \in Queues : CreateQueue(c, q)
  \/ \E q \in Queues : DeleteQueue(q) \/ Push(q) \/ \E w \in Workers : ListenQueue(w, q)
  \/ LoadFind \/ LoadFails \/ LoadAdd \/ Restart

Spec == Init /\ [][Next]_vars

-----------------------------------------------------------------------------

TypeOK ==
  /\ rows \subseteq Queues /\ jobs \in [Queues -> 0..MaxJobs] /\ objects \in 0..MaxObjects
  /\ registry \in [Queues -> 0..objects]
  /\ creating \in [Calls -> CreateCall]
  /\ loading \in {"find", "add", "done", "failed"}
  /\ found \subseteq Queues /\ unread \subseteq Queues
  /\ listens \in [Workers -> 0..objects]
  /\ listener \in [Workers -> Queues \cup {NoName}]
  /\ orderly \in BOOLEAN

\* Jobs can be pushed to a queue as soon as its row is there.  Whatever creates,
\* deletes, loads and restarts overlap, such a queue is registered, so that the
\* ticks poll it, or a call that will register it is under way.  The one
\* exception is a row older than the server that the load has not read, be it
\* that it has not come to it or that its read failed.
RowsServed ==
  \A q \in rows \ unread :
    \/ Registered(q) \/ q \in found
    \/ \E c \in Calls : creating[c].step = "add" /\ creating[c].name = q

\* Under orderly use every worker whose queue was known when it connected is
\* scheduled by the object that is registered.  (createQueue of a queue that is
\* there replaces its object, and a listener of the old one gets no more jobs.)
ListenersScheduled ==
  orderly => \A w \in Workers : listens[w] # NoQueue => listens[w] = registry[listener[w]]

-----------------------------------------------------------------------------
(***************************************************************************)
(* The inductive invariant behind RowsServed and ListenersScheduled.       *)
(***************************************************************************)
\* A call under way has made its Queue object.
CallsHaveObjects == \A c \in Calls : creating[c].step # "idle" => creating[c].object \in 1..objects

\* Under orderly use nothing is created and nobody listens before the load is done.
LoadedFirst ==
  orderly /\ loading # "done" =>
    /\ \A c \in Calls : creating[c].step = "idle"
    /\ \A w \in Workers : listens[w] = NoQueue

\* Under orderly use calls under way are about different queues, not registered yet.
CallsApart ==
  orderly =>
    \A c \in Calls : creating[c].step # "idle" =>
      /\ registry[creating[c].name] = NoQueue
      /\ \A d \in Calls : creating[d].step # "idle" /\ creating[d].name = creating[c].name => c = d

\* A listener that has an object has asked for a queue.
ListenersNamed == \A w \in Workers : listens[w] # NoQueue => listener[w] \in Queues

IInv ==
  /\ TypeOK /\ CallsHaveObjects /\ RowsServed
  /\ LoadedFirst /\ CallsApart /\ ListenersNamed /\ ListenersScheduled
=============================================================================
