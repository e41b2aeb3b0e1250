-------------------------- MODULE QueueAdminProofs --------------------------
(***************************************************************************)
(* Proofs about the queues, for any names, workers and number of calls.    *)
(***************************************************************************)
EXTENDS QueueAdmin, FiniteSetTheorems, TLAPS

USE QueueAssumptions, NamesAssumption

\* A call that is idle has the type of a call.
LEMMA IdleTyped == Idle \in CreateCall /\ Idle.step = "idle"
BY DEF Idle, CreateCall, Step

\* The objects the load makes are numbered after the ones there are.
LEMMA LoadedTyped ==
  ASSUME TypeOK, objects + Cardinality(found) <= MaxObjects, Cardinality(found) \in Nat,
         NEW f \in NewObjects, NEW q \in Queues
  PROVE  /\ Loaded(q, f) \in 0..objects + Cardinality(found)
         /\ q \in found => Loaded(q, f) # NoQueue
<1>1. CASE q \in found
  <2>1. f[q] \in objects + 1..objects + Cardinality(found)
    BY <1>1 DEF NewObjects
  <2> QED BY <1>1, <2>1 DEF Loaded, TypeOK, NoQueue
<1>2. CASE q \notin found
  BY <1>2 DEF Loaded, TypeOK
<1> QED BY <1>1, <1>2

\* The table has finitely many rows.
LEMMA FoundFinite == TypeOK => Cardinality(found) \in Nat
BY FS_Subset, FS_CardinalityType DEF TypeOK

\* The server starts with an invariant state.
LEMMA InitIInv == Init => IInv
<1> SUFFICES ASSUME Init PROVE IInv
  OBVIOUS
<1>1. orderly \in BOOLEAN
  BY Zenon DEF Init
<1>2. TypeOK
  BY <1>1, IdleTyped DEF Init, TypeOK, NoQueue
<1> QED BY <1>2, IdleTyped DEF Init, IInv, CallsHaveObjects, RowsServed, LoadedFirst, CallsApart,
                               ListenersNamed, ListenersScheduled, Registered

\* createQueue up to its insert.
LEMMA CreateQueueStep ==
  ASSUME IInv, NEW c \in Calls, NEW q \in Queues, CreateQueue(c, q)
  PROVE  IInv'
<1> DEFINE call == [step |-> "insert", name |-> q, object |-> objects']
<1>1. /\ objects' = objects + 1 /\ objects' \in 0..MaxObjects /\ objects' # NoQueue
      /\ call \in CreateCall
  BY DEF IInv, TypeOK, CreateQueue, CreateCall, Step, Objects, NoQueue
<1>2. /\ creating' = [creating EXCEPT ![c] = call] /\ creating[c].step = "idle"
      /\ UNCHANGED <<rows, jobs, registry, loading, found, unread, listens, listener>>
  BY IdleTyped DEF CreateQueue
<1>3. creating'[c] = call /\ \A d \in Calls : d # c => creating'[d] = creating[d]
  BY <1>2 DEF IInv, TypeOK
<1>4. /\ orderly' \in BOOLEAN
      /\ orderly' => orderly /\ loading = "done" /\ ~Registered(q) /\ ~BeingCreated(q)
  BY Zenon DEF CreateQueue
<1>5. TypeOK'
  BY <1>1, <1>2, <1>4 DEF IInv, TypeOK
<1>6. CallsHaveObjects'
  BY <1>1, <1>2, <1>3 DEF IInv, CallsHaveObjects, NoQueue, TypeOK
<1>7. RowsServed'
  BY <1>2, <1>3 DEF IInv, RowsServed, Registered
<1>8. LoadedFirst'
  BY <1>2, <1>4 DEF IInv, LoadedFirst
<1>9. CallsApart'
  BY <1>2, <1>3, <1>4 DEF IInv, CallsApart, Registered, BeingCreated
<1> QED BY <1>2, <1>4, <1>5, <1>6, <1>7, <1>8, <1>9 DEF IInv, ListenersNamed, ListenersScheduled

\* The insert, whether the row was there, is new, or the statement fails.
LEMMA InsertStep ==
  ASSUME IInv, NEW c \in Calls, Insert(c)
  PROVE  IInv'
<1>1. /\ creating' = [creating EXCEPT ![c] = [creating[c] EXCEPT !.step = "add"]]
      /\ creating[c].step = "insert" /\ creating[c] \in CreateCall
      /\ rows' \subseteq rows \cup {creating[c].name}
      /\ UNCHANGED <<jobs, objects, registry, loading, found, unread, listens, listener, orderly>>
  BY DEF Insert, Inserted, IInv, TypeOK
<1>2. /\ creating'[c] \in CreateCall /\ creating'[c].step = "add"
      /\ creating'[c].name = creating[c].name /\ creating'[c].object = creating[c].object
      /\ creating[c].name \in Queues
  BY <1>1 DEF IInv, TypeOK, CreateCall, Step
<1>3. \A d \in Calls : d # c => creating'[d] = creating[d]
  BY <1>1 DEF IInv, TypeOK
<1>4. TypeOK'
  BY <1>1, <1>2, <1>3 DEF IInv, TypeOK
<1>5. CallsHaveObjects'
  BY <1>1, <1>2, <1>3 DEF IInv, CallsHaveObjects
<1>6. RowsServed'
  BY <1>1, <1>2, <1>3 DEF IInv, RowsServed, Registered
<1>7. LoadedFirst'
  BY <1>1, <1>2, <1>3 DEF IInv, LoadedFirst
<1>8. CallsApart'
  BY <1>1, <1>2, <1>3 DEF IInv, CallsApart
<1> QED BY <1>1, <1>4, <1>5, <1>6, <1>7, <1>8 DEF IInv, ListenersNamed, ListenersScheduled

\* The object of a call replaces the one that is registered.
LEMMA AddStep ==
  ASSUME IInv, NEW c \in Calls, Add(c)
  PROVE  IInv'
<1>1. /\ creating[c].step = "add" /\ creating[c] \in CreateCall
      /\ registry' = [registry EXCEPT ![creating[c].name] = creating[c].object]
      /\ creating' = [creating EXCEPT ![c] = Idle]
      /\ UNCHANGED <<rows, jobs, objects, loading, found, unread, listens, listener, orderly>>
  BY DEF Add, IInv, TypeOK
<1>2. /\ creating'[c] = Idle /\ \A d \in Calls : d # c => creating'[d] = creating[d]
      /\ creating[c].name \in Queues /\ creating[c].object \in 1..objects
      /\ registry'[creating[c].name] = creating[c].object
      /\ \A q \in Queues : q # creating[c].name => registry'[q] = registry[q]
  BY <1>1 DEF IInv, TypeOK, CreateCall, CallsHaveObjects
<1>3. TypeOK'
  BY <1>1, <1>2, IdleTyped DEF IInv, TypeOK
<1>4. CallsHaveObjects'
  BY <1>1, <1>2, IdleTyped DEF IInv, CallsHaveObjects
<1>5. RowsServed'
  BY <1>1, <1>2 DEF IInv, RowsServed, Registered, NoQueue, TypeOK
<1>6. LoadedFirst'
  BY <1>1, <1>2, IdleTyped DEF IInv, LoadedFirst
<1>7. CallsApart'
  BY <1>1, <1>2, IdleTyped DEF IInv, CallsApart
<1>8. ListenersScheduled'
  BY <1>1, <1>2 DEF IInv, ListenersScheduled, CallsApart, ListenersNamed
<1> QED BY <1>1, <1>3, <1>4, <1>5, <1>6, <1>7, <1>8 DEF IInv, ListenersNamed

\* deleteQueue, push and the read of the load, done or failed, leave the objects alone.
LEMMA RowStep ==
  ASSUME IInv, (\E q \in Queues : DeleteQueue(q) \/ Push(q)) \/ LoadFind \/ LoadFails
  PROVE  IInv'
<1> USE DEF IInv, TypeOK, CallsHaveObjects, RowsServed, LoadedFirst, CallsApart,
            ListenersNamed, ListenersScheduled, Registered
<1>1. CASE \E q \in Queues : DeleteQueue(q)
  BY <1>1 DEF DeleteQueue
<1>2. CASE \E q \in Queues : Push(q)
  <2>1. PICK q \in Queues : Push(q)
    BY <1>2
  <2>2. jobs' \in [Queues -> 0..MaxJobs]
    BY <2>1 DEF Push
  <2> QED BY <2>1, <2>2 DEF Push
<1>3. CASE LoadFind
  BY <1>3 DEF LoadFind
<1>4. CASE LoadFails
  BY <1>4 DEF LoadFails
<1> QED BY <1>1, <1>2, <1>3, <1>4

\* The load registers an object for every row it read.
LEMMA LoadAddStep ==
  ASSUME IInv, LoadAdd
  PROVE  IInv'
<1>1. PICK f \in NewObjects : registry' = [q \in Queues |-> Loaded(q, f)]
  BY DEF LoadAdd
<1>2. /\ Cardinality(found) \in Nat /\ objects + Cardinality(found) <= MaxObjects
      /\ loading = "add" /\ loading' = "done" /\ found' = {}
      /\ objects' = objects + Cardinality(found) /\ objects' \in 0..MaxObjects
      /\ objects <= objects'
      /\ UNCHANGED <<rows, jobs, creating, unread, listens, listener, orderly>>
  BY FoundFinite DEF LoadAdd, IInv, TypeOK
<1>3. \A q \in Queues : /\ registry'[q] \in 0..objects'
                        /\ q \in found => registry'[q] # NoQueue
                        /\ q \notin found => registry'[q] = registry[q]
  BY <1>1, <1>2, LoadedTyped DEF IInv, Loaded
<1>4. registry' \in [Queues -> 0..objects'] /\ listens' \in [Workers -> 0..objects']
  BY <1>1, <1>2, <1>3 DEF IInv, TypeOK
<1>5. TypeOK'
  BY <1>2, <1>4 DEF IInv, TypeOK
<1>6. CallsHaveObjects'
  BY <1>2 DEF IInv, CallsHaveObjects, TypeOK
<1>7. RowsServed'
  BY <1>2, <1>3 DEF IInv, RowsServed, Registered, TypeOK
<1>8. LoadedFirst' /\ CallsApart'
  BY <1>2 DEF IInv, LoadedFirst, CallsApart
<1>9. ListenersNamed' /\ ListenersScheduled'
  BY <1>2 DEF IInv, LoadedFirst, ListenersNamed, ListenersScheduled
<1> QED BY <1>5, <1>6, <1>7, <1>8, <1>9 DEF IInv

\* listenQueue gives the worker the object that is registered.
LEMMA ListenQueueStep ==
  ASSUME IInv, NEW w \in Workers, NEW q \in Queues, ListenQueue(w, q)
  PROVE  IInv'
<1>1. /\ listener' = [listener EXCEPT ![w] = q] /\ listens' = [listens EXCEPT ![w] = registry[q]]
      /\ UNCHANGED <<rows, jobs, objects, registry, creating, loading, found, unread>>
  BY DEF ListenQueue, QueueFor
<1>2. orderly' \in BOOLEAN /\ (orderly' => orderly /\ loading = "done")
  BY Zenon DEF ListenQueue
<1>3. /\ listener'[w] = q /\ listens'[w] = registry[q]
      /\ \A v \in Workers : v # w => listener'[v] = listener[v] /\ listens'[v] = listens[v]
  BY <1>1 DEF IInv, TypeOK
<1>4. TypeOK'
  BY <1>1, <1>2 DEF IInv, TypeOK
<1>5. CallsHaveObjects' /\ RowsServed' /\ LoadedFirst' /\ CallsApart'
  BY <1>1, <1>2 DEF IInv, CallsHaveObjects, RowsServed, Registered, LoadedFirst, CallsApart
<1>6. ListenersNamed' /\ ListenersScheduled'
  BY <1>1, <1>2, <1>3 DEF IInv, ListenersNamed, ListenersScheduled
<1> QED BY <1>4, <1>5, <1>6 DEF IInv

\* The process dies and starts again.
LEMMA RestartStep ==
  ASSUME IInv, Restart
  PROVE  IInv'
<1>1. orderly' \in BOOLEAN
  BY Zenon DEF Restart
<1>2. TypeOK'
  BY <1>1, IdleTyped DEF IInv, TypeOK, Restart, NoQueue
<1> QED BY <1>2, IdleTyped DEF IInv, Restart, CallsHaveObjects, RowsServed, LoadedFirst, CallsApart,
                               ListenersNamed, ListenersScheduled

\* No step of a call, of the load or of a restart breaks the invariant.
LEMMA NextIInv == IInv /\ [Next]_vars => IInv'
<1> SUFFICES ASSUME IInv, [Next]_vars PROVE IInv'
  OBVIOUS
<1>1. CASE UNCHANGED vars
  BY <1>1 DEF vars, IInv, TypeOK, CallsHaveObjects, RowsServed, LoadedFirst, CallsApart,
              ListenersNamed, ListenersScheduled, Registered
<1> QED BY <1>1, CreateQueueStep, InsertStep, AddStep, RowStep, LoadAddStep, ListenQueueStep,
           RestartStep DEF Next

\* The inductive invariant holds, whatever overlaps and however often the server restarts.
THEOREM QueuesInvariant == Spec => []IInv
BY InitIInv, NextIInv, PTL DEF Spec

\* The state of the queues is always well typed.
THEOREM QueuesTypeCorrect == Spec => []TypeOK
BY QueuesInvariant, PTL DEF IInv

\* A queue that has a row is registered or about to be, unless the row is older
\* than the server and the load has not read it.
THEOREM EveryRowServed == Spec => []RowsServed
BY QueuesInvariant, PTL DEF IInv

\* Under orderly use a listener is scheduled by the object that is registered.
THEOREM ListenersStayScheduled == Spec => []ListenersScheduled
BY QueuesInvariant, PTL DEF IInv
=============================================================================
