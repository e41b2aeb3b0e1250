------------------------------- MODULE Leases -------------------------------
(***************************************************************************)
(* The JobSupervisor (src/worker/producer/job.supervisor.ts): a popped job *)
(* whose metadata has a lease_time is registered, one timer sleeps for one *)
(* lease at a time, an acked job is removed, and a lease that runs out is  *)
(* reported to the bound handler.  The handler itself is called with the   *)
(* wrong this and fails before its update (queue.service.ts:17), so a      *)
(* report changes nothing outside this module.                             *)
(*                                                                         *)
(* Time is Date.now(); a lease of one second is Second instants.           *)
(***************************************************************************)
EXTENDS LeaseHeap

CONSTANTS
  Second,      \* secondToMillisecond's factor
  MaxTime,     \* bound: instant at which the clock stops
  MaxLeases    \* bound: registrations

ASSUME LeaseBounds == {MaxTime, MaxLeases} \subseteq Nat /\ Second \in Nat \ {0}

VARIABLES
  now,         \* Date.now()
  supervisor,  \* the object's fields, see Supervisor
  owed,        \* history: leases registered, not reported and not acked since
  stray,       \* history: leases reported when they were not owed
  plain,       \* history: no job had two leases so far (an error or a cleaner
               \* leaves its lease, and the next pop adds another), and no two
               \* leases started together
  inOrder      \* history: the leases had one length, and no removal broke the
               \* order of the heap (JobHeap says which do)

vars == <<now, supervisor, owed, stray, plain, inOrder>>

\* jobHeap: the leases nobody sleeps for.  currentJob: the lease that counts
\* as slept for.  timeout: the lease whose timer is armed (one at most, since
\* every arming clears the one before).  wakes: timers armed to call
\* sleepForCurrentJob at once.  registered counts the calls.
Supervisor == [jobHeap : Seq(Lease), currentJob : Lease \cup {NoLease},
               timeout : Lease \cup {NoLease}, wakes : 0..MaxLeases,
               registered : 0..MaxLeases]

Deadline(l) == l.startedAt + l.leaseTime * Second

\* Mutant of PutBack: the lease that gives way is dropped.
PutBackNothing(heap, l) == heap

\* The lease that gives way, the popped one or the current one, goes back.
PutBack(heap, l) == H!HeapInsert(heap, l)

Popped(s) == H!Top(s.jobHeap)
Rest(s) == H!HeapPop(s.jobHeap)

\* Mutant of CurrentStays: a lease that started later takes over.
CurrentStaysNever(s) == FALSE

\* Both offsets the code compares add the popped lease's time, so what it
\* compares is the starts.
CurrentStays(s) ==
  s.currentJob # NoLease /\ s.currentJob.startedAt < Popped(s).startedAt

\* remainingTime < 0.
Overdue(s) == Deadline(Popped(s)) < now

\* The leases left in the heap once the popped one takes the current's place.
Others(s) == IF s.currentJob = NoLease THEN Rest(s) ELSE PutBack(Rest(s), s.currentJob)

\* Mutant of ArmedAfterReport: clearCurrentTimeout is called before the test.
ArmedAfterReportNone(s) == NoLease

\* The timer armed once an overdue lease was reported: the old one.
ArmedAfterReport(s) == s.timeout

\* sleepForCurrentJob: the popped lease gives way, or is reported at once, or
\* is slept for.  Reported at once it leaves the old timer armed, and it is
\* the current lease from then on if there was one.
SleepForCurrentJob(s) ==
  CASE H!Empty(s.jobHeap) -> s
    [] ~H!Empty(s.jobHeap) /\ CurrentStays(s) ->
         [s EXCEPT !.jobHeap = PutBack(Rest(s), Popped(s))]
    [] ~H!Empty(s.jobHeap) /\ ~CurrentStays(s) /\ Overdue(s) ->
         [s EXCEPT !.jobHeap = Others(s), !.wakes = @ + 1,
                   !.timeout = ArmedAfterReport(s),
                   !.currentJob = IF @ = NoLease THEN NoLease ELSE Popped(s)]
    [] OTHER ->
         [s EXCEPT !.jobHeap = Others(s), !.currentJob = Popped(s), !.timeout = Popped(s)]

\* The lease sleepForCurrentJob hands to triggerEvent.
ReportedBy(s) ==
  IF H!Empty(s.jobHeap) \/ CurrentStays(s) \/ ~Overdue(s) THEN {} ELSE {Popped(s)}

Report(leases, still) ==
  /\ owed' = still \ leases
  /\ stray' = stray \cup (leases \ still)

Init ==
  /\ now = 0
  /\ supervisor = [jobHeap |-> <<>>, currentJob |-> NoLease, timeout |-> NoLease,
                   wakes |-> 0, registered |-> 0]
  /\ owed = {} /\ stray = {} /\ plain = TRUE /\ inOrder = TRUE

Known == (Range(supervisor.jobHeap) \cup {supervisor.currentJob} \cup owed) \ {NoLease}

\* popQueue: a job with a lease was popped and is about to be sent.
RegisterLeasedJob(j, seconds) ==
  LET lease == [jobID |-> j, leaseTime |-> seconds, startedAt |-> now]
      s == [supervisor EXCEPT !.jobHeap = H!HeapInsert(@, lease), !.registered = @ + 1]
  IN  /\ now <= MaxStart /\ supervisor.registered < MaxLeases
      /\ supervisor' = SleepForCurrentJob(s)
      /\ Report(ReportedBy(s), owed \cup {lease})
      /\ plain' = (plain /\ \A l \in Known : l.jobID # j /\ l.startedAt # now)
      /\ inOrder' = (inOrder /\ \A l \in Known : l.leaseTime = seconds)
      /\ UNCHANGED now

\* Mutant of ClearedFor: the timer of the acked job runs on.
ClearedForKeepsTimer(s, j) ==
  IF s.currentJob # NoLease /\ s.currentJob.jobID = j
  THEN [s EXCEPT !.currentJob = NoLease] ELSE s

\* The first part of remove.
ClearedFor(s, j) ==
  IF s.currentJob # NoLease /\ s.currentJob.jobID = j
  THEN [s EXCEPT !.currentJob = NoLease, !.timeout = NoLease] ELSE s

\* remove, called by ack alone (an error or a cleaner leaves the lease) and for
\* any job: with a lease that is owed, reported already, or with none.
Remove(j) ==
  /\ supervisor' = [ClearedFor(supervisor, j) EXCEPT
                      !.jobHeap = H!HeapRemove(@, ByJob(j))]
  /\ owed' = {l \in owed : l.jobID # j}
  /\ inOrder' = (inOrder /\ H!Ordered(supervisor'.jobHeap))
  /\ UNCHANGED <<now, stray, plain>>

\* The armed timer: its lease is reported, the current one forgotten whichever
\* it is, and nobody sleeps for the next ("set trigger here").
TimerFires ==
  /\ supervisor.timeout # NoLease /\ Deadline(supervisor.timeout) <= now
  /\ supervisor' = [supervisor EXCEPT !.currentJob = NoLease, !.timeout = NoLease]
  /\ Report({supervisor.timeout}, owed)
  /\ UNCHANGED <<now, plain, inOrder>>

\* Mutant of Woken: an interval instead of a timeout.
WokenEveryTime(s) == s

Woken(s) == [s EXCEPT !.wakes = @ - 1]

\* setTimeout(() => this.sleepForCurrentJob()), with no delay.
Wake ==
  /\ supervisor.wakes > 0
  /\ supervisor' = SleepForCurrentJob(Woken(supervisor))
  /\ Report(ReportedBy(Woken(supervisor)), owed)
  /\ UNCHANGED <<now, plain, inOrder>>

Tick == now < MaxTime /\ now' = now + 1 /\ UNCHANGED <<supervisor, owed, stray, plain, inOrder>>

Next ==
  \/ \E j \in Jobs : Remove(j) \/ \E t \in LeaseTimes : RegisterLeasedJob(j, t)
  \/ TimerFires \/ Wake \/ Tick

Spec == Init /\ [][Next]_vars

\* Timers fire once they are due; the clock runs.
FairSpec == Spec /\ WF_vars(TimerFires) /\ WF_vars(Wake) /\ WF_vars(Tick)

-----------------------------------------------------------------------------

\* The supervisor's fields have their types, and the timers that call
\* sleepForCurrentJob at once never outnumber the registrations.
TypeOK ==
  /\ now \in 0..MaxTime
  /\ supervisor \in Supervisor
  /\ owed \subseteq Lease /\ stray \subseteq Lease
  /\ plain \in BOOLEAN /\ inOrder \in BOOLEAN

\* However leases push each other out of the one timer, a lease that is neither reported
\* nor acked is still in the heap, or it is slept for and its timer is the one armed.
LeaseKept ==
  owed \subseteq Range(supervisor.jobHeap) \cup ({supervisor.currentJob} \cap {supervisor.timeout})

\* A job that was acked, or whose lease was reported, is not reported again, as long as
\* no job has two leases, no two leases start together, all have one length and acks
\* leave the heap in order.  (Else a lease left behind, or a timer left armed when an
\* overdue lease that started earlier takes its place, reports the job once more.)
NoStrayReport == plain /\ inOrder => stray = {}

\* As long as all leases have one length and acks leave the heap in order, the timer
\* armed is for the first deadline among the owed leases.  (The code compares starts,
\* so a short lease waits behind a long one that started before it.)
SleepsForEarliest ==
  inOrder /\ supervisor.currentJob \in owed =>
    \A l \in owed : Deadline(supervisor.currentJob) <= Deadline(l)

\* Behind SleepsForEarliest and NoStrayReport.
HeldBy(s) == Range(s.jobHeap)
CurrentOf(s) == {s.currentJob} \ {NoLease}

\* No lease in the heap started before the current one.
InOrder(s) ==
  /\ H!Ordered(s.jobHeap)
  /\ \A k, l \in HeldBy(s) \cup CurrentOf(s) : k.leaseTime = l.leaseTime
  /\ \A k \in CurrentOf(s), l \in HeldBy(s) : k.startedAt <= l.startedAt

\* The supervisor has these leases and no other, each once, and its timer is armed for
\* the current one.
Knows(s, leases) ==
  /\ s.timeout = s.currentJob
  /\ HeldBy(s) \cup CurrentOf(s) = leases /\ HeldBy(s) \cap CurrentOf(s) = {}
  /\ IsInjective(s.jobHeap)
  /\ \A k, l \in leases : k = l \/ (k.jobID # l.jobID /\ k.startedAt # l.startedAt)

SupervisorKnows ==
  /\ supervisor.wakes <= supervisor.registered
  /\ \A l \in HeldBy(supervisor) \cup CurrentOf(supervisor) : l.startedAt <= now
  /\ inOrder => InOrder(supervisor)
  /\ plain /\ inOrder => stray = {} /\ Knows(supervisor, owed)

\* The chain of immediate timers comes to rest: leases that are overdue and
\* started together report each other in turns, but no longer than until the
\* timer armed before them fires.
ComesToRest == []<>(supervisor.wakes = 0)
=============================================================================
