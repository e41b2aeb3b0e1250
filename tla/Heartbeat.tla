------------------------------ MODULE Heartbeat ------------------------------
(***************************************************************************)
(* Heartbeats: the client's interval (src/application/worker/client.ts),   *)
(* the gRPC handlers and WorkerHeartbeat on the server's thread            *)
(* (src/worker/heartbeat/class.ts), and the thread that keeps the last     *)
(* beat of each worker and scans them (workerHeartBeat.ts).                *)
(*                                                                         *)
(* Time passes in equal units.  A message in flight is its age; the bounds *)
(* on ages are the delays assumed of the network and of postMessage.  A    *)
(* stream is accepted once per worker, as every listenQueue makes one.     *)
(***************************************************************************)
EXTENDS Integers

CONSTANTS
  Workers,
  BeatEvery,   \* the client's interval
  ScanEvery,   \* the thread's interval
  MaxSilence,  \* HEARTBEAT_MAX_TIME
  NetDelay,    \* longest way of a gRPC message
  PostDelay,   \* longest way of a postMessage between the threads
  Faults       \* what may happen: "crash" of a client, "late" messages,
               \* "unknown": a stream for a queue the registry does not have

ASSUME HeartbeatTimes ==
  /\ {BeatEvery, ScanEvery, MaxSilence} \subseteq Nat \ {0}
  /\ {NetDelay, PostDelay} \subseteq Nat
  /\ PostDelay < ScanEvery
  /\ Faults \subseteq {"crash", "late", "unknown"}

VARIABLES
  client,     \* "none", "connecting" until the id arrives, "live", "dead", or
              \* "ignored": connected for a queue the registry does not have
  welcome,    \* age of the queueConnectResponse of a connecting client
  due,        \* time to the client's next beat
  rpc,        \* ages of the heartbeat calls in flight
  registry,   \* the workers in WorkerRegistry
  posts,      \* ages of the beats posted to the thread
  tracked,    \* the keys of workerLastHeartbeat
  age,        \* time since the beat recorded there
  scanIn,     \* time to the next scan
  report,     \* the silent workers posted back, {} if none are under way
  reportAge,
  late,       \* history: a message has taken longer than its delay
  silence,    \* history: time since a registered worker connected or sent a beat
  phantom     \* history: workers reported when the registry had them no more

clientVars == <<client, welcome, due, rpc>>
threadVars == <<tracked, age, scanIn>>
reportVars == <<report, reportAge>>
histVars == <<late, silence, phantom>>
vars == <<clientVars, registry, posts, threadVars, reportVars, histVars>>

\* The longest silence between a registered worker's sign of life and its end.
LongestSilence == NetDelay + PostDelay + MaxSilence + ScanEvery + PostDelay

\* The history of silences counts one further.
Counted(n) == IF n <= LongestSilence THEN n + 1 ELSE n

Up(w) == client[w] \in {"connecting", "live"}

Init ==
  /\ client = [w \in Workers |-> "none"]
  /\ welcome = [w \in Workers |-> 0]
  /\ due \in [Workers -> 0..BeatEvery]
  /\ rpc = [w \in Workers |-> {}]
  /\ registry = {}
  /\ posts = [w \in Workers |-> {}]
  /\ tracked = {} /\ age = [w \in Workers |-> 0]
  /\ scanIn = ScanEvery
  /\ report = {} /\ reportAge = 0
  /\ silence = [w \in Workers |-> 0]
  /\ phantom = {}
  /\ late = FALSE

\* Mutant of Beat: the registry is not asked.
BeatUnchecked(w) == posts' = [posts EXCEPT ![w] = @ \cup {0}]

\* WorkerHeartbeat.beat.
Beat(w) == posts' = IF w \in registry THEN [posts EXCEPT ![w] = @ \cup {0}] ELSE posts

\* listenQueue: the instance is registered in any case; without a queue the
\* handler returns before the first beat and the answer, so the client never
\* learns its id and never beats.
Connect(w, known) ==
  /\ client[w] = "none" /\ (known \/ "unknown" \in Faults)
  /\ client' = [client EXCEPT ![w] = IF known THEN "connecting" ELSE "ignored"]
  /\ registry' = registry \cup {w}
  /\ posts' = IF known THEN [posts EXCEPT ![w] = @ \cup {0}] ELSE posts
  /\ UNCHANGED <<welcome, due, rpc, threadVars, reportVars, histVars>>

\* handleStream: the client learns its id.
LearnID(w) ==
  /\ client[w] = "connecting"
  /\ client' = [client EXCEPT ![w] = "live"]
  /\ UNCHANGED <<welcome, due, rpc, registry, posts, threadVars, reportVars, histVars>>

\* setInterval's delay.
NextBeat == BeatEvery

\* startHeartbeat's interval.  Before the id is known it sends "", which no
\* registry has.
SendBeat(w) ==
  /\ Up(w) /\ due[w] = 0
  /\ due' = [due EXCEPT ![w] = NextBeat]
  /\ IF client[w] = "live"
     THEN /\ rpc' = [rpc EXCEPT ![w] = @ \cup {0}]
          /\ silence' = [silence EXCEPT ![w] = 0]
     ELSE UNCHANGED <<rpc, silence>>
  /\ UNCHANGED <<client, welcome, registry, posts, threadVars, reportVars, late, phantom>>

\* The heartbeat handler: it asks the registry, and beat asks it again.
Hearthbeat(w, a) ==
  /\ a \in rpc[w]
  /\ rpc' = [rpc EXCEPT ![w] = @ \ {a}]
  /\ Beat(w)
  /\ UNCHANGED <<client, welcome, due, registry, threadVars, reportVars, histVars>>

\* The thread's self.onmessage.
Receive(w, a) ==
  /\ a \in posts[w]
  /\ posts' = [posts EXCEPT ![w] = @ \ {a}]
  /\ tracked' = tracked \cup {w}
  /\ age' = [age EXCEPT ![w] = 0]
  /\ UNCHANGED <<clientVars, registry, scanIn, reportVars, histVars>>

\* Mutants of Silent: the border counts, or half of the time is enough.
SilentAtBorder == {w \in tracked : age[w] >= MaxSilence}
SilentTwice == {w \in tracked : age[w] > 2 * MaxSilence}

\* deadWorkerArray of a scan.
Silent == {w \in tracked : age[w] > MaxSilence}

\* Mutant of Scan: the reported workers stay in the map.
ScanKeeps ==
  /\ scanIn = 0
  /\ scanIn' = ScanEvery
  /\ IF Silent = {} THEN UNCHANGED reportVars
     ELSE report' = Silent /\ reportAge' = 0
  /\ UNCHANGED <<clientVars, registry, posts, tracked, age, histVars>>

\* The thread's interval: post the silent workers and forget them.
Scan ==
  /\ scanIn = 0
  /\ scanIn' = ScanEvery
  /\ tracked' = tracked \ Silent
  /\ IF Silent = {} THEN UNCHANGED reportVars
     ELSE report' = Silent /\ reportAge' = 0
  /\ UNCHANGED <<clientVars, registry, posts, age, histVars>>

\* loadHeartbeatMessageHandler.  For a worker the registry has no more, clean
\* is called with undefined and rejects.
Clean ==
  /\ report # {}
  /\ registry' = registry \ report
  /\ phantom' = IF late THEN phantom ELSE phantom \cup (report \ registry)
  /\ report' = {} /\ reportAge' = 0
  /\ silence' = [w \in Workers |-> IF w \in report THEN 0 ELSE silence[w]]
  /\ UNCHANGED <<clientVars, posts, threadVars, late>>

Crash(w) ==
  /\ "crash" \in Faults /\ Up(w)
  /\ client' = [client EXCEPT ![w] = "dead"]
  /\ UNCHANGED <<welcome, due, rpc, registry, posts, threadVars, reportVars, histVars>>

\* Messages that arrive in time do not grow older than their delay; late ones
\* stay at it (two of one worker that are late count as one).
InTime(ages, delay) == \A a \in ages : a < delay
Older(ages, delay) == {a + 1 : a \in {b \in ages : b < delay}} \cup (ages \cap {delay})

\* No message would be later than its delay if time passed.
AllInTime ==
  \A w \in Workers :
    /\ client[w] = "connecting" => welcome[w] < NetDelay
    /\ InTime(rpc[w], NetDelay) /\ InTime(posts[w], PostDelay)

\* Time passes when nothing is due: intervals are exact.
Tick ==
  /\ scanIn > 0
  /\ \A w \in Workers : Up(w) => due[w] > 0
  /\ AllInTime \/ "late" \in Faults
  /\ late' = (late \/ ~AllInTime)
  /\ report # {} => reportAge < PostDelay
  /\ scanIn' = scanIn - 1
  /\ welcome' = [w \in Workers |->
                   IF client[w] = "connecting" /\ welcome[w] < NetDelay
                   THEN welcome[w] + 1 ELSE welcome[w]]
  /\ due' = [w \in Workers |-> IF Up(w) THEN due[w] - 1 ELSE due[w]]
  /\ rpc' = [w \in Workers |-> Older(rpc[w], NetDelay)]
  /\ posts' = [w \in Workers |-> Older(posts[w], PostDelay)]
  /\ age' = [w \in Workers |-> IF w \in tracked THEN age[w] + 1 ELSE 0]
  /\ reportAge' = IF report # {} THEN reportAge + 1 ELSE reportAge
  /\ silence' = [w \in Workers |-> IF w \in registry /\ ~late' THEN Counted(silence[w]) ELSE 0]
  /\ UNCHANGED <<client, registry, tracked, report, phantom>>

Next ==
  \/ Tick \/ Scan \/ Clean
  \/ \E w \in Workers :
       \/ \E known \in BOOLEAN : Connect(w, known)
       \/ LearnID(w) \/ SendBeat(w) \/ Crash(w)
       \/ \E a \in rpc[w] : Hearthbeat(w, a)
       \/ \E a \in posts[w] : Receive(w, a)

Spec == Init /\ [][Next]_vars

\* The intervals run, and what is under way arrives.
FairSpec ==
  /\ Spec
  /\ WF_vars(Tick) /\ WF_vars(Scan) /\ WF_vars(Clean)
  /\ \A w \in Workers :
       /\ WF_vars(LearnID(w)) /\ WF_vars(SendBeat(w))
       /\ WF_vars(\E a \in rpc[w] : Hearthbeat(w, a))
       /\ WF_vars(\E a \in posts[w] : Receive(w, a))

-----------------------------------------------------------------------------

TypeOK ==
  /\ client \in [Workers -> {"none", "connecting", "live", "dead", "ignored"}]
  /\ welcome \in [Workers -> 0..NetDelay]
  /\ due \in [Workers -> 0..BeatEvery]
  /\ rpc \in [Workers -> SUBSET (0..NetDelay)]
  /\ registry \subseteq Workers
  /\ posts \in [Workers -> SUBSET (0..PostDelay)]
  /\ tracked \subseteq Workers /\ age \in [Workers -> Nat]
  /\ scanIn \in 0..ScanEvery
  /\ report \subseteq Workers /\ reportAge \in 0..PostDelay
  /\ silence \in [Workers -> Nat]
  /\ phantom \subseteq Workers
  /\ late \in BOOLEAN

\* Messages arrived in time so far, and a beat reaches the thread before the one
\* before it is too old: the id has to reach the client first.
Punctual ==
  ~late /\ BeatEvery + 2 * NetDelay + PostDelay <= MaxSilence

\* A worker whose client is up is registered and never reported.
LiveStays == Punctual => \A w \in Workers : Up(w) => w \in registry /\ w \notin report

\* No worker is reported twice, so clean is never called with undefined.
NoPhantom == Punctual => phantom = {}

\* While messages arrive in time a worker is silent for no longer than LongestSilence
\* and still registered.  A worker of an unknown queue stays for ever: the thread never
\* hears of it.
SilentLeave ==
  ~late => \A w \in registry : client[w] = "ignored" \/ silence[w] <= LongestSilence

\* The thread forgets a worker the registry does not have: beats under way when
\* it is reported may bring it back, but never for good.
OutcastsForgotten ==
  \A w \in Workers : (w \in tracked /\ w \notin registry) ~> w \notin tracked

-----------------------------------------------------------------------------
(* The inductive invariants behind LiveStays, NoPhantom and SilentLeave.     *)

\* Before its stream is accepted nothing of a worker exists.
Unborn ==
  \A w \in Workers : client[w] = "none" =>
    /\ w \notin registry /\ w \notin tracked /\ w \notin report
    /\ rpc[w] = {} /\ posts[w] = {} /\ welcome[w] = 0 /\ silence[w] = 0

\* A report is handled before the next scan, and entries grow no older than a
\* scan after they became silent.
ScanClock ==
  /\ report # {} => reportAge + scanIn = ScanEvery
  /\ \A w \in tracked : age[w] <= MaxSilence + (ScanEvery - scanIn)

\* Why the thread will not find w silent: it was heard recently enough to wait
\* for the next beat, or a beat on its way arrives before the entry is too old.
Evidence(w) ==
  \/ w \in tracked /\ client[w] = "connecting" /\ age[w] <= welcome[w]
  \/ w \in tracked /\ client[w] = "live" /\ age[w] + due[w] + NetDelay + PostDelay <= MaxSilence
  \/ w \in tracked /\ \E a \in rpc[w] : age[w] + (NetDelay - a) + PostDelay <= MaxSilence
  \/ \E a \in posts[w] : w \in tracked => age[w] + (PostDelay - a) <= MaxSilence

\* What holds of workers that are up or have a beat on its way.
Covered ==
  \A w \in Workers :
    /\ client[w] = "connecting" => rpc[w] = {}
    /\ Up(w) \/ rpc[w] # {} \/ posts[w] # {} =>
         w \in registry /\ w \notin report /\ Evidence(w)

\* The thread knows registered workers only.
TracksRegistered ==
  tracked \subseteq registry /\ report \subseteq registry /\ tracked \cap report = {}

PunctualInv == Punctual => Covered /\ TracksRegistered /\ phantom = {}

\* What bounds the silence of a registered worker: its entry, a post, a report.
Accounted(w) ==
  \/ w \in tracked /\ silence[w] <= age[w] + NetDelay + PostDelay
  \/ posts[w] # {}
  \/ w \in report /\ silence[w] <= MaxSilence + ScanEvery + NetDelay + PostDelay + reportAge

Bounded(w) ==
  /\ \A a \in rpc[w] : silence[w] <= a
  /\ \A a \in posts[w] : silence[w] <= a + NetDelay
  /\ w \in registry /\ client[w] # "ignored" => Accounted(w)

SilenceInv == ~late => \A w \in Workers : Bounded(w)

IInv == TypeOK /\ Unborn /\ ScanClock /\ PunctualInv /\ SilenceInv
=============================================================================
