---------------------------- MODULE ThreadProofs ----------------------------
(***************************************************************************)
(* Theorems about the two timer threads: Heartbeat, for every set of       *)
(* workers and every choice of intervals and delays, and CleanupThread,    *)
(* for any number of messages.                                             *)
(***************************************************************************)
EXTENDS Heartbeat, CleanupThread, TLAPS

\* What messages in flight become when time passes: one unit older if they are
\* in time, and never older than the delay.
LEMMA OlderInTime ==
  ASSUME NEW delay \in Nat, NEW ages \in SUBSET (0..delay)
  PROVE  /\ Older(ages, delay) \in SUBSET (0..delay)
         /\ Older(ages, delay) = {} <=> ages = {}
         /\ InTime(ages, delay) =>
              /\ \A b \in Older(ages, delay) : b - 1 \in ages
              /\ \A a \in ages : a + 1 \in Older(ages, delay)
  BY DEF Older, InTime

\* The actions that open or answer messages keep the types.
LEMMA TypeStep == TypeOK /\ [Next]_vars => TypeOK'
<1> SUFFICES ASSUME TypeOK, [Next]_vars PROVE TypeOK'
  OBVIOUS
<1> USE HeartbeatTimes DEF TypeOK, clientVars, threadVars, reportVars, histVars
<1>1. CASE Tick
  <2>1. welcome' \in [Workers -> 0..NetDelay]
    BY <1>1 DEF Tick
  <2>2. due' \in [Workers -> 0..BeatEvery]
    BY <1>1 DEF Tick
  <2>3. rpc' \in [Workers -> SUBSET (0..NetDelay)] /\ posts' \in [Workers -> SUBSET (0..PostDelay)]
    BY <1>1, OlderInTime DEF Tick
  <2>4. age' \in [Workers -> Nat] /\ silence' \in [Workers -> Nat]
    BY <1>1 DEF Tick, Counted, LongestSilence
  <2>5. scanIn' \in 0..ScanEvery /\ reportAge' \in 0..PostDelay
    BY <1>1 DEF Tick
  <2> QED BY <1>1, <2>1, <2>2, <2>3, <2>4, <2>5 DEF Tick
<1>2. CASE Scan
  BY <1>2 DEF Scan, Silent
<1>3. CASE Clean
  BY <1>3 DEF Clean
<1>4. ASSUME NEW w \in Workers, NEW known \in BOOLEAN, Connect(w, known) PROVE TypeOK'
  BY <1>4 DEF Connect
<1>5. ASSUME NEW w \in Workers, LearnID(w) PROVE TypeOK'
  BY <1>5 DEF LearnID
<1>6. ASSUME NEW w \in Workers, SendBeat(w) PROVE TypeOK'
  BY <1>6 DEF SendBeat, NextBeat
<1>7. ASSUME NEW w \in Workers, Crash(w) PROVE TypeOK'
  BY <1>7 DEF Crash
<1>8. ASSUME NEW w \in Workers, NEW a \in rpc[w], Hearthbeat(w, a) PROVE TypeOK'
  BY <1>8 DEF Hearthbeat, Beat
<1>9. ASSUME NEW w \in Workers, NEW a \in posts[w], Receive(w, a) PROVE TypeOK'
  BY <1>9 DEF Receive
<1>10. CASE UNCHANGED vars
  BY <1>10 DEF vars
<1> QED BY <1>1, <1>2, <1>3, <1>4, <1>5, <1>6, <1>7, <1>8, <1>9, <1>10 DEF Next

\* Type correctness of clients, messages in flight and the thread's map.
THEOREM HeartbeatTypeCorrect == Spec => []TypeOK
<1>1. Init => TypeOK
  <2>1. Init => late \in BOOLEAN
    BY Zenon DEF Init
  <2> QED BY <2>1, HeartbeatTimes DEF Init, TypeOK
<1> QED BY <1>1, TypeStep, PTL DEF Spec

\* Connect is the only action for a worker that does not exist yet, and it
\* makes it exist.
LEMMA UnbornStep == TypeOK /\ Unborn /\ [Next]_vars => Unborn'
<1> SUFFICES ASSUME TypeOK, Unborn, [Next]_vars PROVE Unborn'
  OBVIOUS
<1> USE HeartbeatTimes DEF TypeOK, Unborn, Up, clientVars, threadVars, reportVars, histVars
<1>1. CASE Tick
  BY <1>1, OlderInTime DEF Tick
<1>2. CASE Scan
  BY <1>2 DEF Scan, Silent
<1>3. CASE Clean
  BY <1>3 DEF Clean
<1>4. ASSUME NEW w \in Workers, NEW known \in BOOLEAN, Connect(w, known) PROVE Unborn'
  BY <1>4 DEF Connect
<1>5. ASSUME NEW w \in Workers, LearnID(w) PROVE Unborn'
  BY <1>5 DEF LearnID
<1>6. ASSUME NEW w \in Workers, SendBeat(w) PROVE Unborn'
  BY <1>6 DEF SendBeat
<1>7. ASSUME NEW w \in Workers, Crash(w) PROVE Unborn'
  BY <1>7 DEF Crash
<1>8. ASSUME NEW w \in Workers, NEW a \in rpc[w], Hearthbeat(w, a) PROVE Unborn'
  BY <1>8 DEF Hearthbeat, Beat
<1>9. ASSUME NEW w \in Workers, NEW a \in posts[w], Receive(w, a) PROVE Unborn'
  BY <1>9 DEF Receive
<1>10. CASE UNCHANGED vars
  BY <1>10 DEF vars
<1> QED BY <1>1, <1>2, <1>3, <1>4, <1>5, <1>6, <1>7, <1>8, <1>9, <1>10 DEF Next

\* Scans and the passing of time keep reports and entries within one scan.
LEMMA ScanClockStep == TypeOK /\ ScanClock /\ [Next]_vars => ScanClock'
<1> SUFFICES ASSUME TypeOK, ScanClock, [Next]_vars PROVE ScanClock'
  OBVIOUS
<1> USE HeartbeatTimes DEF TypeOK, ScanClock, clientVars, threadVars, reportVars, histVars
<1>1. CASE Tick
  BY <1>1 DEF Tick
<1>2. CASE Scan
  <2>1. report = {}
    BY <1>2 DEF Scan
  <2> QED BY <1>2, <2>1 DEF Scan, Silent
<1>3. CASE Clean
  BY <1>3 DEF Clean
<1>4. ASSUME NEW w \in Workers, NEW known \in BOOLEAN, Connect(w, known) PROVE ScanClock'
  BY <1>4 DEF Connect
<1>5. ASSUME NEW w \in Workers, LearnID(w) PROVE ScanClock'
  BY <1>5 DEF LearnID
<1>6. ASSUME NEW w \in Workers, SendBeat(w) PROVE ScanClock'
  BY <1>6 DEF SendBeat
<1>7. ASSUME NEW w \in Workers, Crash(w) PROVE ScanClock'
  BY <1>7 DEF Crash
<1>8. ASSUME NEW w \in Workers, NEW a \in rpc[w], Hearthbeat(w, a) PROVE ScanClock'
  BY <1>8 DEF Hearthbeat
<1>9. ASSUME NEW w \in Workers, NEW a \in posts[w], Receive(w, a) PROVE ScanClock'
  BY <1>9 DEF Receive
<1>10. CASE UNCHANGED vars
  BY <1>10 DEF vars
<1> QED BY <1>1, <1>2, <1>3, <1>4, <1>5, <1>6, <1>7, <1>8, <1>9, <1>10 DEF Next

\* Lateness is never forgotten, and time passes late or with all messages in time.
LEMMA LateStays ==
  [Next]_vars /\ ~late' => ~late /\ (Tick => AllInTime)
<1> SUFFICES ASSUME [Next]_vars, ~late' PROVE ~late /\ (Tick => AllInTime)
  OBVIOUS
<1> USE DEF histVars
<1>1. CASE Tick
  BY <1>1 DEF Tick
<1>2. CASE ~Tick
  BY <1>2 DEF Next, vars, Scan, Clean, Connect, LearnID, SendBeat, Crash, Hearthbeat, Receive
<1> QED BY <1>1, <1>2

\* Evidence says that the thread does not find the worker silent.
LEMMA EvidenceMeansHeard ==
  ASSUME Punctual, TypeOK, NEW w \in Workers, Evidence(w), w \in tracked
  PROVE  age[w] <= MaxSilence
  BY HeartbeatTimes DEF Punctual, TypeOK, Evidence

\* Time makes evidence older, and the bound it is compared with nearer.
LEMMA TickKeepsEvidence ==
  ASSUME Punctual, TypeOK, Covered, Tick, AllInTime, NEW w \in Workers, Evidence(w)
  PROVE  Evidence(w)'
<1> USE HeartbeatTimes DEF Punctual, TypeOK, Tick, AllInTime, Up
<1>1. /\ rpc[w] \in SUBSET (0..NetDelay) /\ InTime(rpc[w], NetDelay)
      /\ posts[w] \in SUBSET (0..PostDelay) /\ InTime(posts[w], PostDelay)
  OBVIOUS
<1>2. /\ \A a \in rpc[w] : a \in 0..NetDelay /\ a + 1 \in rpc'[w]
      /\ \A a \in posts[w] : a \in 0..PostDelay /\ a + 1 \in posts'[w]
  BY <1>1, OlderInTime
<1>3. CASE w \in tracked /\ client[w] = "connecting" /\ age[w] <= welcome[w]
  BY <1>3 DEF Evidence
<1>4. CASE /\ w \in tracked /\ client[w] = "live"
           /\ age[w] + due[w] + NetDelay + PostDelay <= MaxSilence
  BY <1>4 DEF Evidence
<1>5. ASSUME w \in tracked, NEW a \in rpc[w], age[w] + (NetDelay - a) + PostDelay <= MaxSilence
      PROVE  Evidence(w)'
  <2>1. age'[w] + (NetDelay - (a + 1)) + PostDelay <= MaxSilence
    BY <1>5, <1>2
  <2> QED BY <1>5, <1>2, <2>1 DEF Evidence
<1>6. ASSUME NEW a \in posts[w], w \in tracked => age[w] + (PostDelay - a) <= MaxSilence
      PROVE  Evidence(w)'
  <2>1. w \in tracked' => age'[w] + (PostDelay - (a + 1)) <= MaxSilence
    BY <1>6, <1>2
  <2> QED BY <1>6, <1>2, <2>1 DEF Evidence
<1> QED BY <1>3, <1>4, <1>5, <1>6 DEF Evidence

\* Every action keeps what is known of workers that are up or have a beat on
\* its way, and of the thread's map.
LEMMA PunctualStep ==
  TypeOK /\ Unborn /\ ScanClock /\ PunctualInv /\ [Next]_vars => PunctualInv'
<1> SUFFICES ASSUME TypeOK, TypeOK', Unborn, ScanClock, Punctual, [Next]_vars,
                    Tick => AllInTime, Covered, TracksRegistered, phantom = {}
             PROVE  Covered' /\ TracksRegistered' /\ phantom' = {}
  BY TypeStep, LateStays DEF PunctualInv, Punctual
<1> USE HeartbeatTimes DEF Punctual, TypeOK, clientVars, threadVars, reportVars, histVars
<1>1. CASE Tick
  <2>1. TracksRegistered' /\ phantom' = {}
    BY <1>1 DEF Tick, TracksRegistered
  <2>2. ASSUME NEW w \in Workers
        PROVE  rpc'[w] = {} <=> rpc[w] = {}
    BY <1>1, OlderInTime DEF Tick
  <2>3. ASSUME NEW w \in Workers
        PROVE  posts'[w] = {} <=> posts[w] = {}
    BY <1>1, OlderInTime DEF Tick
  <2> QED BY <1>1, <2>1, <2>2, <2>3, TickKeepsEvidence DEF Tick, Covered, Up
<1>2. CASE Scan
  <2>1. report = {}
    BY <1>2 DEF Scan, ScanClock
  <2>2. ASSUME NEW w \in Workers, Evidence(w) PROVE w \notin Silent
    BY <2>2, EvidenceMeansHeard DEF Silent
  <2>3. ASSUME NEW w \in Workers, Evidence(w) PROVE Evidence(w)'
    BY <1>2, <2>2, <2>3 DEF Scan, Evidence
  <2>4. TracksRegistered' /\ phantom' = {}
    BY <1>2, <2>1 DEF Scan, TracksRegistered, Silent
  <2> QED BY <1>2, <2>1, <2>2, <2>3, <2>4 DEF Scan, Covered, Up
<1>3. CASE Clean
  BY <1>3 DEF Clean, Covered, Up, Evidence, TracksRegistered
<1>4. ASSUME NEW w \in Workers, NEW known \in BOOLEAN, Connect(w, known)
      PROVE  Covered' /\ TracksRegistered' /\ phantom' = {}
  <2>1. /\ rpc'[w] = {}
        /\ Evidence(w)' \/ (posts'[w] = {} /\ ~Up(w)')
    BY <1>4 DEF Connect, Evidence, Up, Unborn
  <2>2. w \in registry' /\ w \notin report'
    BY <1>4 DEF Connect, Unborn
  <2>3. ASSUME NEW v \in Workers, v # w
        PROVE  /\ Evidence(v) => Evidence(v)'
               /\ Up(v)' <=> Up(v)
    BY <1>4, <2>3 DEF Connect, Evidence, Up
  <2> QED BY <1>4, <2>1, <2>2, <2>3 DEF Connect, Covered, TracksRegistered
<1>5. ASSUME NEW w \in Workers, LearnID(w)
      PROVE  Covered' /\ TracksRegistered' /\ phantom' = {}
  <2>1. Evidence(w)'
    BY <1>5 DEF LearnID, Evidence, Covered, Up
  <2>2. ASSUME NEW v \in Workers, v # w
        PROVE  /\ Evidence(v) => Evidence(v)'
               /\ Up(v)' <=> Up(v)
    BY <1>5, <2>2 DEF LearnID, Evidence, Up
  <2> QED BY <1>5, <2>1, <2>2 DEF LearnID, Covered, TracksRegistered, Up
<1>6. ASSUME NEW w \in Workers, SendBeat(w)
      PROVE  Covered' /\ TracksRegistered' /\ phantom' = {}
  <2>1. CASE client[w] = "live"
    <3>1. 0 \in rpc'[w] /\ \A a \in rpc[w] : a \in rpc'[w]
      BY <1>6, <2>1 DEF SendBeat
    <3>2. Evidence(w)
      BY <1>6, <2>1 DEF SendBeat, Covered, Up
    <3>3. Evidence(w)'
      BY <1>6, <2>1, <3>1, <3>2 DEF SendBeat, Evidence
    <3>4. ASSUME NEW v \in Workers, v # w
          PROVE  /\ Evidence(v) => Evidence(v)'
                 /\ Up(v)' <=> Up(v)
                 /\ rpc'[v] = rpc[v]
      BY <1>6, <3>4 DEF SendBeat, Evidence, Up
    <3> QED BY <1>6, <2>1, <3>3, <3>4 DEF SendBeat, Covered, TracksRegistered, Up
  <2>2. CASE client[w] # "live"
    <3>1. ASSUME NEW v \in Workers
          PROVE  /\ Evidence(v) => Evidence(v)'
                 /\ Up(v)' <=> Up(v)
      BY <1>6, <2>2 DEF SendBeat, Evidence, Up
    <3> QED BY <1>6, <2>2, <3>1 DEF SendBeat, Covered, TracksRegistered
  <2> QED BY <2>1, <2>2
<1>7. ASSUME NEW w \in Workers, Crash(w)
      PROVE  Covered' /\ TracksRegistered' /\ phantom' = {}
  <2>1. Evidence(w)
    BY <1>7 DEF Crash, Covered
  <2>2. rpc[w] # {} \/ posts[w] # {} => Evidence(w)'
    <3>1. CASE w \in tracked /\ client[w] = "connecting" /\ age[w] <= welcome[w]
      BY <1>7, <3>1 DEF Crash, Evidence, Covered
    <3>2. CASE /\ w \in tracked /\ client[w] = "live"
               /\ age[w] + due[w] + NetDelay + PostDelay <= MaxSilence
      <4>1. \A a \in rpc[w] : age[w] + (NetDelay - a) + PostDelay <= MaxSilence
        BY <3>2
      <4>2. \A a \in posts[w] : age[w] + (PostDelay - a) <= MaxSilence
        BY <3>2
      <4> QED BY <1>7, <3>2, <4>1, <4>2 DEF Crash, Evidence
    <3> QED BY <1>7, <2>1, <3>1, <3>2 DEF Crash, Evidence
  <2>3. ASSUME NEW v \in Workers, v # w
        PROVE  /\ Evidence(v) => Evidence(v)'
               /\ Up(v)' <=> Up(v)
    BY <1>7, <2>3 DEF Crash, Evidence, Up
  <2> QED BY <1>7, <2>2, <2>3 DEF Crash, Covered, TracksRegistered, Up
<1>8. ASSUME NEW w \in Workers, NEW a \in rpc[w], Hearthbeat(w, a)
      PROVE  Covered' /\ TracksRegistered' /\ phantom' = {}
  <2>1. Evidence(w) /\ w \in registry
    BY <1>8 DEF Covered
  <2>2. 0 \in posts'[w] /\ \A b \in posts[w] : b \in posts'[w]
    BY <1>8, <2>1 DEF Hearthbeat, Beat
  <2>3. ASSUME w \in tracked, NEW b \in rpc[w], age[w] + (NetDelay - b) + PostDelay <= MaxSilence
        PROVE  age[w] + (PostDelay - 0) <= MaxSilence
    BY <2>3
  <2>4. Evidence(w)'
    BY <1>8, <2>1, <2>2, <2>3 DEF Hearthbeat, Evidence
  <2>5. ASSUME NEW v \in Workers, v # w
        PROVE  /\ Evidence(v) => Evidence(v)'
               /\ Up(v)' <=> Up(v)
               /\ rpc'[v] = rpc[v] /\ posts'[v] = posts[v]
    BY <1>8, <2>5 DEF Hearthbeat, Beat, Evidence, Up
  <2> QED BY <1>8, <2>4, <2>5 DEF Hearthbeat, Covered, TracksRegistered, Up
<1>9. ASSUME NEW w \in Workers, NEW a \in posts[w], Receive(w, a)
      PROVE  Covered' /\ TracksRegistered' /\ phantom' = {}
  <2>1. w \in registry /\ w \notin report
    BY <1>9 DEF Covered
  <2>2. w \in tracked' /\ age'[w] = 0
    BY <1>9 DEF Receive
  <2>3. Up(w) \/ rpc'[w] # {} \/ posts'[w] # {} => Evidence(w)'
    <3>1. \A b \in rpc'[w] : age'[w] + (NetDelay - b) + PostDelay <= MaxSilence
      BY <1>9, <2>2 DEF Receive
    <3>2. \A b \in posts'[w] : age'[w] + (PostDelay - b) <= MaxSilence
      BY <1>9, <2>2 DEF Receive
    <3>3. CASE client[w] = "live"
      BY <1>9, <2>2, <3>3 DEF Receive, Evidence
    <3>4. CASE client[w] = "connecting"
      BY <1>9, <2>2, <3>4 DEF Receive, Evidence
    <3> QED BY <2>2, <3>1, <3>2, <3>3, <3>4 DEF Evidence, Up
  <2>4. ASSUME NEW v \in Workers, v # w
        PROVE  /\ Evidence(v) => Evidence(v)'
               /\ Up(v)' <=> Up(v)
               /\ posts'[v] = posts[v]
    BY <1>9, <2>4 DEF Receive, Evidence, Up
  <2> QED BY <1>9, <2>1, <2>3, <2>4 DEF Receive, Covered, TracksRegistered, Up
<1>10. CASE UNCHANGED vars
  BY <1>10 DEF vars, Covered, TracksRegistered, Evidence, Up
<1> QED BY <1>1, <1>2, <1>3, <1>4, <1>5, <1>6, <1>7, <1>8, <1>9, <1>10 DEF Next

\* Every action keeps the account of what bounds a silence.
LEMMA SilenceStep ==
  TypeOK /\ Unborn /\ ScanClock /\ SilenceInv /\ [Next]_vars => SilenceInv'
<1> SUFFICES ASSUME TypeOK, TypeOK', Unborn, ScanClock, [Next]_vars,
                    ~late, Tick => AllInTime, \A w \in Workers : Bounded(w),
                    NEW v \in Workers
             PROVE  Bounded(v)'
  BY TypeStep, LateStays DEF SilenceInv
<1> USE HeartbeatTimes DEF TypeOK, Bounded, clientVars, threadVars, reportVars, histVars
<1>1. CASE Tick
  <2>1. /\ \A a \in rpc'[v] : a - 1 \in rpc[v]
        /\ \A a \in posts'[v] : a - 1 \in posts[v]
        /\ posts'[v] = {} <=> posts[v] = {}
    <3>1. /\ rpc[v] \in SUBSET (0..NetDelay) /\ InTime(rpc[v], NetDelay)
          /\ rpc'[v] = Older(rpc[v], NetDelay)
      BY <1>1 DEF Tick, AllInTime
    <3>2. /\ posts[v] \in SUBSET (0..PostDelay) /\ InTime(posts[v], PostDelay)
          /\ posts'[v] = Older(posts[v], PostDelay)
      BY <1>1 DEF Tick, AllInTime
    <3>3. \A a \in rpc'[v] : a - 1 \in rpc[v]
      BY <3>1, OlderInTime
    <3>4. \A a \in posts'[v] : a - 1 \in posts[v]
      BY <3>2, OlderInTime
    <3>5. posts'[v] = {} <=> posts[v] = {}
      BY <3>2, OlderInTime
    <3> QED BY <3>3, <3>4, <3>5
  <2>2. silence'[v] <= silence[v] + 1
    BY <1>1 DEF Tick, Counted, LongestSilence
  <2>3. Accounted(v) => Accounted(v)'
    BY <1>1, <2>1, <2>2 DEF Tick, Accounted
  <2>4. \A a \in rpc'[v] : silence'[v] <= a
    BY <2>1, <2>2
  <2>5. ASSUME NEW a \in posts'[v] PROVE silence'[v] <= a + NetDelay
    <3>1. a - 1 \in posts[v] /\ a \in Int
      BY <2>1
    <3>2. silence[v] <= (a - 1) + NetDelay
      BY <3>1
    <3> QED BY <2>2, <3>1, <3>2
  <2> QED BY <1>1, <2>3, <2>4, <2>5 DEF Tick
<1>2. CASE Scan
  <2>1. report = {}
    BY <1>2 DEF Scan, ScanClock
  <2>2. v \in Silent => age[v] <= MaxSilence + ScanEvery
    BY <1>2 DEF Scan, Silent, ScanClock
  <2>3. Accounted(v) => Accounted(v)'
    BY <1>2, <2>1, <2>2 DEF Scan, Silent, Accounted
  <2> QED BY <1>2, <2>3 DEF Scan
<1>3. CASE Clean
  <2>1. CASE v \in report
    BY <1>3, <2>1 DEF Clean
  <2>2. CASE v \notin report
    BY <1>3, <2>2 DEF Clean, Accounted
  <2> QED BY <2>1, <2>2
<1>4. ASSUME NEW w \in Workers, NEW known \in BOOLEAN, Connect(w, known) PROVE Bounded(v)'
  <2>1. CASE v = w
    BY <1>4, <2>1 DEF Connect, Accounted, Unborn
  <2>2. CASE v # w
    BY <1>4, <2>2 DEF Connect, Accounted
  <2> QED BY <2>1, <2>2
<1>5. ASSUME NEW w \in Workers, LearnID(w) PROVE Bounded(v)'
  BY <1>5 DEF LearnID, Accounted
<1>6. ASSUME NEW w \in Workers, SendBeat(w) PROVE Bounded(v)'
  BY <1>6 DEF SendBeat, Accounted
<1>7. ASSUME NEW w \in Workers, Crash(w) PROVE Bounded(v)'
  BY <1>7 DEF Crash, Up, Accounted
<1>8. ASSUME NEW w \in Workers, NEW a \in rpc[w], Hearthbeat(w, a) PROVE Bounded(v)'
  BY <1>8 DEF Hearthbeat, Beat, Accounted
<1>9. ASSUME NEW w \in Workers, NEW a \in posts[w], Receive(w, a) PROVE Bounded(v)'
  BY <1>9 DEF Receive, Accounted
<1>10. CASE UNCHANGED vars
  BY <1>10 DEF vars, Accounted
<1> QED BY <1>1, <1>2, <1>3, <1>4, <1>5, <1>6, <1>7, <1>8, <1>9, <1>10 DEF Next

-----------------------------------------------------------------------------

\* The whole inductive invariant: types, the clock of the scans, the evidence
\* of live workers and the account of silences.
THEOREM HeartbeatInvariant == Spec => []IInv
<1>1. Init => IInv
  <2>1. Init => late \in BOOLEAN
    BY Zenon DEF Init
  <2> QED BY <2>1, HeartbeatTimes DEF Init, IInv, TypeOK, Unborn, ScanClock, PunctualInv, Covered,
     TracksRegistered, SilenceInv, Bounded, Accounted, Up
<1>2. IInv /\ [Next]_vars => IInv'
  BY TypeStep, UnbornStep, ScanClockStep, PunctualStep, SilenceStep DEF IInv
<1> QED BY <1>1, <1>2, PTL DEF Spec

\* With messages in time, and HEARTBEAT_MAX_TIME at least the interval of the
\* beats and three ways, a worker whose client is up keeps its registration.
THEOREM LiveWorkersStay == Spec => []LiveStays
<1>1. IInv => LiveStays
  BY DEF IInv, PunctualInv, Covered, LiveStays
<1> QED BY <1>1, HeartbeatInvariant, PTL

\* Under the same assumption clean is never called for a worker that is gone.
THEOREM NoSecondReport == Spec => []NoPhantom
<1>1. IInv => NoPhantom
  BY DEF IInv, PunctualInv, NoPhantom
<1> QED BY <1>1, HeartbeatInvariant, PTL

\* A registered worker whose queue was known is gone after LongestSilence, as long
\* as messages arrive in time.
THEOREM SilentWorkersLeave == Spec => []SilentLeave
<1>1. IInv => SilentLeave
  <2> SUFFICES ASSUME IInv, ~late, NEW w \in registry, client[w] # "ignored"
               PROVE  silence[w] <= LongestSilence
    BY DEF SilentLeave
  <2>1. w \in Workers /\ Accounted(w) /\ \A a \in posts[w] : silence[w] <= a + NetDelay
    BY DEF IInv, TypeOK, SilenceInv, Bounded
  <2> QED BY <2>1, HeartbeatTimes DEF IInv, TypeOK, ScanClock, Accounted, LongestSilence
<1> QED BY <1>1, HeartbeatInvariant, PTL

-----------------------------------------------------------------------------
(* The cleanup thread.                                                     *)

USE CleanupAssumption

\* The thread starts with nothing armed and nothing pending.
LEMMA CleanupStarts == CleanupInit => CleanupIInv
<1> SUFFICES ASSUME CleanupInit PROVE CleanupIInv
  OBVIOUS
<1>1. Flags
  BY Zenon DEF CleanupInit, Flags
<1>2. Counts
  BY DEF CleanupInit, Counts, NoInterval, Intervals
<1> QED BY <1>1, <1>2 DEF CleanupInit, CleanupIInv, CleanupTypeOK, Clearable, QuietWhenClosed

\* The flags stay flags.
LEMMA FlagsStay == Flags /\ [CleanupNext]_cleanupVars => Flags'
<1> SUFFICES ASSUME Flags, [CleanupNext]_cleanupVars PROVE Flags'
  OBVIOUS
<1> USE DEF Flags
<1>1. CASE HandleInit
  BY <1>1 DEF HandleInit
<1>2. CASE HandleClose
  <2>1. overtaken' \in BOOLEAN
    BY <1>2 DEF HandleClose
  <2> QED BY <1>2, <2>1 DEF HandleClose
<1>3. CASE Connected
  BY <1>3 DEF Connected
<1>4. CASE ConnectFails
  BY <1>4 DEF ConnectFails
<1>5. CASE Sweep
  BY <1>5 DEF Sweep
<1>6. CASE Terminate
  BY <1>6 DEF Terminate
<1>7. CASE UNCHANGED cleanupVars
  BY <1>7 DEF cleanupVars
<1> QED BY <1>1, <1>2, <1>3, <1>4, <1>5, <1>6, <1>7 DEF CleanupNext

\* No message, continuation, sweep or termination breaks the invariant.
LEMMA CleanupStep == CleanupIInv /\ [CleanupNext]_cleanupVars => CleanupIInv'
<1> SUFFICES ASSUME CleanupIInv, [CleanupNext]_cleanupVars PROVE CleanupIInv'
  OBVIOUS
<1>f. Flags'
  BY FlagsStay DEF CleanupIInv, CleanupTypeOK
<1> USE DEF CleanupIInv, CleanupTypeOK, Counts, Clearable, QuietWhenClosed, NoInterval, Intervals
<1>1. CASE HandleInit
  BY <1>f, <1>1 DEF HandleInit
<1>2. CASE HandleClose
  <2>1. Counts'
    BY <1>2 DEF HandleClose, Cleared
  <2>2. armed' = {} \/ (armed' = armed /\ ~isInited)
    BY <1>2 DEF HandleClose, Cleared
  <2>3. overtaken => overtaken'
    BY <1>2 DEF HandleClose
  <2>4. Clearable' /\ QuietWhenClosed'
    BY <1>2, <2>2, <2>3 DEF HandleClose
  <2>a. connecting = 0 \/ connecting > 0
    OBVIOUS
  <2>5. (isInited \/ connecting = 0 \/ overtaken)'
    BY <1>2, <2>a, Zenon DEF HandleClose
  <2> QED BY <1>f, <2>1, <2>4, <2>5
<1>3. CASE Connected
  <2>1. QuietWhenClosed' /\ (isInited \/ connecting = 0 \/ overtaken)'
    BY <1>3 DEF Connected
  <2>2. CASE MayArm
    <3>1. PICK id \in Intervals \ armed : poolIntervalID' = id /\ armed' = armed \cup {id}
      BY <1>3, <2>2 DEF Connected
    <3>2. Clearable'
      BY <2>2, <3>1 DEF MayArm
    <3>3. Counts'
      BY <1>3, <3>1 DEF Connected
    <3> QED BY <1>f, <2>1, <3>2, <3>3
  <2>3. CASE ~MayArm
    <3>1. UNCHANGED <<poolIntervalID, armed>>
      BY <1>3, <2>3 DEF Connected
    <3>2. Clearable'
      BY <3>1
    <3>3. Counts'
      BY <1>3, <3>1 DEF Connected
    <3> QED BY <1>f, <2>1, <3>2, <3>3
  <2> QED BY <2>2, <2>3
<1>4. CASE ConnectFails
  BY <1>f, <1>4 DEF ConnectFails
<1>5. CASE Sweep
  BY <1>f, <1>5 DEF Sweep
<1>6. CASE Terminate
  BY <1>f, <1>6 DEF Terminate
<1>7. CASE UNCHANGED cleanupVars
  BY <1>f, <1>7 DEF cleanupVars
<1> QED BY <1>1, <1>2, <1>3, <1>4, <1>5, <1>6, <1>7 DEF CleanupNext

\* The invariant holds in every reachable state.
THEOREM CleanupInvariant == CleanupSpec => []CleanupIInv
BY CleanupStarts, CleanupStep, PTL DEF CleanupSpec

\* No interval ever runs that a close could not clear.
THEOREM OneClearableInterval == CleanupSpec => []Clearable
BY CleanupInvariant, PTL DEF CleanupIInv

\* A closed thread sweeps no more, unless the close overtook a connecting init.
THEOREM ClosedThreadIsQuiet == CleanupSpec => []QuietWhenClosed
BY CleanupInvariant, PTL DEF CleanupIInv
=============================================================================
