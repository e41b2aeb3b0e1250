--------------------------- MODULE CleanupThread ---------------------------
(***************************************************************************)
(* The thread that deletes old finished rows (dbCleanup.ts, cleanup/       *)
(* class.ts): an init connects to the database and, when that is awaited,  *)
(* sets the interval of the sweeps; a close clears it.  Messages are       *)
(* handled in the order they are posted, and another one may be handled    *)
(* while an init awaits its connection.  What a sweep deletes is CleanDb   *)
(* of JobTable.                                                            *)
(***************************************************************************)
EXTENDS Integers, FiniteSets

CONSTANT MaxInits  \* bound: messages of each kind that are handled, and intervals

ASSUME CleanupAssumption == MaxInits \in Nat \ {0}

NoInterval == 0
Intervals == 1..MaxInits

VARIABLES
  alive,           \* FALSE after terminate
  isInited,
  connecting,      \* inits that await $connect
  poolIntervalID,
  armed,           \* intervals that run
  sweeps,          \* flips at every sweep
  inits, closes,   \* messages that were handled, for the bound
  overtaken,       \* history: a close was handled while an init was connecting
  failed           \* history: a connection failed

cleanupVars ==
  <<alive, isInited, connecting, poolIntervalID, armed, sweeps, inits, closes, overtaken, failed>>

CleanupInit ==
  /\ alive = TRUE /\ isInited = FALSE /\ connecting = 0
  /\ poolIntervalID = NoInterval /\ armed = {} /\ sweeps = FALSE
  /\ inits = 0 /\ closes = 0 /\ overtaken = FALSE /\ failed = FALSE

\* The messages "init" and "close" up to their await; a repeated one returns.
HandleInit ==
  /\ alive /\ inits < MaxInits
  /\ inits' = inits + 1
  /\ isInited' = TRUE
  /\ connecting' = IF isInited THEN connecting ELSE connecting + 1
  /\ UNCHANGED <<alive, poolIntervalID, armed, sweeps, closes, overtaken, failed>>

\* Mutant of Cleared: the interval is left to run.
ClearedNone == armed

\* clearInterval(poolIntervalID), which keeps its value.
Cleared == armed \ {poolIntervalID}

HandleClose ==
  /\ alive /\ closes < MaxInits
  /\ closes' = closes + 1
  /\ isInited' = FALSE
  /\ armed' = IF isInited THEN Cleared ELSE armed
  /\ overtaken' = (overtaken \/ (isInited /\ connecting > 0))
  /\ UNCHANGED <<alive, connecting, poolIntervalID, sweeps, inits, failed>>

\* Mutants of MayArm: no test; the interval is only set when it was set before.
MayArmAlways == TRUE
MayArmAgain == poolIntervalID # NoInterval

MayArm == poolIntervalID = NoInterval

\* The continuation of an init: it does not look at isInited again.
Connected ==
  /\ alive /\ connecting > 0
  /\ connecting' = connecting - 1
  /\ IF MayArm
       THEN \E id \in Intervals \ armed :
              poolIntervalID' = id /\ armed' = armed \cup {id}
       ELSE UNCHANGED <<poolIntervalID, armed>>
  /\ UNCHANGED <<alive, isInited, sweeps, inits, closes, overtaken, failed>>

\* $connect rejects: isInited stays, so later inits return early.
ConnectFails ==
  /\ alive /\ connecting > 0
  /\ connecting' = connecting - 1
  /\ failed' = TRUE
  /\ UNCHANGED <<alive, isInited, poolIntervalID, armed, sweeps, inits, closes, overtaken>>

Sweep ==
  /\ alive /\ armed # {}
  /\ sweeps' = ~sweeps
  /\ UNCHANGED <<alive, isInited, connecting, poolIntervalID, armed, inits, closes,
                 overtaken, failed>>

Terminate ==
  /\ alive' = FALSE /\ armed' = {} /\ connecting' = 0
  /\ UNCHANGED <<isInited, poolIntervalID, sweeps, inits, closes, overtaken, failed>>

CleanupNext == HandleInit \/ HandleClose \/ Connected \/ ConnectFails \/ Sweep \/ Terminate

CleanupSpec == CleanupInit /\ [][CleanupNext]_cleanupVars

\* The promise of $connect settles and a timer fires again and again; nobody has to
\* post a message or to terminate the thread.
CleanupFairSpec ==
  CleanupSpec /\ WF_cleanupVars(Connected \/ ConnectFails) /\ WF_cleanupVars(Sweep)

-----------------------------------------------------------------------------

Flags ==
  /\ alive \in BOOLEAN /\ isInited \in BOOLEAN /\ sweeps \in BOOLEAN
  /\ overtaken \in BOOLEAN /\ failed \in BOOLEAN

Counts ==
  /\ inits \in 0..MaxInits /\ closes \in 0..MaxInits
  /\ connecting \in 0..inits
  /\ poolIntervalID \in {NoInterval} \cup Intervals
  /\ armed \subseteq Intervals

CleanupTypeOK == Flags /\ Counts

\* However inits, closes and connections overlap, no interval runs that a close could
\* not clear: there is one at most, and poolIntervalID names it.
Clearable == armed \subseteq {poolIntervalID}

\* A thread that was closed sweeps no more, except when the close came while an init
\* was still connecting: the continuation of that init sets the interval all the same.
QuietWhenClosed == ~isInited /\ armed # {} => overtaken

\* Inductive.  Whether the interval has been set decides who may still set it.
CleanupIInv ==
  /\ CleanupTypeOK /\ Clearable
  /\ QuietWhenClosed
  /\ isInited \/ connecting = 0 \/ overtaken

\* Once an init is handled the sweeps go on for ever, unless the connection failed
\* (isInited then turns every later init away), a close was handled (poolIntervalID is
\* never reset, so an init after a close sets nothing), or the thread was terminated.
SweepsForEver ==
  []<><<Sweep>>_cleanupVars \/ <>[](inits = 0 \/ failed \/ closes > 0 \/ ~alive)
=============================================================================
