------------------------------ MODULE Producer ------------------------------
(***************************************************************************)
(* The record QueueProducer keeps for a queue, which decides whether a     *)
(* tick of its timer polls the Job table.                                  *)
(*                                                                         *)
(*   present          queueProducerRecord has an entry for the queue       *)
(*   available        polling is on; when it is off, ticks are counted     *)
(*   remainingTicks   down from MaxTicks before it is on again (0 stands   *)
(*                    for the undefined field of a fresh entry)            *)
(*   lastQueryHasJob  the last poll found a job: no tick polls any more    *)
(***************************************************************************)
EXTENDS Integers

CONSTANT MaxTicks  \* MAX_TICKS, 5 in the code

ASSUME MaxTicksAssumption == MaxTicks \in Nat

VARIABLE record

ProducerRecord == [present : BOOLEAN, available : BOOLEAN, remainingTicks : 0..MaxTicks,
                   lastQueryHasJob : BOOLEAN]

NoRecord ==
  [present |-> FALSE, available |-> FALSE, remainingTicks |-> 0, lastQueryHasJob |-> FALSE]

FreshRecord == [NoRecord EXCEPT !.present = TRUE, !.available = TRUE]

ProducerTypeOK == record \in ProducerRecord
ProducerInit   == record = NoRecord

\* The decision of canPool once a worker is available: poll, or count a tick, or neither.
Polls      == \/ ~record.present
              \/ record.available /\ ~record.lastQueryHasJob
CountsTick == record.present /\ ~record.available

RecordPoll == record' = IF record.present THEN record ELSE FreshRecord

\* Mutant of UpdateTick: the end of the count is tested, but nothing is done then.
UpdateTickStuck ==
  record' = IF record.remainingTicks = 0
            THEN record
            ELSE [record EXCEPT !.remainingTicks = @ - 1]

UpdateTick ==
  record' = IF record.remainingTicks = 0
            THEN [record EXCEPT !.available = TRUE]
            ELSE [record EXCEPT !.remainingTicks = @ - 1]

RecordToNoJob ==
  record' = IF record.present
            THEN [record EXCEPT !.available = FALSE, !.remainingTicks = MaxTicks,
                                !.lastQueryHasJob = FALSE]
            ELSE record

RecordToJob == record' = [record EXCEPT !.available = TRUE, !.lastQueryHasJob = TRUE]
=============================================================================
