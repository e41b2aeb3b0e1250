------------------------------ MODULE JobClass ------------------------------
(***************************************************************************)
(* Class Job (src/domain/job/job.ts): the retry counter carried in the     *)
(* metadata of a job and the back-off computed from it, together with the  *)
(* two representations metadata takes around the Json column of the Job    *)
(* table.  Operators only: the objects live in the modules that use them.  *)
(*                                                                         *)
(* A metadata value is a record with a field "form":                       *)
(*   "object"  a JobMetadata object, whose "retry" is undefined or a       *)
(*             record [attempts, type, delay, currentAttempt]; a           *)
(*             currentAttempt the sender left undefined is 0, which the    *)
(*             code does not tell apart (it only tests its truth value);   *)
(*   "text"    the string JSON.stringify made of it.                       *)
(***************************************************************************)
EXTENDS Integers

RetryEntry == [defined : BOOLEAN, attempts : Int, type : {"fixed", "exponential"},
               delay : Nat, currentAttempt : Int]

JobMetadata == [form : {"object", "text"}, retry : RetryEntry]

NoRetry == [defined |-> FALSE, attempts |-> 0, type |-> "fixed", delay |-> 0,
            currentAttempt |-> 0]

RetryMeta(attempts, type, delay, currentAttempt) ==
  [defined |-> TRUE, attempts |-> attempts, type |-> type, delay |-> delay,
   currentAttempt |-> currentAttempt]

Metadata(retry) == [form |-> "object", retry |-> retry]

\* JSON.stringify of a JobMetadata object, as push stores it in the column.
Stringify(meta) == [meta EXCEPT !.form = "text"]

\* const { retry } = this._metadata: a string has no property "retry".
RetryField(meta) == IF meta.form = "object" THEN meta.retry ELSE NoRetry

\* Mutant of RetryAllowed: the counter may reach the number of attempts and still grant.
RetryAllowedOffByOne(meta) ==
  LET r == RetryField(meta)
  IN  /\ r.defined
      /\ r.currentAttempt = 0 \/ r.currentAttempt <= r.attempts

\* The answer of retry().
RetryAllowed(meta) ==
  LET r == RetryField(meta)
  IN  /\ r.defined
      /\ r.currentAttempt = 0 \/ r.currentAttempt < r.attempts

\* The counter after a retry: one more, and 1 where that or the counter itself is 0.
NextAttempt(c) == IF c = -1 THEN 1 ELSE c + 1

\* The metadata retry() leaves behind.  A counter of 0 is raised whatever the attempts.
AfterRetry(meta) ==
  IF RetryAllowed(meta)
  THEN [meta EXCEPT !.retry.currentAttempt = NextAttempt(@)]
  ELSE meta

\* 2 ** n, and backoffTime() of a job whose metadata holds a retry entry with a counter
\* that is not negative.
TwoTo[n \in Nat] == IF n = 0 THEN 1 ELSE 2 * TwoTo[n - 1]

BackoffTime(meta) ==
  LET r == RetryField(meta)
  IN  IF r.type = "fixed"
      THEN r.delay
      ELSE r.delay * TwoTo[IF r.currentAttempt = 0 THEN 0 ELSE r.currentAttempt - 1]

\* The metadata of a Job object after each number of calls of its retry().
AfterCalls(meta) ==
  LET after[n \in Nat] == IF n = 0 THEN meta ELSE AfterRetry(after[n - 1]) IN after

\* The retries asked for: the attempts, less those the sender says were made before.
Asked(retry) ==
  IF retry.defined /\ retry.currentAttempt < retry.attempts
  THEN retry.attempts - retry.currentAttempt
  ELSE 0

\* What job.test.ts expects of a Job object: with this metadata it grants the retries that
\* were asked for and no more.  Their delays are the one asked for; or each is twice the one
\* before it, from that delay on, or what earlier doublings made of it.
Grants(meta, asked) ==
  /\ \A n \in 0..Asked(asked) + 2 : RetryAllowed(AfterCalls(meta)[n]) <=> n < Asked(asked)
  /\ \A n \in 1..Asked(asked) :
       BackoffTime(AfterCalls(meta)[n]) =
         CASE asked.type = "fixed"           -> asked.delay
           [] asked.type # "fixed" /\ n = 1 -> asked.delay * TwoTo[asked.currentAttempt]
           [] OTHER                          -> 2 * BackoffTime(AfterCalls(meta)[n - 1])
=============================================================================
