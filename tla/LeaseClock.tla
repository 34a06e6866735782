----------------------------- MODULE LeaseClock -----------------------------
(***************************************************************************)
(* WebhookQueue on a clock: how long a lease lasts, how long a job may     *)
(* take, and how long a backoff waits, in seconds.                         *)
(*                                                                         *)
(* Every stage of a job has a time within which it ends.  For the LLM call *)
(* that time is the SDK's: maxRetries further requests of timeout each,    *)
(* and the pauses between them.  Nothing in the code relates the sum to    *)
(* leaseSeconds; here the sum is JobTime, and with a longer lease the      *)
(* clocked queue implements the queue in which no job outlives its lease.  *)
(***************************************************************************)
EXTENDS WebhookQueue, Integers

CONSTANTS
  Lease,          \* config.worker.leaseSeconds
  LlmTimeout,     \* timeoutMs of the LLM client, for one request
  MaxRetries,     \* maxRetries of the LLM client
  RetryPause,     \* the longest pause of the SDK before it retries
  StatementTime,  \* the longest that a statement outside a transaction takes
  SettleTime      \* the longest that a settle transaction takes

ASSUME ClockAssumption ==
  /\ Lease \in Nat /\ LlmTimeout \in Nat /\ MaxRetries \in Nat
  /\ RetryPause \in Nat /\ StatementTime \in Nat /\ SettleTime \in Nat

VARIABLES
  lockLeft,  \* lockLeft[r]: seconds until locked_until, for a leased row
  left,      \* left[w][r]: seconds in which the stage of a job must end
  waited     \* waited[r]: seconds since the row was backed off

clockVars == <<lockLeft, left, waited>>

CallTime == (MaxRetries + 1) * LlmTimeout + MaxRetries * RetryPause

(* The time a stage of a job may take.                                     *)
Allowed(phase) ==
  CASE phase = "none" -> 0
    [] phase = "calling" -> CallTime
    [] phase = "settling" -> SettleTime
    [] OTHER -> StatementTime

(* Re-fetch, LLM call, settle transaction, and its catch branch.           *)
JobTime == StatementTime + CallTime + SettleTime + StatementTime

-----------------------------------------------------------------------------
(* Faulty variants, used by the mutation checks only. *)
BaseFromNextAttempt(n) == 5 * 4 ^ (IF n > 2 THEN n - 2 ELSE 0)

(* backoffSeconds: 5 s times 4 to the attempt, times a jitter in [0.5, 1.5)*)
(* and rounded down, but never more than an hour.                          *)
Base(n) == 5 * 4 ^ (IF n > 1 THEN n - 1 ELSE 0)
Capped(seconds) == IF seconds > 3600 THEN 3600 ELSE seconds
Shortest(n) == Capped(Base(n) \div 2)
Longest(n) == Capped((3 * Base(n) - 1) \div 2)

Delays(n) == (Shortest(n)..Longest(n)) \cap Nat

ClockInit ==
  /\ Init
  /\ lockLeft = [r \in RawIds |-> 0]
  /\ left = [w \in Workers |-> [r \in RawIds |-> 0]]
  /\ waited = [r \in RawIds |-> 0]

-----------------------------------------------------------------------------
(* The clock of a stage starts with the stage.                             *)
StartStages ==
  left' = [w \in Workers |-> [r \in RawIds |->
             IF job'[w][r].phase = job[w][r].phase THEN left[w][r]
             ELSE Allowed(job'[w][r].phase)]]

(* Faulty variant, used by the mutation checks only. *)
LeaseOneCall(w) ==
  /\ Claim(w) /\ StartStages
  /\ lockLeft' = [r \in RawIds |-> IF Busy(w, r)' THEN LlmTimeout ELSE lockLeft[r]]
  /\ UNCHANGED waited

(* locked_until = NOW(3) + lease, for the rows of the batch.               *)
TimedClaim(w) ==
  /\ Claim(w) /\ StartStages
  /\ lockLeft' = [r \in RawIds |-> IF Busy(w, r)' THEN Lease ELSE lockLeft[r]]
  /\ UNCHANGED waited

(* locked_until = NOW(3) + delay: counted from now, whatever was left.     *)
TimedBackOff(w, r) ==
  /\ BackOffNetwork(w, r) \/ BackOffSettle(w, r)
  /\ StartStages
  /\ \E delay \in Delays(job[w][r].attempts) : lockLeft' = [lockLeft EXCEPT ![r] = delay]
  /\ waited' = [waited EXCEPT ![r] = 0]

(* Every other step leaves locked_until alone.                             *)
KeepsLock(w, r) ==
  \/ LlmAnswers(w, r) \/ RouteUnusable(w, r) \/ DeadLetterNetwork(w, r)
  \/ MarkUnclassified(w, r) \/ RouteLowConfidence(w, r)
  \/ Settle(w, r) \/ SettleRollsBack(w, r) \/ SettleAnswerLost(w, r)
  \/ DeadLetterSettle(w, r) \/ StatusWriteFails(w, r)

TimedStep ==
  /\ \/ \E r \in RawIds : Receive(r)
     \/ \E w \in Workers : Refetch(w) \/ RefetchFails(w) \/ Crash(w)
     \/ \E w \in Workers, r \in RawIds : KeepsLock(w, r)
  /\ StartStages
  /\ UNCHANGED <<lockLeft, waited>>

Expire(r) ==
  /\ lockLeft[r] = 0
  /\ LockExpires(r)
  /\ UNCHANGED clockVars

(* A second passes; no stage lasts longer than it may.                     *)
Tick ==
  /\ \A r \in leased : lockLeft[r] > 0
  /\ \A w \in Workers, r \in RawIds : Busy(w, r) => left[w][r] > 0
  /\ leased # {}
  /\ lockLeft' = [r \in RawIds |-> IF r \in leased THEN lockLeft[r] - 1 ELSE lockLeft[r]]
  /\ left' = [w \in Workers |-> [r \in RawIds |->
                IF Busy(w, r) THEN left[w][r] - 1 ELSE left[w][r]]]
  /\ waited' = [r \in RawIds |-> IF r \in leased /\ status[r] = "pending"
                                 THEN waited[r] + 1 ELSE waited[r]]
  /\ UNCHANGED vars

ClockNext ==
  \/ \E w \in Workers : TimedClaim(w)
  \/ \E w \in Workers, r \in RawIds : TimedBackOff(w, r)
  \/ TimedStep
  \/ \E r \in RawIds : Expire(r)
  \/ Tick

ClockSpec == ClockInit /\ [][ClockNext]_<<vars, clockVars>>

-----------------------------------------------------------------------------
ClockTypeOK ==
  /\ TypeOK
  /\ lockLeft \in [RawIds -> Nat]
  /\ left \in [Workers -> [RawIds -> Nat]]
  /\ waited \in [RawIds -> Nat]

(* The setting that the documentation asks for without saying so: "a lease *)
(* that's set too short for actual processing latency" (claim.js).         *)
LongLease == JobTime < Lease

(* What is left of a job's time after the stage it is in.                  *)
Rest(phase) ==
  CASE phase = "claimed" -> CallTime + SettleTime + StatementTime
    [] phase = "calling" -> SettleTime + StatementTime
    [] phase = "settling" -> StatementTime
    [] OTHER -> 0

(* The lease of a row always has more time left than its job may still     *)
(* take, through every stage, retry of the SDK and branch of processOne.   *)
LeaseAheadOfJob ==
  \A w \in Workers, r \in RawIds : Busy(w, r) =>
    /\ r \in leased
    /\ left[w][r] + Rest(job[w][r].phase) < lockLeft[r]

(* So the clocked queue is the queue whose leases cover processing: all    *)
(* that is checked and proved of that one holds for these settings.        *)
Leased == INSTANCE WebhookQueue WITH LeaseCoversProcessing <- TRUE
ImplementsLeasedQueue == Leased!Spec

(* "Returns to pending with a backoff" (process.js): a failed attempt is   *)
(* followed by the next after half the base delay of that attempt at the   *)
(* earliest, 2, 10, 40, 160 seconds, whichever worker takes the row.       *)
RetriesAreSpaced ==
  [][\A r \in RawIds :
       status[r] = "pending" /\ status'[r] = "processing" /\ attempts[r] > 0
         => waited[r] >= (5 * 4 ^ (attempts[r] - 1)) \div 2]_vars
=============================================================================
