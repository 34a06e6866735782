------------------------- MODULE LeaseClock_proofs -------------------------
(***************************************************************************)
(* Theorems about the clocked queue: with a lease longer than JobTime no   *)
(* lease ever runs out under a job, for any timeouts, retries, workers,    *)
(* rows and sizes of batch, and whatever faults occur; and no retry comes  *)
(* before half the base delay of its attempt has passed.                   *)
(***************************************************************************)
EXTENDS LeaseClock, WebhookQueue_proofs

LEMMA TimesAreNat == CallTime \in Nat /\ JobTime \in Nat
PROOF
<1>1. (MaxRetries + 1) * LlmTimeout \in Nat /\ MaxRetries * RetryPause \in Nat
  BY ClockAssumption
<1> QED BY <1>1, ClockAssumption DEF CallTime, JobTime

LEMMA StageTimes ==
  /\ \A p \in Phase : Allowed(p) \in Nat /\ Rest(p) \in Nat
  /\ Allowed("claimed") + Rest("claimed") = JobTime
  /\ Allowed("calling") + Rest("calling") = Rest("claimed")
  /\ \A p \in Answered : Allowed(p) + Rest(p) <= Rest("calling")
  /\ Allowed("settle_failed") + Rest("settle_failed") = Rest("settling")
PROOF BY TimesAreNat, ClockAssumption DEF Allowed, Rest, JobTime, Phase, Answered

-----------------------------------------------------------------------------
(* Every stage that a job enters fits into the rest of the one it leaves.  *)
StagesFit ==
  \A w \in Workers, r \in RawIds :
    \/ job'[w][r].phase = job[w][r].phase
    \/ job'[w][r].phase = "none"
    \/ /\ Busy(w, r)
       /\ Allowed(job'[w][r].phase) + Rest(job'[w][r].phase) <= Rest(job[w][r].phase)

LEMMA AnswersFit ==
  ASSUME TypeOK, NEW w \in Workers, NEW r \in RawIds, LlmAnswers(w, r)
  PROVE  StagesFit
PROOF
<1>1. job[w][r] \in Job /\ job \in [Workers -> [RawIds -> Job]] /\ job[w][r].phase = "calling"
  BY DEF TypeOK, LlmAnswers
<1>2. ASSUME NEW p \in Answered, SetJob(w, r, [job[w][r] EXCEPT !.phase = p])
      PROVE  /\ job'[w][r].phase \in Answered
             /\ \A v \in Workers, q \in RawIds : v # w \/ q # r => job'[v][q] = job[v][q]
  BY <1>1, <1>2 DEF SetJob, Job
<1>3. ASSUME NEW ev \in Events,
             SetJob(w, r, [job[w][r] EXCEPT !.phase = "settling", !.event = ev])
      PROVE  /\ job'[w][r].phase \in Answered
             /\ \A v \in Workers, q \in RawIds : v # w \/ q # r => job'[v][q] = job[v][q]
  BY <1>1, <1>3 DEF SetJob, Job, Answered
<1>4. /\ job'[w][r].phase \in Answered
      /\ \A v \in Workers, q \in RawIds : v # w \/ q # r => job'[v][q] = job[v][q]
  BY <1>2, <1>3 DEF LlmAnswers
<1> QED BY <1>1, <1>4, StageTimes DEF StagesFit, Busy

LEMMA ThrowFits ==
  ASSUME TypeOK, NEW w \in Workers, NEW r \in RawIds,
         job[w][r].phase = "settling", SettleThrows(w, r)
  PROVE  StagesFit
PROOF
<1>1. job[w][r] \in Job /\ job \in [Workers -> [RawIds -> Job]]
  BY DEF TypeOK
<1>2. /\ job'[w][r].phase = "settle_failed"
      /\ \A v \in Workers, q \in RawIds : v # w \/ q # r => job'[v][q] = job[v][q]
  BY <1>1 DEF SettleThrows, SetJob, Job
<1> QED
  BY <1>1, <1>2, StageTimes, TimesAreNat, ClockAssumption DEF StagesFit, Busy, Rest, Allowed

(* A job that ends needs no time at all.                                   *)
LEMMA EndFits ==
  ASSUME TypeOK, NEW w \in Workers, NEW r \in RawIds, EndJob(w, r)
  PROVE  StagesFit
PROOF BY EndJobEffect DEF StagesFit

LEMMA KeepsLockFits ==
  ASSUME TypeOK, NEW w \in Workers, NEW r \in RawIds, KeepsLock(w, r)
  PROVE  StagesFit /\ leased' = leased
PROOF
<1>1. CASE LlmAnswers(w, r)
  BY <1>1, AnswersFit DEF LlmAnswers, queueVars
<1>2. CASE RouteUnusable(w, r) \/ DeadLetterNetwork(w, r) \/ MarkUnclassified(w, r)
           \/ RouteLowConfidence(w, r) \/ DeadLetterSettle(w, r)
  BY <1>2, EndFits DEF RouteUnusable, DeadLetterNetwork, MarkUnclassified,
                       RouteLowConfidence, DeadLetterSettle, FinishAs
<1>3. CASE Settle(w, r)
  BY <1>3, EndFits DEF Settle, CommitSettle
<1>4. CASE SettleRollsBack(w, r)
  BY <1>4, ThrowFits DEF SettleRollsBack, queueVars
<1>5. CASE SettleAnswerLost(w, r)
  BY <1>5, ThrowFits DEF SettleAnswerLost, CommitSettle
<1>6. CASE StatusWriteFails(w, r)
  BY <1>6, EndFits DEF StatusWriteFails, queueVars
<1> QED BY <1>1, <1>2, <1>3, <1>4, <1>5, <1>6 DEF KeepsLock

LEMMA TimedStepFits ==
  ASSUME TypeOK, TimedStep
  PROVE  StagesFit /\ leased' = leased /\ lockLeft' = lockLeft
PROOF
<1>1. ASSUME NEW r \in RawIds, Receive(r) PROVE StagesFit /\ leased' = leased
  BY <1>1 DEF Receive, StagesFit
<1>2. ASSUME NEW w \in Workers, Refetch(w) PROVE StagesFit /\ leased' = leased
  <2>1. \A r \in RawIds : job[w][r].phase = "claimed" =>
          job'[w][r].phase = "calling" /\ Busy(w, r)
    BY <1>2, RefetchEffect DEF Busy
  <2>2. \A r \in RawIds : job[w][r].phase # "claimed" => job'[w][r] = job[w][r]
    BY <1>2, RefetchEffect
  <2>3. \A v \in Workers \ {w}, r \in RawIds : job'[v][r] = job[v][r]
    BY <1>2, RefetchEffect
  <2>4. Allowed("calling") + Rest("calling") <= Rest("claimed")
    BY TimesAreNat, ClockAssumption DEF Allowed, Rest
  <2>5. StagesFit
    BY <2>1, <2>2, <2>3, <2>4 DEF StagesFit
  <2> QED BY <1>2, <2>5 DEF Refetch, queueVars
<1>3. ASSUME NEW w \in Workers, RefetchFails(w) \/ Crash(w) PROVE StagesFit /\ leased' = leased
  BY <1>3, DropBatchEffect DEF StagesFit, queueVars
<1>4. ASSUME NEW w \in Workers, NEW r \in RawIds, KeepsLock(w, r)
      PROVE  StagesFit /\ leased' = leased
  BY <1>4, KeepsLockFits
<1> QED BY <1>1, <1>2, <1>3, <1>4 DEF TimedStep

-----------------------------------------------------------------------------
(* LeaseAheadOfJob is not inductive alone: a backoff of one worker moves   *)
(* the lock of a row, so nobody else may be busy with it.                  *)
ClockTimes ==
  /\ lockLeft \in [RawIds -> Nat]
  /\ left \in [Workers -> [RawIds -> Nat]]
  /\ waited \in [RawIds -> Nat]

OneOwner == \A r \in RawIds, v, w \in Workers : Busy(v, r) /\ Busy(w, r) => v = w

ClockInv == ClockTimes /\ OneOwner /\ LeaseAheadOfJob

(* On the clock too, every step is one that the queue may take.            *)
LEMMA ClockStepIsQueueStep == ClockNext => [Next]_vars
PROOF
<1>1. ASSUME NEW w \in Workers, TimedClaim(w) PROVE Next
  BY <1>1 DEF TimedClaim, Next
<1>2. ASSUME NEW w \in Workers, NEW r \in RawIds, TimedBackOff(w, r) PROVE Next
  BY <1>2 DEF TimedBackOff, ProcessOne, Next
<1>3. ASSUME TimedStep PROVE Next
  BY <1>3 DEF TimedStep, KeepsLock, ProcessOne, Next
<1>4. ASSUME NEW r \in RawIds, Expire(r) PROVE Next
  BY <1>4 DEF Expire, Next
<1> QED BY <1>1, <1>2, <1>3, <1>4 DEF ClockNext, Tick

LEMMA StagesStarted ==
  ASSUME TypeOK, TypeOK', ClockTimes, StartStages
  PROVE  /\ left' \in [Workers -> [RawIds -> Nat]]
         /\ \A w \in Workers, r \in RawIds :
              left'[w][r] = IF job'[w][r].phase = job[w][r].phase
                            THEN left[w][r] ELSE Allowed(job'[w][r].phase)
PROOF
<1>1. \A w \in Workers, r \in RawIds : job'[w][r].phase \in Phase
  BY DEF TypeOK, Job
<1> QED BY <1>1, StageTimes DEF StartStages, ClockTimes

(* A job that goes on inside its stages stays behind its lease.            *)
LEMMA StageKeepsAhead ==
  ASSUME TypeOK, TypeOK', ClockInv, StartStages, StagesFit,
         NEW w \in Workers, NEW r \in RawIds, Busy(w, r)', lockLeft'[r] = lockLeft[r]
  PROVE  Busy(w, r) /\ left'[w][r] + Rest(job'[w][r].phase) < lockLeft'[r]
PROOF
<1>1. left'[w][r] = IF job'[w][r].phase = job[w][r].phase
                    THEN left[w][r] ELSE Allowed(job'[w][r].phase)
  BY StagesStarted DEF ClockInv
<1>2. left[w][r] \in Nat /\ lockLeft[r] \in Nat
  BY DEF ClockInv, ClockTimes
<1>3. job[w][r].phase \in Phase /\ job'[w][r].phase \in Phase
  BY DEF TypeOK, Job
<1>4. /\ Rest(job[w][r].phase) \in Nat /\ Rest(job'[w][r].phase) \in Nat
      /\ Allowed(job'[w][r].phase) \in Nat
  BY <1>3, StageTimes
<1>5. Busy(w, r)
  BY DEF StagesFit, Busy
<1>6. left[w][r] + Rest(job[w][r].phase) < lockLeft[r]
  BY <1>5 DEF ClockInv, LeaseAheadOfJob
<1>7. CASE job'[w][r].phase = job[w][r].phase
  BY <1>1, <1>5, <1>6, <1>7
<1>8. CASE job'[w][r].phase # job[w][r].phase
  <2>1. Allowed(job'[w][r].phase) + Rest(job'[w][r].phase) <= Rest(job[w][r].phase)
    BY <1>8 DEF StagesFit, Busy
  <2> QED BY <1>1, <1>2, <1>4, <1>5, <1>6, <1>8, <2>1
<1> QED BY <1>7, <1>8

LEMMA ClaimKeepsClockInv ==
  ASSUME LongLease, TypeOK, TypeOK', ClockInv, NEW w \in Workers, TimedClaim(w)
  PROVE  ClockInv'
PROOF
<1> USE DEF ClockInv
<1>1. PICK batch \in SUBSET Candidates :
        /\ leased' = leased \cup batch
        /\ \A r \in RawIds : job'[w][r].phase = IF r \in batch THEN "claimed" ELSE "none"
        /\ \A v \in Workers \ {w}, r \in RawIds : job'[v][r] = job[v][r]
        /\ \A r \in RawIds : ~Busy(w, r)
  BY ClaimEffect DEF TimedClaim
<1>2. \A r \in batch : r \in RawIds /\ r \notin leased
  BY <1>1 DEF Candidates
<1>3. \A r \in batch, v \in Workers : ~Busy(v, r)
  BY <1>2 DEF LeaseAheadOfJob
<1>4. StartStages /\ lockLeft' = [r \in RawIds |-> IF Busy(w, r)' THEN Lease ELSE lockLeft[r]]
  BY DEF TimedClaim
<1>5. ClockTimes'
  BY <1>4, StagesStarted, ClockAssumption DEF ClockTimes, TimedClaim
<1>6. OneOwner'
  BY <1>1, <1>3 DEF OneOwner, Busy
<1>7. ASSUME NEW v \in Workers, NEW r \in RawIds, Busy(v, r)'
      PROVE  r \in leased' /\ left'[v][r] + Rest(job'[v][r].phase) < lockLeft'[r]
  <2>1. CASE v = w
    <3>1. r \in batch /\ job'[w][r].phase = "claimed" /\ job[w][r].phase = "none"
      BY <1>1, <1>7, <2>1 DEF Busy
    <3>2. left'[w][r] = Allowed("claimed") /\ lockLeft'[r] = Lease
      BY <1>4, <1>7, <2>1, <3>1, StagesStarted
    <3> QED BY <1>1, <2>1, <3>1, <3>2, StageTimes DEF LongLease
  <2>2. CASE v # w
    <3>1. job'[v][r] = job[v][r] /\ Busy(v, r)
      BY <1>1, <1>7, <2>2 DEF Busy
    <3>2. r \notin batch
      BY <1>3, <3>1
    <3>3. lockLeft'[r] = lockLeft[r] /\ left'[v][r] = left[v][r]
      BY <1>1, <1>4, <3>1, <3>2, StagesStarted DEF Busy
    <3> QED BY <1>1, <3>1, <3>3 DEF LeaseAheadOfJob
  <2> QED BY <2>1, <2>2
<1>8. LeaseAheadOfJob'
  BY <1>7 DEF LeaseAheadOfJob
<1> QED BY <1>5, <1>6, <1>8

LEMMA BackOffKeepsClockInv ==
  ASSUME TypeOK, TypeOK', ClockInv, NEW w \in Workers, NEW r \in RawIds, TimedBackOff(w, r)
  PROVE  ClockInv'
PROOF
<1> USE DEF ClockInv
<1>1. Busy(w, r) /\ EndJob(w, r) /\ leased' = leased \cup {r} /\ StartStages
  BY DEF TimedBackOff, BackOffNetwork, BackOffSettle, BackOff, Busy
<1>2. PICK delay \in Nat : lockLeft' = [lockLeft EXCEPT ![r] = delay]
  BY DEF TimedBackOff, Delays
<1>3. /\ job'[w][r].phase = "none"
      /\ \A v \in Workers, q \in RawIds : v # w \/ q # r => job'[v][q] = job[v][q]
  BY <1>1, EndJobEffect
<1>4. ClockTimes'
  BY <1>1, <1>2, StagesStarted DEF ClockTimes, TimedBackOff
<1>5. StagesFit
  BY <1>1, EndFits
<1>6. OneOwner'
  BY <1>3 DEF OneOwner, Busy
<1>7. ASSUME NEW v \in Workers, NEW q \in RawIds, Busy(v, q)'
      PROVE  q \in leased' /\ left'[v][q] + Rest(job'[v][q].phase) < lockLeft'[q]
  <2>1. q # r
    BY <1>1, <1>3, <1>7 DEF OneOwner, Busy
  <2>2. lockLeft'[q] = lockLeft[q]
    BY <1>2, <2>1 DEF ClockTimes
  <2>3. Busy(v, q) /\ left'[v][q] + Rest(job'[v][q].phase) < lockLeft'[q]
    BY <1>1, <1>5, <1>7, <2>2, StageKeepsAhead
  <2> QED BY <1>1, <2>3 DEF LeaseAheadOfJob
<1>8. LeaseAheadOfJob'
  BY <1>7 DEF LeaseAheadOfJob
<1> QED BY <1>4, <1>6, <1>8

LEMMA StepKeepsClockInv ==
  ASSUME TypeOK, TypeOK', ClockInv, TimedStep
  PROVE  ClockInv'
PROOF
<1> USE DEF ClockInv
<1>1. StagesFit /\ leased' = leased /\ lockLeft' = lockLeft
  BY TimedStepFits
<1>2. StartStages /\ waited' = waited
  BY DEF TimedStep
<1>3. ClockTimes'
  BY <1>1, <1>2, StagesStarted DEF ClockTimes
<1>4. \A v \in Workers, r \in RawIds : Busy(v, r)' =>
        Busy(v, r) /\ left'[v][r] + Rest(job'[v][r].phase) < lockLeft'[r]
  BY <1>1, <1>2, StageKeepsAhead
<1>5. OneOwner'
  BY <1>4 DEF OneOwner
<1>6. LeaseAheadOfJob'
  BY <1>1, <1>4 DEF LeaseAheadOfJob
<1> QED BY <1>3, <1>5, <1>6

(* The clock runs down both at once.                                       *)
LEMMA TickKeepsClockInv ==
  ASSUME TypeOK, ClockInv, Tick
  PROVE  ClockInv'
PROOF
<1> USE DEF ClockInv
<1>1. /\ job' = job /\ leased' = leased
      /\ \A v \in Workers, r \in RawIds : Busy(v, r)' <=> Busy(v, r)
  BY DEF Tick, vars, Busy
<1>2. /\ \A r \in leased : lockLeft[r] > 0
      /\ \A w \in Workers, r \in RawIds : Busy(w, r) => left[w][r] > 0
      /\ lockLeft' = [r \in RawIds |-> IF r \in leased THEN lockLeft[r] - 1 ELSE lockLeft[r]]
      /\ left' = [w \in Workers |-> [r \in RawIds |->
                    IF Busy(w, r) THEN left[w][r] - 1 ELSE left[w][r]]]
  BY DEF Tick
<1>3. lockLeft' \in [RawIds -> Nat]
  BY <1>2 DEF ClockTimes
<1>4. left' \in [Workers -> [RawIds -> Nat]]
  BY <1>2 DEF ClockTimes
<1>5. waited' \in [RawIds -> Nat]
  BY DEF Tick, ClockTimes
<1>6. OneOwner'
  BY <1>1 DEF OneOwner
<1>7. ASSUME NEW v \in Workers, NEW r \in RawIds, Busy(v, r)'
      PROVE  r \in leased' /\ left'[v][r] + Rest(job'[v][r].phase) < lockLeft'[r]
  <2>1. r \in leased /\ left[v][r] + Rest(job[v][r].phase) < lockLeft[r]
    BY <1>1, <1>7 DEF LeaseAheadOfJob
  <2>2. /\ lockLeft'[r] = lockLeft[r] - 1 /\ left'[v][r] = left[v][r] - 1
        /\ lockLeft[r] \in Nat /\ left[v][r] \in Nat
    BY <1>1, <1>2, <1>7, <2>1 DEF ClockTimes
  <2>3. Rest(job[v][r].phase) \in Nat
    BY StageTimes DEF TypeOK, Job
  <2> QED BY <1>1, <2>1, <2>2, <2>3
<1>8. LeaseAheadOfJob'
  BY <1>7 DEF LeaseAheadOfJob
<1> QED BY <1>3, <1>4, <1>5, <1>6, <1>8 DEF ClockTimes

LEMMA ExpiryKeepsClockInv ==
  ASSUME TypeOK, ClockInv, NEW r \in RawIds, Expire(r)
  PROVE  ClockInv' /\ \A w \in Workers : ~Busy(w, r)
PROOF
<1> USE DEF ClockInv
<1>1. lockLeft[r] = 0 /\ leased' = leased \ {r} /\ job' = job /\ UNCHANGED clockVars
  BY DEF Expire, LockExpires
<1>2. ASSUME NEW w \in Workers, Busy(w, r) PROVE FALSE
  <2>1. left[w][r] + Rest(job[w][r].phase) < 0
    BY <1>1, <1>2 DEF LeaseAheadOfJob
  <2>2. left[w][r] \in Nat /\ Rest(job[w][r].phase) \in Nat
    BY StageTimes DEF TypeOK, Job, ClockTimes
  <2> QED BY <2>1, <2>2
<1> QED BY <1>1, <1>2 DEF clockVars, ClockTimes, OneOwner, LeaseAheadOfJob, Busy

LEMMA ClockInvStep ==
  ASSUME LongLease, TypeOK, TypeOK', ClockInv, [ClockNext]_<<vars, clockVars>>
  PROVE  ClockInv'
PROOF
<1>1. CASE UNCHANGED <<vars, clockVars>>
  BY <1>1 DEF vars, clockVars, ClockInv, ClockTimes, OneOwner, LeaseAheadOfJob, Busy
<1>2. CASE ClockNext
  BY <1>2, ClaimKeepsClockInv, BackOffKeepsClockInv, StepKeepsClockInv, TickKeepsClockInv,
     ExpiryKeepsClockInv DEF ClockNext
<1> QED BY <1>1, <1>2

LEMMA ClockInvInit == ClockInit => TypeOK /\ ClockInv
PROOF
<1> SUFFICES ASSUME ClockInit PROVE TypeOK /\ ClockInv
  OBVIOUS
<1>1. TypeOK
  BY TypeInit DEF ClockInit
<1>2. \A w \in Workers, r \in RawIds : ~Busy(w, r)
  BY NoJobType DEF ClockInit, Init, Busy
<1> QED BY <1>1, <1>2 DEF ClockInit, ClockInv, ClockTimes, OneOwner, LeaseAheadOfJob

LEMMA ClockInvHolds ==
  ASSUME LongLease
  PROVE  ClockSpec => [](TypeOK /\ ClockInv)
PROOF
<1>1. TypeOK /\ [ClockNext]_<<vars, clockVars>> => TypeOK'
  <2>1. [ClockNext]_<<vars, clockVars>> => [Next]_vars
    BY ClockStepIsQueueStep DEF vars
  <2> QED BY <2>1, TypeStep
<1>2. TypeOK /\ ClockInv /\ [ClockNext]_<<vars, clockVars>> => ClockInv'
  BY <1>1, ClockInvStep
<1> QED BY <1>1, <1>2, ClockInvInit, PTL DEF ClockSpec

-----------------------------------------------------------------------------
(* With a lease longer than JobTime, the lease of a row outlasts its job   *)
(* at every moment, and the timers keep their types.                       *)
THEOREM LeasesOutlastJobs ==
  ASSUME LongLease
  PROVE  ClockSpec => [](LeaseAheadOfJob /\ ClockTypeOK)
PROOF
<1>1. TypeOK /\ ClockInv => LeaseAheadOfJob /\ ClockTypeOK
  BY DEF ClockInv, ClockTimes, ClockTypeOK
<1>2. ClockSpec => [](TypeOK /\ ClockInv)
  BY ClockInvHolds
<1> QED BY <1>1, <1>2, PTL

-----------------------------------------------------------------------------
(* The refinement.  Only the guard of LockExpires knows whether leases     *)
(* cover processing; every other action is the same in both queues.        *)
LEMMA SameInit == ClockInit => Leased!Init
PROOF BY DEF ClockInit, Init, Leased!Init, LedgerInit, Leased!LedgerInit, NoJob, Leased!NoJob

LEMMA SameBatchSteps ==
  ASSUME NEW w \in Workers, Claim(w) \/ Refetch(w) \/ RefetchFails(w) \/ Crash(w)
  PROVE  Leased!Claim(w) \/ Leased!Refetch(w) \/ Leased!RefetchFails(w) \/ Leased!Crash(w)
PROOF
<1>1. CASE Claim(w)
  <2>1. Leased!Idle(w)
    BY <1>1 DEF Claim, Idle, Leased!Idle, Busy, Leased!Busy
  <2>2. Candidates = Leased!Candidates
    BY DEF Candidates, Leased!Candidates, Claimable, Leased!Claimable
  <2>3. MayBeLocked(w) = Leased!MayBeLocked(w)
    BY DEF MayBeLocked, Leased!MayBeLocked, Idle, Leased!Idle, Busy, Leased!Busy
  <2>4. \A S : FirstBatch(S) = Leased!FirstBatch(S)
    BY Zenon DEF FirstBatch, Leased!FirstBatch, Cardinality, Leased!Cardinality
  <2>5. NoJob = Leased!NoJob
    BY DEF NoJob, Leased!NoJob
  <2>6. PICK skipped \in SUBSET MayBeLocked(w) :
          LET batch == FirstBatch(Candidates \ skipped) IN
          /\ batch # {}
          /\ status' = [r \in RawIds |-> IF r \in batch THEN "processing" ELSE status[r]]
          /\ attempts' = [r \in RawIds |-> IF r \in batch THEN attempts[r] + 1 ELSE attempts[r]]
          /\ leased' = leased \cup batch
          /\ job' = [job EXCEPT ![w] = [r \in RawIds |-> IF r \in batch
                                          THEN [NoJob EXCEPT !.phase = "claimed"] ELSE NoJob]]
    BY <1>1 DEF Claim
  <2> DEFINE batch == FirstBatch(Candidates \ skipped)
  <2>7. /\ skipped \in SUBSET Leased!MayBeLocked(w)
        /\ batch = Leased!FirstBatch(Leased!Candidates \ skipped)
    BY <2>2, <2>3, <2>4
  <2>8. /\ batch # {}
        /\ status' = [r \in RawIds |-> IF r \in batch THEN "processing" ELSE status[r]]
        /\ attempts' = [r \in RawIds |-> IF r \in batch THEN attempts[r] + 1 ELSE attempts[r]]
        /\ leased' = leased \cup batch
        /\ job' = [job EXCEPT ![w] = [r \in RawIds |-> IF r \in batch
                                         THEN [Leased!NoJob EXCEPT !.phase = "claimed"]
                                         ELSE Leased!NoJob]]
    BY <2>5, <2>6
  <2>9. UNCHANGED <<entityOf, history, current, faults>>
    BY <1>1 DEF Claim
  <2> HIDE DEF batch
  <2> QED BY <2>1, <2>7, <2>8, <2>9, Zenon DEF Leased!Claim
<1>2. CASE Refetch(w)
  BY <1>2 DEF Refetch, Leased!Refetch, queueVars, Leased!queueVars
<1>3. CASE RefetchFails(w)
  BY <1>3 DEF RefetchFails, Leased!RefetchFails, queueVars, Leased!queueVars, Fault, Leased!Fault,
              NoJob, Leased!NoJob
<1>4. CASE Crash(w)
  BY <1>4 DEF Crash, Leased!Crash, queueVars, Leased!queueVars, Fault, Leased!Fault,
              NoJob, Leased!NoJob, Idle, Leased!Idle, Busy, Leased!Busy
<1> QED BY <1>1, <1>2, <1>3, <1>4

LEMMA SameOtherSteps ==
  ASSUME NEW w \in Workers, NEW r \in RawIds,
         ProcessOne(w, r) \/ SettleAnswerLost(w, r) \/ StatusWriteFails(w, r)
  PROVE  Leased!ProcessOne(w, r) \/ Leased!SettleAnswerLost(w, r) \/ Leased!StatusWriteFails(w, r)
PROOF
<1>1. CASE LlmAnswers(w, r)
  BY <1>1 DEF LlmAnswers, Leased!LlmAnswers, Leased!ProcessOne, SetJob, Leased!SetJob,
              queueVars, Leased!queueVars, Answered, Leased!Answered
<1>2. CASE RouteUnusable(w, r) \/ MarkUnclassified(w, r) \/ RouteLowConfidence(w, r)
  BY <1>2 DEF RouteUnusable, Leased!RouteUnusable, MarkUnclassified, Leased!MarkUnclassified,
              RouteLowConfidence, Leased!RouteLowConfidence, FinishAs, Leased!FinishAs,
              EndJob, Leased!EndJob, SetJob, Leased!SetJob, NoJob, Leased!NoJob, Leased!ProcessOne
<1>3. CASE DeadLetterNetwork(w, r) \/ DeadLetterSettle(w, r)
  BY <1>3 DEF DeadLetterNetwork, Leased!DeadLetterNetwork, DeadLetterSettle,
              Leased!DeadLetterSettle, Exhausted, Leased!Exhausted, FinishAs, Leased!FinishAs,
              EndJob, Leased!EndJob, SetJob, Leased!SetJob, NoJob, Leased!NoJob, Leased!ProcessOne
<1>4. CASE BackOffNetwork(w, r) \/ BackOffSettle(w, r)
  BY <1>4 DEF BackOffNetwork, Leased!BackOffNetwork, BackOffSettle, Leased!BackOffSettle,
              Exhausted, Leased!Exhausted, BackOff, Leased!BackOff,
              EndJob, Leased!EndJob, SetJob, Leased!SetJob, NoJob, Leased!NoJob, Leased!ProcessOne
<1>5. CommitSettle(w, r) => Leased!CommitSettle(w, r)
  BY DEF CommitSettle, Leased!CommitSettle, ApplyEvent, Leased!ApplyEvent,
         SkipDuplicate, Leased!SkipDuplicate, RecordEvent, Leased!RecordEvent,
         Recorded, Leased!Recorded, NewRow, Leased!NewRow, Advances, Leased!Advances,
         CurrentRank, Leased!CurrentRank, ledgerVars, Leased!ledgerVars
<1>6. CASE Settle(w, r)
  BY <1>5, <1>6 DEF Settle, Leased!Settle, EndJob, Leased!EndJob, SetJob, Leased!SetJob,
                    NoJob, Leased!NoJob, Leased!ProcessOne
<1>7. CASE SettleRollsBack(w, r)
  BY <1>7 DEF SettleRollsBack, Leased!SettleRollsBack, SettleThrows, Leased!SettleThrows,
              SetJob, Leased!SetJob, queueVars, Leased!queueVars, Leased!ProcessOne
<1>8. CASE SettleAnswerLost(w, r)
  BY <1>5, <1>8 DEF SettleAnswerLost, Leased!SettleAnswerLost, SettleThrows, Leased!SettleThrows,
                    SetJob, Leased!SetJob, Fault, Leased!Fault
<1>9. CASE StatusWriteFails(w, r)
  BY <1>9 DEF StatusWriteFails, Leased!StatusWriteFails, Fault, Leased!Fault, EndJob,
              Leased!EndJob, SetJob, Leased!SetJob, NoJob, Leased!NoJob, queueVars, Leased!queueVars
<1> QED BY <1>1, <1>2, <1>3, <1>4, <1>6, <1>7, <1>8, <1>9 DEF ProcessOne

LEMMA ClockStepIsLeasedStep ==
  ASSUME TypeOK, ClockInv, [ClockNext]_<<vars, clockVars>>
  PROVE  [Leased!Next]_Leased!vars
PROOF
<1>1. CASE UNCHANGED vars
  BY <1>1 DEF vars, Leased!vars
<1>2. ASSUME NEW r \in RawIds, Receive(r) PROVE Leased!Next
  BY <1>2 DEF Receive, Leased!Receive, Leased!Next
<1>3. ASSUME NEW w \in Workers, Claim(w) \/ Refetch(w) \/ RefetchFails(w) \/ Crash(w)
      PROVE  Leased!Next
  BY <1>3, SameBatchSteps DEF Leased!Next
<1>4. ASSUME NEW w \in Workers, NEW r \in RawIds,
             ProcessOne(w, r) \/ SettleAnswerLost(w, r) \/ StatusWriteFails(w, r)
      PROVE  Leased!Next
  BY <1>4, SameOtherSteps DEF Leased!Next
<1>5. ASSUME NEW r \in RawIds, Expire(r) PROVE Leased!Next
  <2>1. \A w \in Workers : ~Leased!Busy(w, r)
    BY <1>5, ExpiryKeepsClockInv DEF Busy, Leased!Busy
  <2>2. Leased!LockExpires(r)
    BY <1>5, <2>1 DEF Expire, LockExpires, Leased!LockExpires
  <2> QED BY <2>2 DEF Leased!Next
<1>6. ASSUME NEW w \in Workers, TimedClaim(w) PROVE Leased!Next
  BY <1>3, <1>6 DEF TimedClaim
<1>7. ASSUME NEW w \in Workers, NEW r \in RawIds, TimedBackOff(w, r) PROVE Leased!Next
  BY <1>4, <1>7 DEF TimedBackOff, ProcessOne
<1>8. CASE TimedStep
  BY <1>2, <1>3, <1>4, <1>8 DEF TimedStep, KeepsLock, ProcessOne
<1>9. CASE Tick
  BY <1>1, <1>9 DEF Tick
<1> QED BY <1>1, <1>5, <1>6, <1>7, <1>8, <1>9 DEF ClockNext

(* With a lease longer than JobTime the clocked queue implements the queue *)
(* in which no job outlives its lease: the condition LeaseCoversProcessing *)
(* of the theorems about that queue is met by settings, not by assumption. *)
THEOREM LongLeasesCover ==
  ASSUME LongLease
  PROVE  ClockSpec => ImplementsLeasedQueue
PROOF
<1>1. ClockSpec => [](TypeOK /\ ClockInv)
  BY ClockInvHolds
<1>2. TypeOK /\ ClockInv /\ [ClockNext]_<<vars, clockVars>> => [Leased!Next]_Leased!vars
  BY ClockStepIsLeasedStep
<1> QED BY <1>1, <1>2, SameInit, PTL DEF ClockSpec, ImplementsLeasedQueue, Leased!Spec

-----------------------------------------------------------------------------
(* Backoffs.  The delay is capped at an hour, which is more than half the  *)
(* base delay only up to the sixth attempt.                                *)
HalfBase(n) == (5 * 4 ^ (n - 1)) \div 2

LEMMA DelaysAreLong ==
  ASSUME NEW n \in 1..6
  PROVE  HalfBase(n) \in Nat /\ \A delay \in Delays(n) : delay \in Nat /\ HalfBase(n) <= delay
PROOF
<1>1. CASE n = 1
  BY <1>1 DEF HalfBase, Delays, Shortest, Capped, Base
<1>2. CASE n = 2
  BY <1>2 DEF HalfBase, Delays, Shortest, Capped, Base
<1>3. CASE n = 3
  BY <1>3 DEF HalfBase, Delays, Shortest, Capped, Base
<1>4. CASE n = 4
  BY <1>4 DEF HalfBase, Delays, Shortest, Capped, Base
<1>5. CASE n = 5
  BY <1>5 DEF HalfBase, Delays, Shortest, Capped, Base
<1>6. CASE n = 6
  BY <1>6 DEF HalfBase, Delays, Shortest, Capped, Base
<1> QED BY <1>1, <1>2, <1>3, <1>4, <1>5, <1>6

(* While a lease covers its job, what the job read is what the row has.    *)
JobAttemptsExact ==
  \A w \in Workers, r \in RawIds :
    job[w][r].phase \notin {"none", "claimed"} => job[w][r].attempts = attempts[r]

(* What a row that was backed off has waited, and what it still must wait. *)
Remaining(r) == IF r \in leased THEN lockLeft[r] ELSE 0
WaitsLong ==
  \A r \in RawIds :
    /\ status[r] = "absent" => attempts[r] = 0
    /\ status[r] = "pending" /\ attempts[r] > 0 =>
         attempts[r] \in 1..6 /\ HalfBase(attempts[r]) <= waited[r] + Remaining(r)

SpacingInv == JobAttemptsExact /\ WaitsLong

(* A step that leaves the locks alone takes no row back to pending.        *)
LEMMA KeepsLockEffect ==
  ASSUME TypeOK, JobAttemptsExact, NEW w \in Workers, NEW r \in RawIds, KeepsLock(w, r)
  PROVE  /\ attempts' = attempts /\ JobAttemptsExact'
         /\ \A q \in RawIds : status'[q] = status[q] \/ status'[q] \in Terminal
PROOF
<1>1. ASSUME EndJob(w, r), attempts' = attempts PROVE JobAttemptsExact'
  BY <1>1, EndJobEffect DEF JobAttemptsExact
<1>2. ASSUME LlmAnswers(w, r) \/ (job[w][r].phase = "settling" /\ SettleThrows(w, r)),
             attempts' = attempts
      PROVE  JobAttemptsExact'
  <2>1. job[w][r].phase \in {"calling", "settling"}
    BY <1>2 DEF LlmAnswers
  <2>2. /\ job'[w][r].attempts = job[w][r].attempts
        /\ \A v \in Workers, q \in RawIds : v # w \/ q # r => job'[v][q] = job[v][q]
    BY <1>2, ContinueEffect
  <2> QED BY <1>2, <2>1, <2>2 DEF JobAttemptsExact
<1>3. ASSUME NEW s \in Terminal, status' = [status EXCEPT ![r] = s]
      PROVE  \A q \in RawIds : status'[q] = status[q] \/ status'[q] \in Terminal
  BY <1>3 DEF TypeOK
<1>4. {"needs_review", "dead", "unclassified", "normalized"} \subseteq Terminal
  BY DEF Terminal
<1>5. CASE RouteUnusable(w, r) \/ DeadLetterNetwork(w, r) \/ MarkUnclassified(w, r)
           \/ RouteLowConfidence(w, r) \/ DeadLetterSettle(w, r)
  BY <1>1, <1>3, <1>4, <1>5 DEF RouteUnusable, DeadLetterNetwork, MarkUnclassified,
                                RouteLowConfidence, DeadLetterSettle, FinishAs
<1>6. CASE LlmAnswers(w, r) \/ SettleRollsBack(w, r)
  BY <1>2, <1>6 DEF LlmAnswers, SettleRollsBack, queueVars
<1>7. CASE Settle(w, r)
  BY <1>1, <1>3, <1>4, <1>7 DEF Settle, CommitSettle
<1>8. CASE SettleAnswerLost(w, r)
  BY <1>2, <1>3, <1>4, <1>8 DEF SettleAnswerLost, CommitSettle
<1>9. CASE StatusWriteFails(w, r)
  BY <1>1, <1>9 DEF StatusWriteFails, queueVars
<1> QED BY <1>5, <1>6, <1>7, <1>8, <1>9 DEF KeepsLock

LEMMA TimedStepEffect ==
  ASSUME TypeOK, JobAttemptsExact, TimedStep
  PROVE  /\ attempts' = attempts /\ JobAttemptsExact'
         /\ \A q \in RawIds : \/ status'[q] = status[q] \/ status'[q] \in Terminal
                              \/ status[q] = "absent" /\ status'[q] = "pending"
PROOF
<1>1. ASSUME NEW r \in RawIds, Receive(r)
      PROVE  /\ attempts' = attempts /\ JobAttemptsExact'
             /\ \A q \in RawIds : \/ status'[q] = status[q]
                                  \/ status[q] = "absent" /\ status'[q] = "pending"
  BY <1>1 DEF Receive, JobAttemptsExact, TypeOK
<1>2. ASSUME NEW w \in Workers, Refetch(w)
      PROVE  attempts' = attempts /\ JobAttemptsExact' /\ status' = status
  BY <1>2, RefetchEffect DEF JobAttemptsExact, queueVars
<1>3. ASSUME NEW w \in Workers, RefetchFails(w) \/ Crash(w)
      PROVE  attempts' = attempts /\ JobAttemptsExact' /\ status' = status
  BY <1>3, DropBatchEffect DEF JobAttemptsExact, queueVars
<1> QED BY <1>1, <1>2, <1>3, KeepsLockEffect DEF TimedStep

LEMMA ClaimKeepsSpacing ==
  ASSUME TypeOK, ClockInv, SpacingInv, NEW w \in Workers, TimedClaim(w)
  PROVE  /\ SpacingInv'
         /\ \A r \in RawIds : status[r] = "pending" /\ status'[r] = "processing" =>
              r \notin leased
PROOF
<1>1. PICK batch \in SUBSET Candidates :
        /\ status' = [r \in RawIds |-> IF r \in batch THEN "processing" ELSE status[r]]
        /\ attempts' = [r \in RawIds |-> IF r \in batch THEN attempts[r] + 1 ELSE attempts[r]]
        /\ leased' = leased \cup batch
        /\ \A r \in RawIds : job'[w][r].phase = IF r \in batch THEN "claimed" ELSE "none"
        /\ \A v \in Workers \ {w}, r \in RawIds : job'[v][r] = job[v][r]
        /\ \A r \in RawIds : ~Busy(w, r)
  BY ClaimEffect DEF TimedClaim
<1>2. \A r \in batch : r \in RawIds /\ r \notin leased
  BY <1>1 DEF Candidates
<1>3. \A r \in batch, v \in Workers : ~Busy(v, r)
  BY <1>2 DEF ClockInv, LeaseAheadOfJob
<1>4. JobAttemptsExact'
  BY <1>1, <1>2, <1>3 DEF SpacingInv, JobAttemptsExact, Busy
<1>5. \A r \in RawIds \ batch : lockLeft'[r] = lockLeft[r] /\ waited'[r] = waited[r]
  <2>1. ASSUME NEW r \in RawIds \ batch PROVE ~Busy(w, r)'
    BY <1>1 DEF Busy
  <2> QED BY <2>1 DEF TimedClaim
<1>6. WaitsLong'
  BY <1>1, <1>5 DEF SpacingInv, WaitsLong, Remaining
<1> QED BY <1>1, <1>2, <1>4, <1>6 DEF SpacingInv

LEMMA BackOffKeepsSpacing ==
  ASSUME MaxAttempts <= 7, TypeOK, ClockInv, SpacingInv,
         NEW w \in Workers, NEW r \in RawIds, TimedBackOff(w, r)
  PROVE  SpacingInv' /\ \A q \in RawIds : status[q] = "pending" => status'[q] = "pending"
PROOF
<1>1. /\ EndJob(w, r) /\ leased' = leased \cup {r} /\ attempts' = attempts
      /\ status' = [status EXCEPT ![r] = "pending"]
      /\ job[w][r].phase \in {"network", "settle_failed"} /\ ~Exhausted(w, r)
  BY DEF TimedBackOff, BackOffNetwork, BackOffSettle, BackOff
<1>2. job[w][r].attempts = attempts[r]
  BY <1>1 DEF SpacingInv, JobAttemptsExact
<1>3. attempts[r] \in 0..6
  <2>1. attempts[r] \in Nat /\ MaxAttempts \in Nat
    BY QueueAssumption DEF TypeOK
  <2>2. ~(attempts[r] >= MaxAttempts)
    BY <1>1, <1>2 DEF Exhausted
  <2> QED BY <2>1, <2>2
<1>4. PICK delay \in Delays(attempts[r]) : lockLeft' = [lockLeft EXCEPT ![r] = delay]
  BY <1>2 DEF TimedBackOff
<1>5. JobAttemptsExact'
  BY <1>1, EndJobEffect DEF SpacingInv, JobAttemptsExact
<1>6. ASSUME attempts[r] > 0
      PROVE  attempts[r] \in 1..6 /\ HalfBase(attempts[r]) <= waited'[r] + Remaining(r)'
  <2>1. attempts[r] \in 1..6
    BY <1>3, <1>6
  <2>2. waited'[r] = 0 /\ Remaining(r)' = delay
    BY <1>1, <1>4 DEF TimedBackOff, Remaining, ClockInv, ClockTimes
  <2> QED BY <1>4, <2>1, <2>2, DelaysAreLong
<1>7. \A q \in RawIds \ {r} :
        status'[q] = status[q] /\ waited'[q] = waited[q] /\ Remaining(q)' = Remaining(q)
  BY <1>1, <1>4 DEF TimedBackOff, Remaining, ClockInv, ClockTimes, TypeOK
<1>8. status'[r] = "pending"
  BY <1>1 DEF TypeOK
<1>9. WaitsLong'
  BY <1>1, <1>6, <1>7, <1>8 DEF SpacingInv, WaitsLong
<1> QED BY <1>5, <1>7, <1>8, <1>9 DEF SpacingInv

(* A second off the lock is a second waited.                               *)
LEMMA TickKeepsSpacing ==
  ASSUME TypeOK, ClockInv, SpacingInv, Tick
  PROVE  SpacingInv'
PROOF
<1>1. status' = status /\ attempts' = attempts /\ leased' = leased /\ job' = job
  BY DEF Tick, vars
<1>2. ASSUME NEW r \in RawIds, status[r] = "pending"
      PROVE  waited'[r] + Remaining(r)' = waited[r] + Remaining(r)
  BY <1>1, <1>2 DEF Tick, Remaining, ClockInv, ClockTimes
<1> QED BY <1>1, <1>2 DEF SpacingInv, JobAttemptsExact, WaitsLong

LEMMA ExpiryKeepsSpacing ==
  ASSUME SpacingInv, NEW r \in RawIds, Expire(r)
  PROVE  SpacingInv'
PROOF
<1>1. /\ lockLeft[r] = 0 /\ leased' = leased \ {r}
      /\ UNCHANGED <<status, attempts, job, lockLeft, waited>>
  BY DEF Expire, LockExpires, clockVars
<1>2. \A q \in RawIds : Remaining(q)' = Remaining(q)
  BY <1>1 DEF Remaining
<1> QED BY <1>1, <1>2 DEF SpacingInv, JobAttemptsExact, WaitsLong

LEMMA SpacingStep ==
  ASSUME MaxAttempts <= 7, TypeOK, ClockInv, SpacingInv, [ClockNext]_<<vars, clockVars>>
  PROVE  /\ SpacingInv'
         /\ \A r \in RawIds : status[r] = "pending" /\ status'[r] = "processing" =>
              r \notin leased
PROOF
<1>1. CASE UNCHANGED <<vars, clockVars>>
  BY <1>1 DEF vars, clockVars, SpacingInv, JobAttemptsExact, WaitsLong, Remaining
<1>2. CASE TimedStep
  <2>1. /\ attempts' = attempts /\ JobAttemptsExact'
        /\ \A q \in RawIds : \/ status'[q] = status[q] \/ status'[q] \in Terminal
                             \/ status[q] = "absent" /\ status'[q] = "pending"
    BY <1>2, TimedStepEffect DEF SpacingInv
  <2>2. \A q \in RawIds : waited'[q] = waited[q] /\ Remaining(q)' = Remaining(q)
    BY <1>2, TimedStepFits DEF TimedStep, Remaining
  <2>3. "pending" \notin Terminal /\ "absent" \notin Terminal /\ "processing" \notin Terminal
    BY DEF Terminal
  <2> QED BY <2>1, <2>2, <2>3 DEF SpacingInv, WaitsLong
<1>3. ASSUME NEW r \in RawIds, Expire(r) PROVE status' = status
  BY <1>3 DEF Expire, LockExpires
<1>4. CASE Tick
  BY <1>4, TickKeepsSpacing DEF Tick, vars
<1> QED BY <1>1, <1>2, <1>3, <1>4, ClaimKeepsSpacing, BackOffKeepsSpacing, ExpiryKeepsSpacing
        DEF ClockNext

(* With a lease longer than JobTime, a failed attempt is followed by the   *)
(* next after half its base delay at the earliest, as long as the limit on *)
(* attempts (5 by default) is no more than 7: the cap of an hour is less   *)
(* than half the base delay of the seventh attempt.                        *)
THEOREM RetriesStaySpaced ==
  ASSUME LongLease, MaxAttempts <= 7
  PROVE  ClockSpec => RetriesAreSpaced
PROOF
<1>1. ClockSpec => [](TypeOK /\ ClockInv)
  BY ClockInvHolds
<1>2. ClockInit => SpacingInv
  BY NoJobType DEF ClockInit, Init, SpacingInv, JobAttemptsExact, WaitsLong
<1>3. TypeOK /\ ClockInv /\ SpacingInv /\ [ClockNext]_<<vars, clockVars>> => SpacingInv'
  BY SpacingStep
<1>4. TypeOK /\ ClockInv /\ SpacingInv /\ [ClockNext]_<<vars, clockVars>> =>
        [\A r \in RawIds :
           status[r] = "pending" /\ status'[r] = "processing" /\ attempts[r] > 0
             => waited[r] >= (5 * 4 ^ (attempts[r] - 1)) \div 2]_vars
  <2> SUFFICES ASSUME TypeOK, ClockInv, SpacingInv, [ClockNext]_<<vars, clockVars>>,
                      NEW r \in RawIds, status[r] = "pending", status'[r] = "processing",
                      attempts[r] > 0
               PROVE  waited[r] >= HalfBase(attempts[r])
    BY DEF HalfBase
  <2>1. r \notin leased
    BY SpacingStep
  <2>2. HalfBase(attempts[r]) <= waited[r] + 0 /\ attempts[r] \in 1..6
    BY <2>1 DEF SpacingInv, WaitsLong, Remaining
  <2>3. waited[r] \in Nat /\ HalfBase(attempts[r]) \in Nat
    BY <2>2, DelaysAreLong DEF ClockInv, ClockTimes
  <2> QED BY <2>2, <2>3
<1> QED BY <1>1, <1>2, <1>3, <1>4, PTL DEF ClockSpec, RetriesAreSpaced

-----------------------------------------------------------------------------
(* What the settings buy: the guarantees of the queue that need leases to  *)
(* hold, on the clock, where a lease may end at any time.                  *)
LEMMA NoLeaseIsLostInTime ==
  ASSUME TypeOK, ClockInv, [ClockNext]_<<vars, clockVars>>
  PROVE  NoLeaseLost
PROOF
<1>1. ASSUME NEW r \in RawIds, Expire(r) PROVE NoLeaseLost
  BY <1>1, ExpiryKeepsClockInv DEF Expire, LockExpires, NoLeaseLost
<1>2. ASSUME NEW w \in Workers, TimedClaim(w) PROVE leased \subseteq leased'
  BY <1>2 DEF TimedClaim, Claim
<1>3. ASSUME NEW w \in Workers, NEW r \in RawIds, TimedBackOff(w, r)
      PROVE  leased \subseteq leased'
  BY <1>3 DEF TimedBackOff, BackOffNetwork, BackOffSettle, BackOff
<1>4. ASSUME TimedStep PROVE leased \subseteq leased'
  BY <1>4, TimedStepFits
<1>5. ASSUME Tick \/ UNCHANGED vars PROVE leased \subseteq leased'
  BY <1>5 DEF Tick, vars
<1>6. CASE leased \subseteq leased'
  BY <1>6 DEF NoLeaseLost
<1> QED BY <1>1, <1>2, <1>3, <1>4, <1>5, <1>6 DEF ClockNext, vars

LEMMA ClockLeaseInv ==
  ASSUME LongLease, CommitAnswerReliable
  PROVE  ClockSpec => []LeaseInv
PROOF
<1>1. ClockInit => LeaseInv
  BY LeaseInvInit DEF ClockInit
<1>2. TypeOK /\ ClockInv /\ LeaseInv /\ [ClockNext]_<<vars, clockVars>> => LeaseInv'
  <2> SUFFICES ASSUME TypeOK, ClockInv, LeaseInv, [ClockNext]_<<vars, clockVars>>
               PROVE  LeaseInv'
    OBVIOUS
  <2>1. [Next]_vars
    BY ClockStepIsQueueStep DEF vars
  <2> QED BY <2>1, NoLeaseIsLostInTime, LeaseStep
<1> QED BY <1>1, <1>2, ClockInvHolds, PTL DEF ClockSpec

(* With a lease longer than JobTime, whatever the workers and the SDK's    *)
(* retries do: a webhook is processed by one worker at a time, its data    *)
(* and its status are written together, and it is in one entity at most.   *)
THEOREM LongLeasesKeepApart ==
  ASSUME LongLease, CommitAnswerReliable
  PROVE  ClockSpec => [](ExclusiveProcessing /\ SettleAtomic /\ AppliedAtMostOnce)
PROOF
<1>1. LeaseInv => ExclusiveProcessing /\ SettleAtomic /\ AppliedAtMostOnce
  BY DEF LeaseInv
<1>2. ClockSpec => []LeaseInv
  BY ClockLeaseInv
<1> QED BY <1>1, <1>2, PTL

(* With these settings a settled webhook is never taken up again.          *)
THEOREM LongLeasesSettleForGood ==
  ASSUME LongLease, CommitAnswerReliable
  PROVE  ClockSpec => SettledIsFinal
PROOF
<1>1. TypeOK /\ ClockInv /\ LeaseInv /\ [ClockNext]_<<vars, clockVars>>
        => [\A r \in RawIds : status[r] \in Terminal => status'[r] = status[r]]_vars
  <2> SUFFICES ASSUME TypeOK, LeaseInv, [ClockNext]_<<vars, clockVars>>,
                      NEW r \in RawIds, status[r] \in Terminal
               PROVE  status'[r] = status[r]
    OBVIOUS
  <2>1. [Next]_vars
    BY ClockStepIsQueueStep DEF vars
  <2> QED BY <2>1, FinalStep DEF LeaseInv
<1>2. ClockSpec => []LeaseInv
  BY ClockLeaseInv
<1> QED BY <1>1, <1>2, ClockInvHolds, PTL DEF ClockSpec, SettledIsFinal

(* And it is attempted maxAttempts times, and once more for each fault.    *)
THEOREM LongLeasesKeepBudget ==
  ASSUME LongLease, CommitAnswerReliable, MaxAttempts >= 1
  PROVE  ClockSpec => []AttemptsWithinBudget
PROOF
<1>1. ClockInit => BudgetInv
  BY BudgetInvInit DEF ClockInit
<1>2. TypeOK /\ ClockInv /\ LeaseInv /\ BudgetInv /\ [ClockNext]_<<vars, clockVars>>
        => BudgetInv'
  <2> SUFFICES ASSUME TypeOK, LeaseInv, BudgetInv, [ClockNext]_<<vars, clockVars>>
               PROVE  BudgetInv'
    OBVIOUS
  <2>1. [Next]_vars
    BY ClockStepIsQueueStep DEF vars
  <2> QED BY <2>1, BudgetStep DEF LeaseInv
<1>3. BudgetInv => AttemptsWithinBudget
  BY DEF BudgetInv
<1>4. ClockSpec => []LeaseInv
  BY ClockLeaseInv
<1> QED BY <1>1, <1>2, <1>3, <1>4, ClockInvHolds, PTL DEF ClockSpec
=============================================================================
