------------------------ MODULE WebhookQueue_proofs ------------------------
(***************************************************************************)
(* Theorems about the queue, for any number of rows, workers, entities,    *)
(* attempts and faults, and for any size of batch.                         *)
(***************************************************************************)
EXTENDS WebhookQueue, EntityLedger_proofs, FiniteSetTheorems

-----------------------------------------------------------------------------
(* Types.                                                                  *)

LEMMA NoJobType == NoJob \in Job /\ NoJob.phase = "none"
PROOF BY DEF NoJob, Job, Phase

(* Writing one job of one worker leaves the other jobs alone.              *)
LEMMA SetJobEffect ==
  ASSUME TypeOK, NEW w \in Workers, NEW r \in RawIds, NEW j \in Job, SetJob(w, r, j)
  PROVE  /\ job' \in [Workers -> [RawIds -> Job]]
         /\ job'[w][r] = j
         /\ \A v \in Workers, q \in RawIds : v # w \/ q # r => job'[v][q] = job[v][q]
PROOF BY DEF TypeOK, SetJob

(* A settle transaction does to the entities what the ledger allows.       *)
LEMMA CommitIsLedgerStep ==
  ASSUME TypeOK, NEW w \in Workers, NEW r \in RawIds,
         job[w][r].phase = "settling", CommitSettle(w, r)
  PROVE  /\ job[w][r].event.entity \in Entities
         /\ ApplyEvent(job[w][r].event.entity, r, job[w][r].event.state)
         /\ LedgerNext
PROOF
<1>1. job[w][r].event \in Events
  BY DEF TypeOK
<1>2. job[w][r].event.entity \in Entities /\ job[w][r].event.state \in States
  BY <1>1, QueueAssumption
<1> QED BY <1>2 DEF CommitSettle, LedgerNext

(* No other step touches the entities or says which one a row is about.    *)
LEMMA OnlySettlesWrite ==
  ASSUME [Next]_vars
  PROVE  \/ UNCHANGED <<history, current, entityOf>>
         \/ \E w \in Workers, r \in RawIds : job[w][r].phase = "settling" /\ CommitSettle(w, r)
PROOF
<1>1. CASE UNCHANGED vars
  BY <1>1 DEF vars
<1>2. ASSUME NEW r \in RawIds, Receive(r) \/ LockExpires(r)
      PROVE  UNCHANGED <<history, current, entityOf>>
  BY <1>2 DEF Receive, LockExpires
<1>3. ASSUME NEW w \in Workers, Claim(w) \/ Refetch(w) \/ RefetchFails(w) \/ Crash(w)
      PROVE  UNCHANGED <<history, current, entityOf>>
  BY <1>3 DEF Claim, Refetch, RefetchFails, Crash, queueVars
<1>4. ASSUME NEW w \in Workers, NEW r \in RawIds,
             ProcessOne(w, r) \/ SettleAnswerLost(w, r) \/ StatusWriteFails(w, r)
      PROVE  \/ UNCHANGED <<history, current, entityOf>>
             \/ job[w][r].phase = "settling" /\ CommitSettle(w, r)
  <2>1. CASE Settle(w, r) \/ SettleAnswerLost(w, r)
    BY <2>1 DEF Settle, SettleAnswerLost
  <2>2. CASE LlmAnswers(w, r) \/ SettleRollsBack(w, r) \/ StatusWriteFails(w, r)
    BY <2>2 DEF LlmAnswers, SettleRollsBack, StatusWriteFails, queueVars
  <2>3. CASE \/ RouteUnusable(w, r) \/ DeadLetterNetwork(w, r) \/ MarkUnclassified(w, r)
             \/ RouteLowConfidence(w, r) \/ DeadLetterSettle(w, r)
    BY <2>3 DEF RouteUnusable, DeadLetterNetwork, MarkUnclassified, RouteLowConfidence,
                DeadLetterSettle, FinishAs
  <2>4. CASE BackOffNetwork(w, r) \/ BackOffSettle(w, r)
    BY <2>4 DEF BackOffNetwork, BackOffSettle, BackOff
  <2> QED BY <1>4, <2>1, <2>2, <2>3, <2>4 DEF ProcessOne
<1> QED BY <1>1, <1>2, <1>3, <1>4 DEF Next

LEMMA LedgerSimulation == TypeOK /\ [Next]_vars => [LedgerNext]_ledgerVars
PROOF BY OnlySettlesWrite, CommitIsLedgerStep DEF ledgerVars

(* The type invariant without the ledger's part of it.                     *)
QueueTypeOK ==
  /\ status \in [RawIds -> Status]
  /\ attempts \in [RawIds -> Nat]
  /\ leased \subseteq RawIds
  /\ entityOf \in [RawIds -> Entities \cup {NoEntity}]
  /\ faults \in 0..MaxFaults

JobsTypeOK ==
  /\ job \in [Workers -> [RawIds -> Job]]
  /\ \A w \in Workers, r \in RawIds :
       job[w][r].phase = "settling" => job[w][r].event \in Events

LEMMA TypeParts == TypeOK <=> QueueTypeOK /\ JobsTypeOK /\ LedgerTypeOK
PROOF BY DEF TypeOK, QueueTypeOK, JobsTypeOK

LEMMA StatusIsStatus == Terminal \cup Claimable \subseteq Status
PROOF BY DEF Status

LEMMA FaultType == QueueTypeOK /\ Fault => faults' \in 0..MaxFaults /\ faults' = faults + 1
PROOF BY QueueAssumption DEF QueueTypeOK, Fault

LEMMA SetJobType ==
  ASSUME TypeOK, NEW w \in Workers, NEW r \in RawIds, NEW j \in Job,
         j.phase = "settling" => j.event \in Events, SetJob(w, r, j)
  PROVE  JobsTypeOK'
PROOF
<1>1. /\ job' \in [Workers -> [RawIds -> Job]]
      /\ job'[w][r] = j
      /\ \A v \in Workers, q \in RawIds : v # w \/ q # r => job'[v][q] = job[v][q]
  BY SetJobEffect
<1>2. ASSUME NEW v \in Workers, NEW q \in RawIds, job'[v][q].phase = "settling"
      PROVE  job'[v][q].event \in Events
  <2>1. CASE v = w /\ q = r
    BY <1>1, <1>2, <2>1
  <2>2. CASE v # w \/ q # r
    BY <1>1, <1>2, <2>2 DEF TypeOK
  <2> QED BY <2>1, <2>2
<1> QED BY <1>1, <1>2 DEF JobsTypeOK

LEMMA EndJobType ==
  ASSUME TypeOK, NEW w \in Workers, NEW r \in RawIds, EndJob(w, r)
  PROVE  JobsTypeOK'
PROOF
<1>1. SetJob(w, r, NoJob) BY DEF EndJob
<1> QED BY <1>1, SetJobType, NoJobType, SMT

(* A worker that gives up or starts a batch writes all of its jobs.        *)
LEMMA BatchJobsType ==
  ASSUME TypeOK, NEW w \in Workers, NEW f \in [RawIds -> Job],
         \A r \in RawIds : f[r].phase = "settling" => f[r].event \in Events,
         job' = [job EXCEPT ![w] = f]
  PROVE  /\ JobsTypeOK'
         /\ job'[w] = f
         /\ \A v \in Workers \ {w} : job'[v] = job[v]
PROOF BY DEF TypeOK, JobsTypeOK

-----------------------------------------------------------------------------
LEMMA FinishAsType ==
  ASSUME TypeOK, NEW w \in Workers, NEW r \in RawIds, NEW s \in Terminal, FinishAs(w, r, s)
  PROVE  QueueTypeOK' /\ JobsTypeOK'
PROOF BY EndJobType, StatusIsStatus DEF FinishAs, TypeOK, QueueTypeOK

LEMMA BackOffType ==
  ASSUME TypeOK, NEW w \in Workers, NEW r \in RawIds, BackOff(w, r)
  PROVE  QueueTypeOK' /\ JobsTypeOK'
PROOF BY EndJobType, StatusIsStatus DEF BackOff, TypeOK, QueueTypeOK, Claimable

LEMMA CommitSettleType ==
  ASSUME TypeOK, NEW w \in Workers, NEW r \in RawIds, job[w][r].phase = "settling",
         CommitSettle(w, r), faults' \in 0..MaxFaults
  PROVE  QueueTypeOK'
PROOF
<1>1. job[w][r].event.entity \in Entities
  BY CommitIsLedgerStep
<1> QED BY <1>1, StatusIsStatus DEF CommitSettle, TypeOK, QueueTypeOK, Terminal

LEMMA SettleThrowsType ==
  ASSUME TypeOK, NEW w \in Workers, NEW r \in RawIds, SettleThrows(w, r)
  PROVE  JobsTypeOK'
PROOF
<1> DEFINE j == [job[w][r] EXCEPT !.phase = "settle_failed", !.event = NoEvent]
<1>1. job[w][r] \in Job
  BY DEF TypeOK
<1>2. j \in Job /\ j.phase = "settle_failed"
  BY <1>1 DEF Job, Phase
<1>3. SetJob(w, r, j)
  BY DEF SettleThrows
<1> HIDE DEF j
<1> QED BY <1>2, <1>3, SetJobType

-----------------------------------------------------------------------------
(* One case per action: the rows, the faults and the jobs keep their types;*)
(* that the entities do follows from LedgerSimulation.                     *)
LEMMA ClaimType ==
  ASSUME TypeOK, NEW w \in Workers, Claim(w)
  PROVE  QueueTypeOK' /\ JobsTypeOK'
PROOF
<1>1. PICK skipped \in SUBSET MayBeLocked(w) :
        LET batch == FirstBatch(Candidates \ skipped) IN
        /\ status' = [r \in RawIds |-> IF r \in batch THEN "processing" ELSE status[r]]
        /\ attempts' = [r \in RawIds |-> IF r \in batch THEN attempts[r] + 1 ELSE attempts[r]]
        /\ leased' = leased \cup batch
        /\ job' = [job EXCEPT ![w] = [r \in RawIds |-> IF r \in batch
                                        THEN [NoJob EXCEPT !.phase = "claimed"] ELSE NoJob]]
  BY DEF Claim
<1> DEFINE batch == FirstBatch(Candidates \ skipped)
<1> DEFINE f == [r \in RawIds |-> IF r \in batch THEN [NoJob EXCEPT !.phase = "claimed"] ELSE NoJob]
<1>2. batch \subseteq RawIds
  BY DEF FirstBatch, Candidates
<1>3. /\ [NoJob EXCEPT !.phase = "claimed"] \in Job
      /\ [NoJob EXCEPT !.phase = "claimed"].phase = "claimed"
  BY DEF NoJob, Job, Phase
<1>4. f \in [RawIds -> Job] /\ \A r \in RawIds : f[r].phase # "settling"
  BY <1>3, NoJobType
<1>5. job' = [job EXCEPT ![w] = f]
  BY <1>1
<1>6. JobsTypeOK'
  <2> HIDE DEF f
  <2> QED BY <1>4, <1>5, BatchJobsType
<1>7. QueueTypeOK'
  <2>1. status' \in [RawIds -> Status]
    BY <1>1, StatusIsStatus DEF TypeOK, Claimable
  <2>2. attempts' \in [RawIds -> Nat]
    BY <1>1 DEF TypeOK
  <2>3. leased' \subseteq RawIds
    BY <1>1, <1>2 DEF TypeOK
  <2> QED BY <2>1, <2>2, <2>3 DEF TypeOK, QueueTypeOK, Claim
<1> QED BY <1>6, <1>7

LEMMA RefetchType ==
  ASSUME TypeOK, NEW w \in Workers, Refetch(w)
  PROVE  QueueTypeOK' /\ JobsTypeOK'
PROOF
<1> DEFINE f == [r \in RawIds |-> IF job[w][r].phase = "claimed"
                                  THEN [phase |-> "calling", attempts |-> attempts[r],
                                        event |-> NoEvent]
                                  ELSE job[w][r]]
<1>1. f \in [RawIds -> Job]
  BY DEF TypeOK, Job, Phase
<1>2. \A r \in RawIds : f[r].phase = "settling" => f[r].event \in Events
  BY DEF TypeOK
<1>3. job' = [job EXCEPT ![w] = f]
  BY DEF Refetch
<1>4. QueueTypeOK'
  BY DEF Refetch, queueVars, TypeOK, QueueTypeOK
<1> HIDE DEF f
<1> QED BY <1>1, <1>2, <1>3, <1>4, BatchJobsType

LEMMA DropBatchType ==
  ASSUME TypeOK, NEW w \in Workers, RefetchFails(w) \/ Crash(w)
  PROVE  QueueTypeOK' /\ JobsTypeOK'
PROOF
<1> DEFINE f == [r \in RawIds |-> NoJob]
<1>1. f \in [RawIds -> Job] /\ \A r \in RawIds : f[r].phase # "settling"
  BY NoJobType
<1>2. job' = [job EXCEPT ![w] = f] /\ UNCHANGED queueVars /\ Fault
  BY DEF RefetchFails, Crash
<1>3. QueueTypeOK'
  BY <1>2, FaultType, TypeParts DEF queueVars, QueueTypeOK
<1> HIDE DEF f
<1> QED BY <1>1, <1>2, <1>3, BatchJobsType

LEMMA LlmAnswersType ==
  ASSUME TypeOK, NEW w \in Workers, NEW r \in RawIds, LlmAnswers(w, r)
  PROVE  QueueTypeOK' /\ JobsTypeOK'
PROOF
<1>1. QueueTypeOK'
  BY DEF LlmAnswers, queueVars, TypeOK, QueueTypeOK
<1>2. job[w][r] \in Job
  BY DEF TypeOK
<1>3. ASSUME NEW p \in Answered \ {"settling"}, SetJob(w, r, [job[w][r] EXCEPT !.phase = p])
      PROVE  JobsTypeOK'
  <2> DEFINE j == [job[w][r] EXCEPT !.phase = p]
  <2>1. j \in Job /\ j.phase # "settling"
    BY <1>2 DEF Job, Phase
  <2>2. SetJob(w, r, j)
    BY <1>3
  <2> HIDE DEF j
  <2> QED BY <2>1, <2>2, SetJobType
<1>4. ASSUME NEW ev \in Events,
             SetJob(w, r, [job[w][r] EXCEPT !.phase = "settling", !.event = ev])
      PROVE  JobsTypeOK'
  <2> DEFINE j == [job[w][r] EXCEPT !.phase = "settling", !.event = ev]
  <2>1. j \in Job /\ j.event \in Events
    BY <1>2 DEF Job, Phase, Answered
  <2>2. SetJob(w, r, j)
    BY <1>4
  <2> HIDE DEF j
  <2> QED BY <2>1, <2>2, SetJobType
<1> QED BY <1>1, <1>3, <1>4 DEF LlmAnswers

LEMMA JobStepType ==
  ASSUME TypeOK, NEW w \in Workers, NEW r \in RawIds,
         ProcessOne(w, r) \/ SettleAnswerLost(w, r) \/ StatusWriteFails(w, r)
  PROVE  QueueTypeOK' /\ JobsTypeOK'
PROOF
<1>1. CASE LlmAnswers(w, r)
  BY <1>1, LlmAnswersType
<1>2. CASE RouteUnusable(w, r) \/ RouteLowConfidence(w, r)
  BY <1>2, FinishAsType DEF RouteUnusable, RouteLowConfidence, Terminal
<1>3. CASE DeadLetterNetwork(w, r) \/ DeadLetterSettle(w, r)
  BY <1>3, FinishAsType DEF DeadLetterNetwork, DeadLetterSettle, Terminal
<1>4. CASE MarkUnclassified(w, r)
  BY <1>4, FinishAsType DEF MarkUnclassified, Terminal
<1>5. CASE BackOffNetwork(w, r) \/ BackOffSettle(w, r)
  BY <1>5, BackOffType DEF BackOffNetwork, BackOffSettle
<1>6. CASE Settle(w, r)
  BY <1>6, CommitSettleType, EndJobType DEF Settle, TypeOK
<1>7. CASE SettleRollsBack(w, r)
  BY <1>7, SettleThrowsType DEF SettleRollsBack, queueVars, TypeOK, QueueTypeOK
<1>8. CASE SettleAnswerLost(w, r)
  BY <1>8, CommitSettleType, SettleThrowsType, FaultType, TypeParts DEF SettleAnswerLost
<1>9. CASE StatusWriteFails(w, r)
  <2>1. QueueTypeOK'
    BY <1>9, FaultType, TypeParts DEF StatusWriteFails, queueVars, QueueTypeOK
  <2> QED BY <1>9, <2>1, EndJobType DEF StatusWriteFails
<1> QED BY <1>1, <1>2, <1>3, <1>4, <1>5, <1>6, <1>7, <1>8, <1>9 DEF ProcessOne

LEMMA TypeStep == TypeOK /\ [Next]_vars => TypeOK'
PROOF
<1> SUFFICES ASSUME TypeOK, [Next]_vars PROVE QueueTypeOK' /\ JobsTypeOK' /\ LedgerTypeOK'
  BY DEF TypeOK, QueueTypeOK, JobsTypeOK
<1>1. LedgerTypeOK'
  BY LedgerSimulation, LedgerTypeStep DEF TypeOK
<1>2. CASE UNCHANGED vars
  BY <1>1, <1>2 DEF vars, TypeOK, QueueTypeOK, JobsTypeOK
<1>3. ASSUME NEW r \in RawIds, Receive(r) \/ LockExpires(r)
      PROVE  QueueTypeOK' /\ JobsTypeOK'
  BY <1>3, StatusIsStatus
  DEF Receive, LockExpires, TypeOK, QueueTypeOK, JobsTypeOK, Claimable
<1>4. ASSUME NEW w \in Workers, Claim(w) \/ Refetch(w) \/ RefetchFails(w) \/ Crash(w)
      PROVE  QueueTypeOK' /\ JobsTypeOK'
  BY <1>4, ClaimType, RefetchType, DropBatchType
<1>5. ASSUME NEW w \in Workers, NEW r \in RawIds,
             ProcessOne(w, r) \/ SettleAnswerLost(w, r) \/ StatusWriteFails(w, r)
      PROVE  QueueTypeOK' /\ JobsTypeOK'
  BY <1>5, JobStepType
<1> QED BY <1>1, <1>2, <1>3, <1>4, <1>5 DEF Next

LEMMA TypeInit == Init => TypeOK
PROOF
<1> SUFFICES ASSUME Init PROVE QueueTypeOK /\ JobsTypeOK /\ LedgerTypeOK
  BY DEF TypeOK, QueueTypeOK, JobsTypeOK
<1>1. LedgerTypeOK
  BY LedgerTypeInit DEF Init
<1>2. QueueTypeOK
  BY QueueAssumption DEF Init, QueueTypeOK, Status
<1>3. job = [w \in Workers |-> [r \in RawIds |-> NoJob]]
  BY DEF Init
<1>4. JobsTypeOK
  BY <1>3, NoJobType DEF JobsTypeOK
<1> QED BY <1>1, <1>2, <1>4

(* Every row, job and entity keeps its type; a job that settles has an     *)
(* event that the LLM may extract.                                         *)
THEOREM TypeCorrect == Spec => []TypeOK
PROOF BY TypeInit, TypeStep, PTL DEF Spec

(* Whatever workers, leases and transactions do, the entities change only  *)
(* as the ledger promises: the queue implements the domain layer's promise.*)
THEOREM QueueImplementsLedger == Spec => ImplementsLedger
PROOF
<1>1. Init => LedgerInit
  BY DEF Init
<1> QED BY <1>1, LedgerSimulation, TypeCorrect, PTL DEF Spec, ImplementsLedger, LedgerSpec

(* The second idempotency layer holds without leases: however often a row  *)
(* is processed, and by however many workers, an entity's history has it   *)
(* once.                                                                   *)
THEOREM QueueHistoryUnique == Spec => []HistoryUnique
PROOF BY QueueImplementsLedger, HistoryStaysUnique, PTL DEF ImplementsLedger

(* And the materialized state is the furthest state of that history,       *)
(* whatever the order in which the workers settle the webhooks.            *)
THEOREM QueueCurrentIsFurthest == Spec => []CurrentIsFurthest
PROOF BY QueueImplementsLedger, CurrentStaysFurthest, PTL DEF ImplementsLedger

(* So is the audit log: it retells how the current state moved.            *)
THEOREM QueueMarksRecordHighs == Spec => []AdvancedMarksRecordHighs
PROOF BY QueueImplementsLedger, AdvancedMarksStayTrue, PTL DEF ImplementsLedger
-----------------------------------------------------------------------------
(* What the steps do, in the terms of the invariants below.                *)

LEMMA ClaimEffect ==
  ASSUME TypeOK, NEW w \in Workers, Claim(w)
  PROVE  \E batch \in SUBSET Candidates :
           /\ status' = [r \in RawIds |-> IF r \in batch THEN "processing" ELSE status[r]]
           /\ attempts' = [r \in RawIds |-> IF r \in batch THEN attempts[r] + 1 ELSE attempts[r]]
           /\ leased' = leased \cup batch
           /\ \A r \in RawIds : job'[w][r].phase = IF r \in batch THEN "claimed" ELSE "none"
           /\ \A v \in Workers \ {w}, r \in RawIds : job'[v][r] = job[v][r]
           /\ \A r \in RawIds : ~Busy(w, r)
PROOF
<1>1. PICK skipped \in SUBSET MayBeLocked(w) :
        LET batch == FirstBatch(Candidates \ skipped) IN
        /\ status' = [r \in RawIds |-> IF r \in batch THEN "processing" ELSE status[r]]
        /\ attempts' = [r \in RawIds |-> IF r \in batch THEN attempts[r] + 1 ELSE attempts[r]]
        /\ leased' = leased \cup batch
        /\ job' = [job EXCEPT ![w] = [r \in RawIds |-> IF r \in batch
                                        THEN [NoJob EXCEPT !.phase = "claimed"] ELSE NoJob]]
  BY DEF Claim
<1> DEFINE batch == FirstBatch(Candidates \ skipped)
<1>2. batch \in SUBSET Candidates
  BY DEF FirstBatch
<1>3. /\ [NoJob EXCEPT !.phase = "claimed"].phase = "claimed"
      /\ NoJob.phase = "none"
  BY DEF NoJob
<1>4. \A r \in RawIds : job'[w][r].phase = IF r \in batch THEN "claimed" ELSE "none"
  BY <1>1, <1>3 DEF TypeOK
<1>5. \A v \in Workers \ {w}, r \in RawIds : job'[v][r] = job[v][r]
  BY <1>1 DEF TypeOK
<1>6. \A r \in RawIds : ~Busy(w, r)
  BY DEF Claim, Idle
<1> QED BY <1>1, <1>2, <1>4, <1>5, <1>6

LEMMA EndJobEffect ==
  ASSUME TypeOK, NEW w \in Workers, NEW r \in RawIds, EndJob(w, r)
  PROVE  /\ job'[w][r].phase = "none"
         /\ \A v \in Workers, q \in RawIds : v # w \/ q # r => job'[v][q] = job[v][q]
PROOF
<1>1. SetJob(w, r, NoJob) BY DEF EndJob
<1> QED BY <1>1, SetJobEffect, NoJobType, SMT

(* A job that goes on keeps the attempts it read.                          *)
LEMMA ContinueEffect ==
  ASSUME TypeOK, NEW w \in Workers, NEW r \in RawIds, LlmAnswers(w, r) \/ SettleThrows(w, r)
  PROVE  /\ job'[w][r].phase \in Answered \cup {"settle_failed"}
         /\ job'[w][r].attempts = job[w][r].attempts
         /\ \A v \in Workers, q \in RawIds : v # w \/ q # r => job'[v][q] = job[v][q]
PROOF
<1>1. job[w][r] \in Job /\ job \in [Workers -> [RawIds -> Job]]
  BY DEF TypeOK
<1>2. ASSUME NEW p \in Answered, SetJob(w, r, [job[w][r] EXCEPT !.phase = p])
      PROVE  /\ job'[w][r].phase \in Answered
             /\ job'[w][r].attempts = job[w][r].attempts
             /\ \A v \in Workers, q \in RawIds : v # w \/ q # r => job'[v][q] = job[v][q]
  BY <1>1, <1>2 DEF SetJob, Job
<1>3. ASSUME NEW p \in {"settling", "settle_failed"}, NEW ev \in Events \cup {NoEvent},
             SetJob(w, r, [job[w][r] EXCEPT !.phase = p, !.event = ev])
      PROVE  /\ job'[w][r].phase = p
             /\ job'[w][r].attempts = job[w][r].attempts
             /\ \A v \in Workers, q \in RawIds : v # w \/ q # r => job'[v][q] = job[v][q]
  BY <1>1, <1>3 DEF SetJob, Job
<1>4. CASE LlmAnswers(w, r)
  BY <1>2, <1>3, <1>4 DEF LlmAnswers, Answered
<1>5. CASE SettleThrows(w, r)
  BY <1>3, <1>5 DEF SettleThrows
<1> QED BY <1>4, <1>5

LEMMA SettleThrowsEffect ==
  ASSUME TypeOK, NEW w \in Workers, NEW r \in RawIds, SettleThrows(w, r)
  PROVE  /\ job'[w][r].phase = "settle_failed"
         /\ \A v \in Workers, q \in RawIds : v # w \/ q # r => job'[v][q] = job[v][q]
PROOF
<1>1. job[w][r] \in Job /\ job \in [Workers -> [RawIds -> Job]]
  BY DEF TypeOK
<1> QED BY <1>1 DEF SettleThrows, SetJob, Job

LEMMA DropBatchEffect ==
  ASSUME TypeOK, NEW w \in Workers, RefetchFails(w) \/ Crash(w)
  PROVE  /\ \A r \in RawIds : job'[w][r].phase = "none"
         /\ \A v \in Workers \ {w}, r \in RawIds : job'[v][r] = job[v][r]
         /\ UNCHANGED <<queueVars, history, current>>
         /\ faults' = faults + 1
PROOF BY NoJobType DEF RefetchFails, Crash, Fault, TypeOK

LEMMA RefetchEffect ==
  ASSUME TypeOK, NEW w \in Workers, Refetch(w)
  PROVE  /\ \A r \in RawIds : job[w][r].phase = "claimed" =>
              job'[w][r].phase = "calling" /\ job'[w][r].attempts = attempts[r]
         /\ \A r \in RawIds : job[w][r].phase # "claimed" => job'[w][r] = job[w][r]
         /\ \A v \in Workers \ {w}, r \in RawIds : job'[v][r] = job[v][r]
         /\ UNCHANGED <<queueVars, history, current, faults>>
PROOF BY DEF Refetch, TypeOK

(* After the domain write the entity has the webhook, as it had before or  *)
(* because it was added, and nothing else was added.                       *)
LEMMA ApplyRecords ==
  ASSUME LedgerTypeOK, NEW e \in Entities, NEW r \in RawIds, NEW s \in States,
         ApplyEvent(e, r, s)
  PROVE  \A f \in Entities, q \in RawIds :
           Recorded(f, q)' <=> Recorded(f, q) \/ (f = e /\ q = r)
PROOF
<1>1. CASE SkipDuplicate(e, r)
  BY <1>1 DEF SkipDuplicate, ledgerVars, Recorded
<1>2. CASE RecordEvent(e, r, s)
  <2> SUFFICES ASSUME NEW f \in Entities, NEW q \in RawIds
               PROVE  Recorded(f, q)' <=> Recorded(f, q) \/ (f = e /\ q = r)
    OBVIOUS
  <2>1. CASE f # e
    <3>1. history'[f] = history[f]
      BY <1>2, <2>1, RecordAppends
    <3> QED BY <2>1, <3>1 DEF Recorded
  <2>2. CASE f = e
    <3> DEFINE n == Len(history[e])
    <3>1. /\ n \in Nat /\ DOMAIN history[e] = 1..n /\ DOMAIN history'[e] = 1..(n + 1)
          /\ \A i \in DOMAIN history[e] : history'[e][i] = history[e][i]
          /\ history'[e][n + 1].raw = r
      BY <1>2, RecordAppends, NewRowType
    <3> HIDE DEF n
    <3>2. Recorded(e, q)' <=> \E i \in 1..(n + 1) : history'[e][i].raw = q
      BY <3>1 DEF Recorded
    <3>3. Recorded(e, q) <=> \E i \in 1..n : history'[e][i].raw = q
      BY <3>1 DEF Recorded
    <3>4. \A i : i \in 1..(n + 1) <=> i \in 1..n \/ i = n + 1
      BY <3>1
    <3> QED BY <2>2, <3>1, <3>2, <3>3, <3>4
  <2> QED BY <2>1, <2>2
<1> QED BY <1>1, <1>2 DEF ApplyEvent

LEMMA CommitRecords ==
  ASSUME TypeOK, NEW w \in Workers, NEW r \in RawIds,
         job[w][r].phase = "settling", CommitSettle(w, r)
  PROVE  LET e == job[w][r].event.entity IN
         /\ e \in Entities
         /\ \A f \in Entities, q \in RawIds :
              Recorded(f, q)' <=> Recorded(f, q) \/ (f = e /\ q = r)
         /\ status' = [status EXCEPT ![r] = "normalized"]
         /\ entityOf' = [entityOf EXCEPT ![r] = e]
PROOF
<1>1. job[w][r].event \in Events
  BY DEF TypeOK
<1>2. job[w][r].event.entity \in Entities /\ job[w][r].event.state \in States
  BY <1>1, QueueAssumption
<1>3. LedgerTypeOK
  BY DEF TypeOK
<1>4. ApplyEvent(job[w][r].event.entity, r, job[w][r].event.state)
  BY DEF CommitSettle
<1>5. \A f \in Entities, q \in RawIds :
        Recorded(f, q)' <=> Recorded(f, q) \/ (f = job[w][r].event.entity /\ q = r)
  BY <1>2, <1>3, <1>4, ApplyRecords
<1> QED BY <1>2, <1>5 DEF CommitSettle

LEMMA SameHistory ==
  history' = history => \A f, q : Recorded(f, q)' <=> Recorded(f, q)
PROOF BY DEF Recorded

-----------------------------------------------------------------------------
LEMMA NormalizedIsRecordedStep ==
  TypeOK /\ NormalizedIsRecorded /\ [Next]_vars => NormalizedIsRecorded'
PROOF
<1> SUFFICES ASSUME TypeOK, NormalizedIsRecorded, [Next]_vars
             PROVE  NormalizedIsRecorded'
  OBVIOUS
<1> USE DEF NormalizedIsRecorded
<1>1. CASE UNCHANGED vars
  BY <1>1, SameHistory DEF vars
<1>2. ASSUME NEW r \in RawIds, Receive(r) \/ LockExpires(r) PROVE NormalizedIsRecorded'
  BY <1>2, SameHistory DEF Receive, LockExpires, TypeOK
<1>3. ASSUME NEW w \in Workers, Claim(w) PROVE NormalizedIsRecorded'
  <2>1. PICK batch \in SUBSET Candidates :
          status' = [r \in RawIds |-> IF r \in batch THEN "processing" ELSE status[r]]
    BY <1>3, ClaimEffect
  <2> QED BY <1>3, <2>1, SameHistory DEF Claim
<1>4. ASSUME NEW w \in Workers, Refetch(w) \/ RefetchFails(w) \/ Crash(w)
      PROVE  NormalizedIsRecorded'
  BY <1>4, SameHistory DEF Refetch, RefetchFails, Crash, queueVars
<1>5. ASSUME NEW w \in Workers, NEW r \in RawIds,
             ProcessOne(w, r) \/ SettleAnswerLost(w, r) \/ StatusWriteFails(w, r)
      PROVE  NormalizedIsRecorded'
  <2>1. CASE Settle(w, r) \/ SettleAnswerLost(w, r)
    <3>1. job[w][r].phase = "settling" /\ CommitSettle(w, r)
      BY <2>1 DEF Settle, SettleAnswerLost
    <3>2. job[w][r].event.entity # NoEntity
      BY <3>1, CommitRecords, QueueAssumption
    <3> QED BY <3>1, <3>2, CommitRecords DEF TypeOK
  <2>2. CASE LlmAnswers(w, r) \/ SettleRollsBack(w, r) \/ StatusWriteFails(w, r)
    BY <2>2, SameHistory DEF LlmAnswers, SettleRollsBack, StatusWriteFails, queueVars
  <2>3. CASE \E s \in Terminal \ {"normalized"} : FinishAs(w, r, s)
    BY <2>3, SameHistory DEF FinishAs, TypeOK
  <2>4. CASE BackOff(w, r)
    BY <2>4, SameHistory DEF BackOff, TypeOK
  <2> QED BY <1>5, <2>1, <2>2, <2>3, <2>4
          DEF ProcessOne, RouteUnusable, DeadLetterNetwork, BackOffNetwork, MarkUnclassified,
              RouteLowConfidence, DeadLetterSettle, BackOffSettle, Terminal
<1> QED BY <1>1, <1>2, <1>3, <1>4, <1>5 DEF Next

(* Normalized data and the row that points to it cannot come apart in this *)
(* direction, whatever happens to leases and answers: a row says normalized*)
(* only with its webhook in the history of the entity it points to.        *)
THEOREM NormalizedStaysRecorded == Spec => []NormalizedIsRecorded
PROOF
<1>1. Init => NormalizedIsRecorded
  BY DEF Init, NormalizedIsRecorded
<1> QED BY <1>1, NormalizedIsRecordedStep, TypeCorrect, PTL DEF Spec
-----------------------------------------------------------------------------
(* A job decides with the attempts it read after its claim; meanwhile the  *)
(* row's attempts can only have grown (a zombie's row is claimed again).   *)
JobAttemptsBehind ==
  \A w \in Workers, r \in RawIds :
    job[w][r].phase \notin {"none", "claimed"} => job[w][r].attempts <= attempts[r]

DeadInv == JobAttemptsBehind /\ DeadOnlyWhenExhausted

LEMMA DeadStep == TypeOK /\ DeadInv /\ [Next]_vars => DeadInv'
PROOF
<1> SUFFICES ASSUME TypeOK, DeadInv, [Next]_vars PROVE DeadInv'
  OBVIOUS
<1> USE DEF DeadInv, JobAttemptsBehind, DeadOnlyWhenExhausted
<1>0. /\ \A q \in RawIds : attempts[q] \in Nat
      /\ \A v \in Workers, q \in RawIds : job[v][q].attempts \in Nat
      /\ MaxAttempts \in Nat
  BY QueueAssumption DEF TypeOK, Job
<1>1. CASE UNCHANGED vars
  BY <1>1 DEF vars
<1>2. ASSUME NEW r \in RawIds, Receive(r) \/ LockExpires(r) PROVE DeadInv'
  BY <1>2 DEF Receive, LockExpires, TypeOK
<1>3. ASSUME NEW w \in Workers, Claim(w) PROVE DeadInv'
  <2>1. PICK batch \in SUBSET Candidates :
           /\ status' = [r \in RawIds |-> IF r \in batch THEN "processing" ELSE status[r]]
           /\ attempts' = [r \in RawIds |-> IF r \in batch THEN attempts[r] + 1 ELSE attempts[r]]
           /\ \A r \in RawIds : job'[w][r].phase = IF r \in batch THEN "claimed" ELSE "none"
           /\ \A v \in Workers \ {w}, r \in RawIds : job'[v][r] = job[v][r]
    BY <1>3, ClaimEffect
  <2>2. \A q \in RawIds : attempts'[q] >= attempts[q] /\ attempts'[q] \in Nat
    BY <1>0, <2>1
  <2>3. \A q \in RawIds : status'[q] = "dead" => status[q] = "dead"
    BY <2>1
  <2>4. DeadOnlyWhenExhausted'
    BY <1>0, <2>2, <2>3
  <2>5. ASSUME NEW v \in Workers, NEW q \in RawIds, job'[v][q].phase \notin {"none", "claimed"}
        PROVE  job'[v][q].attempts <= attempts'[q]
    <3>1. v # w /\ job'[v][q] = job[v][q]
      BY <2>1, <2>5
    <3> QED BY <1>0, <2>2, <2>5, <3>1
  <2> QED BY <2>4, <2>5
<1>4. ASSUME NEW w \in Workers, Refetch(w) PROVE DeadInv'
  <2>1. status' = status /\ attempts' = attempts
    BY <1>4 DEF Refetch, queueVars
  <2>2. ASSUME NEW v \in Workers, NEW q \in RawIds, job'[v][q].phase \notin {"none", "claimed"}
        PROVE  job'[v][q].attempts <= attempts'[q]
    BY <1>0, <1>4, <2>1, <2>2, RefetchEffect
  <2> QED BY <2>1, <2>2
<1>5. ASSUME NEW w \in Workers, RefetchFails(w) \/ Crash(w) PROVE DeadInv'
  <2>1. status' = status /\ attempts' = attempts
    BY <1>5 DEF RefetchFails, Crash, queueVars
  <2> QED BY <1>5, <2>1, DropBatchEffect
<1>6. ASSUME NEW w \in Workers, NEW r \in RawIds,
             ProcessOne(w, r) \/ SettleAnswerLost(w, r) \/ StatusWriteFails(w, r)
      PROVE  DeadInv'
  <2>1. CASE LlmAnswers(w, r) \/ SettleRollsBack(w, r)
    <3>1. status' = status /\ attempts' = attempts
      BY <2>1 DEF LlmAnswers, SettleRollsBack, queueVars
    <3>2. job[w][r].phase \in {"calling", "settling"}
      BY <2>1 DEF LlmAnswers, SettleRollsBack
    <3>3. LlmAnswers(w, r) \/ SettleThrows(w, r)
      BY <2>1 DEF SettleRollsBack
    <3> QED BY <3>1, <3>2, <3>3, ContinueEffect
  <2>2. CASE SettleAnswerLost(w, r)
    <3>1. /\ status' = [status EXCEPT ![r] = "normalized"] /\ attempts' = attempts
          /\ job[w][r].phase = "settling" /\ SettleThrows(w, r)
      BY <2>2 DEF SettleAnswerLost, CommitSettle
    <3>2. DeadOnlyWhenExhausted'
      BY <3>1 DEF TypeOK
    <3> QED BY <3>1, <3>2, ContinueEffect
  <2>3. CASE Settle(w, r)
    <3>1. /\ status' = [status EXCEPT ![r] = "normalized"] /\ attempts' = attempts
          /\ EndJob(w, r)
      BY <2>3 DEF Settle, CommitSettle
    <3>2. DeadOnlyWhenExhausted'
      BY <3>1 DEF TypeOK
    <3> QED BY <3>1, <3>2, EndJobEffect
  <2>4. CASE StatusWriteFails(w, r)
    BY <2>4, EndJobEffect DEF StatusWriteFails, queueVars
  <2>5. CASE BackOff(w, r)
    <3>1. DeadOnlyWhenExhausted'
      BY <2>5 DEF BackOff, TypeOK
    <3> QED BY <2>5, <3>1, EndJobEffect DEF BackOff
  <2>6. ASSUME NEW s \in Terminal, FinishAs(w, r, s),
               s = "dead" => Exhausted(w, r) /\ job[w][r].phase \in {"network", "settle_failed"}
        PROVE  DeadInv'
    <3>1. s = "dead" => attempts[r] >= MaxAttempts
      BY <1>0, <2>6 DEF Exhausted
    <3>2. DeadOnlyWhenExhausted'
      BY <2>6, <3>1 DEF FinishAs, TypeOK
    <3> QED BY <2>6, <3>2, EndJobEffect DEF FinishAs
  <2> QED BY <1>6, <2>1, <2>2, <2>3, <2>4, <2>5, <2>6
          DEF ProcessOne, RouteUnusable, DeadLetterNetwork, BackOffNetwork, MarkUnclassified,
              RouteLowConfidence, DeadLetterSettle, BackOffSettle, Terminal
<1> QED BY <1>1, <1>2, <1>3, <1>4, <1>5, <1>6 DEF Next

(* No webhook is given up before it has been claimed maxAttempts times,    *)
(* even by a worker whose lease ran out and that counts with an old number.*)
THEOREM DeadAreExhausted == Spec => []DeadOnlyWhenExhausted
PROOF
<1>1. Init => DeadInv
  BY NoJobType DEF Init, DeadInv, JobAttemptsBehind, DeadOnlyWhenExhausted
<1>2. DeadInv => DeadOnlyWhenExhausted
  BY DEF DeadInv
<1> QED BY <1>1, <1>2, DeadStep, TypeCorrect, PTL DEF Spec
-----------------------------------------------------------------------------
(* With leases that outlast jobs and commit answers that arrive.  The three*)
(* guarantees hold each other up: only a worker's own claim lets it settle,*)
(* so a row it settles was not normalized, so nobody had recorded it.      *)
LeaseInv == ExclusiveProcessing /\ SettleAtomic /\ AppliedAtMostOnce

(* This step ends no lease under a job.                                    *)
NoLeaseLost == \A r \in leased \ leased', w \in Workers : ~Busy(w, r)

LEMMA NoLeaseIsLost ==
  ASSUME LeaseCoversProcessing, TypeOK, [Next]_vars
  PROVE  NoLeaseLost
PROOF
<1>1. ASSUME NEW r \in RawIds, LockExpires(r) PROVE NoLeaseLost
  BY <1>1 DEF LockExpires, NoLeaseLost
<1>2. CASE leased \subseteq leased'
  BY <1>2 DEF NoLeaseLost
<1>3. ASSUME NEW w \in Workers, Claim(w) \/ Refetch(w) \/ RefetchFails(w) \/ Crash(w)
      PROVE  leased \subseteq leased'
  BY <1>3 DEF Claim, Refetch, RefetchFails, Crash, queueVars
<1>4. ASSUME NEW w \in Workers, NEW r \in RawIds,
             ProcessOne(w, r) \/ SettleAnswerLost(w, r) \/ StatusWriteFails(w, r)
      PROVE  leased \subseteq leased'
  BY <1>4 DEF ProcessOne, LlmAnswers, RouteUnusable, DeadLetterNetwork, BackOffNetwork,
              MarkUnclassified, RouteLowConfidence, Settle, SettleRollsBack, SettleAnswerLost,
              DeadLetterSettle, BackOffSettle, StatusWriteFails, FinishAs, BackOff,
              CommitSettle, queueVars
<1>5. ASSUME UNCHANGED vars \/ \E r \in RawIds : Receive(r) PROVE leased \subseteq leased'
  BY <1>5 DEF vars, Receive
<1> QED BY <1>1, <1>2, <1>3, <1>4, <1>5 DEF Next

LEMMA LeaseStep ==
  ASSUME NoLeaseLost, CommitAnswerReliable, TypeOK, LeaseInv, [Next]_vars
  PROVE  LeaseInv'
PROOF
<1> USE DEF LeaseInv, ExclusiveProcessing, SettleAtomic, AppliedAtMostOnce, Busy, HasHistory
<1>0. \A v \in Workers, q \in RawIds : Busy(v, q) => status[q] = "processing" /\ q \in leased
  OBVIOUS
<1>1. CASE UNCHANGED vars
  BY <1>1, SameHistory DEF vars
<1>2. ASSUME NEW r \in RawIds, Receive(r) PROVE LeaseInv'
  <2>1. history' = history /\ job' = job /\ leased' = leased
    BY <1>2 DEF Receive
  <2>2. status[r] = "absent" /\ status' = [status EXCEPT ![r] = "pending"]
    BY <1>2 DEF Receive
  <2> QED BY <2>1, <2>2, SameHistory DEF TypeOK
<1>3. ASSUME NEW r \in RawIds, LockExpires(r) PROVE LeaseInv'
  BY <1>3, SameHistory DEF LockExpires, NoLeaseLost
<1>4. ASSUME NEW w \in Workers, Claim(w) PROVE LeaseInv'
  <2>1. PICK batch \in SUBSET Candidates :
           /\ status' = [r \in RawIds |-> IF r \in batch THEN "processing" ELSE status[r]]
           /\ leased' = leased \cup batch
           /\ \A r \in RawIds : job'[w][r].phase = IF r \in batch THEN "claimed" ELSE "none"
           /\ \A v \in Workers \ {w}, r \in RawIds : job'[v][r] = job[v][r]
    BY <1>4, ClaimEffect
  <2>2. history' = history
    BY <1>4 DEF Claim
  <2>3. \A q \in batch : q \in RawIds /\ status[q] \in {"pending", "processing"} /\ q \notin leased
    BY <2>1 DEF Candidates, Claimable
  <2>4. ExclusiveProcessing'
    <3> SUFFICES ASSUME NEW q \in RawIds, NEW v \in Workers, job'[v][q].phase # "none"
                 PROVE  /\ status'[q] = "processing" /\ q \in leased'
                        /\ \A u \in Workers : job'[u][q].phase # "none" => u = v
      OBVIOUS
    <3>1. CASE q \in batch
      <4>1. \A u \in Workers \ {w} : job'[u][q].phase = "none"
        BY <1>0, <2>1, <2>3, <3>1
      <4> QED BY <2>1, <3>1, <4>1
    <3>2. CASE q \notin batch
      <4>1. job'[w][q].phase = "none"
        BY <2>1, <3>2
      <4>2. v # w /\ job[v][q].phase # "none"
        BY <2>1, <4>1
      <4> QED BY <2>1, <3>2, <4>1, <4>2
    <3> QED BY <3>1, <3>2
  <2>5. SettleAtomic' /\ AppliedAtMostOnce'
    BY <2>1, <2>2, <2>3, SameHistory
  <2> QED BY <2>4, <2>5
<1>5. ASSUME NEW w \in Workers, Refetch(w) PROVE LeaseInv'
  <2>1. /\ status' = status /\ leased' = leased /\ history' = history
        /\ \A v \in Workers, q \in RawIds : Busy(v, q)' => Busy(v, q)
    BY <1>5, RefetchEffect DEF queueVars
  <2> QED BY <2>1, SameHistory
<1>6. ASSUME NEW w \in Workers, RefetchFails(w) \/ Crash(w) PROVE LeaseInv'
  <2>1. /\ status' = status /\ leased' = leased /\ history' = history
        /\ \A v \in Workers, q \in RawIds : Busy(v, q)' => Busy(v, q)
    BY <1>6, DropBatchEffect DEF queueVars
  <2> QED BY <2>1, SameHistory
<1>7. ASSUME NEW w \in Workers, NEW r \in RawIds,
             ProcessOne(w, r) \/ SettleAnswerLost(w, r) \/ StatusWriteFails(w, r)
      PROVE  LeaseInv'
  <2>1. CASE LlmAnswers(w, r) \/ SettleRollsBack(w, r)
    <3>1. status' = status /\ leased' = leased /\ history' = history
      BY <2>1 DEF LlmAnswers, SettleRollsBack, queueVars
    <3>2. job[w][r].phase # "none" /\ (LlmAnswers(w, r) \/ SettleThrows(w, r))
      BY <2>1 DEF LlmAnswers, SettleRollsBack
    <3>3. \A v \in Workers, q \in RawIds : Busy(v, q)' => Busy(v, q)
      BY <3>2, ContinueEffect
    <3> QED BY <3>1, <3>3, SameHistory
  <2>2. CASE StatusWriteFails(w, r)
    <3>1. status' = status /\ leased' = leased /\ history' = history
      BY <2>2 DEF StatusWriteFails, queueVars
    <3>2. \A v \in Workers, q \in RawIds : Busy(v, q)' => Busy(v, q)
      BY <2>2, EndJobEffect DEF StatusWriteFails
    <3> QED BY <3>1, <3>2, SameHistory
  <2>3. CASE Settle(w, r)
    <3> DEFINE e == job[w][r].event.entity
    <3>1. job[w][r].phase = "settling" /\ CommitSettle(w, r) /\ EndJob(w, r) /\ leased' = leased
      BY <2>3 DEF Settle, CommitSettle
    <3>2. /\ e \in Entities
          /\ \A f \in Entities, q \in RawIds :
               Recorded(f, q)' <=> Recorded(f, q) \/ (f = e /\ q = r)
          /\ status' = [status EXCEPT ![r] = "normalized"]
      BY <3>1, CommitRecords
    <3>3. /\ job'[w][r].phase = "none"
          /\ \A v \in Workers, q \in RawIds : v # w \/ q # r => job'[v][q] = job[v][q]
      BY <3>1, EndJobEffect
    <3>4. status[r] = "processing" /\ \A v \in Workers : Busy(v, r) => v = w
      BY <3>1
    <3> HIDE DEF e
    <3>5. \A f \in Entities : ~Recorded(f, r)
      BY <3>4
    <3>6. ExclusiveProcessing'
      BY <3>1, <3>2, <3>3, <3>4 DEF TypeOK
    <3>7. SettleAtomic'
      BY <3>2 DEF TypeOK
    <3>8. AppliedAtMostOnce'
      BY <3>2, <3>5
    <3> QED BY <3>6, <3>7, <3>8
  <2>4. ASSUME Busy(w, r), EndJob(w, r), history' = history, leased \subseteq leased',
               NEW s \in Status \ {"normalized"}, status' = [status EXCEPT ![r] = s]
        PROVE  LeaseInv'
    <3>1. status[r] = "processing" /\ \A v \in Workers : Busy(v, r) => v = w
      BY <2>4
    <3>2. /\ job'[w][r].phase = "none"
          /\ \A v \in Workers, q \in RawIds : v # w \/ q # r => job'[v][q] = job[v][q]
      BY <2>4, EndJobEffect
    <3>3. ExclusiveProcessing'
      BY <2>4, <3>1, <3>2 DEF TypeOK
    <3>4. SettleAtomic' /\ AppliedAtMostOnce'
      BY <2>4, <3>1, SameHistory DEF TypeOK
    <3> QED BY <3>3, <3>4
  <2>5. ASSUME Busy(w, r), BackOff(w, r) PROVE LeaseInv'
    BY <2>4, <2>5 DEF BackOff, Status, Claimable
  <2>6. ASSUME Busy(w, r), NEW s \in Terminal \ {"normalized"}, FinishAs(w, r, s) PROVE LeaseInv'
    BY <2>4, <2>6, StatusIsStatus DEF FinishAs
  <2>7. CASE SettleAnswerLost(w, r)
    BY <2>7 DEF SettleAnswerLost
  <2> QED BY <1>7, <2>1, <2>2, <2>3, <2>5, <2>6, <2>7
          DEF ProcessOne, RouteUnusable, DeadLetterNetwork, BackOffNetwork, MarkUnclassified,
              RouteLowConfidence, DeadLetterSettle, BackOffSettle, Terminal
<1> QED BY <1>1, <1>2, <1>3, <1>4, <1>5, <1>6, <1>7 DEF Next

LEMMA LeaseInvInit == Init => LeaseInv
PROOF
<1> SUFFICES ASSUME Init PROVE LeaseInv
  OBVIOUS
<1>1. \A w \in Workers, r \in RawIds : ~Busy(w, r)
  BY NoJobType DEF Init, Busy
<1>2. \A f \in Entities, r \in RawIds : ~Recorded(f, r)
  BY DEF Init, LedgerInit, Recorded
<1>3. \A r \in RawIds : status[r] = "absent"
  BY DEF Init
<1> QED BY <1>1, <1>2, <1>3
        DEF LeaseInv, ExclusiveProcessing, SettleAtomic, AppliedAtMostOnce, HasHistory

LEMMA LeaseInvHolds ==
  ASSUME LeaseCoversProcessing, CommitAnswerReliable
  PROVE  Spec => []LeaseInv
PROOF
<1>1. TypeOK /\ LeaseInv /\ [Next]_vars => LeaseInv'
  BY LeaseStep, NoLeaseIsLost
<1> QED BY <1>1, LeaseInvInit, TypeCorrect, PTL DEF Spec

(* As long as no job outlives its lease and no commit answer is lost, two  *)
(* workers never process one webhook.                                      *)
THEOREM JobsStayApart ==
  ASSUME LeaseCoversProcessing, CommitAnswerReliable
  PROVE  Spec => []ExclusiveProcessing
PROOF
<1>1. LeaseInv => ExclusiveProcessing
  BY DEF LeaseInv
<1>2. Spec => []LeaseInv
  BY LeaseInvHolds
<1> QED BY <1>1, <1>2, PTL

(* Under the same conditions the canonical tables hold a webhook exactly   *)
(* when its row says normalized.                                           *)
THEOREM SettlesAreAtomic ==
  ASSUME LeaseCoversProcessing, CommitAnswerReliable
  PROVE  Spec => []SettleAtomic
PROOF
<1>1. LeaseInv => SettleAtomic
  BY DEF LeaseInv
<1>2. Spec => []LeaseInv
  BY LeaseInvHolds
<1> QED BY <1>1, <1>2, PTL

(* Under the same conditions a webhook is applied to one entity at most,   *)
(* although the LLM may read it differently each time.                     *)
THEOREM WebhooksApplyOnce ==
  ASSUME LeaseCoversProcessing, CommitAnswerReliable
  PROVE  Spec => []AppliedAtMostOnce
PROOF
<1>1. LeaseInv => AppliedAtMostOnce
  BY DEF LeaseInv
<1>2. Spec => []LeaseInv
  BY LeaseInvHolds
<1> QED BY <1>1, <1>2, PTL

-----------------------------------------------------------------------------
LEMMA FinalStep ==
  ASSUME TypeOK, ExclusiveProcessing, [Next]_vars, CommitAnswerReliable,
         NEW q \in RawIds, status[q] \in Terminal
  PROVE  status'[q] = status[q]
PROOF
<1>1. /\ status[q] \notin {"absent", "pending", "processing"}
      /\ \A v \in Workers : ~Busy(v, q)
  BY DEF Terminal, ExclusiveProcessing
<1>2. CASE UNCHANGED vars
  BY <1>2 DEF vars
<1>3. ASSUME NEW r \in RawIds, Receive(r) \/ LockExpires(r) PROVE status'[q] = status[q]
  BY <1>1, <1>3 DEF Receive, LockExpires, TypeOK
<1>4. ASSUME NEW w \in Workers, Claim(w) PROVE status'[q] = status[q]
  <2>1. PICK batch \in SUBSET Candidates :
          status' = [r \in RawIds |-> IF r \in batch THEN "processing" ELSE status[r]]
    BY <1>4, ClaimEffect
  <2> QED BY <1>1, <2>1 DEF Candidates, Claimable
<1>5. ASSUME NEW w \in Workers, Refetch(w) \/ RefetchFails(w) \/ Crash(w)
      PROVE  status'[q] = status[q]
  BY <1>5 DEF Refetch, RefetchFails, Crash, queueVars
<1>6. ASSUME NEW w \in Workers, NEW r \in RawIds,
             ProcessOne(w, r) \/ SettleAnswerLost(w, r) \/ StatusWriteFails(w, r)
      PROVE  status'[q] = status[q]
  <2>1. Busy(w, r)
    BY <1>6 DEF Busy, ProcessOne, LlmAnswers, RouteUnusable, DeadLetterNetwork, BackOffNetwork,
                MarkUnclassified, RouteLowConfidence, Settle, SettleRollsBack, SettleAnswerLost,
                DeadLetterSettle, BackOffSettle, StatusWriteFails
  <2>2. r # q
    BY <1>1, <2>1
  <2>3. \/ status' = status
        \/ \E s \in Status : status' = [status EXCEPT ![r] = s]
    BY <1>6, StatusIsStatus
    DEF ProcessOne, LlmAnswers, RouteUnusable, DeadLetterNetwork, BackOffNetwork,
        MarkUnclassified, RouteLowConfidence, Settle, SettleRollsBack, SettleAnswerLost,
        DeadLetterSettle, BackOffSettle, StatusWriteFails, FinishAs, BackOff, CommitSettle,
        queueVars, Terminal, Claimable
  <2> QED BY <2>2, <2>3 DEF TypeOK
<1> QED BY <1>2, <1>3, <1>4, <1>5, <1>6 DEF Next

(* Under the same conditions a settled webhook is never taken up again.    *)
THEOREM SettledStaysFinal ==
  ASSUME LeaseCoversProcessing, CommitAnswerReliable
  PROVE  Spec => SettledIsFinal
PROOF
<1>1. TypeOK /\ ExclusiveProcessing /\ [Next]_vars
        => [\A r \in RawIds : status[r] \in Terminal => status'[r] = status[r]]_vars
  BY FinalStep
<1>2. Spec => []ExclusiveProcessing
  BY JobsStayApart
<1> QED BY <1>1, <1>2, TypeCorrect, PTL DEF Spec, SettledIsFinal

-----------------------------------------------------------------------------
(* A job works with the row's own count, and a row that waits for a claim  *)
(* has an attempt left, or has lost one to a fault.                        *)
BudgetInv ==
  /\ \A w \in Workers, r \in RawIds :
       job[w][r].phase \notin {"none", "claimed"} => job[w][r].attempts = attempts[r]
  /\ \A r \in RawIds : status[r] = "absent" => attempts[r] = 0
  /\ \A r \in RawIds :
       status[r] \in Claimable /\ (\A w \in Workers : ~Busy(w, r))
         => attempts[r] < MaxAttempts + faults
  /\ AttemptsWithinBudget

LEMMA BudgetStep ==
  ASSUME CommitAnswerReliable, MaxAttempts >= 1, TypeOK, ExclusiveProcessing, BudgetInv,
         [Next]_vars
  PROVE  BudgetInv'
PROOF
<1> USE DEF BudgetInv, AttemptsWithinBudget, Busy
<1>0. /\ \A q \in RawIds : attempts[q] \in Nat
      /\ MaxAttempts \in Nat /\ faults \in Nat
      /\ status \in [RawIds -> Status]
  BY QueueAssumption DEF TypeOK
<1>1. CASE UNCHANGED vars
  BY <1>1 DEF vars
<1>2. ASSUME NEW r \in RawIds, Receive(r) PROVE BudgetInv'
  BY <1>0, <1>2 DEF Receive, Claimable
<1>3. ASSUME NEW r \in RawIds, LockExpires(r) PROVE BudgetInv'
  BY <1>3 DEF LockExpires
<1>4. ASSUME NEW w \in Workers, Claim(w) PROVE BudgetInv'
  <2>1. PICK batch \in SUBSET Candidates :
           /\ status' = [r \in RawIds |-> IF r \in batch THEN "processing" ELSE status[r]]
           /\ attempts' = [r \in RawIds |-> IF r \in batch THEN attempts[r] + 1 ELSE attempts[r]]
           /\ leased' = leased \cup batch
           /\ \A r \in RawIds : job'[w][r].phase = IF r \in batch THEN "claimed" ELSE "none"
           /\ \A v \in Workers \ {w}, r \in RawIds : job'[v][r] = job[v][r]
           /\ \A r \in RawIds : ~Busy(w, r)
    BY <1>4, ClaimEffect
  <2>2. faults' = faults
    BY <1>4 DEF Claim
  <2>3. \A q \in batch : q \in RawIds /\ status[q] \in Claimable /\ \A v \in Workers : ~Busy(v, q)
    BY <2>1 DEF Candidates, ExclusiveProcessing
  <2>4. \A q \in batch : attempts[q] < MaxAttempts + faults
    BY <2>3
  <2>5. AttemptsWithinBudget'
    BY <1>0, <2>1, <2>2, <2>4
  <2>6. ASSUME NEW v \in Workers, NEW q \in RawIds, job'[v][q].phase \notin {"none", "claimed"}
        PROVE  job'[v][q].attempts = attempts'[q]
    <3>1. v # w /\ job'[v][q] = job[v][q]
      BY <2>1, <2>6
    <3>2. q \notin batch
      BY <2>3, <2>6, <3>1
    <3> QED BY <2>1, <2>6, <3>1, <3>2
  <2>7. ASSUME NEW q \in RawIds, status'[q] \in Claimable, \A v \in Workers : ~Busy(v, q)'
        PROVE  attempts'[q] < MaxAttempts + faults'
    <3>1. q \notin batch
      BY <2>1, <2>7
    <3>2. \A v \in Workers : ~Busy(v, q)
      BY <2>1, <2>7
    <3> QED BY <2>1, <2>2, <2>7, <3>1, <3>2
  <2>8. \A q \in RawIds : status'[q] = "absent" => attempts'[q] = 0
    BY <2>1, <2>3 DEF Claimable
  <2> QED BY <2>5, <2>6, <2>7, <2>8
<1>5. ASSUME NEW w \in Workers, Refetch(w) PROVE BudgetInv'
  <2>1. status' = status /\ attempts' = attempts /\ faults' = faults
    BY <1>5 DEF Refetch, queueVars
  <2>2. ASSUME NEW v \in Workers, NEW q \in RawIds, job'[v][q].phase \notin {"none", "claimed"}
        PROVE  job'[v][q].attempts = attempts'[q]
    BY <1>5, <2>1, <2>2, RefetchEffect
  <2>3. \A v \in Workers, q \in RawIds : Busy(v, q) => Busy(v, q)'
    BY <1>5, RefetchEffect
  <2> QED BY <2>1, <2>2, <2>3
<1>6. ASSUME NEW w \in Workers, RefetchFails(w) \/ Crash(w) PROVE BudgetInv'
  <2>1. status' = status /\ attempts' = attempts /\ faults' = faults + 1
    BY <1>6, DropBatchEffect DEF queueVars
  <2>2. \A q \in RawIds : attempts'[q] < MaxAttempts + faults'
    BY <1>0, <2>1
  <2>3. ASSUME NEW v \in Workers, NEW q \in RawIds, job'[v][q].phase \notin {"none", "claimed"}
        PROVE  job'[v][q].attempts = attempts'[q]
    BY <1>6, <2>1, <2>3, DropBatchEffect
  <2> QED BY <1>0, <2>1, <2>2, <2>3
<1>7. ASSUME NEW w \in Workers, NEW r \in RawIds,
             ProcessOne(w, r) \/ SettleAnswerLost(w, r) \/ StatusWriteFails(w, r)
      PROVE  BudgetInv'
  <2>1. CASE LlmAnswers(w, r) \/ SettleRollsBack(w, r)
    <3>1. status' = status /\ attempts' = attempts /\ faults' = faults
      BY <2>1 DEF LlmAnswers, SettleRollsBack, queueVars
    <3>2. job[w][r].phase \in {"calling", "settling"} /\ (LlmAnswers(w, r) \/ SettleThrows(w, r))
      BY <2>1 DEF LlmAnswers, SettleRollsBack
    <3> QED BY <3>1, <3>2, ContinueEffect DEF Answered
  <2>2. ASSUME EndJob(w, r), attempts' = attempts, faults' = faults, NEW s \in Status,
               status' = [status EXCEPT ![r] = s], s # "absent",
               s \in Claimable => attempts[r] < MaxAttempts + faults
        PROVE  BudgetInv'
    <3>1. /\ job'[w][r].phase = "none"
          /\ \A v \in Workers, q \in RawIds : v # w \/ q # r => job'[v][q] = job[v][q]
      BY <2>2, EndJobEffect
    <3>2. /\ status'[r] = s
          /\ \A q \in RawIds \ {r} : status'[q] = status[q]
      BY <1>0, <2>2
    <3>3. ASSUME NEW q \in RawIds, status'[q] \in Claimable, \A v \in Workers : ~Busy(v, q)'
          PROVE  attempts'[q] < MaxAttempts + faults'
      BY <2>2, <3>1, <3>2, <3>3
    <3> QED BY <2>2, <3>1, <3>2, <3>3
  <2>3. ASSUME NEW s \in Terminal, FinishAs(w, r, s) PROVE BudgetInv'
    BY <2>2, <2>3, StatusIsStatus DEF FinishAs, Terminal, Claimable
  <2>4. CASE Settle(w, r)
    BY <2>2, <2>4, StatusIsStatus DEF Settle, CommitSettle, Terminal, Claimable
  <2>5. ASSUME BackOff(w, r), job[w][r].phase \in {"network", "settle_failed"}, ~Exhausted(w, r)
        PROVE  BudgetInv'
    <3>1. attempts[r] < MaxAttempts + faults
      BY <1>0, <2>5 DEF Exhausted
    <3> QED BY <2>2, <2>5, <3>1, StatusIsStatus DEF BackOff, Claimable
  <2>6. CASE StatusWriteFails(w, r)
    <3>1. status' = status /\ attempts' = attempts /\ faults' = faults + 1 /\ EndJob(w, r)
      BY <2>6 DEF StatusWriteFails, Fault, queueVars
    <3>2. \A q \in RawIds : attempts'[q] < MaxAttempts + faults'
      BY <1>0, <3>1
    <3>3. ASSUME NEW v \in Workers, NEW q \in RawIds, job'[v][q].phase \notin {"none", "claimed"}
          PROVE  job'[v][q].attempts = attempts'[q]
      BY <3>1, <3>3, EndJobEffect
    <3> QED BY <1>0, <3>1, <3>2, <3>3
  <2>7. CASE SettleAnswerLost(w, r)
    BY <2>7 DEF SettleAnswerLost
  <2> QED BY <1>7, <2>1, <2>3, <2>4, <2>5, <2>6, <2>7
          DEF ProcessOne, RouteUnusable, DeadLetterNetwork, BackOffNetwork, MarkUnclassified,
              RouteLowConfidence, DeadLetterSettle, BackOffSettle, Terminal
<1> QED BY <1>1, <1>2, <1>3, <1>4, <1>5, <1>6, <1>7 DEF Next

LEMMA BudgetInvInit == MaxAttempts >= 1 /\ Init => BudgetInv
PROOF BY NoJobType, QueueAssumption DEF Init, BudgetInv, AttemptsWithinBudget, Claimable

(* Under the same conditions only a fault can cost a row an attempt beyond *)
(* maxAttempts, and each fault costs it one.                               *)
THEOREM AttemptsStayWithinBudget ==
  ASSUME LeaseCoversProcessing, CommitAnswerReliable, MaxAttempts >= 1
  PROVE  Spec => []AttemptsWithinBudget
PROOF
<1>1. Init => BudgetInv
  BY BudgetInvInit
<1>2. TypeOK /\ ExclusiveProcessing /\ BudgetInv /\ [Next]_vars => BudgetInv'
  BY BudgetStep
<1>3. BudgetInv => AttemptsWithinBudget
  BY DEF BudgetInv
<1>4. Spec => []ExclusiveProcessing
  BY JobsStayApart
<1> QED BY <1>1, <1>2, <1>3, <1>4, TypeCorrect, PTL DEF Spec
-----------------------------------------------------------------------------
(* Readings.  The LLM is asked about a webhook anew in every attempt.  The *)
(* theorems below suppose that it answers alike each time, and suppose     *)
(* nothing of leases and commit answers: what then goes wrong without such *)
(* luck, goes wrong because of two readings.                               *)

(* Every event to settle is about the entity that reads names for its row; *)
(* it is the event that reads gives.                                       *)
EntityReadAs(reads) ==
  \A w \in Workers, r \in RawIds :
    job[w][r].phase = "settling" => job[w][r].event.entity = reads[r]
ReadAs(reads) ==
  \A w \in Workers, r \in RawIds :
    job[w][r].phase = "settling" => job[w][r].event = reads[r]

(* The histories hold what was read.                                       *)
RecordedAs(reads) == \A e \in Entities, r \in RawIds : Recorded(e, r) => e = reads[r]
RowsAs(reads) ==
  \A e \in Entities : \A i \in DOMAIN history[e] :
    LET read == reads[history[e][i].raw] IN e = read.entity /\ history[e][i].state = read.state

LEMMA RecordedAsInit == ASSUME NEW reads, LedgerInit PROVE RecordedAs(reads) /\ RowsAs(reads)
PROOF BY DEF LedgerInit, RecordedAs, RowsAs, Recorded

LEMMA RecordedAsStep ==
  ASSUME NEW reads, TypeOK, EntityReadAs(reads), RecordedAs(reads), [Next]_vars
  PROVE  RecordedAs(reads)'
PROOF
<1>1. CASE history' = history
  BY <1>1, SameHistory DEF RecordedAs
<1>2. ASSUME NEW w \in Workers, NEW r \in RawIds,
             job[w][r].phase = "settling", CommitSettle(w, r)
      PROVE  RecordedAs(reads)'
  <2> DEFINE e == job[w][r].event.entity
  <2>1. \A f \in Entities, q \in RawIds :
          Recorded(f, q)' <=> Recorded(f, q) \/ (f = e /\ q = r)
    BY <1>2, CommitRecords
  <2>2. e = reads[r]
    BY <1>2 DEF EntityReadAs
  <2> HIDE DEF e
  <2> QED BY <2>1, <2>2 DEF RecordedAs
<1> QED BY <1>1, <1>2, OnlySettlesWrite

LEMMA RowsAsStep ==
  ASSUME NEW reads, TypeOK, ReadAs(reads), RowsAs(reads), [Next]_vars
  PROVE  RowsAs(reads)'
PROOF
<1>1. CASE history' = history
  BY <1>1 DEF RowsAs
<1>2. ASSUME NEW w \in Workers, NEW r \in RawIds,
             job[w][r].phase = "settling", CommitSettle(w, r)
      PROVE  RowsAs(reads)'
  <2> DEFINE e == job[w][r].event.entity
             s == job[w][r].event.state
             n == Len(history[e])
  <2>1. e = reads[r].entity /\ s = reads[r].state
    BY <1>2 DEF ReadAs
  <2>2. e \in Entities /\ s \in States /\ LedgerTypeOK
    BY <1>2, QueueAssumption DEF TypeOK
  <2>3. CASE SkipDuplicate(e, r)
    BY <1>1, <2>3 DEF SkipDuplicate, ledgerVars
  <2>4. CASE RecordEvent(e, r, s)
    <3> HIDE DEF e, s
    <3>1. /\ n \in Nat /\ DOMAIN history[e] = 1..n /\ DOMAIN history'[e] = 1..(n + 1)
          /\ \A i \in 1..n : history'[e][i] = history[e][i]
          /\ history'[e][n + 1].raw = r /\ history'[e][n + 1].state = s
          /\ \A f \in Entities \ {e} : history'[f] = history[f]
      BY <2>2, <2>4, RecordAppends, NewRowType
    <3> HIDE DEF n
    <3>2. \A i \in 1..(n + 1) : i \in 1..n \/ i = n + 1
      BY <3>1
    <3>3. ASSUME NEW f \in Entities, NEW i \in DOMAIN history'[f]
          PROVE  /\ f = reads[history'[f][i].raw].entity
                 /\ history'[f][i].state = reads[history'[f][i].raw].state
      <4>1. CASE f # e
        BY <3>1, <4>1 DEF RowsAs
      <4>2. CASE f = e /\ i \in 1..n
        BY <3>1, <4>2 DEF RowsAs
      <4>3. CASE f = e /\ i = n + 1
        BY <2>1, <3>1, <4>3
      <4> QED BY <3>1, <3>2, <4>1, <4>2, <4>3
    <3> QED BY <3>3 DEF RowsAs
  <2>5. ApplyEvent(e, r, s)
    BY <1>2 DEF CommitSettle
  <2> QED BY <2>3, <2>4, <2>5 DEF ApplyEvent
<1> QED BY <1>1, <1>2, OnlySettlesWrite

LEMMA OneEntityEach == ASSUME NEW reads PROVE RecordedAs(reads) => AppliedAtMostOnce
PROOF BY DEF RecordedAs, AppliedAtMostOnce

(* A webhook that is read as being about one entity each time is applied   *)
(* to one at most, by any number of workers without valid leases and with  *)
(* any commit answer lost: only two readings can apply it twice.           *)
THEOREM OneReadingAppliesOnce ==
  ASSUME NEW reads \in [RawIds -> Entities]
  PROVE  Spec /\ []EntityReadAs(reads) => []AppliedAtMostOnce
PROOF
<1>1. Init => RecordedAs(reads)
  BY RecordedAsInit DEF Init
<1>2. TypeOK /\ EntityReadAs(reads) /\ RecordedAs(reads) /\ [Next]_vars => RecordedAs(reads)'
  BY RecordedAsStep
<1>3. RecordedAs(reads) => AppliedAtMostOnce
  BY OneEntityEach
<1> QED BY <1>1, <1>2, <1>3, TypeCorrect, PTL DEF Spec

(* The tables by the readings alone: an entity is at least as far as each  *)
(* normalized webhook about it says, and exactly as far as one says.       *)
TablesAs(reads) ==
  /\ \A r \in RawIds : status[r] = "normalized" =>
       Rank[reads[r].state] <= CurrentRank(reads[r].entity)
  /\ \A e \in Entities : current[e] # NoState =>
       \E r \in RawIds : reads[r] = [entity |-> e, state |-> current[e]]

LEMMA TablesFollowRows ==
  ASSUME NEW reads \in [RawIds -> Events], TypeOK, NormalizedIsRecorded, CurrentIsFurthest,
         RowsAs(reads)
  PROVE  TablesAs(reads)
PROOF
<1>1. \A e \in Entities : \A i \in DOMAIN history[e] : history[e][i] \in HistoryRow
  BY DEF TypeOK, LedgerTypeOK
<1>2. \A r \in RawIds : reads[r] = [entity |-> reads[r].entity, state |-> reads[r].state]
  BY QueueAssumption
<1>3. ASSUME NEW r \in RawIds, status[r] = "normalized"
      PROVE  Rank[reads[r].state] <= CurrentRank(reads[r].entity)
  <2>1. entityOf[r] \in Entities /\ Recorded(entityOf[r], r)
    BY <1>3 DEF NormalizedIsRecorded, TypeOK
  <2>2. PICK i \in DOMAIN history[entityOf[r]] : history[entityOf[r]][i].raw = r
    BY <2>1 DEF Recorded
  <2>3. entityOf[r] = reads[r].entity /\ history[entityOf[r]][i].state = reads[r].state
    BY <2>1, <2>2 DEF RowsAs
  <2> QED BY <2>1, <2>2, <2>3 DEF CurrentIsFurthest
<1>4. ASSUME NEW e \in Entities, current[e] # NoState
      PROVE  \E r \in RawIds : reads[r] = [entity |-> e, state |-> current[e]]
  <2>1. PICK i \in DOMAIN history[e] : history[e][i].state = current[e]
    BY <1>4 DEF CurrentIsFurthest
  <2>2. history[e][i].raw \in RawIds
    BY <1>1 DEF HistoryRow
  <2>3. e = reads[history[e][i].raw].entity /\ current[e] = reads[history[e][i].raw].state
    BY <2>1 DEF RowsAs
  <2> QED BY <1>2, <2>2, <2>3
<1> QED BY <1>3, <1>4 DEF TablesAs

(* When every webhook is read alike each time, the canonical tables are    *)
(* what the readings say, whatever the order in which the webhooks arrive, *)
(* are claimed, retried and settled.                                       *)
THEOREM TablesComeFromReadings ==
  ASSUME NEW reads \in [RawIds -> Events]
  PROVE  Spec /\ []ReadAs(reads) => []TablesAs(reads)
PROOF
<1>1. Init => RowsAs(reads)
  BY RecordedAsInit DEF Init
<1>2. TypeOK /\ ReadAs(reads) /\ RowsAs(reads) /\ [Next]_vars => RowsAs(reads)'
  BY RowsAsStep
<1>3. TypeOK /\ NormalizedIsRecorded /\ CurrentIsFurthest /\ RowsAs(reads) => TablesAs(reads)
  BY TablesFollowRows
<1> QED BY <1>1, <1>2, <1>3, TypeCorrect, NormalizedStaysRecorded, QueueCurrentIsFurthest, PTL
        DEF Spec

(* The state that the readings about an entity lead to.                    *)
Furthest(reads, e, r) ==
  /\ reads[r].entity = e
  /\ \A q \in RawIds : reads[q].entity = e => Rank[reads[q].state] <= Rank[reads[r].state]
OrderIsForgotten(reads) ==
  \A e \in Entities, r \in RawIds :
    Furthest(reads, e, r) /\ status[r] = "normalized" => current[e] = reads[r].state

(* A late webhook "is recorded in history but does not regress the         *)
(* materialized state" (README): where no two states have one rank, as     *)
(* those of shipments, an entity is in the state of the furthest webhook   *)
(* about it, in every order of arrival, retries and settling.              *)
THEOREM OrderDoesNotMatter ==
  ASSUME NEW reads \in [RawIds -> Events], \A s, t \in States : Rank[s] = Rank[t] => s = t
  PROVE  Spec /\ []ReadAs(reads) => []OrderIsForgotten(reads)
PROOF
<1>1. TypeOK /\ TablesAs(reads) => OrderIsForgotten(reads)
  <2> SUFFICES ASSUME TypeOK, TablesAs(reads), NEW e \in Entities, NEW r \in RawIds,
                      Furthest(reads, e, r), status[r] = "normalized"
               PROVE  current[e] = reads[r].state
    BY DEF OrderIsForgotten
  <2>1. /\ \A s \in States : Rank[s] \in Nat \ {0}
        /\ \A q \in RawIds : reads[q].state \in States
        /\ current[e] \in States \cup {NoState}
    BY LedgerAssumption, QueueAssumption DEF TypeOK, LedgerTypeOK
  <2>2. Rank[reads[r].state] <= CurrentRank(e)
    BY DEF TablesAs, Furthest
  <2>3. current[e] # NoState
    BY <2>1, <2>2 DEF CurrentRank
  <2>4. PICK q \in RawIds : reads[q] = [entity |-> e, state |-> current[e]]
    BY <2>3 DEF TablesAs
  <2>5. reads[q].entity = e /\ reads[q].state = current[e]
    BY <2>4
  <2>6. Rank[current[e]] <= Rank[reads[r].state]
    BY <2>5 DEF Furthest
  <2>7. Rank[current[e]] = Rank[reads[r].state]
    BY <2>1, <2>2, <2>3, <2>6 DEF CurrentRank
  <2> QED BY <2>1, <2>3, <2>7
<1>2. Spec /\ []ReadAs(reads) => []TablesAs(reads)
  BY TablesComeFromReadings
<1> QED BY <1>1, <1>2, TypeCorrect, PTL
-----------------------------------------------------------------------------
(* Zombies.  A claim pays for one settle: of the jobs that may still settle*)
(* a row, and the entities that have it, there are together no more than   *)
(* the row was claimed times.                                              *)
HeldBy(r) == {e \in Entities : Recorded(e, r)}
OpenPhases == {"claimed", "calling"} \cup Answered
OpenJobs(r) == {w \in Workers : job[w][r].phase \in OpenPhases}
Covers(n, held, open) ==
  IsFiniteSet(held) /\ IsFiniteSet(open) /\ Cardinality(held) + Cardinality(open) <= n
ClaimsCover == \A r \in RawIds : Covers(attempts[r], HeldBy(r), OpenJobs(r))

LEMMA CoverShrinks ==
  ASSUME NEW n \in Nat, NEW H, NEW O, Covers(n, H, O), NEW G, NEW P, G \subseteq H, P \subseteq O
  PROVE  Covers(n, G, P)
PROOF
<1>1. /\ IsFiniteSet(G) /\ Cardinality(G) <= Cardinality(H)
      /\ IsFiniteSet(P) /\ Cardinality(P) <= Cardinality(O)
  BY FS_Subset DEF Covers
<1>2. /\ Cardinality(G) \in Nat /\ Cardinality(H) \in Nat
      /\ Cardinality(P) \in Nat /\ Cardinality(O) \in Nat
  BY <1>1, FS_CardinalityType DEF Covers
<1> QED BY <1>1, <1>2 DEF Covers

LEMMA CoverMoves ==
  ASSUME NEW n \in Nat, NEW H, NEW O, Covers(n, H, O), NEW e, NEW w \in O
  PROVE  Covers(n, H \cup {e}, O \ {w})
PROOF
<1>1. /\ IsFiniteSet(H \cup {e})
      /\ Cardinality(H \cup {e}) = IF e \in H THEN Cardinality(H) ELSE Cardinality(H) + 1
  BY FS_AddElement DEF Covers
<1>2. IsFiniteSet(O \ {w}) /\ Cardinality(O \ {w}) = Cardinality(O) - 1
  BY FS_RemoveElement DEF Covers
<1>3. Cardinality(H) \in Nat /\ Cardinality(O) \in Nat
  BY FS_CardinalityType DEF Covers
<1> QED BY <1>1, <1>2, <1>3 DEF Covers

LEMMA CoverGrows ==
  ASSUME NEW n \in Nat, NEW H, NEW O, Covers(n, H, O), NEW w
  PROVE  Covers(n + 1, H, O \cup {w})
PROOF
<1>1. /\ IsFiniteSet(O \cup {w})
      /\ Cardinality(O \cup {w}) = IF w \in O THEN Cardinality(O) ELSE Cardinality(O) + 1
  BY FS_AddElement DEF Covers
<1>2. Cardinality(H) \in Nat /\ Cardinality(O) \in Nat
  BY FS_CardinalityType DEF Covers
<1> QED BY <1>1, <1>2 DEF Covers

(* No job opens but by a claim, which counts it.                           *)
LEMMA CoverKept ==
  ASSUME TypeOK, ClaimsCover, attempts' = attempts,
         \A r \in RawIds : HeldBy(r)' \subseteq HeldBy(r) /\ OpenJobs(r)' \subseteq OpenJobs(r)
  PROVE  ClaimsCover'
PROOF
<1> SUFFICES ASSUME NEW r \in RawIds PROVE Covers(attempts[r], HeldBy(r)', OpenJobs(r)')
  BY DEF ClaimsCover, Covers
<1>1. attempts[r] \in Nat /\ Covers(attempts[r], HeldBy(r), OpenJobs(r))
  BY DEF ClaimsCover, TypeOK
<1> QED BY <1>1, CoverShrinks

LEMMA ClaimCovers ==
  ASSUME TypeOK, ClaimsCover, NEW w \in Workers, Claim(w)
  PROVE  ClaimsCover'
PROOF
<1>1. PICK batch \in SUBSET Candidates :
         /\ attempts' = [r \in RawIds |-> IF r \in batch THEN attempts[r] + 1 ELSE attempts[r]]
         /\ \A r \in RawIds : job'[w][r].phase = IF r \in batch THEN "claimed" ELSE "none"
         /\ \A v \in Workers \ {w}, r \in RawIds : job'[v][r] = job[v][r]
  BY ClaimEffect
<1> SUFFICES ASSUME NEW r \in RawIds PROVE Covers(attempts'[r], HeldBy(r)', OpenJobs(r)')
  BY DEF ClaimsCover, Covers
<1>2. attempts[r] \in Nat /\ Covers(attempts[r], HeldBy(r), OpenJobs(r))
  BY DEF ClaimsCover, TypeOK
<1>3. HeldBy(r)' \subseteq HeldBy(r)
  BY SameHistory DEF Claim, HeldBy
<1>4. CASE r \in batch
  <2>1. OpenJobs(r)' \subseteq OpenJobs(r) \cup {w}
    BY <1>1 DEF OpenJobs
  <2>2. attempts'[r] = attempts[r] + 1
    BY <1>1, <1>4
  <2>3. Covers(attempts[r] + 1, HeldBy(r), OpenJobs(r) \cup {w})
    BY <1>2, CoverGrows
  <2>4. Covers(attempts[r] + 1, HeldBy(r)', OpenJobs(r)')
    BY <1>2, <1>3, <2>1, <2>3, CoverShrinks, attempts[r] + 1 \in Nat
  <2> QED BY <2>2, <2>4
<1>5. CASE r \notin batch
  <2>1. OpenJobs(r)' \subseteq OpenJobs(r)
    BY <1>1, <1>5 DEF OpenJobs, OpenPhases, Answered
  <2>2. attempts'[r] = attempts[r]
    BY <1>1, <1>5
  <2> QED BY <1>2, <1>3, <2>1, <2>2, CoverShrinks
<1> QED BY <1>4, <1>5

LEMMA CommitCovers ==
  ASSUME TypeOK, ClaimsCover, NEW w \in Workers, NEW r \in RawIds,
         job[w][r].phase = "settling", CommitSettle(w, r), EndJob(w, r) \/ SettleThrows(w, r)
  PROVE  ClaimsCover'
PROOF
<1>1. PICK e \in Entities : \A f \in Entities, q \in RawIds :
        Recorded(f, q)' <=> Recorded(f, q) \/ (f = e /\ q = r)
  BY CommitRecords
<1>2. /\ job'[w][r].phase \notin OpenPhases
      /\ \A v \in Workers, q \in RawIds : v # w \/ q # r => job'[v][q] = job[v][q]
  BY EndJobEffect, SettleThrowsEffect DEF OpenPhases, Answered
<1>3. attempts' = attempts
  BY DEF CommitSettle
<1> SUFFICES ASSUME NEW q \in RawIds PROVE Covers(attempts[q], HeldBy(q)', OpenJobs(q)')
  BY <1>3 DEF ClaimsCover, Covers
<1>4. attempts[q] \in Nat /\ Covers(attempts[q], HeldBy(q), OpenJobs(q))
  BY DEF ClaimsCover, TypeOK
<1>5. CASE q # r
  <2>1. HeldBy(q)' \subseteq HeldBy(q) /\ OpenJobs(q)' \subseteq OpenJobs(q)
    BY <1>1, <1>2, <1>5 DEF HeldBy, OpenJobs
  <2> QED BY <1>4, <2>1, CoverShrinks
<1>6. CASE q = r
  <2>1. HeldBy(q)' \subseteq HeldBy(q) \cup {e}
    BY <1>1 DEF HeldBy
  <2>2. w \in OpenJobs(q)
    BY <1>6 DEF OpenJobs, OpenPhases, Answered
  <2>3. OpenJobs(q)' \subseteq OpenJobs(q) \ {w}
    BY <1>2, <1>6 DEF OpenJobs
  <2>4. Covers(attempts[q], HeldBy(q) \cup {e}, OpenJobs(q) \ {w})
    BY <1>4, <2>2, CoverMoves
  <2> QED BY <1>4, <2>1, <2>3, <2>4, CoverShrinks
<1> QED BY <1>5, <1>6

LEMMA ClaimsCoverStep == TypeOK /\ ClaimsCover /\ [Next]_vars => ClaimsCover'
PROOF
<1> SUFFICES ASSUME TypeOK, ClaimsCover, [Next]_vars PROVE ClaimsCover'
  OBVIOUS
<1>0. ASSUME history' = history PROVE \A r \in RawIds : HeldBy(r)' \subseteq HeldBy(r)
  BY <1>0, SameHistory DEF HeldBy
<1>1. ASSUME history' = history, attempts' = attempts,
             \A w \in Workers, r \in RawIds :
               job'[w][r].phase \in OpenPhases => job[w][r].phase \in OpenPhases
      PROVE  ClaimsCover'
  BY <1>0, <1>1, CoverKept DEF OpenJobs
<1>2. CASE UNCHANGED vars
  BY <1>1, <1>2 DEF vars
<1>3. ASSUME NEW r \in RawIds, Receive(r) \/ LockExpires(r) PROVE ClaimsCover'
  BY <1>1, <1>3 DEF Receive, LockExpires
<1>4. ASSUME NEW w \in Workers, Claim(w) PROVE ClaimsCover'
  BY <1>4, ClaimCovers
<1>5. ASSUME NEW w \in Workers, Refetch(w) PROVE ClaimsCover'
  <2>1. \A v \in Workers, r \in RawIds :
          job'[v][r].phase \in OpenPhases => job[v][r].phase \in OpenPhases
    BY <1>5, RefetchEffect DEF OpenPhases
  <2>2. history' = history /\ attempts' = attempts
    BY <1>5 DEF Refetch, queueVars
  <2> QED BY <1>1, <2>1, <2>2
<1>6. ASSUME NEW w \in Workers, RefetchFails(w) \/ Crash(w) PROVE ClaimsCover'
  <2>1. \A v \in Workers, r \in RawIds :
          job'[v][r].phase \in OpenPhases => job[v][r].phase \in OpenPhases
    BY <1>6, DropBatchEffect DEF OpenPhases, Answered
  <2>2. history' = history /\ attempts' = attempts
    BY <1>6 DEF RefetchFails, Crash, queueVars
  <2> QED BY <1>1, <2>1, <2>2
<1>7. ASSUME NEW w \in Workers, NEW r \in RawIds,
             ProcessOne(w, r) \/ SettleAnswerLost(w, r) \/ StatusWriteFails(w, r)
      PROVE  ClaimsCover'
  <2>1. CASE Settle(w, r) \/ SettleAnswerLost(w, r)
    BY <2>1, CommitCovers DEF Settle, SettleAnswerLost
  <2>2. CASE LlmAnswers(w, r) \/ SettleRollsBack(w, r)
    <3>1. /\ job[w][r].phase \in OpenPhases /\ (LlmAnswers(w, r) \/ SettleThrows(w, r))
          /\ history' = history /\ attempts' = attempts
      BY <2>2 DEF LlmAnswers, SettleRollsBack, OpenPhases, Answered, queueVars
    <3>2. \A v \in Workers, q \in RawIds : v # w \/ q # r => job'[v][q] = job[v][q]
      BY <3>1, ContinueEffect
    <3> QED BY <1>1, <3>1, <3>2
  <2>3. ASSUME EndJob(w, r), history' = history, attempts' = attempts PROVE ClaimsCover'
    <3>1. \A v \in Workers, q \in RawIds :
            job'[v][q].phase \in OpenPhases => job[v][q].phase \in OpenPhases
      BY <2>3, EndJobEffect DEF OpenPhases, Answered
    <3> QED BY <1>1, <2>3, <3>1
  <2>4. CASE StatusWriteFails(w, r)
    BY <2>3, <2>4 DEF StatusWriteFails, queueVars
  <2>5. CASE BackOff(w, r) \/ \E s \in Terminal : FinishAs(w, r, s)
    BY <2>3, <2>5 DEF BackOff, FinishAs
  <2> QED BY <1>7, <2>1, <2>2, <2>4, <2>5
          DEF ProcessOne, RouteUnusable, DeadLetterNetwork, BackOffNetwork, MarkUnclassified,
              RouteLowConfidence, DeadLetterSettle, BackOffSettle, Terminal
<1> QED BY <1>2, <1>3, <1>4, <1>5, <1>6, <1>7 DEF Next

LEMMA ClaimsCoverInit == Init => ClaimsCover
PROOF
<1> SUFFICES ASSUME Init, NEW r \in RawIds PROVE Covers(attempts[r], HeldBy(r), OpenJobs(r))
  BY DEF ClaimsCover
<1>1. HeldBy(r) = {}
  BY DEF Init, LedgerInit, HeldBy, Recorded
<1>2. OpenJobs(r) = {}
  BY NoJobType DEF Init, OpenJobs, OpenPhases, Answered
<1>3. attempts[r] = 0
  BY DEF Init
<1> QED BY <1>1, <1>2, <1>3, FS_EmptySet DEF Covers

BoundedByAttempts ==
  \A r \in RawIds : IsFiniteSet(HeldBy(r)) /\ Cardinality(HeldBy(r)) <= attempts[r]

LEMMA BoundFollows == TypeOK /\ ClaimsCover => BoundedByAttempts
PROOF
<1> SUFFICES ASSUME TypeOK, ClaimsCover, NEW r \in RawIds
             PROVE  IsFiniteSet(HeldBy(r)) /\ Cardinality(HeldBy(r)) <= attempts[r]
  BY DEF BoundedByAttempts
<1>1. /\ attempts[r] \in Nat
      /\ IsFiniteSet(HeldBy(r)) /\ IsFiniteSet(OpenJobs(r))
      /\ Cardinality(HeldBy(r)) + Cardinality(OpenJobs(r)) <= attempts[r]
  BY DEF TypeOK, ClaimsCover, Covers
<1> QED BY <1>1, FS_CardinalityType

(* However many workers settle a webhook after their leases ran out, and   *)
(* however often the LLM changes its mind, no more entities have it than   *)
(* it was claimed times; in particular a webhook claimed once is applied   *)
(* once, with nothing assumed of leases and commit answers.                *)
THEOREM ZombiesAreCounted == Spec => []BoundedByAttempts
PROOF BY ClaimsCoverInit, ClaimsCoverStep, BoundFollows, TypeCorrect, PTL DEF Spec
=============================================================================
