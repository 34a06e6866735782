---------------------------- MODULE WebhookQueue ----------------------------
(***************************************************************************)
(* The raw_events table as inbox and queue, and the workers that drain it. *)
(*                                                                         *)
(* A worker claims a batch of rows in one transaction, re-fetches them,    *)
(* and runs processOne on all of them concurrently: a long LLM call that   *)
(* no transaction covers, then either a single UPDATE of the row or the    *)
(* settle transaction, which writes the entity and the row together.  A    *)
(* claim is protected only by its lease (status and locked_until): no      *)
(* later statement of processOne checks that the worker still holds it.    *)
(*                                                                         *)
(* The settle transaction is one step here.  Each SQL statement outside a  *)
(* transaction is one step; the branch that leads to it reads only the     *)
(* worker's memory.                                                        *)
(***************************************************************************)
EXTENDS EntityLedger, FiniteSets

CONSTANTS
  Workers,      \* worker slots: a process and the ones that replace it
  NoEntity,     \* entity_id of a row that was never settled
  NoEvent,      \* the data of a job that has none
  Events,       \* what the LLM may extract: [entity : Entities, state : States]
  MaxAttempts,  \* config.worker.maxAttempts
  BatchSize,    \* config.worker.batchSize
  MaxFaults,    \* bound: crashes, failed statements and lost commit answers
  LeaseCoversProcessing,  \* TRUE: no job outlives its lease
  CommitAnswerReliable    \* TRUE: COMMIT never fails after taking effect

ASSUME QueueAssumption ==
  /\ RawIds \subseteq Nat /\ IsFiniteSet(RawIds)
  /\ NoEntity \notin Entities
  /\ Events \subseteq [entity : Entities, state : States]
  /\ MaxAttempts \in Nat /\ BatchSize \in Nat /\ MaxFaults \in Nat
  /\ LeaseCoversProcessing \in BOOLEAN /\ CommitAnswerReliable \in BOOLEAN

VARIABLES
  status,    \* raw_events.status, "absent" before the row is inserted
  attempts,  \* raw_events.attempts
  leased,    \* the rows whose locked_until lies in the future
  entityOf,  \* raw_events.entity_type and entity_id
  job,       \* job[w][r]: what worker w is doing with row r
  faults     \* faults so far

queueVars == <<status, attempts, leased, entityOf>>
vars == <<status, attempts, leased, entityOf, job, history, current, faults>>

-----------------------------------------------------------------------------
Terminal == {"normalized", "unclassified", "needs_review", "dead"}
Claimable == {"pending", "processing"}
Status == {"absent"} \cup Claimable \cup Terminal

(* The phases of a job: claimed but not re-fetched; waiting for normalize; *)
(* holding one of its answers; holding the error of the settle transaction.*)
Answered == {"network", "unusable", "unclassified", "low_confidence", "settling"}
Phase == {"none", "claimed", "calling", "settle_failed"} \cup Answered

Job == [phase : Phase, attempts : Nat, event : Events \cup {NoEvent}]
NoJob == [phase |-> "none", attempts |-> 0, event |-> NoEvent]

TypeOK ==
  /\ status \in [RawIds -> Status]
  /\ attempts \in [RawIds -> Nat]
  /\ leased \subseteq RawIds
  /\ entityOf \in [RawIds -> Entities \cup {NoEntity}]
  /\ job \in [Workers -> [RawIds -> Job]]
  /\ \A w \in Workers, r \in RawIds :
       job[w][r].phase = "settling" => job[w][r].event \in Events
  /\ faults \in 0..MaxFaults
  /\ LedgerTypeOK

Init ==
  /\ status = [r \in RawIds |-> "absent"]
  /\ attempts = [r \in RawIds |-> 0]
  /\ leased = {}
  /\ entityOf = [r \in RawIds |-> NoEntity]
  /\ job = [w \in Workers |-> [r \in RawIds |-> NoJob]]
  /\ faults = 0
  /\ LedgerInit

Busy(w, r) == job[w][r].phase # "none"
Idle(w) == \A r \in RawIds : ~Busy(w, r)
SetJob(w, r, j) == job' = [job EXCEPT ![w][r] = j]
EndJob(w, r) == SetJob(w, r, NoJob)
Fault == faults < MaxFaults /\ faults' = faults + 1

-----------------------------------------------------------------------------
(* POST /webhooks inserts a new row, unlocked and pending (see Ingest for  *)
(* what the handler does with duplicates and failures).                    *)
Receive(r) ==
  /\ status[r] = "absent"
  /\ status' = [status EXCEPT ![r] = "pending"]
  /\ UNCHANGED <<attempts, leased, entityOf, job, history, current, faults>>

(* Faulty variants, used by the mutation checks only. *)
CandidatesIgnoringLease == {r \in RawIds : status[r] \in Claimable}
CandidatesOfAnyStatus == {r \in RawIds : status[r] # "absent" /\ r \notin leased}
CandidatesOnlyPending == {r \in RawIds : status[r] = "pending" /\ r \notin leased}

(* WHERE status IN ('pending', 'processing') AND locked_until <= NOW(3).   *)
Candidates == {r \in RawIds : status[r] \in Claimable /\ r \notin leased}

(* SKIP LOCKED passes over the rows locked at this moment: those of a      *)
(* settle transaction in flight (the foreign key of its history row, its   *)
(* status flip), and any row that the claim of another idle worker is      *)
(* scanning, whether that claim then commits, rolls back or leaves the row *)
(* out of its batch.                                                       *)
MayBeLocked(w) ==
  {r \in RawIds : \E v \in Workers \ {w} : Idle(v) \/ job[v][r].phase = "settling"}

(* ORDER BY id LIMIT :batchSize.                                           *)
FirstBatch(S) == {r \in S : Cardinality({q \in S : q < r}) < BatchSize}

(* claimBatch, up to the commit of its transaction.  The loop claims only  *)
(* when every job of the previous batch has ended.                         *)
Claim(w) ==
  /\ Idle(w)
  /\ \E skipped \in SUBSET MayBeLocked(w) :
       LET batch == FirstBatch(Candidates \ skipped) IN
       /\ batch # {}
       /\ status' = [r \in RawIds |-> IF r \in batch THEN "processing" ELSE status[r]]
       /\ attempts' = [r \in RawIds |-> IF r \in batch THEN attempts[r] + 1 ELSE attempts[r]]
       /\ leased' = leased \cup batch
       /\ job' = [job EXCEPT ![w] =
                    [r \in RawIds |-> IF r \in batch
                                      THEN [NoJob EXCEPT !.phase = "claimed"]
                                      ELSE NoJob]]
  /\ UNCHANGED <<entityOf, history, current, faults>>

(* RawEvent.findAll after the commit: a job works with the attempts it     *)
(* reads here, and tick starts processOne on every row of the batch.       *)
Refetch(w) ==
  /\ \E r \in RawIds : job[w][r].phase = "claimed"
  /\ job' = [job EXCEPT ![w] =
               [r \in RawIds |-> IF job[w][r].phase = "claimed"
                                 THEN [phase |-> "calling", attempts |-> attempts[r],
                                       event |-> NoEvent]
                                 ELSE job[w][r]]]
  /\ UNCHANGED <<queueVars, history, current, faults>>

(* normalize() answers: kind network, kind schema or invocation, type      *)
(* unclassified, low confidence, or an event to settle.                    *)
LlmAnswers(w, r) ==
  /\ job[w][r].phase = "calling"
  /\ \/ \E p \in Answered \ {"settling"} :
          SetJob(w, r, [job[w][r] EXCEPT !.phase = p])
     \/ \E ev \in Events :
          SetJob(w, r, [job[w][r] EXCEPT !.phase = "settling", !.event = ev])
  /\ UNCHANGED <<queueVars, history, current, faults>>

(* UPDATE raw_events SET status = s ... WHERE id = r, the last statement   *)
(* of a job.  locked_until stays as it is: only a backoff moves it.        *)
FinishAs(w, r, s) ==
  /\ status' = [status EXCEPT ![r] = s]
  /\ EndJob(w, r)
  /\ UNCHANGED <<attempts, leased, entityOf, history, current, faults>>

(* Back to pending, locked until the end of the backoff delay.             *)
BackOff(w, r) ==
  /\ status' = [status EXCEPT ![r] = "pending"]
  /\ leased' = leased \cup {r}
  /\ EndJob(w, r)
  /\ UNCHANGED <<attempts, entityOf, history, current, faults>>

(* Faulty variants, used by the mutation checks only. *)
ExhaustedTooLate(w, r) == job[w][r].attempts > MaxAttempts
ExhaustedTooEarly(w, r) == job[w][r].attempts + 1 >= MaxAttempts

(* The attempts the job read, not the row's: rawEvent.attempts.            *)
Exhausted(w, r) == job[w][r].attempts >= MaxAttempts

RouteUnusable(w, r) ==
  job[w][r].phase = "unusable" /\ FinishAs(w, r, "needs_review")

DeadLetterNetwork(w, r) ==
  job[w][r].phase = "network" /\ Exhausted(w, r) /\ FinishAs(w, r, "dead")

BackOffNetwork(w, r) ==
  job[w][r].phase = "network" /\ ~Exhausted(w, r) /\ BackOff(w, r)

MarkUnclassified(w, r) ==
  job[w][r].phase = "unclassified" /\ FinishAs(w, r, "unclassified")

(* Faulty variant, used by the mutation checks only. *)
RouteToUnknownStatus(w, r) ==
  job[w][r].phase = "low_confidence" /\ FinishAs(w, r, "low_confidence")

RouteLowConfidence(w, r) ==
  job[w][r].phase = "low_confidence" /\ FinishAs(w, r, "needs_review")

(* Faulty variants, used by the mutation checks only. *)
CommitWithoutFlip(w, r) ==
  /\ ApplyEvent(job[w][r].event.entity, r, job[w][r].event.state)
  /\ UNCHANGED queueVars
CommitLastWriteWins(w, r) ==
  LET ev == job[w][r].event IN
  /\ history' = [history EXCEPT ![ev.entity] =
                   Append(@, [raw |-> r, state |-> ev.state, advanced |-> TRUE])]
  /\ current' = [current EXCEPT ![ev.entity] = ev.state]
  /\ status' = [status EXCEPT ![r] = "normalized"]
  /\ entityOf' = [entityOf EXCEPT ![r] = ev.entity]
  /\ UNCHANGED <<attempts, leased>>

(* What the settle transaction commits: the domain write, an idempotent    *)
(* skip when this entity has the webhook already, and the status flip.     *)
CommitSettle(w, r) ==
  LET ev == job[w][r].event IN
  /\ ApplyEvent(ev.entity, r, ev.state)
  /\ status' = [status EXCEPT ![r] = "normalized"]
  /\ entityOf' = [entityOf EXCEPT ![r] = ev.entity]
  /\ UNCHANGED <<attempts, leased>>

Settle(w, r) ==
  /\ job[w][r].phase = "settling"
  /\ CommitSettle(w, r)
  /\ EndJob(w, r)
  /\ UNCHANGED faults

SettleThrows(w, r) == SetJob(w, r, [job[w][r] EXCEPT !.phase = "settle_failed", !.event = NoEvent])

(* Faulty variants, used by the mutation checks only. *)
DomainWriteOutsideTx(w, r) ==
  /\ job[w][r].phase = "settling"
  /\ ApplyEvent(job[w][r].event.entity, r, job[w][r].event.state)
  /\ SettleThrows(w, r)
  /\ UNCHANGED <<queueVars, faults>>
StatusFlipOutsideTx(w, r) ==
  /\ job[w][r].phase = "settling"
  /\ status' = [status EXCEPT ![r] = "normalized"]
  /\ entityOf' = [entityOf EXCEPT ![r] = job[w][r].event.entity]
  /\ SettleThrows(w, r)
  /\ UNCHANGED <<attempts, leased, history, current, faults>>

(* The transaction rolled back: deadlock victim, lock wait timeout, lost   *)
(* connection, a value the column refuses.                                 *)
SettleRollsBack(w, r) ==
  /\ job[w][r].phase = "settling"
  /\ SettleThrows(w, r)
  /\ UNCHANGED <<queueVars, history, current, faults>>

(* The transaction committed, but the connection was lost before the       *)
(* answer: sequelize.transaction rejects all the same.                     *)
SettleAnswerLost(w, r) ==
  /\ ~CommitAnswerReliable
  /\ Fault
  /\ job[w][r].phase = "settling"
  /\ CommitSettle(w, r)
  /\ SettleThrows(w, r)

DeadLetterSettle(w, r) ==
  job[w][r].phase = "settle_failed" /\ Exhausted(w, r) /\ FinishAs(w, r, "dead")

BackOffSettle(w, r) ==
  job[w][r].phase = "settle_failed" /\ ~Exhausted(w, r) /\ BackOff(w, r)

(* The UPDATE that ends a job fails: processOne rejects, Promise.allSettled *)
(* swallows it, and the row waits for its lease to run out.                *)
StatusWriteFails(w, r) ==
  /\ job[w][r].phase \in {"network", "unusable", "unclassified", "low_confidence", "settle_failed"}
  /\ Fault
  /\ EndJob(w, r)
  /\ UNCHANGED <<queueVars, history, current>>

(* The claim committed but its answer was lost, or findAll failed: tick    *)
(* throws and the loop goes on without the batch.                          *)
RefetchFails(w) ==
  /\ \E r \in RawIds : job[w][r].phase = "claimed"
  /\ Fault
  /\ job' = [job EXCEPT ![w] = [r \in RawIds |-> NoJob]]
  /\ UNCHANGED <<queueVars, history, current>>

(* The process dies with all its jobs; its slot is taken by a new one.     *)
Crash(w) ==
  /\ ~Idle(w)
  /\ Fault
  /\ job' = [job EXCEPT ![w] = [r \in RawIds |-> NoJob]]
  /\ UNCHANGED <<queueVars, history, current>>

(* NOW(3) passes locked_until: the end of a backoff or of a lease.         *)
LockExpires(r) ==
  /\ r \in leased
  /\ LeaseCoversProcessing => \A w \in Workers : ~Busy(w, r)
  /\ leased' = leased \ {r}
  /\ UNCHANGED <<status, attempts, entityOf, job, history, current, faults>>

-----------------------------------------------------------------------------
(* What processOne does unless something breaks.                           *)
ProcessOne(w, r) ==
  \/ LlmAnswers(w, r)
  \/ RouteUnusable(w, r)
  \/ DeadLetterNetwork(w, r)
  \/ BackOffNetwork(w, r)
  \/ MarkUnclassified(w, r)
  \/ RouteLowConfidence(w, r)
  \/ Settle(w, r)
  \/ SettleRollsBack(w, r)
  \/ DeadLetterSettle(w, r)
  \/ BackOffSettle(w, r)

Next ==
  \/ \E r \in RawIds : Receive(r) \/ LockExpires(r)
  \/ \E w \in Workers : Claim(w) \/ Refetch(w) \/ RefetchFails(w) \/ Crash(w)
  \/ \E w \in Workers, r \in RawIds :
       ProcessOne(w, r) \/ SettleAnswerLost(w, r) \/ StatusWriteFails(w, r)

Spec == Init /\ [][Next]_vars

(* Some worker keeps polling; LLM calls end (the SDK's timeout and retry   *)
(* limits) and so do statements; time passes.  Nothing obliges a vendor to *)
(* send a webhook, a worker to crash or a statement to fail.               *)
Fairness ==
  /\ WF_vars(\E w \in Workers : Claim(w))
  /\ \A w \in Workers : WF_vars(Refetch(w))
  /\ \A w \in Workers, r \in RawIds : WF_vars(ProcessOne(w, r))
  /\ \A r \in RawIds : WF_vars(LockExpires(r))

FairSpec == Spec /\ Fairness

-----------------------------------------------------------------------------
HasHistory(r) == \E e \in Entities : Recorded(e, r)

(* A row is worked on by one worker at most, and only while its claim      *)
(* stands: the claim query, the lease and the end of processOne together   *)
(* keep two workers from ever processing the same webhook.                 *)
ExclusiveProcessing ==
  \A r \in RawIds, w \in Workers : Busy(w, r) =>
    /\ status[r] = "processing" /\ r \in leased
    /\ \A v \in Workers : Busy(v, r) => v = w

(* "We can't end up with normalized data missing its status flip, or vice  *)
(* versa" (process.js): the canonical tables hold a webhook exactly when   *)
(* its row says normalized, through retries, crashes and dead letters.     *)
SettleAtomic == \A r \in RawIds : HasHistory(r) <=> status[r] = "normalized"

(* The LLM may answer differently each time it is asked about one webhook, *)
(* yet a webhook ends up in the history of one entity at most.             *)
AppliedAtMostOnce ==
  \A r \in RawIds, e, f \in Entities :
    Recorded(e, r) /\ Recorded(f, r) => e = f

(* Only a broken attempt goes over the limit: each crash or failed         *)
(* statement may add one attempt to a row, and nothing else does.          *)
AttemptsWithinBudget == \A r \in RawIds : attempts[r] <= MaxAttempts + faults

(* A settled row is never taken up again, by any worker.                   *)
SettledIsFinal ==
  [][\A r \in RawIds : status[r] \in Terminal => status'[r] = status[r]]_vars

(* Even when leases run out under live workers and commit answers are      *)
(* lost: the entity a row points to has the webhook in its history, and a  *)
(* row that says normalized points to one.                                 *)
NormalizedIsRecorded ==
  \A r \in RawIds :
    /\ status[r] = "normalized" => entityOf[r] # NoEntity
    /\ entityOf[r] # NoEntity => Recorded(entityOf[r], r)

(* No webhook is given up early: a dead row has used all its attempts,     *)
(* although processOne decides with the number it read at its claim.       *)
DeadOnlyWhenExhausted ==
  \A r \in RawIds : status[r] = "dead" => attempts[r] >= MaxAttempts

(* The workers' settle transactions only ever use the domain layer as it   *)
(* promises: no step of the queue changes an entity in another way.        *)
ImplementsLedger == LedgerSpec

(* Every accepted webhook is settled for good in the end, as the replay    *)
(* harness's waitForDrain expects, although leases run out under live      *)
(* workers, statements fail and workers crash - finitely often.            *)
QueueDrains == <>[](\A r \in RawIds : status[r] \notin Claimable)

(* "Max processing attempts before we give up and mark the event 'dead'"   *)
(* (config.js).                                                            *)
AttemptsBounded == \A r \in RawIds : attempts[r] <= MaxAttempts
=============================================================================
