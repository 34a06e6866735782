--------------------------- MODULE Replay_proofs ----------------------------
(***************************************************************************)
(* Theorems about the two programs that replay webhooks, each of which     *)
(* drives the queue from outside: the replay harness, for any samples,     *)
(* rows, workers and limit of /raw-events, and an operator's UPDATE, for   *)
(* any number of replays, with leases that run out under live workers and  *)
(* lost answers.                                                           *)
(***************************************************************************)
EXTENDS ReplayHarness, ReplayedQueue, WebhookQueue_proofs, FiniteSetTheorems, SequenceTheorems

-----------------------------------------------------------------------------
(* The harness.                                                            *)
LEMMA HarnessStepIsQueueStep == HarnessNext => [Next]_vars
PROOF
<1>1. ASSUME NEW s \in Samples, Post(s) PROVE [Next]_vars
  BY <1>1, HarnessAssumption DEF Post, Store, Next
<1>2. ASSUME NEW s \in Samples, PostFails(s) PROVE UNCHANGED vars
  BY <1>2 DEF PostFails
<1>3. CASE PostDuplicate
  BY <1>3, HarnessAssumption DEF PostDuplicate, Store, Next
<1>4. CASE AllAnswered \/ Drained \/ GetShipments \/ GetInvoices
  BY <1>4 DEF AllAnswered, Drained, GetShipments, GetInvoices, ReadRows, ReadEvents
<1>5. CASE WorkerStep
  BY <1>5 DEF WorkerStep, Next
<1> QED BY <1>1, <1>2, <1>3, <1>4, <1>5 DEF HarnessNext

(* To the queue the harness is a vendor: the theorems about the queue hold *)
(* while the harness uses it.                                              *)
THEOREM HarnessActsAsVendor == HarnessSpec => ActsAsVendor
PROOF
<1>1. HarnessInit => Init
  BY DEF HarnessInit
<1>2. [HarnessNext]_<<vars, harnessVars>> => [Next]_vars
  BY HarnessStepIsQueueStep DEF vars
<1> QED BY <1>1, <1>2, PTL DEF HarnessSpec, ActsAsVendor, Spec

-----------------------------------------------------------------------------
(* What a GET shows.  Histories only grow, and the current state of an     *)
(* entity is the state of one of its rows that advanced it: so the state   *)
(* read first is explained by the rows read later.                         *)
Explains(hist, e, s) ==
  \E i \in DOMAIN hist[e] : hist[e][i].advanced /\ hist[e][i].state = s

LEMMA ExplanationsStay ==
  ASSUME LedgerTypeOK, [LedgerNext]_ledgerVars, NEW e \in Entities, NEW s \in States,
         Explains(history, e, s)
  PROVE  Explains(history', e, s)
PROOF
<1>1. CASE UNCHANGED ledgerVars
  BY <1>1 DEF ledgerVars, Explains
<1>2. ASSUME NEW f \in Entities, NEW r \in RawIds, NEW t \in States, ApplyEvent(f, r, t)
      PROVE  Explains(history', e, s)
  <2>1. CASE SkipDuplicate(f, r)
    BY <2>1 DEF SkipDuplicate, ledgerVars, Explains
  <2>2. CASE RecordEvent(f, r, t)
    <3>1. PICK i \in DOMAIN history[e] : history[e][i].advanced /\ history[e][i].state = s
      BY DEF Explains
    <3>2. history[e] \in Seq(HistoryRow)
      BY DEF LedgerTypeOK
    <3>3. i \in DOMAIN history'[e] /\ history'[e][i] = history[e][i]
      <4>1. CASE e = f
        <5>1. history'[e] = Append(history[e], NewRow(f, r, t))
          BY <2>2, <4>1 DEF RecordEvent, LedgerTypeOK
        <5>2. i \in 1..Len(history[e])
          BY <3>1, <3>2
        <5> QED BY <3>2, <5>1, <5>2
      <4>2. CASE e # f
        BY <2>2, <4>2 DEF RecordEvent, LedgerTypeOK
      <4> QED BY <4>1, <4>2
    <3> QED BY <3>1, <3>3 DEF Explains
  <2> QED BY <1>2, <2>1, <2>2 DEF ApplyEvent
<1> QED BY <1>1, <1>2 DEF LedgerNext

(* Rows were read but not yet their events.                                *)
RowsReadOf(e) ==
  \/ e \in Shipments /\ phase = "shipment_events"
  \/ e \in Invoices /\ phase = "invoice_events"

ViewInv ==
  /\ phase \in Phases
  /\ rows \in [Entities -> States \cup {NoState}]
  /\ events \in [Entities -> Seq(HistoryRow)]
  /\ \A e \in Entities :
       RowsReadOf(e) /\ rows[e] # NoState => Explains(history, e, rows[e])
  /\ ViewExplained

LEMMA CurrentExplained ==
  ASSUME CurrentIsFurthest, NEW e \in Entities, current[e] # NoState
  PROVE  Explains(history, e, current[e])
PROOF BY DEF CurrentIsFurthest, Explains

(* Steps between the GETs only add to the histories.                       *)
LEMMA ViewKept ==
  ASSUME TypeOK, ViewInv, [Next]_vars, UNCHANGED <<rows, events>>,
         \/ phase' = phase
         \/ phase' \in {"posting", "duplicate", "draining", "shipments"}
  PROVE  ViewInv'
PROOF
<1>1. LedgerTypeOK /\ [LedgerNext]_ledgerVars
  BY LedgerSimulation DEF TypeOK
<1>2. ASSUME NEW e \in Entities, RowsReadOf(e)', rows'[e] # NoState
      PROVE  Explains(history', e, rows'[e])
  <2>1. phase' = phase
    BY <1>2 DEF RowsReadOf
  <2>2. Explains(history, e, rows[e]) /\ rows[e] \in States
    BY <1>2, <2>1 DEF RowsReadOf, ViewInv
  <2> QED BY <1>1, <2>2, ExplanationsStay
<1>3. ViewExplained'
  <2> SUFFICES ASSUME NEW e \in Entities, Reported(e)', rows'[e] # NoState
               PROVE  \E i \in DOMAIN events[e] : events[e][i].advanced /\ events[e][i].state = rows[e]
    BY DEF ViewExplained
  <2>1. Reported(e)
    BY DEF Reported
  <2> QED BY <2>1 DEF ViewInv, ViewExplained
<1>4. phase' \in Phases
  BY DEF ViewInv, Phases
<1>5. \A e \in Entities : RowsReadOf(e)' /\ rows'[e] # NoState => Explains(history, e, rows[e])'
  BY <1>2
<1> QED BY <1>3, <1>4, <1>5 DEF ViewInv

LEMMA ViewStep ==
  ASSUME TypeOK, CurrentIsFurthest, ViewInv, [HarnessNext]_<<vars, harnessVars>>
  PROVE  ViewInv'
PROOF
<1>1. [Next]_vars
  BY HarnessStepIsQueueStep DEF vars
<1>2. CASE UNCHANGED <<vars, harnessVars>>
  BY <1>1, <1>2, ViewKept DEF harnessVars
<1>3. CASE (\E s \in Samples : Post(s) \/ PostFails(s)) \/ AllAnswered \/ PostDuplicate
           \/ Drained \/ WorkerStep
  BY <1>1, <1>3, ViewKept
  DEF Post, PostFails, AllAnswered, PostDuplicate, Drained, WorkerStep, harnessVars
<1>4. current \in [Entities -> States \cup {NoState}] /\ history \in [Entities -> Seq(HistoryRow)]
  BY DEF TypeOK, LedgerTypeOK
<1>5. CASE phase = "shipments" /\ ReadRows(Shipments, "shipment_events")
  <2>1. /\ phase' = "shipment_events" /\ history' = history /\ events' = events
        /\ rows' = [e \in Entities |-> IF e \in Shipments THEN current[e] ELSE rows[e]]
    BY <1>5 DEF ReadRows, vars
  <2>2. rows' \in [Entities -> States \cup {NoState}]
    BY <1>4, <2>1 DEF ViewInv
  <2>3. ASSUME NEW e \in Entities, RowsReadOf(e)', rows'[e] # NoState
        PROVE  Explains(history, e, rows[e])'
    BY <2>1, <2>3, CurrentExplained DEF RowsReadOf, Explains
  <2>4. ViewExplained'
    BY <2>1 DEF ViewExplained, Reported
  <2> QED BY <2>1, <2>2, <2>3, <2>4 DEF ViewInv, Phases
<1>6. CASE phase = "shipment_events" /\ ReadEvents(Shipments, "invoices")
  <2>1. /\ phase' = "invoices" /\ history' = history /\ rows' = rows
        /\ events' = [e \in Entities |-> IF e \in Shipments /\ rows[e] # NoState
                                         THEN history[e] ELSE events[e]]
    BY <1>6 DEF ReadEvents, vars
  <2>2. events' \in [Entities -> Seq(HistoryRow)]
    BY <1>4, <2>1 DEF ViewInv
  <2>3. ASSUME NEW e \in Entities, Reported(e)', rows'[e] # NoState
        PROVE  \E i \in DOMAIN events'[e] : events'[e][i].advanced /\ events'[e][i].state = rows'[e]
    <3>1. e \in Shipments /\ events'[e] = history[e]
      BY <2>1, <2>3 DEF Reported
    <3>2. Explains(history, e, rows[e])
      BY <1>6, <2>1, <2>3, <3>1 DEF ViewInv, RowsReadOf
    <3> QED BY <2>1, <3>1, <3>2 DEF Explains
  <2>4. ViewExplained'
    BY <2>3 DEF ViewExplained
  <2>5. \A e \in Entities : ~RowsReadOf(e)'
    BY <2>1 DEF RowsReadOf
  <2> QED BY <2>1, <2>2, <2>4, <2>5 DEF ViewInv, Phases
<1>7. CASE phase = "invoices" /\ ReadRows(Invoices, "invoice_events")
  <2>1. /\ phase' = "invoice_events" /\ history' = history /\ events' = events
        /\ rows' = [e \in Entities |-> IF e \in Invoices THEN current[e] ELSE rows[e]]
    BY <1>7 DEF ReadRows, vars
  <2>2. rows' \in [Entities -> States \cup {NoState}]
    BY <1>4, <2>1 DEF ViewInv
  <2>3. ASSUME NEW e \in Entities, RowsReadOf(e)', rows'[e] # NoState
        PROVE  Explains(history, e, rows[e])'
    BY <2>1, <2>3, CurrentExplained DEF RowsReadOf, Explains
  <2>4. ASSUME NEW e \in Entities, Reported(e)', rows'[e] # NoState
        PROVE  \E i \in DOMAIN events'[e] : events'[e][i].advanced /\ events'[e][i].state = rows'[e]
    <3>1. Reported(e) /\ rows'[e] = rows[e] /\ events'[e] = events[e]
      BY <1>7, <2>1, <2>4 DEF Reported, Invoices
    <3> QED BY <2>4, <3>1 DEF ViewInv, ViewExplained
  <2>5. ViewExplained'
    BY <2>4 DEF ViewExplained
  <2> QED BY <2>1, <2>2, <2>3, <2>5 DEF ViewInv, Phases
<1>8. CASE phase = "invoice_events" /\ ReadEvents(Invoices, "reported")
  <2>1. /\ phase' = "reported" /\ history' = history /\ rows' = rows
        /\ events' = [e \in Entities |-> IF e \in Invoices /\ rows[e] # NoState
                                         THEN history[e] ELSE events[e]]
    BY <1>8 DEF ReadEvents, vars
  <2>2. events' \in [Entities -> Seq(HistoryRow)]
    BY <1>4, <2>1 DEF ViewInv
  <2>3. ASSUME NEW e \in Entities, rows'[e] # NoState
        PROVE  \E i \in DOMAIN events'[e] : events'[e][i].advanced /\ events'[e][i].state = rows'[e]
    <3>1. CASE e \in Invoices
      <4>1. Explains(history, e, rows[e])
        BY <1>8, <2>1, <2>3, <3>1 DEF ViewInv, RowsReadOf
      <4> QED BY <2>1, <2>3, <3>1, <4>1 DEF Explains
    <3>2. CASE e \notin Invoices
      <4>1. Reported(e) /\ rows'[e] = rows[e] /\ events'[e] = events[e]
        BY <1>8, <2>1, <3>2 DEF Reported, Invoices
      <4> QED BY <2>3, <4>1 DEF ViewInv, ViewExplained
    <3> QED BY <3>1, <3>2
  <2>4. ViewExplained'
    BY <2>3 DEF ViewExplained
  <2>5. \A e \in Entities : ~RowsReadOf(e)'
    BY <2>1 DEF RowsReadOf
  <2> QED BY <2>1, <2>2, <2>4, <2>5 DEF ViewInv, Phases
<1> QED BY <1>2, <1>3, <1>5, <1>6, <1>7, <1>8 DEF HarnessNext, GetShipments, GetInvoices

LEMMA HarnessKeepsQueue ==
  HarnessSpec => [](TypeOK /\ CurrentIsFurthest /\ HistoryUnique)
PROOF
<1>1. HarnessSpec => Spec
  BY HarnessActsAsVendor DEF ActsAsVendor
<1> QED BY <1>1, TypeCorrect, QueueCurrentIsFurthest, QueueHistoryUnique, PTL

(* Whatever the workers do between the two queries of a GET, an entity is  *)
(* shown in a state that the events shown with it explain.                 *)
THEOREM ViewsAreExplained == HarnessSpec => []ViewExplained
PROOF
<1>1. HarnessInit => ViewInv
  BY DEF HarnessInit, ViewInv, RowsReadOf, ViewExplained, Reported, Phases
<1>2. ViewInv => ViewExplained
  BY DEF ViewInv
<1> QED BY <1>1, <1>2, ViewStep, HarnessKeepsQueue, PTL DEF HarnessSpec

-----------------------------------------------------------------------------
(* That the report is final.  Once everything listed is settled and        *)
(* everything stored is listed, no worker has a job, and none gets one.    *)
Reading == {"shipments", "shipment_events", "invoices", "invoice_events", "reported"}
Quiet == \A r \in Stored : status[r] \in Terminal

LEMMA QuietWorkers ==
  ASSUME TypeOK, ExclusiveProcessing, Quiet, WorkerStep
  PROVE  UNCHANGED <<status, history, current, phase, raws, rows, events>>
PROOF
<1>1. \A w \in Workers, r \in RawIds : ~Busy(w, r)
  BY DEF ExclusiveProcessing, Quiet, Stored, Terminal
<1>2. ASSUME NEW w \in Workers, Claim(w) PROVE FALSE
  <2>1. Candidates = {}
    BY DEF Candidates, Quiet, Stored, Terminal, Claimable
  <2> QED BY <1>2, <2>1 DEF Claim, FirstBatch
<1>3. ASSUME NEW w \in Workers, Refetch(w) \/ RefetchFails(w) \/ Crash(w) PROVE FALSE
  BY <1>1, <1>3 DEF Refetch, RefetchFails, Crash, Idle, Busy
<1>4. ASSUME NEW w \in Workers, NEW r \in RawIds,
             ProcessOne(w, r) \/ SettleAnswerLost(w, r) \/ StatusWriteFails(w, r)
      PROVE  FALSE
  BY <1>1, <1>4 DEF ProcessOne, SettleAnswerLost, StatusWriteFails, LlmAnswers, RouteUnusable,
     DeadLetterNetwork, BackOffNetwork, MarkUnclassified, RouteLowConfidence, Settle,
     SettleRollsBack, DeadLetterSettle, BackOffSettle, Busy
<1>5. ASSUME NEW r \in RawIds, LockExpires(r) PROVE UNCHANGED <<status, history, current>>
  BY <1>5 DEF LockExpires
<1> QED BY <1>2, <1>3, <1>4, <1>5 DEF WorkerStep, harnessVars

(* LIMIT cuts nothing off when there are no more rows than that.           *)
LEMMA AllAreListed == ASSUME AllListed PROVE Listed = Stored
PROOF
<1>1. IsFiniteSet(Stored)
  BY QueueAssumption, FS_Subset DEF Stored
<1>2. ASSUME NEW r \in Stored PROVE Cardinality({q \in Stored : q < r}) < Limit
  <2> DEFINE before == {q \in Stored : q < r}
  <2>1. r \in Nat /\ ~(r < r)
    BY QueueAssumption DEF Stored
  <2>2. before \in SUBSET Stored /\ before # Stored
    BY <2>1
  <2>3. /\ IsFiniteSet(before) /\ Cardinality(before) <= Cardinality(Stored)
        /\ Cardinality(before) # Cardinality(Stored)
    BY <1>1, <2>2, FS_Subset
  <2>4. Cardinality(before) \in Nat /\ Cardinality(Stored) \in Nat
    BY <1>1, <2>3, FS_CardinalityType
  <2> HIDE DEF before
  <2>5. Cardinality(before) < Limit
    BY <2>3, <2>4, HarnessAssumption DEF AllListed
  <2> QED BY <2>5 DEF before
<1> QED BY <1>2 DEF Listed

(* An entity that is not in its table has no history either.               *)
LEMMA AbsentHasNoHistory ==
  ASSUME TypeOK, CurrentIsFurthest, NEW e \in Entities, current[e] = NoState
  PROVE  history[e] = <<>>
PROOF
<1>1. history[e] \in Seq(HistoryRow)
  BY DEF TypeOK, LedgerTypeOK
<1>2. ASSUME NEW i \in DOMAIN history[e] PROVE FALSE
  <2>1. history[e][i] \in HistoryRow /\ history[e][i].state \in States
    <3>1. history[e][i] \in HistoryRow
      BY <1>1, <1>2
    <3> QED BY <3>1 DEF HistoryRow
  <2>2. Rank[history[e][i].state] \in Nat \ {0}
    BY <2>1, LedgerAssumption
  <2>3. Rank[history[e][i].state] <= 0
    BY <1>2 DEF CurrentIsFurthest, CurrentRank
  <2> QED BY <2>2, <2>3
<1>3. DOMAIN history[e] = 1..Len(history[e]) /\ Len(history[e]) \in Nat
  BY <1>1
<1>4. Len(history[e]) = 0
  BY <1>2, <1>3
<1> QED BY <1>1, <1>4, EmptySeq

(* What has been read is what the tables hold, and the rest is still empty.*)
RowsRead(e) ==
  \/ e \in Shipments /\ phase \in {"shipment_events", "invoices", "invoice_events", "reported"}
  \/ e \in Invoices /\ phase \in {"invoice_events", "reported"}

EventsRead(e) ==
  \/ e \in Shipments /\ phase \in {"invoices", "invoice_events", "reported"}
  \/ e \in Invoices /\ phase = "reported"

ReadSoFar ==
  \A e \in Entities :
    /\ rows[e] = IF RowsRead(e) THEN current[e] ELSE NoState
    /\ events[e] = IF EventsRead(e) THEN history[e] ELSE <<>>

FinalInv ==
  /\ phase \in Phases
  /\ rows \in [Entities -> States \cup {NoState}]
  /\ events \in [Entities -> Seq(HistoryRow)]
  /\ phase \notin Reading => \A e \in Entities : rows[e] = NoState /\ events[e] = <<>>
  /\ phase \in Reading /\ AllListed =>
       Quiet /\ raws = [r \in Stored |-> status[r]] /\ ReadSoFar

(* No row ever leaves raw_events.                                          *)
LEMMA StoredGrows ==
  ASSUME TypeOK, [Next]_vars, NEW q \in RawIds, status[q] # "absent"
  PROVE  status'[q] # "absent"
PROOF
<1>1. ASSUME UNCHANGED status PROVE status'[q] # "absent"
  BY <1>1
<1>2. ASSUME NEW r \in RawIds, NEW s \in Status \ {"absent"}, status' = [status EXCEPT ![r] = s]
      PROVE  status'[q] # "absent"
  BY <1>2 DEF TypeOK
<1>3. ASSUME NEW r \in RawIds, Receive(r) \/ LockExpires(r) PROVE status'[q] # "absent"
  BY <1>1, <1>2, <1>3 DEF Receive, LockExpires, Status, Claimable
<1>4. ASSUME NEW w \in Workers, Claim(w) PROVE status'[q] # "absent"
  <2>1. PICK batch \in SUBSET Candidates :
          status' = [r \in RawIds |-> IF r \in batch THEN "processing" ELSE status[r]]
    BY <1>4, ClaimEffect
  <2> QED BY <2>1
<1>5. ASSUME NEW w \in Workers, Refetch(w) \/ RefetchFails(w) \/ Crash(w)
      PROVE  status'[q] # "absent"
  BY <1>1, <1>5 DEF Refetch, RefetchFails, Crash, queueVars
<1>6. ASSUME NEW w \in Workers, NEW r \in RawIds,
             ProcessOne(w, r) \/ SettleAnswerLost(w, r) \/ StatusWriteFails(w, r)
      PROVE  status'[q] # "absent"
  <2>1. CASE LlmAnswers(w, r) \/ SettleRollsBack(w, r) \/ StatusWriteFails(w, r)
    BY <1>1, <2>1 DEF LlmAnswers, SettleRollsBack, StatusWriteFails, queueVars
  <2>2. CASE Settle(w, r) \/ SettleAnswerLost(w, r)
    BY <1>2, <2>2 DEF Settle, SettleAnswerLost, CommitSettle, Status, Terminal
  <2>3. CASE BackOffNetwork(w, r) \/ BackOffSettle(w, r)
    BY <1>2, <2>3 DEF BackOffNetwork, BackOffSettle, BackOff, Status, Claimable
  <2>4. ASSUME NEW s \in Terminal, FinishAs(w, r, s) PROVE status'[q] # "absent"
    BY <1>2, <2>4 DEF FinishAs, Status, Terminal
  <2> QED BY <1>6, <2>1, <2>2, <2>3, <2>4
          DEF ProcessOne, RouteUnusable, DeadLetterNetwork, MarkUnclassified, RouteLowConfidence,
              DeadLetterSettle, Terminal
<1> QED BY <1>1, <1>3, <1>4, <1>5, <1>6 DEF Next, vars

LEMMA ListsShrink ==
  ASSUME TypeOK, [Next]_vars, AllListed'
  PROVE  AllListed
PROOF
<1>1. Stored \subseteq Stored' /\ Stored' \subseteq RawIds
  BY StoredGrows DEF Stored
<1>2. IsFiniteSet(Stored')
  BY <1>1, QueueAssumption, FS_Subset
<1>3. IsFiniteSet(Stored) /\ Cardinality(Stored) <= Cardinality(Stored')
  BY <1>1, <1>2, FS_Subset
<1>4. Cardinality(Stored) \in Nat /\ Cardinality(Stored') \in Nat
  BY <1>2, <1>3, FS_CardinalityType
<1> QED BY <1>3, <1>4, HarnessAssumption DEF AllListed

LEMMA FinalInvStep ==
  ASSUME TypeOK, ExclusiveProcessing, CurrentIsFurthest, FinalInv,
         [HarnessNext]_<<vars, harnessVars>>
  PROVE  FinalInv'
PROOF
<1>1. [Next]_vars
  BY HarnessStepIsQueueStep DEF vars
<1>2. current \in [Entities -> States \cup {NoState}] /\ history \in [Entities -> Seq(HistoryRow)]
  BY DEF TypeOK, LedgerTypeOK
<1>3. CASE UNCHANGED <<vars, harnessVars>>
  BY <1>3 DEF vars, harnessVars, FinalInv, AllListed, Stored, Quiet, ReadSoFar, RowsRead, EventsRead
<1>4. CASE (\E s \in Samples : Post(s) \/ PostFails(s)) \/ AllAnswered \/ PostDuplicate
  BY <1>4 DEF Post, PostFails, AllAnswered, PostDuplicate, FinalInv, Phases, Reading
<1>5. CASE WorkerStep
  <2>1. UNCHANGED harnessVars
    BY <1>5 DEF WorkerStep
  <2>2. ASSUME phase \in Reading, AllListed'
        PROVE  Quiet' /\ raws' = [r \in Stored' |-> status'[r]] /\ ReadSoFar'
    <3>1. AllListed
      BY <1>1, <2>2, ListsShrink
    <3>2. Quiet /\ raws = [r \in Stored |-> status[r]] /\ ReadSoFar
      BY <2>2, <3>1 DEF FinalInv
    <3>3. UNCHANGED <<status, history, current, phase, raws, rows, events>>
      BY <1>5, <3>2, QuietWorkers
    <3> QED BY <3>2, <3>3 DEF Quiet, Stored, ReadSoFar, RowsRead, EventsRead
  <2> QED BY <2>1, <2>2 DEF FinalInv, harnessVars
<1>6. CASE Drained
  <2>1. /\ phase = "draining" /\ phase' = "shipments" /\ UNCHANGED <<vars, rows, events>>
        /\ Unsettled = {} /\ raws' = [r \in Listed |-> status[r]]
    BY <1>6 DEF Drained
  <2>2. Stored' = Stored /\ (AllListed' <=> AllListed) /\ status' = status
    BY <2>1 DEF Stored, AllListed, vars
  <2>3. ASSUME AllListed PROVE Quiet /\ Listed = Stored
    <3>1. Listed = Stored
      BY <2>3, AllAreListed
    <3> QED BY <2>1, <3>1 DEF Unsettled, Quiet, Stored, TypeOK, Status, Claimable
  <2>4. \A e \in Entities : rows[e] = NoState /\ events[e] = <<>>
    BY <2>1 DEF FinalInv, Reading
  <2>5. ReadSoFar'
    BY <2>1, <2>4 DEF ReadSoFar, RowsRead, EventsRead
  <2> QED BY <2>1, <2>2, <2>3, <2>5 DEF FinalInv, Phases, Reading, Quiet
<1>7. ASSUME NEW S \in SUBSET Entities, NEW next \in Reading \ {"shipments"},
             phase \in Reading, ReadRows(S, next),
             \/ phase = "shipments" /\ S = Shipments /\ next = "shipment_events"
             \/ phase = "invoices" /\ S = Invoices /\ next = "invoice_events"
      PROVE  FinalInv'
  <2>1. /\ UNCHANGED <<vars, raws, events>> /\ phase' = next
        /\ rows' = [e \in Entities |-> IF e \in S THEN current[e] ELSE rows[e]]
    BY <1>7 DEF ReadRows
  <2>2. /\ Stored' = Stored /\ (AllListed' <=> AllListed) /\ status' = status
        /\ (Quiet' <=> Quiet) /\ current' = current /\ history' = history
    BY <2>1 DEF Stored, AllListed, vars, Quiet
  <2>3. rows' \in [Entities -> States \cup {NoState}]
    BY <1>2, <2>1 DEF FinalInv
  <2>4. \A e \in Entities : /\ RowsRead(e)' <=> RowsRead(e) \/ e \in S
                            /\ EventsRead(e)' <=> EventsRead(e)
    BY <1>7, <2>1 DEF RowsRead, EventsRead, Invoices
  <2>5. ASSUME ReadSoFar PROVE ReadSoFar'
    BY <2>1, <2>2, <2>4, <2>5 DEF ReadSoFar
  <2> QED BY <1>7, <2>1, <2>2, <2>3, <2>5 DEF FinalInv, Phases, Reading
<1>8. ASSUME NEW S \in SUBSET Entities, NEW next \in Reading \ {"shipments"},
             phase \in Reading, ReadEvents(S, next),
             \/ phase = "shipment_events" /\ S = Shipments /\ next = "invoices"
             \/ phase = "invoice_events" /\ S = Invoices /\ next = "reported"
      PROVE  FinalInv'
  <2>1. /\ UNCHANGED <<vars, raws, rows>> /\ phase' = next
        /\ events' = [e \in Entities |-> IF e \in S /\ rows[e] # NoState
                                         THEN history[e] ELSE events[e]]
    BY <1>8 DEF ReadEvents
  <2>2. /\ Stored' = Stored /\ (AllListed' <=> AllListed) /\ status' = status
        /\ (Quiet' <=> Quiet) /\ current' = current /\ history' = history
    BY <2>1 DEF Stored, AllListed, vars, Quiet
  <2>3. events' \in [Entities -> Seq(HistoryRow)]
    BY <1>2, <2>1 DEF FinalInv
  <2>4. \A e \in Entities : /\ RowsRead(e)' <=> RowsRead(e)
                            /\ EventsRead(e)' <=> EventsRead(e) \/ e \in S
                            /\ e \in S => RowsRead(e) /\ ~EventsRead(e)
    BY <1>8, <2>1 DEF RowsRead, EventsRead, Invoices
  <2>5. ASSUME ReadSoFar PROVE ReadSoFar'
    <3>1. ASSUME NEW e \in S PROVE events'[e] = history[e]
      <4>1. rows[e] = current[e] /\ events[e] = <<>>
        BY <2>4, <2>5 DEF ReadSoFar
      <4> QED BY <2>1, <4>1, AbsentHasNoHistory
    <3>2. \A e \in Entities \ S : events'[e] = events[e]
      BY <2>1
    <3> QED BY <2>1, <2>2, <2>4, <2>5, <3>1, <3>2 DEF ReadSoFar
  <2> QED BY <1>8, <2>1, <2>2, <2>3, <2>5 DEF FinalInv, Phases, Reading
<1>9. CASE GetShipments \/ GetInvoices
  <2>1. Shipments \in SUBSET Entities /\ Invoices \in SUBSET Entities
    BY HarnessAssumption DEF Invoices
  <2> QED BY <1>7, <1>8, <1>9, <2>1 DEF GetShipments, GetInvoices, Reading
<1> QED BY <1>3, <1>4, <1>5, <1>6, <1>9 DEF HarnessNext

LEMMA FinalInvHolds ==
  ASSUME LeaseCoversProcessing, CommitAnswerReliable
  PROVE  HarnessSpec => [](TypeOK /\ CurrentIsFurthest /\ HistoryUnique /\ LeaseInv /\ FinalInv)
PROOF
<1>1. HarnessInit => FinalInv
  BY DEF HarnessInit, FinalInv, Phases, Reading
<1>2. HarnessSpec => []LeaseInv
  <2>1. HarnessSpec => Spec
    BY HarnessActsAsVendor DEF ActsAsVendor
  <2>2. Spec => []LeaseInv
    BY LeaseInvHolds
  <2> QED BY <2>1, <2>2, PTL
<1>3. TypeOK /\ CurrentIsFurthest /\ LeaseInv /\ FinalInv /\ [HarnessNext]_<<vars, harnessVars>>
        => FinalInv'
  BY FinalInvStep DEF LeaseInv
<1> QED BY <1>1, <1>2, <1>3, HarnessKeepsQueue, PTL DEF HarnessSpec

(* As long as leases hold and commit answers arrive, what the harness      *)
(* reports stays equal to the tables, unless /raw-events cut rows off.     *)
THEOREM ReportsAreFinal ==
  ASSUME LeaseCoversProcessing, CommitAnswerReliable
  PROVE  HarnessSpec => []ReportIsFinal
PROOF
<1>1. TypeOK /\ FinalInv => ReportIsFinal
  <2> SUFFICES ASSUME TypeOK, FinalInv, phase = "reported", AllListed
               PROVE  /\ raws = [r \in Stored |-> status[r]]
                      /\ rows = current /\ events = history
    BY DEF ReportIsFinal
  <2>1. ReadSoFar /\ raws = [r \in Stored |-> status[r]]
    BY DEF FinalInv, Reading
  <2>2. \A e \in Entities : RowsRead(e) /\ EventsRead(e)
    BY DEF RowsRead, EventsRead, Invoices
  <2>3. \A e \in Entities : rows[e] = current[e] /\ events[e] = history[e]
    BY <2>1, <2>2 DEF ReadSoFar
  <2> QED BY <2>1, <2>3 DEF FinalInv, TypeOK, LedgerTypeOK
<1>2. HarnessSpec => [](TypeOK /\ CurrentIsFurthest /\ HistoryUnique /\ LeaseInv /\ FinalInv)
  BY FinalInvHolds
<1> QED BY <1>1, <1>2, PTL

(* Under the same conditions the harness's checks cannot fail for a reason *)
(* in the queue: duplicated or lost events, or a state that regressed.     *)
THEOREM ChecksPass ==
  ASSUME LeaseCoversProcessing, CommitAnswerReliable
  PROVE  HarnessSpec => []SanityChecks
PROOF
<1>1. TypeOK /\ CurrentIsFurthest /\ HistoryUnique /\ LeaseInv /\ ReportIsFinal => SanityChecks
  <2> SUFFICES ASSUME TypeOK, CurrentIsFurthest, HistoryUnique, LeaseInv, ReportIsFinal,
                      phase = "reported", AllListed
               PROVE  SanityChecks
    BY DEF SanityChecks
  <2>1. /\ raws = [r \in Stored |-> status[r]]
        /\ rows = current /\ events = history
    BY DEF ReportIsFinal
  <2>2. ASSUME NEW r \in DOMAIN raws
        PROVE  raws[r] = "normalized" <=>
                 \E e \in Entities : \E i \in DOMAIN events[e] : events[e][i].raw = r
    BY <2>1 DEF LeaseInv, SettleAtomic, HasHistory, Recorded, Stored
  <2>3. ASSUME NEW e \in Entities, NEW f \in Entities, NEW i \in DOMAIN events[e],
               NEW j \in DOMAIN events[f], events[e][i].raw = events[f][j].raw
        PROVE  e = f /\ i = j
    <3>1. history[e][i] \in HistoryRow
      BY <2>1 DEF TypeOK, LedgerTypeOK
    <3>2. history[e][i].raw \in RawIds
      BY <3>1 DEF HistoryRow
    <3>3. Recorded(e, history[e][i].raw) /\ Recorded(f, history[e][i].raw)
      BY <2>1, <2>3 DEF Recorded
    <3>4. e = f
      BY <3>2, <3>3 DEF LeaseInv, AppliedAtMostOnce
    <3> QED BY <2>1, <2>3, <3>4 DEF HistoryUnique
  <2>4. ASSUME NEW e \in Entities, NEW i \in DOMAIN events[e]
        PROVE  Rank[events[e][i].state] <= Rank[rows[e]]
    <3>1. Rank[history[e][i].state] <= CurrentRank(e)
      BY <2>1, <2>4 DEF CurrentIsFurthest
    <3>2. current[e] # NoState
      BY <2>1, <2>4, AbsentHasNoHistory
    <3> QED BY <2>1, <3>1, <3>2 DEF CurrentRank
  <2> QED BY <2>2, <2>3, <2>4 DEF SanityChecks
<1>2. HarnessSpec => [](TypeOK /\ CurrentIsFurthest /\ HistoryUnique /\ LeaseInv /\ FinalInv)
  BY FinalInvHolds
<1>3. HarnessSpec => []ReportIsFinal
  BY ReportsAreFinal
<1> QED BY <1>1, <1>2, <1>3, PTL

(* The report by the readings alone.                                       *)
ReportAs(reads) ==
  phase = "reported" /\ AllListed =>
    /\ \A r \in DOMAIN raws : raws[r] = "normalized" =>
         /\ rows[reads[r].entity] # NoState
         /\ Rank[reads[r].state] <= Rank[rows[reads[r].entity]]
    /\ \A e \in Entities : rows[e] # NoState =>
         \E r \in DOMAIN raws :
           raws[r] = "normalized" /\ reads[r] = [entity |-> e, state |-> rows[e]]

LEMMA ReportFollowsReadings ==
  ASSUME NEW reads \in [RawIds -> Events], TypeOK, CurrentIsFurthest, NormalizedIsRecorded,
         SettleAtomic, RowsAs(reads), ReportIsFinal
  PROVE  ReportAs(reads)
PROOF
<1> SUFFICES ASSUME phase = "reported", AllListed PROVE ReportAs(reads)
  BY DEF ReportAs
<1>1. raws = [r \in Stored |-> status[r]] /\ rows = current
  BY DEF ReportIsFinal
<1>2. DOMAIN raws = Stored /\ Stored \subseteq RawIds /\ \A r \in Stored : raws[r] = status[r]
  BY <1>1 DEF Stored
<1>3. TablesAs(reads)
  BY TablesFollowRows
<1>4. /\ \A r \in RawIds : reads[r] = [entity |-> reads[r].entity, state |-> reads[r].state]
      /\ \A r \in RawIds : Rank[reads[r].state] \in Nat \ {0}
  BY QueueAssumption, LedgerAssumption
<1>5. ASSUME NEW r \in DOMAIN raws, raws[r] = "normalized"
      PROVE  /\ rows[reads[r].entity] # NoState
             /\ Rank[reads[r].state] <= Rank[rows[reads[r].entity]]
  <2>1. r \in RawIds /\ Rank[reads[r].state] <= CurrentRank(reads[r].entity)
    BY <1>2, <1>3, <1>5 DEF TablesAs
  <2> QED BY <1>1, <1>4, <2>1 DEF CurrentRank
<1>6. ASSUME NEW e \in Entities, rows[e] # NoState
      PROVE  \E r \in DOMAIN raws :
               raws[r] = "normalized" /\ reads[r] = [entity |-> e, state |-> rows[e]]
  <2>1. PICK i \in DOMAIN history[e] : history[e][i].state = current[e]
    BY <1>1, <1>6 DEF CurrentIsFurthest
  <2> DEFINE r == history[e][i].raw
  <2>2. r \in RawIds
    <3>1. history[e] \in Seq(HistoryRow)
      BY DEF TypeOK, LedgerTypeOK
    <3>2. history[e][i] \in HistoryRow
      BY <3>1
    <3> QED BY <3>2 DEF HistoryRow
  <2>3. status[r] = "normalized"
    BY <2>2 DEF SettleAtomic, HasHistory, Recorded
  <2>4. r \in DOMAIN raws /\ raws[r] = "normalized"
    BY <1>2, <2>2, <2>3 DEF Stored
  <2>5. e = reads[r].entity /\ current[e] = reads[r].state
    BY <2>1 DEF RowsAs
  <2> QED BY <1>1, <1>4, <2>2, <2>4, <2>5
<1> QED BY <1>5, <1>6 DEF ReportAs

(* From the POSTs to the report: if every sample is read alike each time,  *)
(* leases hold and commit answers arrive, the harness reports an entity in *)
(* a state that a normalized sample says, and that no normalized sample    *)
(* about it outranks - in whatever order the samples arrive, race, fail,   *)
(* are retried or crash a worker.                                          *)
THEOREM ReportsComeFromReadings ==
  ASSUME LeaseCoversProcessing, CommitAnswerReliable, NEW reads \in [RawIds -> Events]
  PROVE  HarnessSpec /\ []ReadAs(reads) => []ReportAs(reads)
PROOF
<1>1. Init => RowsAs(reads)
  BY RecordedAsInit DEF Init
<1>2. TypeOK /\ ReadAs(reads) /\ RowsAs(reads) /\ [Next]_vars => RowsAs(reads)'
  BY RowsAsStep
<1>3. HarnessSpec => Spec
  BY HarnessActsAsVendor DEF ActsAsVendor
<1>4. Spec => []LeaseInv
  BY LeaseInvHolds
<1>5. LeaseInv => SettleAtomic
  BY DEF LeaseInv
<1>6. TypeOK /\ CurrentIsFurthest /\ NormalizedIsRecorded /\ SettleAtomic /\ RowsAs(reads)
        /\ ReportIsFinal => ReportAs(reads)
  BY ReportFollowsReadings
<1>7. Spec /\ []ReadAs(reads) => []RowsAs(reads)
  BY <1>1, <1>2, TypeCorrect, PTL DEF Spec
<1>8. HarnessSpec => []ReportIsFinal
  BY ReportsAreFinal
<1> QED BY <1>3, <1>4, <1>5, <1>6, <1>7, <1>8, TypeCorrect, QueueCurrentIsFurthest,
           NormalizedStaysRecorded, PTL

-----------------------------------------------------------------------------
(* The operator.                                                           *)
LEMMA OnlyReplaysAreNew ==
  ASSUME ReplayNext
  PROVE  [Next]_vars \/ \E r \in RawIds : Replay(r)
PROOF
<1>1. OtherStep => Next
  BY DEF OtherStep, Next, ProcessOne
<1>2. ASSUME NEW w \in Workers, NEW r \in RawIds, WriteReading(w, r) PROVE Next
  BY <1>2 DEF WriteReading, Next, ProcessOne
<1> QED BY <1>1, <1>2 DEF ReplayNext

(* A replay touches neither an entity nor a job nor the counters.          *)
LEMMA ReplayKeeps ==
  ASSUME TypeOK, NEW r \in RawIds, Replay(r)
  PROVE  /\ TypeOK'
         /\ UNCHANGED <<attempts, leased, entityOf, job, history, current, faults>>
         /\ status' = [status EXCEPT ![r] = "pending"]
PROOF
<1>1. "pending" \in Status
  BY StatusIsStatus DEF Claimable
<1> QED BY <1>1 DEF Replay, TypeOK, LedgerTypeOK

LEMMA ReplayTypeStep == TypeOK /\ [ReplayNext]_<<vars, replayVars>> => TypeOK'
PROOF
<1> SUFFICES ASSUME TypeOK, [ReplayNext]_<<vars, replayVars>> PROVE TypeOK'
  OBVIOUS
<1>1. [Next]_vars \/ \E r \in RawIds : Replay(r)
  BY OnlyReplaysAreNew DEF vars
<1> QED BY <1>1, TypeStep, ReplayKeeps

LEMMA ReplayTypes == ReplaySpec => []TypeOK
PROOF
<1>1. ReplayInit => TypeOK
  BY TypeInit DEF ReplayInit
<1> QED BY <1>1, ReplayTypeStep, PTL DEF ReplaySpec

(* However often webhooks are replayed, the entities stay correct ledgers: *)
(* a replay adds to a history or is absorbed, it never rewrites one.       *)
THEOREM ReplayImplementsLedger == ReplaySpec => ImplementsLedger
PROOF
<1>1. ReplayInit => LedgerInit
  BY DEF ReplayInit, Init
<1>2. TypeOK /\ [ReplayNext]_<<vars, replayVars>> => [LedgerNext]_ledgerVars
  <2> SUFFICES ASSUME TypeOK, [ReplayNext]_<<vars, replayVars>> PROVE [LedgerNext]_ledgerVars
    OBVIOUS
  <2>1. CASE [Next]_vars
    BY <2>1, LedgerSimulation
  <2>2. ASSUME NEW r \in RawIds, Replay(r) PROVE UNCHANGED ledgerVars
    BY <2>2 DEF Replay, ledgerVars
  <2> QED BY <2>1, <2>2, OnlyReplaysAreNew DEF vars
<1> QED BY <1>1, <1>2, ReplayTypes, PTL DEF ReplaySpec, ImplementsLedger, LedgerSpec

(* A replayed webhook that fails is given up only with its attempts used   *)
(* up: those it used before the replay count.                              *)
THEOREM ReplayedDeadAreExhausted == ReplaySpec => []DeadOnlyWhenExhausted
PROOF
<1>1. ReplayInit => DeadInv
  BY NoJobType DEF ReplayInit, Init, DeadInv, JobAttemptsBehind, DeadOnlyWhenExhausted
<1>2. TypeOK /\ DeadInv /\ [ReplayNext]_<<vars, replayVars>> => DeadInv'
  <2> SUFFICES ASSUME TypeOK, DeadInv, [ReplayNext]_<<vars, replayVars>> PROVE DeadInv'
    OBVIOUS
  <2>1. CASE [Next]_vars
    BY <2>1, DeadStep
  <2>2. ASSUME NEW r \in RawIds, Replay(r) PROVE DeadInv'
    BY <2>2, ReplayKeeps DEF DeadInv, JobAttemptsBehind, DeadOnlyWhenExhausted, TypeOK
  <2> QED BY <2>1, <2>2, OnlyReplaysAreNew DEF vars
<1>3. DeadInv => DeadOnlyWhenExhausted
  BY DEF DeadInv
<1> QED BY <1>1, <1>2, <1>3, ReplayTypes, PTL DEF ReplaySpec
-----------------------------------------------------------------------------
(* What follows a replay.                                                  *)
LEMMA ReplayInitial ==
  ReplayInit => Init /\ readAs = [r \in RawIds |-> NoState] /\ replays = 0
PROOF BY DEF ReplayInit

LEMMA ReplayedStaysRecorded == ReplaySpec => []NormalizedIsRecorded
PROOF
<1>1. ReplayInit => NormalizedIsRecorded
  BY DEF ReplayInit, Init, NormalizedIsRecorded
<1>2. TypeOK /\ NormalizedIsRecorded /\ [ReplayNext]_<<vars, replayVars>> => NormalizedIsRecorded'
  <2> SUFFICES ASSUME TypeOK, NormalizedIsRecorded, [ReplayNext]_<<vars, replayVars>>
               PROVE  NormalizedIsRecorded'
    OBVIOUS
  <2>1. CASE [Next]_vars
    BY <2>1, NormalizedIsRecordedStep
  <2>2. ASSUME NEW r \in RawIds, Replay(r) PROVE NormalizedIsRecorded'
    BY <2>2, ReplayKeeps, SameHistory DEF NormalizedIsRecorded, TypeOK
  <2> QED BY <2>1, <2>2, OnlyReplaysAreNew DEF vars
<1> QED BY <1>1, <1>2, ReplayTypes, PTL DEF ReplaySpec

LEMMA ReplayedCurrentIsFurthest == ReplaySpec => []CurrentIsFurthest
PROOF BY ReplayImplementsLedger, CurrentStaysFurthest, PTL DEF ImplementsLedger

LEMMA ReplayedRowsAs ==
  ASSUME NEW reads
  PROVE  ReplaySpec /\ []ReadAs(reads) => []RowsAs(reads)
PROOF
<1>1. ReplayInit => RowsAs(reads)
  BY RecordedAsInit DEF ReplayInit, Init
<1>2. TypeOK /\ ReadAs(reads) /\ RowsAs(reads) /\ [ReplayNext]_<<vars, replayVars>>
        => RowsAs(reads)'
  <2> SUFFICES ASSUME TypeOK, ReadAs(reads), RowsAs(reads), [ReplayNext]_<<vars, replayVars>>
               PROVE  RowsAs(reads)'
    OBVIOUS
  <2>1. CASE [Next]_vars
    BY <2>1, RowsAsStep
  <2>2. ASSUME NEW r \in RawIds, Replay(r) PROVE RowsAs(reads)'
    BY <2>2, ReplayKeeps DEF RowsAs
  <2> QED BY <2>1, <2>2, OnlyReplaysAreNew DEF vars
<1> QED BY <1>1, <1>2, ReplayTypes, PTL DEF ReplaySpec

(* Replays of any rows, any number of times, change nothing that the       *)
(* readings do not: history is added to, never rewritten, so while every   *)
(* webhook is read alike the tables are what the readings say.             *)
THEOREM ReplayedTablesComeFromReadings ==
  ASSUME NEW reads \in [RawIds -> Events]
  PROVE  ReplaySpec /\ []ReadAs(reads) => []TablesAs(reads)
PROOF
<1>1. TypeOK /\ NormalizedIsRecorded /\ CurrentIsFurthest /\ RowsAs(reads) => TablesAs(reads)
  BY TablesFollowRows
<1>2. ReplaySpec /\ []ReadAs(reads) => []RowsAs(reads)
  BY ReplayedRowsAs
<1> QED BY <1>1, <1>2, ReplayTypes, ReplayedStaysRecorded, ReplayedCurrentIsFurthest, PTL

(* The step that makes a row normalized or points it to an entity stores   *)
(* what was read there.                                                    *)
LEMMA OnlySettlesRead ==
  ASSUME TypeOK, [ReplayNext]_<<vars, replayVars>>
  PROVE  \/ /\ UNCHANGED <<history, entityOf, readAs>>
            /\ \A r \in RawIds : status'[r] = "normalized" => status[r] = "normalized"
         \/ \E w \in Workers, r \in RawIds :
              /\ job[w][r].phase = "settling" /\ CommitSettle(w, r)
              /\ readAs' = [readAs EXCEPT ![r] = job[w][r].event.state]
PROOF
<1> DEFINE Other == /\ UNCHANGED <<history, entityOf>>
                    /\ \A r \in RawIds : status'[r] = "normalized" => status[r] = "normalized"
<1>1. ASSUME OtherStep PROVE Other /\ UNCHANGED readAs
  <2>1. ASSUME NEW w \in Workers, NEW r \in RawIds, ProcessOne(w, r), job[w][r].phase # "settling"
        PROVE  Other
    <3>1. CASE LlmAnswers(w, r)
      BY <3>1 DEF LlmAnswers, queueVars
    <3>2. CASE \E s \in Terminal \ {"normalized"} : FinishAs(w, r, s)
      BY <3>2 DEF FinishAs, TypeOK
    <3>3. CASE BackOff(w, r)
      BY <3>3 DEF BackOff, TypeOK
    <3> QED BY <2>1, <3>1, <3>2, <3>3
            DEF ProcessOne, RouteUnusable, DeadLetterNetwork, BackOffNetwork, MarkUnclassified,
                RouteLowConfidence, Settle, SettleRollsBack, DeadLetterSettle, BackOffSettle,
                Terminal
  <2>2. ASSUME NEW w \in Workers, NEW r \in RawIds, SettleRollsBack(w, r) \/ StatusWriteFails(w, r)
        PROVE  Other
    BY <2>2 DEF SettleRollsBack, StatusWriteFails, queueVars
  <2>3. ASSUME NEW w \in Workers, Claim(w) PROVE Other
    BY <2>3, ClaimEffect DEF Claim
  <2>4. ASSUME NEW w \in Workers, Refetch(w) \/ RefetchFails(w) \/ Crash(w) PROVE Other
    BY <2>4 DEF Refetch, RefetchFails, Crash, queueVars
  <2>5. ASSUME NEW r \in RawIds, Receive(r) \/ LockExpires(r) PROVE Other
    BY <2>5 DEF Receive, LockExpires, TypeOK
  <2> QED BY <1>1, <2>1, <2>2, <2>3, <2>4, <2>5 DEF OtherStep
<1>2. ASSUME NEW w \in Workers, NEW r \in RawIds, WriteReading(w, r)
      PROVE  /\ job[w][r].phase = "settling" /\ CommitSettle(w, r)
             /\ readAs' = [readAs EXCEPT ![r] = job[w][r].event.state]
  BY <1>2 DEF WriteReading, Settle, SettleAnswerLost
<1>3. ASSUME NEW r \in RawIds, Replay(r) PROVE Other /\ UNCHANGED readAs
  BY <1>3 DEF Replay, TypeOK
<1>4. CASE UNCHANGED <<vars, replayVars>>
  BY <1>4 DEF vars, replayVars
<1> QED BY <1>1, <1>2, <1>3, <1>4 DEF ReplayNext

(* The rows hold what was read.                                            *)
ReadingsType == readAs \in [RawIds -> States \cup {NoState}] /\ replays \in Nat
RawRowsAs(reads) ==
  \A r \in RawIds : entityOf[r] # NoEntity =>
    entityOf[r] = reads[r].entity /\ readAs[r] = reads[r].state

LEMMA ReadingsTypeStep ==
  TypeOK /\ ReadingsType /\ [ReplayNext]_<<vars, replayVars>> => ReadingsType'
PROOF
<1> SUFFICES ASSUME TypeOK, ReadingsType, [ReplayNext]_<<vars, replayVars>> PROVE ReadingsType'
  OBVIOUS
<1>1. replays' \in Nat
  BY DEF ReadingsType, ReplayNext, Replay, vars, replayVars
<1>2. ASSUME NEW w \in Workers, NEW r \in RawIds, job[w][r].phase = "settling"
      PROVE  job[w][r].event.state \in States
  BY <1>2, QueueAssumption DEF TypeOK
<1>3. readAs' \in [RawIds -> States \cup {NoState}]
  BY <1>2, OnlySettlesRead DEF ReadingsType
<1> QED BY <1>1, <1>3 DEF ReadingsType

LEMMA ReadingsTyped == ReplaySpec => []ReadingsType
PROOF
<1>1. ReplayInit => ReadingsType
  BY DEF ReplayInit, ReadingsType
<1> QED BY <1>1, ReadingsTypeStep, ReplayTypes, PTL DEF ReplaySpec

(* While webhooks are read as before, the tables hold of a normalized      *)
(* webhook what its row shows, after any number of replays, with zombies   *)
(* and lost answers.  So what the tables keep of an older reading is left  *)
(* there by the new one, which is what a replay is for.                    *)
THEOREM UnchangedReadingsAreFollowed ==
  ASSUME NEW reads \in [RawIds -> Events]
  PROVE  ReplaySpec /\ []ReadAs(reads) => []TablesFollowReading
PROOF
<1>1. ReplayInit => RawRowsAs(reads)
  BY DEF ReplayInit, Init, RawRowsAs
<1>2. TypeOK /\ ReadingsType /\ ReadAs(reads) /\ RawRowsAs(reads)
        /\ [ReplayNext]_<<vars, replayVars>> => RawRowsAs(reads)'
  <2> SUFFICES ASSUME TypeOK, ReadingsType, ReadAs(reads), RawRowsAs(reads),
                      [ReplayNext]_<<vars, replayVars>>
               PROVE  RawRowsAs(reads)'
    OBVIOUS
  <2>1. CASE UNCHANGED <<history, entityOf, readAs>>
    BY <2>1 DEF RawRowsAs
  <2>2. ASSUME NEW w \in Workers, NEW r \in RawIds,
               job[w][r].phase = "settling", CommitSettle(w, r),
               readAs' = [readAs EXCEPT ![r] = job[w][r].event.state]
        PROVE  RawRowsAs(reads)'
    BY <2>2 DEF RawRowsAs, ReadAs, CommitSettle, TypeOK, ReadingsType
  <2> QED BY <2>1, <2>2, OnlySettlesRead
<1>3. NormalizedIsRecorded /\ RowsAs(reads) /\ RawRowsAs(reads) => TablesFollowReading
  BY DEF NormalizedIsRecorded, RowsAs, RawRowsAs, TablesFollowReading
<1>4. ReplaySpec /\ []ReadAs(reads) => []RowsAs(reads)
  BY ReplayedRowsAs
<1> QED BY <1>1, <1>2, <1>3, <1>4, ReplayTypes, ReadingsTyped, ReplayedStaysRecorded, PTL
        DEF ReplaySpec
(* Before the first replay.                                                *)
FirstReadings == replays = 0 => LeaseInv /\ TablesFollowReading

LEMMA FollowStep ==
  ASSUME TypeOK, ReadingsType, LeaseInv, TablesFollowReading, [ReplayNext]_<<vars, replayVars>>
  PROVE  TablesFollowReading'
PROOF
<1>1. ASSUME UNCHANGED <<history, entityOf, readAs>>,
             \A r \in RawIds : status'[r] = "normalized" => status[r] = "normalized"
      PROVE  TablesFollowReading'
  BY <1>1 DEF TablesFollowReading
<1>2. ASSUME NEW w \in Workers, NEW r \in RawIds, job[w][r].phase = "settling",
             CommitSettle(w, r), readAs' = [readAs EXCEPT ![r] = job[w][r].event.state]
      PROVE  TablesFollowReading'
  <2> DEFINE e == job[w][r].event.entity
             s == job[w][r].event.state
             n == Len(history[e])
  <2>1. e \in Entities /\ s \in States /\ LedgerTypeOK
    BY <1>2, QueueAssumption DEF TypeOK
  <2>2. /\ \A q \in RawIds \ {r} : status'[q] = status[q]
        /\ entityOf'[r] = e /\ \A q \in RawIds \ {r} : entityOf'[q] = entityOf[q]
        /\ readAs'[r] = s /\ \A q \in RawIds \ {r} : readAs'[q] = readAs[q]
    BY <1>2 DEF CommitSettle, TypeOK, ReadingsType
  <2>3. status[r] = "processing"
    BY <1>2 DEF LeaseInv, ExclusiveProcessing, Busy
  <2>4. \A f \in Entities : ~Recorded(f, r)
    BY <2>3 DEF LeaseInv, SettleAtomic, HasHistory
  <2>5. RecordEvent(e, r, s)
    BY <1>2, <2>1, <2>4 DEF CommitSettle, ApplyEvent, SkipDuplicate
  <2> HIDE DEF e, s
  <2>6. /\ n \in Nat /\ DOMAIN history[e] = 1..n /\ DOMAIN history'[e] = 1..(n + 1)
        /\ \A i \in 1..n : history'[e][i] = history[e][i]
        /\ history'[e][n + 1].raw = r /\ history'[e][n + 1].state = s
        /\ \A f \in Entities \ {e} : history'[f] = history[f]
    BY <2>1, <2>5, RecordAppends, NewRowType
  <2> HIDE DEF n
  <2>7. \A i \in 1..(n + 1) : i \in 1..n \/ i = n + 1
    BY <2>6
  <2>8. ASSUME NEW q \in RawIds, status'[q] = "normalized", NEW f \in Entities,
               NEW i \in DOMAIN history'[f], history'[f][i].raw = q
        PROVE  f = entityOf'[q] /\ history'[f][i].state = readAs'[q]
    <3>1. CASE f = e /\ i = n + 1
      BY <2>2, <2>6, <2>8, <3>1
    <3>2. CASE ~(f = e /\ i = n + 1)
      <4>1. i \in DOMAIN history[f] /\ history'[f][i] = history[f][i]
        BY <2>6, <2>7, <3>2
      <4>2. q # r
        BY <2>4, <2>8, <4>1 DEF Recorded
      <4> QED BY <2>2, <2>8, <4>1, <4>2 DEF TablesFollowReading
    <3> QED BY <3>1, <3>2
  <2> QED BY <2>8 DEF TablesFollowReading
<1> QED BY <1>1, <1>2, OnlySettlesRead

(* Until an operator replays something, the tables hold of a normalized    *)
(* webhook what its row shows, however differently its attempts read it,   *)
(* as long as no job outlives its lease and no commit answer is lost.      *)
THEOREM FirstReadingsAreFollowed ==
  ASSUME LeaseCoversProcessing, CommitAnswerReliable
  PROVE  ReplaySpec => [](replays = 0 => TablesFollowReading)
PROOF
<1>1. ReplayInit => FirstReadings
  BY LeaseInvInit DEF ReplayInit, Init, FirstReadings, TablesFollowReading
<1>2. TypeOK /\ ReadingsType /\ FirstReadings /\ [ReplayNext]_<<vars, replayVars>>
        => FirstReadings'
  <2> SUFFICES ASSUME TypeOK, ReadingsType, FirstReadings, [ReplayNext]_<<vars, replayVars>>,
                      replays' = 0
               PROVE  LeaseInv' /\ TablesFollowReading'
    BY DEF FirstReadings
  <2>1. ASSUME NEW r \in RawIds PROVE ~Replay(r)
    BY DEF Replay, ReadingsType
  <2>2. [Next]_vars
    BY <2>1, OnlyReplaysAreNew DEF vars
  <2>3. replays = 0
    BY <2>1 DEF ReplayNext, replayVars
  <2>4. LeaseInv /\ TablesFollowReading
    BY <2>3 DEF FirstReadings
  <2>5. LeaseInv'
    BY <2>2, <2>4, LeaseStep, NoLeaseIsLost
  <2> QED BY <2>4, <2>5, FollowStep
<1>3. FirstReadings => (replays = 0 => TablesFollowReading)
  BY DEF FirstReadings
<1> QED BY <1>1, <1>2, <1>3, ReplayTypes, ReadingsTyped, PTL DEF ReplaySpec
(* Replays add to the entities that have a webhook at most one for each    *)
(* time it is claimed anew.                                                *)
THEOREM ReplaysAreCounted == ReplaySpec => []BoundedByAttempts
PROOF
<1>1. ReplayInit => ClaimsCover
  BY ClaimsCoverInit DEF ReplayInit
<1>2. TypeOK /\ ClaimsCover /\ [ReplayNext]_<<vars, replayVars>> => ClaimsCover'
  <2> SUFFICES ASSUME TypeOK, ClaimsCover, [ReplayNext]_<<vars, replayVars>> PROVE ClaimsCover'
    OBVIOUS
  <2>1. CASE [Next]_vars
    BY <2>1, ClaimsCoverStep
  <2>2. ASSUME NEW r \in RawIds, Replay(r) PROVE ClaimsCover'
    <3>1. attempts' = attempts /\ history' = history /\ job' = job
      BY <2>2, ReplayKeeps
    <3>2. \A q \in RawIds : HeldBy(q)' = HeldBy(q) /\ OpenJobs(q)' = OpenJobs(q)
      BY <3>1, SameHistory DEF HeldBy, OpenJobs
    <3> QED BY <3>1, <3>2, CoverKept
  <2> QED BY <2>1, <2>2, OnlyReplaysAreNew DEF vars
<1> QED BY <1>1, <1>2, BoundFollows, ReplayTypes, PTL DEF ReplaySpec
=============================================================================
