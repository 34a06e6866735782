------------------------ MODULE EntityLedger_proofs ------------------------
(***************************************************************************)
(* What the ledger promises, for all entities, states, ranks and webhooks. *)
(* WebhookQueue implements the ledger, so its runs inherit these theorems. *)
(***************************************************************************)
EXTENDS EntityLedger, TLAPS

(* A row says which webhook it is of, and whether it moved the entity.     *)
LEMMA NewRowType ==
  ASSUME LedgerTypeOK, NEW e \in Entities, NEW r \in RawIds, NEW s \in States
  PROVE  /\ NewRow(e, r, s) \in HistoryRow
         /\ NewRow(e, r, s).raw = r
         /\ NewRow(e, r, s).state = s
         /\ NewRow(e, r, s).advanced = Advances(e, s)
         /\ CurrentRank(e) \in Nat /\ Rank[s] \in Nat \ {0}
PROOF
<1>1. CurrentRank(e) \in Nat /\ Rank[s] \in Nat \ {0}
  BY LedgerAssumption DEF LedgerTypeOK, CurrentRank
<1>2. Advances(e, s) \in BOOLEAN
  BY <1>1 DEF Advances
<1> QED BY <1>1, <1>2 DEF NewRow, HistoryRow

(* Recording appends one row to one history and leaves the others alone.   *)
LEMMA RecordAppends ==
  ASSUME LedgerTypeOK, NEW e \in Entities, NEW r \in RawIds, NEW s \in States,
         RecordEvent(e, r, s)
  PROVE  /\ Len(history[e]) \in Nat
         /\ DOMAIN history[e] = 1..Len(history[e])
         /\ DOMAIN history'[e] = 1..(Len(history[e]) + 1)
         /\ \A i \in DOMAIN history[e] : history'[e][i] = history[e][i]
         /\ history'[e][Len(history[e]) + 1] = NewRow(e, r, s)
         /\ \A f \in Entities \ {e} : history'[f] = history[f]
         /\ current'[e] = IF Advances(e, s) THEN s ELSE current[e]
         /\ \A f \in Entities \ {e} : current'[f] = current[f]
PROOF
<1>1. history[e] \in Seq(HistoryRow) /\ NewRow(e, r, s) \in HistoryRow
  BY NewRowType DEF LedgerTypeOK
<1>2. history'[e] = Append(history[e], NewRow(e, r, s))
  BY DEF LedgerTypeOK, RecordEvent
<1>3. \A f \in Entities \ {e} : history'[f] = history[f]
  BY DEF LedgerTypeOK, RecordEvent
<1>4. /\ current'[e] = IF Advances(e, s) THEN s ELSE current[e]
      /\ \A f \in Entities \ {e} : current'[f] = current[f]
  BY DEF LedgerTypeOK, RecordEvent
<1>5. /\ Len(history[e]) \in Nat
      /\ DOMAIN history[e] = 1..Len(history[e])
      /\ DOMAIN history'[e] = 1..(Len(history[e]) + 1)
      /\ \A i \in DOMAIN history[e] : history'[e][i] = history[e][i]
      /\ history'[e][Len(history[e]) + 1] = NewRow(e, r, s)
  BY <1>1, <1>2
<1> QED BY <1>3, <1>4, <1>5

-----------------------------------------------------------------------------
LEMMA LedgerTypeInit == LedgerInit => LedgerTypeOK
PROOF BY DEF LedgerInit, LedgerTypeOK

LEMMA LedgerTypeStep == LedgerTypeOK /\ [LedgerNext]_ledgerVars => LedgerTypeOK'
PROOF
<1> SUFFICES ASSUME LedgerTypeOK, [LedgerNext]_ledgerVars PROVE LedgerTypeOK'
  OBVIOUS
<1>1. CASE UNCHANGED ledgerVars
  BY <1>1 DEF LedgerTypeOK, ledgerVars
<1>2. ASSUME NEW e \in Entities, NEW r \in RawIds, NEW s \in States, RecordEvent(e, r, s)
      PROVE  LedgerTypeOK'
  <2>3. Append(history[e], NewRow(e, r, s)) \in Seq(HistoryRow)
    BY NewRowType DEF LedgerTypeOK
  <2>4. history' \in [Entities -> Seq(HistoryRow)]
    BY <1>2, <2>3 DEF LedgerTypeOK, RecordEvent
  <2>5. current' \in [Entities -> States \cup {NoState}]
    BY <1>2 DEF RecordEvent, LedgerTypeOK
  <2> QED BY <2>4, <2>5 DEF LedgerTypeOK
<1> QED BY <1>1, <1>2 DEF LedgerNext, ApplyEvent, SkipDuplicate, ledgerVars

(* Rows are appended to histories of rows, states are moved to states.     *)
THEOREM LedgerTypeCorrect == LedgerSpec => []LedgerTypeOK
PROOF BY LedgerTypeInit, LedgerTypeStep, PTL DEF LedgerSpec

-----------------------------------------------------------------------------
LEMMA HistoryUniqueStep ==
  LedgerTypeOK /\ HistoryUnique /\ [LedgerNext]_ledgerVars => HistoryUnique'
PROOF
<1> SUFFICES ASSUME LedgerTypeOK, HistoryUnique, [LedgerNext]_ledgerVars
             PROVE  HistoryUnique'
  OBVIOUS
<1>1. CASE UNCHANGED ledgerVars
  BY <1>1 DEF HistoryUnique, ledgerVars
<1>2. ASSUME NEW e \in Entities, NEW r \in RawIds, NEW s \in States, RecordEvent(e, r, s)
      PROVE  HistoryUnique'
  <2> SUFFICES ASSUME NEW f \in Entities, NEW i \in DOMAIN history'[f],
                      NEW j \in DOMAIN history'[f], history'[f][i].raw = history'[f][j].raw
               PROVE  i = j
    BY DEF HistoryUnique
  <2>1. CASE f # e
    <3>1. history'[f] = history[f]
      BY <1>2, <2>1, RecordAppends
    <3> QED BY <3>1 DEF HistoryUnique
  <2>2. CASE f = e
    <3>1. \A k \in DOMAIN history[e] : history[e][k].raw # r
      BY <1>2 DEF RecordEvent, Recorded
    <3>3. /\ Len(history[e]) \in Nat
          /\ DOMAIN history[e] = 1..Len(history[e])
          /\ DOMAIN history'[e] = 1..(Len(history[e]) + 1)
      BY <1>2, RecordAppends
    <3>4. /\ \A k \in DOMAIN history[e] : history'[e][k] = history[e][k]
          /\ history'[e][Len(history[e]) + 1].raw = r
      BY <1>2, RecordAppends, NewRowType
    <3>5. \A k, l \in DOMAIN history[e] : history[e][k].raw = history[e][l].raw => k = l
      BY DEF HistoryUnique
    <3> QED BY <2>2, <3>1, <3>3, <3>4, <3>5
  <2> QED BY <2>1, <2>2
<1> QED BY <1>1, <1>2 DEF LedgerNext, ApplyEvent, SkipDuplicate, ledgerVars

(* A webhook is in an entity's history once, however often it is applied.  *)
THEOREM HistoryStaysUnique == LedgerSpec => []HistoryUnique
PROOF
<1>1. LedgerInit => HistoryUnique
  BY DEF LedgerInit, HistoryUnique
<1> QED BY <1>1, HistoryUniqueStep, LedgerTypeCorrect, PTL DEF LedgerSpec

-----------------------------------------------------------------------------
LEMMA RowType ==
  ASSUME LedgerTypeOK, NEW e \in Entities, NEW i \in DOMAIN history[e]
  PROVE  history[e][i].state \in States /\ Rank[history[e][i].state] \in Nat \ {0}
PROOF
<1>1. history[e] \in Seq(HistoryRow)
  BY DEF LedgerTypeOK
<1>2. history[e][i] \in HistoryRow
  BY <1>1
<1> QED BY <1>2, LedgerAssumption DEF HistoryRow

LEMMA FurthestStep ==
  LedgerTypeOK /\ CurrentIsFurthest /\ [LedgerNext]_ledgerVars => CurrentIsFurthest'
PROOF
<1> SUFFICES ASSUME LedgerTypeOK, CurrentIsFurthest, [LedgerNext]_ledgerVars
             PROVE  CurrentIsFurthest'
  OBVIOUS
<1>1. CASE UNCHANGED ledgerVars
  BY <1>1 DEF CurrentIsFurthest, CurrentRank, ledgerVars
<1>2. ASSUME NEW e \in Entities, NEW r \in RawIds, NEW s \in States, RecordEvent(e, r, s)
      PROVE  CurrentIsFurthest'
  <2> SUFFICES ASSUME NEW f \in Entities
               PROVE  /\ \A i \in DOMAIN history'[f] : Rank[history'[f][i].state] <= CurrentRank(f)'
                      /\ current'[f] # NoState =>
                           \E i \in DOMAIN history'[f] :
                             history'[f][i].advanced /\ history'[f][i].state = current'[f]
    BY DEF CurrentIsFurthest
  <2>1. CASE f # e
    <3>1. history'[f] = history[f] /\ current'[f] = current[f]
      BY <1>2, <2>1, RecordAppends
    <3> QED BY <3>1 DEF CurrentIsFurthest, CurrentRank
  <2>2. CASE f = e
    <3> DEFINE n == Len(history[e])
    <3>1. /\ n \in Nat
          /\ DOMAIN history[e] = 1..n /\ DOMAIN history'[e] = 1..(n + 1)
          /\ \A i \in DOMAIN history[e] : history'[e][i] = history[e][i]
          /\ history'[e][n + 1] = NewRow(e, r, s)
          /\ current'[e] = IF Advances(e, s) THEN s ELSE current[e]
      BY <1>2, RecordAppends
    <3>2. /\ NewRow(e, r, s).state = s
          /\ NewRow(e, r, s).advanced = Advances(e, s)
          /\ CurrentRank(e) \in Nat /\ Rank[s] \in Nat \ {0}
      BY NewRowType
    <3>3. \A i \in 1..n : Rank[history[e][i].state] \in Nat
      BY <3>1, RowType
    <3>4. /\ \A i \in 1..n : Rank[history[e][i].state] <= CurrentRank(e)
          /\ current[e] # NoState =>
               \E i \in 1..n : history[e][i].advanced /\ history[e][i].state = current[e]
      BY <3>1 DEF CurrentIsFurthest
    <3>5. s # NoState
      BY LedgerAssumption
    <3> HIDE DEF n
    <3>6. CASE Advances(e, s)
      <4>1. CurrentRank(e)' = Rank[s] /\ Rank[s] > CurrentRank(e)
        BY <3>1, <3>5, <3>6 DEF CurrentRank, Advances
      <4>2. ASSUME NEW i \in 1..(n + 1) PROVE Rank[history'[e][i].state] <= CurrentRank(e)'
        <5>1. CASE i = n + 1
          BY <3>1, <3>2, <4>1, <5>1
        <5>2. CASE i \in 1..n
          <6>1. history'[e][i] = history[e][i] /\ Rank[history[e][i].state] \in Nat
            BY <3>1, <3>3, <5>2
          <6>2. Rank[history[e][i].state] <= CurrentRank(e)
            BY <3>4, <5>2
          <6> QED BY <3>2, <4>1, <6>1, <6>2
        <5> QED BY <3>1, <5>1, <5>2
      <4>3. history'[e][n + 1].advanced /\ history'[e][n + 1].state = current'[e]
        BY <3>1, <3>2, <3>6
      <4>4. n + 1 \in DOMAIN history'[e]
        BY <3>1
      <4> QED BY <2>2, <3>1, <4>2, <4>3, <4>4
    <3>7. CASE ~Advances(e, s)
      <4>1. current'[e] = current[e] /\ CurrentRank(e)' = CurrentRank(e)
        BY <3>1, <3>7 DEF CurrentRank
      <4>2. Rank[s] <= CurrentRank(e)
        BY <3>2, <3>7 DEF Advances
      <4>3. ASSUME NEW i \in 1..(n + 1) PROVE Rank[history'[e][i].state] <= CurrentRank(e)'
        <5>1. CASE i = n + 1
          BY <3>1, <3>2, <4>1, <4>2, <5>1
        <5>2. CASE i \in 1..n
          <6>1. history'[e][i] = history[e][i]
            BY <3>1, <5>2
          <6>2. Rank[history[e][i].state] <= CurrentRank(e)
            BY <3>4, <5>2
          <6> QED BY <4>1, <6>1, <6>2
        <5> QED BY <3>1, <5>1, <5>2
      <4>4. ASSUME current'[e] # NoState
            PROVE  \E i \in DOMAIN history'[e] :
                     history'[e][i].advanced /\ history'[e][i].state = current'[e]
        <5>1. PICK i \in 1..n : history[e][i].advanced /\ history[e][i].state = current[e]
          BY <3>4, <4>1, <4>4
        <5>2. i \in DOMAIN history'[e] /\ history'[e][i] = history[e][i]
          BY <3>1, <5>1
        <5> QED BY <4>1, <5>1, <5>2
      <4> QED BY <2>2, <3>1, <4>3, <4>4
    <3> QED BY <3>6, <3>7
  <2> QED BY <2>1, <2>2
<1> QED BY <1>1, <1>2 DEF LedgerNext, ApplyEvent, SkipDuplicate, ledgerVars

(* Whatever the order in which webhooks arrive, the materialized state is  *)
(* the furthest one of the history, and one that an event brought.         *)
THEOREM CurrentStaysFurthest == LedgerSpec => []CurrentIsFurthest
PROOF
<1>1. LedgerInit => CurrentIsFurthest
  <2> SUFFICES ASSUME LedgerInit, NEW e \in Entities
               PROVE  DOMAIN history[e] = {} /\ current[e] = NoState
    BY DEF CurrentIsFurthest
  <2> QED BY DEF LedgerInit
<1> QED BY <1>1, FurthestStep, LedgerTypeCorrect, PTL DEF LedgerSpec

(* No step takes a materialized state to one of lower rank.                *)
THEOREM StateNeverRegresses == LedgerSpec => NoRegress
PROOF
<1>1. LedgerTypeOK /\ [LedgerNext]_ledgerVars
        => [\A e \in Entities : CurrentRank(e)' >= CurrentRank(e)]_ledgerVars
  <2> SUFFICES ASSUME LedgerTypeOK, NEW e \in Entities, NEW r \in RawIds, NEW s \in States,
                      RecordEvent(e, r, s), NEW f \in Entities
               PROVE  CurrentRank(f)' >= CurrentRank(f)
    BY DEF LedgerNext, ApplyEvent, SkipDuplicate
  <2>1. CurrentRank(f) \in Nat
    BY NewRowType
  <2>2. CASE f # e \/ ~Advances(e, s)
    <3>1. current'[f] = current[f]
      BY <2>2, RecordAppends
    <3> QED BY <2>1, <3>1 DEF CurrentRank
  <2>3. CASE f = e /\ Advances(e, s)
    <3>1. current'[f] = s /\ Rank[s] > CurrentRank(f)
      BY <2>3, RecordAppends DEF Advances
    <3> QED BY <2>1, <3>1, NewRowType, LedgerAssumption DEF CurrentRank
  <2> QED BY <2>2, <2>3
<1> QED BY <1>1, LedgerTypeCorrect, PTL DEF LedgerSpec, NoRegress
-----------------------------------------------------------------------------
LEMMA RecordHighsStep ==
  LedgerTypeOK /\ CurrentIsFurthest /\ AdvancedMarksRecordHighs /\ [LedgerNext]_ledgerVars
    => AdvancedMarksRecordHighs'
PROOF
<1> SUFFICES ASSUME LedgerTypeOK, CurrentIsFurthest, AdvancedMarksRecordHighs,
                    [LedgerNext]_ledgerVars
             PROVE  AdvancedMarksRecordHighs'
  OBVIOUS
<1>1. CASE UNCHANGED ledgerVars
  BY <1>1 DEF AdvancedMarksRecordHighs, ledgerVars
<1>2. ASSUME NEW e \in Entities, NEW r \in RawIds, NEW s \in States, RecordEvent(e, r, s)
      PROVE  AdvancedMarksRecordHighs'
  <2> SUFFICES ASSUME NEW f \in Entities, NEW i \in DOMAIN history'[f]
               PROVE  history'[f][i].advanced <=>
                        \A j \in 1..(i - 1) :
                          Rank[history'[f][j].state] < Rank[history'[f][i].state]
    BY DEF AdvancedMarksRecordHighs
  <2>1. CASE f # e
    <3>1. history'[f] = history[f]
      BY <1>2, <2>1, RecordAppends
    <3> QED BY <3>1 DEF AdvancedMarksRecordHighs
  <2>2. CASE f = e
    <3> DEFINE n == Len(history[e])
    <3>1. /\ n \in Nat
          /\ DOMAIN history[e] = 1..n /\ DOMAIN history'[e] = 1..(n + 1)
          /\ \A k \in 1..n : history'[e][k] = history[e][k]
          /\ history'[e][n + 1] = NewRow(e, r, s)
      BY <1>2, RecordAppends
    <3>2. /\ NewRow(e, r, s).state = s
          /\ NewRow(e, r, s).advanced = Advances(e, s)
          /\ CurrentRank(e) \in Nat /\ Rank[s] \in Nat \ {0}
      BY NewRowType
    <3>3. \A k \in 1..n : Rank[history[e][k].state] \in Nat
      BY <3>1, RowType
    <3>4. /\ \A k \in 1..n : Rank[history[e][k].state] <= CurrentRank(e)
          /\ current[e] # NoState => \E k \in 1..n : history[e][k].state = current[e]
      BY <3>1 DEF CurrentIsFurthest
    <3>5. \A k \in 1..n : history[e][k].advanced <=>
            \A j \in 1..(k - 1) : Rank[history[e][j].state] < Rank[history[e][k].state]
      BY <3>1 DEF AdvancedMarksRecordHighs
    <3> HIDE DEF n
    <3>6. CASE i \in 1..n
      <4>1. history'[e][i] = history[e][i]
        BY <3>1, <3>6
      <4>2. \A j \in 1..(i - 1) : j \in 1..n /\ history'[e][j] = history[e][j]
        BY <3>1, <3>6
      <4> QED BY <2>2, <3>5, <3>6, <4>1, <4>2
    <3>7. CASE i = n + 1
      <4>1. Advances(e, s) <=> \A j \in 1..n : Rank[history[e][j].state] < Rank[s]
        <5>1. CASE Advances(e, s)
          BY <3>2, <3>3, <3>4, <5>1 DEF Advances
        <5>2. CASE ~Advances(e, s)
          <6>1. Rank[s] <= CurrentRank(e) /\ current[e] # NoState
            BY <3>2, <5>2 DEF Advances, CurrentRank
          <6>2. PICK k \in 1..n : history[e][k].state = current[e]
            BY <3>4, <6>1
          <6>3. Rank[history[e][k].state] >= Rank[s]
            BY <6>1, <6>2 DEF CurrentRank
          <6> QED BY <3>2, <3>3, <5>2, <6>3
        <5> QED BY <5>1, <5>2
      <4>2. \A j : j \in 1..(i - 1) <=> j \in 1..n
        BY <3>1, <3>7
      <4> QED BY <2>2, <3>1, <3>2, <3>7, <4>1, <4>2
    <3> QED BY <2>2, <3>1, <3>6, <3>7
  <2> QED BY <2>1, <2>2
<1> QED BY <1>1, <1>2 DEF LedgerNext, ApplyEvent, SkipDuplicate, ledgerVars

(* The rows marked as having moved the entity are exactly those that       *)
(* outranked every earlier row: the audit log retells the current state.   *)
THEOREM AdvancedMarksStayTrue == LedgerSpec => []AdvancedMarksRecordHighs
PROOF
<1>1. LedgerInit => AdvancedMarksRecordHighs
  <2> SUFFICES ASSUME LedgerInit, NEW e \in Entities PROVE DOMAIN history[e] = {}
    BY DEF AdvancedMarksRecordHighs
  <2> QED BY DEF LedgerInit
<1> QED BY <1>1, RecordHighsStep, CurrentStaysFurthest, LedgerTypeCorrect, PTL DEF LedgerSpec
=============================================================================
