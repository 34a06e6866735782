---------------------------- MODULE EntityLedger ----------------------------
(***************************************************************************)
(* What the domain layer promises, for one kind of entity or for both.     *)
(*                                                                         *)
(* applyShipmentEvent and applyInvoiceEvent keep, for every entity, an     *)
(* append-only history of the webhooks accepted for it and a materialized  *)
(* current state.  A webhook is in an entity's history at most once, the   *)
(* current state moves only to a state of strictly higher rank, and every  *)
(* history row says whether it moved it.  What the two functions do beyond *)
(* that (columns, stamps, amounts) is in Shipments and Invoices, which     *)
(* implement this module; WebhookQueue extends it for its settle step.      *)
(***************************************************************************)
EXTENDS Naturals, Sequences

CONSTANTS
  Entities,   \* entities: rows of shipments and invoices, by natural_key
  States,     \* canonical states
  Rank,       \* SHIPMENT_RANK, INVOICE_RANK: a positive number per state
  RawIds,     \* raw_events.id
  NoState     \* current_state of an entity that is not in the table

ASSUME LedgerAssumption ==
  /\ Rank \in [States -> Nat \ {0}]
  /\ NoState \notin States

VARIABLES
  history,    \* history[e]: the event rows of entity e, in insertion order
  current     \* current[e]: its materialized current_state

ledgerVars == <<history, current>>

HistoryRow == [raw : RawIds, state : States, advanced : BOOLEAN]

LedgerTypeOK ==
  /\ history \in [Entities -> Seq(HistoryRow)]
  /\ current \in [Entities -> States \cup {NoState}]

LedgerInit ==
  /\ history = [e \in Entities |-> <<>>]
  /\ current = [e \in Entities |-> NoState]

-----------------------------------------------------------------------------
(* The rank a new event is compared with: 0 before the first event.        *)
CurrentRank(e) == IF current[e] = NoState THEN 0 ELSE Rank[current[e]]

(* Faulty variants, used by the mutation checks only. *)
NeverRecorded(e, r) == FALSE
AdvancesOnTies(e, s) == Rank[s] >= CurrentRank(e)

(* UNIQUE(entity_id, raw_event_id) holds a row for this pair.              *)
Recorded(e, r) == \E i \in DOMAIN history[e] : history[e][i].raw = r

(* willAdvance: strictly higher, so that a late event never regresses.     *)
Advances(e, s) == Rank[s] > CurrentRank(e)

(* The unique key rejects the row of a webhook already recorded: the       *)
(* function returns { duplicate: true } and writes nothing.                *)
SkipDuplicate(e, r) ==
  /\ Recorded(e, r)
  /\ UNCHANGED ledgerVars

NewRow(e, r, s) == [raw |-> r, state |-> s, advanced |-> Advances(e, s)]

(* Append the history row; advance the current state if it is higher.      *)
RecordEvent(e, r, s) ==
  /\ ~Recorded(e, r)
  /\ history' = [history EXCEPT ![e] = Append(@, NewRow(e, r, s))]
  /\ current' = IF Advances(e, s) THEN [current EXCEPT ![e] = s] ELSE current

ApplyEvent(e, r, s) == SkipDuplicate(e, r) \/ RecordEvent(e, r, s)

LedgerNext == \E e \in Entities, r \in RawIds, s \in States : ApplyEvent(e, r, s)

LedgerSpec == LedgerInit /\ [][LedgerNext]_ledgerVars

-----------------------------------------------------------------------------
(* Re-processing a webhook cannot add a second row to an entity's history: *)
(* the second idempotency layer (README, "L2").                            *)
HistoryUnique ==
  \A e \in Entities : \A i, j \in DOMAIN history[e] :
    history[e][i].raw = history[e][j].raw => i = j

(* The current state is the furthest state of the history, whatever the    *)
(* order in which the events arrived; an entity with no history has none.  *)
CurrentIsFurthest ==
  \A e \in Entities :
    /\ \A i \in DOMAIN history[e] : Rank[history[e][i].state] <= CurrentRank(e)
    /\ current[e] # NoState =>
         \E i \in DOMAIN history[e] :
           history[e][i].advanced /\ history[e][i].state = current[e]

(* advanced_current_state marks exactly the rows that outranked every      *)
(* row before them, so the marked rows retell how the current state moved; *)
(* of two states of one rank (PAID, VOIDED) the first one landed stays.    *)
AdvancedMarksRecordHighs ==
  \A e \in Entities : \A i \in DOMAIN history[e] :
    history[e][i].advanced <=>
      \A j \in 1..(i - 1) : Rank[history[e][j].state] < Rank[history[e][i].state]

(* A step never lowers the rank of a materialized state.                   *)
NoRegress ==
  [][\A e \in Entities : CurrentRank(e)' >= CurrentRank(e)]_ledgerVars
=============================================================================
