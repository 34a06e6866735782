------------------------------ MODULE Invoices ------------------------------
(***************************************************************************)
(* applyInvoiceEvent, column by column.  The settle transaction holds the  *)
(* row lock of the invoice throughout (Shipments shows what the locks and  *)
(* unique keys of this pattern amount to), so one application is one step. *)
(*                                                                         *)
(* Unlike a shipment, an invoice takes columns from events that do not     *)
(* advance it: the stamp of the event's state, and whatever it fills in.   *)
(* amount_minor and currency stand for the columns that a creation copies  *)
(* and a later event fills in (source, doc_ref, carrier, linked_bl,        *)
(* remitter); due_at, which only the fill-in sets, ends up the same way.   *)
(***************************************************************************)
EXTENDS Naturals, Sequences

CONSTANTS
  Keys,    \* canonical natural_keys
  RawIds,  \* raw_events.id
  States,  \* the states of an invoice
  Rank,    \* INVOICE_RANK: PAID and VOIDED tie
  Events,  \* what the LLM may extract: [key, state, at, amount_minor, currency]
  Null     \* a null column, a row that does not exist

ASSUME InvoicesAssumption ==
  /\ Rank \in [States -> Nat \ {0}]
  /\ Null \notin States
  /\ \A ev \in Events : ev.key \in Keys /\ ev.state \in States /\ ev.at # Null

VARIABLES
  invoices,       \* the invoices row of each key, or Null
  invoice_events  \* the event rows of each key, in insertion order

vars == <<invoices, invoice_events>>

-----------------------------------------------------------------------------
At == {ev.at : ev \in Events}
Amounts == {ev.amount_minor : ev \in Events} \cup {Null}
Currencies == {ev.currency : ev \in Events} \cup {Null}

(* stamps: issued_at, paid_at, voided_at, refunded_at.                     *)
Row == [current_state : States \cup {Null}, current_state_at : At \cup {Null},
        stamps : [States -> At \cup {Null}],
        amount_minor : Amounts, currency : Currencies]

(* A row that does not exist is told from one that does.                   *)
ASSUME NullAssumption == Null \notin Row

EventRow == [raw : RawIds, state : States, at : At,
             amount_minor : Amounts, currency : Currencies, advanced : BOOLEAN]

TypeOK ==
  /\ invoices \in [Keys -> Row \cup {Null}]
  /\ invoice_events \in [Keys -> Seq(EventRow)]

Init ==
  /\ invoices = [k \in Keys |-> Null]
  /\ invoice_events = [k \in Keys |-> <<>>]

Recorded(k, r) == \E i \in DOMAIN invoice_events[k] : invoice_events[k][i].raw = r

(* Invoice.create: the columns the event brings, no state, no stamp.       *)
NewRow(ev) ==
  [current_state |-> Null, current_state_at |-> Null,
   stamps |-> [s \in States |-> Null],
   amount_minor |-> ev.amount_minor, currency |-> ev.currency]

CurrentRank(row) == IF row.current_state = Null THEN 0 ELSE Rank[row.current_state]

(* Faulty variant, used by the mutation checks only. *)
AdvancesOnTies(row, ev) == Rank[ev.state] >= CurrentRank(row)

WillAdvance(row, ev) == Rank[ev.state] > CurrentRank(row)

(* Faulty variant, used by the mutation checks only. *)
Latest(old, new) == IF new # Null THEN new ELSE old

(* A column that is set once: never overwritten, never cleared.            *)
FillIn(old, new) == IF old = Null THEN new ELSE old

(* Faulty variant, used by the mutation checks only. *)
StampOnlyOnAdvance(row, ev) ==
  IF WillAdvance(row, ev)
  THEN [row.stamps EXCEPT ![ev.state] = FillIn(@, ev.at)] ELSE row.stamps

Stamped(row, ev) == [row.stamps EXCEPT ![ev.state] = FillIn(@, ev.at)]

(* invoice.update(patch): stamps, fill-ins and, on an advance, the state.  *)
Patched(row, ev) ==
  [current_state |-> IF WillAdvance(row, ev) THEN ev.state ELSE row.current_state,
   current_state_at |-> IF WillAdvance(row, ev) THEN ev.at ELSE row.current_state_at,
   stamps |-> Stamped(row, ev),
   amount_minor |-> FillIn(row.amount_minor, ev.amount_minor),
   currency |-> FillIn(row.currency, ev.currency)]

(* Faulty variant, used by the mutation checks only. *)
EventWithoutFlag(row, r, ev) ==
  [raw |-> r, state |-> ev.state, at |-> ev.at,
   amount_minor |-> ev.amount_minor, currency |-> ev.currency, advanced |-> Null]

(* InvoiceEvent.create.                                                    *)
EventOf(row, r, ev) ==
  [raw |-> r, state |-> ev.state, at |-> ev.at,
   amount_minor |-> ev.amount_minor, currency |-> ev.currency,
   advanced |-> WillAdvance(row, ev)]

Record(row, r, ev) ==
  /\ invoices' = [invoices EXCEPT ![ev.key] = Patched(row, ev)]
  /\ invoice_events' = [invoice_events EXCEPT ![ev.key] = Append(@, EventOf(row, r, ev))]

(* The invoice is not there: it is created, then treated like any other.   *)
CreateInvoice(r, ev) ==
  /\ invoices[ev.key] = Null
  /\ Record(NewRow(ev), r, ev)

UpdateInvoice(r, ev) ==
  /\ invoices[ev.key] # Null
  /\ ~Recorded(ev.key, r)
  /\ Record(invoices[ev.key], r, ev)

(* Faulty variant, used by the mutation checks only. *)
PatchDuplicate(r, ev) ==
  /\ invoices[ev.key] # Null
  /\ Recorded(ev.key, r)
  /\ invoices' = [invoices EXCEPT ![ev.key] = Patched(invoices[ev.key], ev)]
  /\ UNCHANGED invoice_events

(* UNIQUE(invoice_id, raw_event_id): nothing is stamped or filled in.      *)
SkipDuplicate(r, ev) ==
  /\ invoices[ev.key] # Null
  /\ Recorded(ev.key, r)
  /\ UNCHANGED vars

(* A webhook may be applied more than once, each time as the LLM reads it. *)
ApplyInvoiceEvent(r, ev) ==
  CreateInvoice(r, ev) \/ UpdateInvoice(r, ev) \/ SkipDuplicate(r, ev)

Next == \E r \in RawIds, ev \in Events : ApplyInvoiceEvent(r, ev)

Spec == Init /\ [][Next]_vars

-----------------------------------------------------------------------------
(* The ledger these tables hold.                                           *)
Ledger == INSTANCE EntityLedger WITH
  Entities <- Keys,
  NoState <- Null,
  history <- [k \in Keys |->
                [i \in DOMAIN invoice_events[k] |->
                   [raw |-> invoice_events[k][i].raw,
                    state |-> invoice_events[k][i].state,
                    advanced |-> invoice_events[k][i].advanced]]],
  current <- [k \in Keys |-> IF invoices[k] = Null THEN Null
                             ELSE invoices[k].current_state]

(* Invoices keep the promise shipments keep, although they derive the rank *)
(* from the state where shipments store it, and although every event may   *)
(* write to the row: duplicates change nothing, late events do not regress *)
(* the state, and of PAID and VOIDED the one that landed first stays.      *)
ImplementsLedger == Ledger!LedgerSpec

(* value is the column's at the first of the positions hits of a history,  *)
(* or Null if there is none.                                               *)
IsOfFirst(value, hits, column) ==
  IF hits = {} THEN value = Null
  ELSE \E i \in hits : (\A j \in hits : i <= j) /\ value = column[i]

Column(k, name) ==
  [i \in DOMAIN invoice_events[k] |-> invoice_events[k][i][name]]
Supplied(k, name) == {i \in DOMAIN invoice_events[k] : invoice_events[k][i][name] # Null}

(* A state's stamp is the time of the first event of that state to land,   *)
(* advancing or not, and no later one moves it ("set once, never           *)
(* overwrite", invoices.js).                                               *)
StampsAreFirst ==
  \A k \in Keys, s \in States : invoices[k] # Null =>
    IsOfFirst(invoices[k].stamps[s],
              {i \in DOMAIN invoice_events[k] : invoice_events[k][i].state = s},
              Column(k, "at"))

(* The invoice's amount and currency are each those of the first event     *)
(* that supplied one, and no later event changes either of them.  They may *)
(* be those of two different events.                                       *)
MoneyIsFirst ==
  \A k \in Keys : invoices[k] # Null =>
    /\ IsOfFirst(invoices[k].amount_minor, Supplied(k, "amount_minor"), Column(k, "amount_minor"))
    /\ IsOfFirst(invoices[k].currency, Supplied(k, "currency"), Column(k, "currency"))

(* Two applications of the same set of events in different orders agree on *)
(* the rank reached; what the row shows as current is the first event of   *)
(* that rank, with its own time.                                           *)
CurrentIsFirstOfItsRank ==
  \A k \in Keys : invoices[k] # Null =>
    LET top == CurrentRank(invoices[k])
        RankAt(i) == Rank[invoice_events[k][i].state]
    IN /\ \A i \in DOMAIN invoice_events[k] : RankAt(i) <= top
       /\ \E i \in DOMAIN invoice_events[k] :
            /\ RankAt(i) = top /\ \A j \in 1..(i - 1) : RankAt(j) # top
            /\ invoices[k].current_state = invoice_events[k][i].state
            /\ invoices[k].current_state_at = invoice_events[k][i].at
=============================================================================
