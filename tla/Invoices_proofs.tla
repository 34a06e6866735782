--------------------------- MODULE Invoices_proofs ---------------------------
(***************************************************************************)
(* That invoices keep the ledger and that what a row shows is what the     *)
(* first event to say so said, for any invoices, webhooks, states, ranks   *)
(* and readings.  An invoice that is not there counts as one that nothing  *)
(* has been said of: then its creation is a step like any other (Before,   *)
(* ApplyEffect).                                                           *)
(***************************************************************************)
EXTENDS Invoices, SequenceTheorems, TLAPS

(* A row and its history begin together.                                   *)
NoRowNoEvents == \A k \in Keys : invoices[k] = Null => invoice_events[k] = <<>>

RowsInv == TypeOK /\ NoRowNoEvents

BlankRow ==
  [current_state |-> Null, current_state_at |-> Null,
   stamps |-> [s \in States |-> Null], amount_minor |-> Null, currency |-> Null]

Before(k) == IF invoices[k] = Null THEN BlankRow ELSE invoices[k]

-----------------------------------------------------------------------------
LEMMA EventFacts ==
  ASSUME NEW ev \in Events
  PROVE  /\ ev.key \in Keys /\ ev.state \in States
         /\ ev.at \in At /\ ev.at # Null
         /\ ev.amount_minor \in Amounts /\ ev.currency \in Currencies
         /\ Null \in Amounts /\ Null \in Currencies
         /\ Rank[ev.state] \in Nat \ {0}
PROOF BY InvoicesAssumption DEF At, Amounts, Currencies

LEMMA RankFacts ==
  ASSUME NEW row \in Row, NEW ev \in Events
  PROVE  /\ CurrentRank(row) \in Nat
         /\ WillAdvance(row, ev) \in BOOLEAN
PROOF
<1>1. row.current_state \in States \cup {Null}
  BY DEF Row
<1>2. CurrentRank(row) \in Nat
  BY <1>1, InvoicesAssumption DEF CurrentRank
<1> QED BY <1>2 DEF WillAdvance

(* Patches of rows are rows, and an event leaves a row of its own.         *)
LEMMA PatchType ==
  ASSUME NEW row \in Row, NEW ev \in Events, NEW r \in RawIds
  PROVE  Patched(row, ev) \in Row /\ EventOf(row, r, ev) \in EventRow
PROOF
<1>1. /\ row.current_state \in States \cup {Null}
      /\ row.current_state_at \in At \cup {Null}
      /\ row.stamps \in [States -> At \cup {Null}]
      /\ row.amount_minor \in Amounts /\ row.currency \in Currencies
  BY DEF Row
<1>2. Stamped(row, ev) \in [States -> At \cup {Null}]
  BY <1>1, EventFacts DEF Stamped, FillIn
<1>3. /\ FillIn(row.amount_minor, ev.amount_minor) \in Amounts
      /\ FillIn(row.currency, ev.currency) \in Currencies
  BY <1>1, EventFacts DEF FillIn
<1>4. Patched(row, ev) \in Row
  BY <1>1, <1>2, <1>3, EventFacts DEF Patched, Row
<1>5. EventOf(row, r, ev) \in EventRow
  BY EventFacts, RankFacts DEF EventOf, EventRow
<1> QED BY <1>4, <1>5

LEMMA BlankRowType == BlankRow \in Row
PROOF BY DEF BlankRow, Row, Amounts, Currencies

(* What a creation copies is what the patch would have filled in.          *)
LEMMA CreationFillsIn ==
  ASSUME NEW ev \in Events, NEW r \in RawIds
  PROVE  /\ Patched(NewRow(ev), ev) = Patched(BlankRow, ev)
         /\ EventOf(NewRow(ev), r, ev) = EventOf(BlankRow, r, ev)
PROOF
<1>1. WillAdvance(NewRow(ev), ev) = WillAdvance(BlankRow, ev)
  BY DEF WillAdvance, CurrentRank, NewRow, BlankRow
<1>2. Stamped(NewRow(ev), ev) = Stamped(BlankRow, ev)
  BY DEF Stamped, NewRow, BlankRow
<1>3. /\ FillIn(NewRow(ev).amount_minor, ev.amount_minor)
           = FillIn(BlankRow.amount_minor, ev.amount_minor)
      /\ FillIn(NewRow(ev).currency, ev.currency) = FillIn(BlankRow.currency, ev.currency)
  BY DEF FillIn, NewRow, BlankRow
<1>4. Patched(NewRow(ev), ev) = Patched(BlankRow, ev)
  BY <1>1, <1>2, <1>3 DEF Patched, NewRow, BlankRow
<1> QED BY <1>1, <1>4 DEF EventOf

(* What applying an event does that is not a duplicate, whether or not the *)
(* invoice is there.                                                       *)
LEMMA ApplyEffect ==
  ASSUME RowsInv, NEW ev \in Events, NEW r \in RawIds,
         CreateInvoice(r, ev) \/ UpdateInvoice(r, ev)
  PROVE  /\ Before(ev.key) \in Row
         /\ ~Recorded(ev.key, r)
         /\ invoice_events[ev.key] \in Seq(EventRow)
         /\ EventOf(Before(ev.key), r, ev) \in EventRow
         /\ invoices' = [invoices EXCEPT ![ev.key] = Patched(Before(ev.key), ev)]
         /\ invoice_events' = [invoice_events EXCEPT
              ![ev.key] = Append(@, EventOf(Before(ev.key), r, ev))]
         /\ invoices'[ev.key] = Patched(Before(ev.key), ev)
         /\ Patched(Before(ev.key), ev) \in Row /\ invoices'[ev.key] # Null
         /\ \A k \in Keys \ {ev.key} :
              invoices'[k] = invoices[k] /\ invoice_events'[k] = invoice_events[k]
PROOF
<1> DEFINE k == ev.key
<1>1. k \in Keys
  BY EventFacts
<1>2. invoices[k] \in Row \cup {Null} /\ invoice_events[k] \in Seq(EventRow)
  BY <1>1 DEF RowsInv, TypeOK
<1>3. Before(k) \in Row
  BY <1>2, BlankRowType DEF Before
<1>4. Patched(Before(k), ev) \in Row /\ EventOf(Before(k), r, ev) \in EventRow
  BY <1>3, PatchType
<1>5. /\ ~Recorded(k, r)
      /\ invoices' = [invoices EXCEPT ![k] = Patched(Before(k), ev)]
      /\ invoice_events' = [invoice_events EXCEPT ![k] = Append(@, EventOf(Before(k), r, ev))]
  <2>1. CASE CreateInvoice(r, ev)
    <3>1. invoice_events[k] = <<>> /\ Before(k) = BlankRow
      BY <1>1, <2>1 DEF CreateInvoice, RowsInv, NoRowNoEvents, Before
    <3>2. ~Recorded(k, r)
      BY <3>1 DEF Recorded
    <3> QED BY <2>1, <3>1, <3>2, CreationFillsIn DEF CreateInvoice, Record
  <2>2. CASE UpdateInvoice(r, ev)
    BY <2>2 DEF UpdateInvoice, Record, Before
  <2> QED BY <2>1, <2>2
<1>6. invoices \in [Keys -> Row \cup {Null}] /\ invoice_events \in [Keys -> Seq(EventRow)]
  BY DEF RowsInv, TypeOK
<1>7. /\ invoices'[k] = Patched(Before(k), ev)
      /\ \A j \in Keys \ {k} : invoices'[j] = invoices[j] /\ invoice_events'[j] = invoice_events[j]
  BY <1>1, <1>5, <1>6
<1>8. invoices'[k] # Null
  BY <1>4, <1>7, NullAssumption
<1> QED BY <1>2, <1>3, <1>4, <1>5, <1>7, <1>8

LEMMA HistoryGrows ==
  ASSUME RowsInv, NEW ev \in Events, NEW r \in RawIds,
         CreateInvoice(r, ev) \/ UpdateInvoice(r, ev), NEW n, n = Len(invoice_events[ev.key])
  PROVE  /\ n \in Nat
         /\ DOMAIN invoice_events[ev.key] = 1..n
         /\ DOMAIN invoice_events'[ev.key] = 1..(n + 1)
         /\ \A i \in 1..n : /\ invoice_events'[ev.key][i] = invoice_events[ev.key][i]
                            /\ invoice_events[ev.key][i] \in EventRow
         /\ invoice_events'[ev.key][n + 1] = EventOf(Before(ev.key), r, ev)
PROOF
<1>1. /\ invoice_events[ev.key] \in Seq(EventRow)
      /\ EventOf(Before(ev.key), r, ev) \in EventRow
      /\ ev.key \in Keys
  BY ApplyEffect, EventFacts
<1>2. invoice_events'[ev.key] = Append(invoice_events[ev.key], EventOf(Before(ev.key), r, ev))
  BY <1>1, ApplyEffect DEF RowsInv, TypeOK
<1> QED BY <1>1, <1>2

-----------------------------------------------------------------------------
LEMMA RowsInit == Init => RowsInv
PROOF BY DEF Init, RowsInv, TypeOK, NoRowNoEvents

LEMMA RowsStep == RowsInv /\ [Next]_vars => RowsInv'
PROOF
<1> SUFFICES ASSUME RowsInv, [Next]_vars PROVE RowsInv'
  OBVIOUS
<1>1. CASE UNCHANGED vars
  BY <1>1 DEF vars, RowsInv, TypeOK, NoRowNoEvents
<1>2. ASSUME NEW r \in RawIds, NEW ev \in Events, CreateInvoice(r, ev) \/ UpdateInvoice(r, ev)
      PROVE  RowsInv'
  <2>1. ev.key \in Keys
    BY EventFacts
  <2>2. invoices \in [Keys -> Row \cup {Null}] /\ invoice_events \in [Keys -> Seq(EventRow)]
    BY DEF RowsInv, TypeOK
  <2>3. /\ invoices' = [invoices EXCEPT ![ev.key] = Patched(Before(ev.key), ev)]
        /\ Patched(Before(ev.key), ev) \in Row
    BY <1>2, ApplyEffect
  <2>4. invoices' \in [Keys -> Row \cup {Null}]
    BY <2>1, <2>2, <2>3
  <2>5. /\ invoice_events' = [invoice_events EXCEPT
             ![ev.key] = Append(@, EventOf(Before(ev.key), r, ev))]
        /\ EventOf(Before(ev.key), r, ev) \in EventRow
    BY <1>2, ApplyEffect
  <2>6. invoice_events' \in [Keys -> Seq(EventRow)]
    <3>1. Append(invoice_events[ev.key], EventOf(Before(ev.key), r, ev)) \in Seq(EventRow)
      BY <2>1, <2>2, <2>5
    <3> QED BY <2>2, <2>5, <3>1
  <2>7. NoRowNoEvents'
    <3> SUFFICES ASSUME NEW k \in Keys, invoices'[k] = Null PROVE invoice_events'[k] = <<>>
      BY DEF NoRowNoEvents
    <3>1. k # ev.key
      BY <1>2, ApplyEffect
    <3> QED BY <1>2, <3>1, ApplyEffect DEF RowsInv, NoRowNoEvents
  <2> QED BY <2>4, <2>6, <2>7 DEF RowsInv, TypeOK
<1> QED BY <1>1, <1>2 DEF Next, ApplyInvoiceEvent, SkipDuplicate

LEMMA RowsInvariant == Spec => []RowsInv
PROOF BY RowsInit, RowsStep, PTL DEF Spec

(* Columns keep to what events may bring, stamps and event rows included.  *)
THEOREM InvoicesTypeCorrect == Spec => []TypeOK
PROOF
<1>1. RowsInv => TypeOK
  BY DEF RowsInv
<1> QED BY <1>1, RowsInvariant, PTL
-----------------------------------------------------------------------------
(* The first of some positions, when the history grows: it stays what it   *)
(* was, or it is the new last one if there was none.                       *)
LEMMA FirstStays ==
  ASSUME NEW n \in Nat, NEW hits \in SUBSET (1..n), NEW hits2 \in SUBSET (1..(n + 1)),
         hits2 \cap 1..n = hits, hits # {},
         NEW column, NEW column2, \A i \in 1..n : column2[i] = column[i],
         NEW value, IsOfFirst(value, hits, column)
  PROVE  IsOfFirst(value, hits2, column2)
PROOF
<1>1. PICK i \in hits : (\A j \in hits : i <= j) /\ value = column[i]
  BY DEF IsOfFirst
<1>2. i \in 1..n /\ i \in hits2 /\ value = column2[i]
  BY <1>1
<1>3. \A j \in hits2 : i <= j
  <2> SUFFICES ASSUME NEW j \in hits2 PROVE i <= j
    OBVIOUS
  <2>1. CASE j \in 1..n
    BY <1>1, <2>1
  <2>2. CASE j = n + 1
    BY <1>2, <2>2
  <2> QED BY <2>1, <2>2
<1> QED BY <1>2, <1>3 DEF IsOfFirst

LEMMA FirstAppears ==
  ASSUME NEW n \in Nat, NEW hits2 \in SUBSET (1..(n + 1)), hits2 \cap 1..n = {},
         n + 1 \in hits2, NEW column2
  PROVE  IsOfFirst(column2[n + 1], hits2, column2)
PROOF
<1>1. \A j \in hits2 : j = n + 1
  OBVIOUS
<1> QED BY <1>1 DEF IsOfFirst

(* FillIn keeps this up: the old value if some earlier position gave one,  *)
(* the new one if the new position is the first to give one.               *)
LEMMA FillInKeepsFirst ==
  ASSUME NEW n \in Nat, NEW hits \in SUBSET (1..n), NEW hits2 \in SUBSET (1..(n + 1)),
         hits2 \cap 1..n = hits,
         NEW column, NEW column2, \A i \in 1..n : column2[i] = column[i],
         \A i \in hits2 : column2[i] # Null,
         NEW old, IsOfFirst(old, hits, column),
         NEW new, n + 1 \in hits2 => new = column2[n + 1],
         n + 1 \notin hits2 => new = Null
  PROVE  IsOfFirst(FillIn(old, new), hits2, column2)
PROOF
<1>1. CASE hits # {}
  <2>1. PICK i \in hits : old = column[i]
    BY <1>1 DEF IsOfFirst
  <2>2. old # Null
    BY <2>1
  <2> QED BY <1>1, <2>2, FirstStays DEF FillIn
<1>2. CASE hits = {}
  <2>1. FillIn(old, new) = new
    BY <1>2 DEF IsOfFirst, FillIn
  <2>2. CASE n + 1 \in hits2
    BY <1>2, <2>1, <2>2, FirstAppears
  <2>3. CASE n + 1 \notin hits2
    <3>1. hits2 = {}
      BY <1>2, <2>3
    <3> QED BY <2>1, <2>3, <3>1 DEF IsOfFirst
  <2> QED BY <2>2, <2>3
<1> QED BY <1>1, <1>2

-----------------------------------------------------------------------------
(* The three invariants, said of rows that are not there as well.          *)
StateAt(k, s) == {i \in DOMAIN invoice_events[k] : invoice_events[k][i].state = s}

StampsHold(k) ==
  \A s \in States : IsOfFirst(Before(k).stamps[s], StateAt(k, s), Column(k, "at"))

MoneyHolds(k) ==
  /\ IsOfFirst(Before(k).amount_minor, Supplied(k, "amount_minor"), Column(k, "amount_minor"))
  /\ IsOfFirst(Before(k).currency, Supplied(k, "currency"), Column(k, "currency"))

LEMMA StampsOfAll ==
  ASSUME RowsInv, StampsAreFirst, NEW k \in Keys
  PROVE  StampsHold(k)
PROOF
<1>1. CASE invoices[k] # Null
  BY <1>1 DEF StampsAreFirst, StampsHold, StateAt, Before
<1>2. CASE invoices[k] = Null
  <2>1. invoice_events[k] = <<>> /\ Before(k) = BlankRow
    BY <1>2 DEF RowsInv, NoRowNoEvents, Before
  <2>2. \A s \in States : StateAt(k, s) = {} /\ Before(k).stamps[s] = Null
    BY <2>1 DEF StateAt, BlankRow
  <2> QED BY <2>2 DEF StampsHold, IsOfFirst
<1> QED BY <1>1, <1>2

LEMMA MoneyOfAll ==
  ASSUME RowsInv, MoneyIsFirst, NEW k \in Keys
  PROVE  MoneyHolds(k)
PROOF
<1>1. CASE invoices[k] # Null
  BY <1>1 DEF MoneyIsFirst, MoneyHolds, Before
<1>2. CASE invoices[k] = Null
  <2>1. invoice_events[k] = <<>> /\ Before(k) = BlankRow
    BY <1>2 DEF RowsInv, NoRowNoEvents, Before
  <2>2. /\ Supplied(k, "amount_minor") = {} /\ Supplied(k, "currency") = {}
        /\ Before(k).amount_minor = Null /\ Before(k).currency = Null
    BY <2>1 DEF Supplied, BlankRow
  <2> QED BY <2>2 DEF MoneyHolds, IsOfFirst
<1> QED BY <1>1, <1>2

LEMMA StampsStep == RowsInv /\ StampsAreFirst /\ [Next]_vars => StampsAreFirst'
PROOF
<1> SUFFICES ASSUME RowsInv, StampsAreFirst, [Next]_vars PROVE StampsAreFirst'
  OBVIOUS
<1>1. CASE UNCHANGED vars
  BY <1>1 DEF vars, StampsAreFirst, Column
<1>2. ASSUME NEW r \in RawIds, NEW ev \in Events, CreateInvoice(r, ev) \/ UpdateInvoice(r, ev),
             NEW k \in Keys, NEW s \in States, invoices'[k] # Null
      PROVE  IsOfFirst(invoices'[k].stamps[s], StateAt(k, s)', Column(k, "at")')
  <2>1. CASE k # ev.key
    <3>1. invoices'[k] = invoices[k] /\ invoice_events'[k] = invoice_events[k]
      BY <1>2, <2>1, ApplyEffect
    <3> QED BY <1>2, <3>1 DEF StampsAreFirst, StateAt, Column
  <2>2. CASE k = ev.key
    <3> DEFINE n == Len(invoice_events[k])
               old == Before(k).stamps[s]
               new == IF ev.state = s THEN ev.at ELSE Null
    <3>1. /\ n \in Nat /\ DOMAIN invoice_events[k] = 1..n
          /\ DOMAIN invoice_events'[k] = 1..(n + 1)
          /\ \A i \in 1..n : /\ invoice_events'[k][i] = invoice_events[k][i]
                             /\ invoice_events[k][i] \in EventRow
          /\ invoice_events'[k][n + 1] = EventOf(Before(k), r, ev)
      BY <1>2, <2>2, HistoryGrows
    <3>2. invoices'[k].stamps[s] = FillIn(old, new)
      <4>a. invoices'[ev.key] = Patched(Before(ev.key), ev) /\ Before(ev.key) \in Row
        BY <1>2, ApplyEffect
      <4>1. invoices'[k].stamps = Stamped(Before(k), ev) /\ Before(k) \in Row
        BY <2>2, <4>a DEF Patched
      <4>2. Before(k).stamps \in [States -> At \cup {Null}]
        BY <4>1 DEF Row
      <4> QED BY <4>1, <4>2, EventFacts DEF Stamped, FillIn
    <3>3. IsOfFirst(old, StateAt(k, s), Column(k, "at"))
      BY StampsOfAll DEF StampsHold
    <3>4. /\ EventOf(Before(k), r, ev).state = ev.state
          /\ EventOf(Before(k), r, ev).at = ev.at
          /\ ev.at # Null
      BY EventFacts DEF EventOf
    <3>5. \A i \in 1..n : Column(k, "at")'[i] = Column(k, "at")[i]
      BY <3>1 DEF Column
    <3>6. StateAt(k, s) \in SUBSET (1..n) /\ StateAt(k, s)' \in SUBSET (1..(n + 1))
      BY <3>1 DEF StateAt
    <3>7. StateAt(k, s)' \cap 1..n = StateAt(k, s)
      BY <3>1 DEF StateAt
    <3>8. n + 1 \in StateAt(k, s)' <=> ev.state = s
      BY <3>1, <3>4 DEF StateAt
    <3>9. Column(k, "at")'[n + 1] = ev.at
      BY <3>1, <3>4 DEF Column
    <3>10. \A i \in StateAt(k, s)' : Column(k, "at")'[i] # Null
      <4> SUFFICES ASSUME NEW i \in StateAt(k, s)' PROVE Column(k, "at")'[i] # Null
        OBVIOUS
      <4>1. CASE i = n + 1
        BY <3>4, <3>9, <4>1
      <4>2. CASE i \in 1..n
        <5>1. invoice_events[k][i].at \in At
          BY <3>1, <4>2 DEF EventRow
        <5>2. \A a \in At : a # Null
          BY InvoicesAssumption DEF At
        <5>3. Column(k, "at")'[i] = invoice_events[k][i].at
          BY <3>1, <4>2 DEF Column
        <5> QED BY <5>1, <5>2, <5>3
      <4> QED BY <3>6, <4>1, <4>2
    <3> HIDE DEF n
    <3>11. n + 1 \in StateAt(k, s)' => new = Column(k, "at")'[n + 1]
      BY <3>8, <3>9
    <3>12. n + 1 \notin StateAt(k, s)' => new = Null
      BY <3>8
    <3> HIDE DEF old, new
    <3>13. IsOfFirst(FillIn(old, new), StateAt(k, s)', Column(k, "at")')
      BY <3>1, <3>3, <3>5, <3>6, <3>7, <3>10, <3>11, <3>12, FillInKeepsFirst
    <3> QED BY <3>2, <3>13
  <2> QED BY <2>1, <2>2
<1>3. ASSUME NEW r \in RawIds, NEW ev \in Events, CreateInvoice(r, ev) \/ UpdateInvoice(r, ev)
      PROVE  StampsAreFirst'
  BY <1>2, <1>3 DEF StampsAreFirst, StateAt
<1> QED BY <1>1, <1>3 DEF Next, ApplyInvoiceEvent, SkipDuplicate

(* The stamp of a state is the time of the first event of that state, also *)
(* of one that did not advance the invoice.                                *)
THEOREM StampsStayFirst == Spec => []StampsAreFirst
PROOF
<1>1. Init => StampsAreFirst
  BY DEF Init, StampsAreFirst
<1> QED BY <1>1, StampsStep, RowsInvariant, PTL DEF Spec
-----------------------------------------------------------------------------
(* A column that events fill in keeps the value of the first to bring one. *)
LEMMA ColumnStep ==
  ASSUME RowsInv, NEW r \in RawIds, NEW ev \in Events,
         CreateInvoice(r, ev) \/ UpdateInvoice(r, ev),
         NEW name \in {"amount_minor", "currency"},
         IsOfFirst(Before(ev.key)[name], Supplied(ev.key, name), Column(ev.key, name))
  PROVE  IsOfFirst(invoices'[ev.key][name], Supplied(ev.key, name)', Column(ev.key, name)')
PROOF
<1> DEFINE k == ev.key
           n == Len(invoice_events[k])
           old == Before(k)[name]
           new == ev[name]
<1>1. /\ n \in Nat /\ DOMAIN invoice_events[k] = 1..n
      /\ DOMAIN invoice_events'[k] = 1..(n + 1)
      /\ \A i \in 1..n : invoice_events'[k][i] = invoice_events[k][i]
      /\ invoice_events'[k][n + 1] = EventOf(Before(k), r, ev)
  BY HistoryGrows
<1>2. EventOf(Before(k), r, ev)[name] = new
  BY DEF EventOf
<1>3. invoices'[k][name] = FillIn(old, new)
  <2>1. invoices'[k] = Patched(Before(k), ev)
    BY ApplyEffect
  <2>2. CASE name = "amount_minor"
    BY <2>1, <2>2 DEF Patched
  <2>3. CASE name = "currency"
    BY <2>1, <2>3 DEF Patched
  <2> QED BY <2>2, <2>3
<1>4. \A i \in 1..n : Column(k, name)'[i] = Column(k, name)[i]
  BY <1>1 DEF Column
<1>5. Column(k, name)'[n + 1] = new
  BY <1>1, <1>2 DEF Column
<1>6. /\ Supplied(k, name) \in SUBSET (1..n) /\ Supplied(k, name)' \in SUBSET (1..(n + 1))
      /\ Supplied(k, name)' \cap 1..n = Supplied(k, name)
  BY <1>1 DEF Supplied
<1>7. n + 1 \in Supplied(k, name)' <=> new # Null
  BY <1>1, <1>2 DEF Supplied
<1>8. \A i \in Supplied(k, name)' : Column(k, name)'[i] # Null
  BY DEF Supplied, Column
<1> HIDE DEF k, n, old, new
<1>9. IsOfFirst(old, Supplied(k, name), Column(k, name))
  BY DEF k, old
<1>10. IsOfFirst(FillIn(old, new), Supplied(k, name)', Column(k, name)')
  BY <1>1, <1>4, <1>5, <1>6, <1>7, <1>8, <1>9, FillInKeepsFirst
<1> QED BY <1>3, <1>10 DEF k

LEMMA MoneyStep == RowsInv /\ MoneyIsFirst /\ [Next]_vars => MoneyIsFirst'
PROOF
<1> SUFFICES ASSUME RowsInv, MoneyIsFirst, [Next]_vars PROVE MoneyIsFirst'
  OBVIOUS
<1>1. CASE UNCHANGED vars
  BY <1>1 DEF vars, MoneyIsFirst, Supplied, Column
<1>2. ASSUME NEW r \in RawIds, NEW ev \in Events, CreateInvoice(r, ev) \/ UpdateInvoice(r, ev),
             NEW k \in Keys, invoices'[k] # Null
      PROVE  /\ IsOfFirst(invoices'[k].amount_minor, Supplied(k, "amount_minor")',
                          Column(k, "amount_minor")')
             /\ IsOfFirst(invoices'[k].currency, Supplied(k, "currency")',
                          Column(k, "currency")')
  <2>1. CASE k # ev.key
    <3>1. invoices'[k] = invoices[k] /\ invoice_events'[k] = invoice_events[k]
      BY <1>2, <2>1, ApplyEffect
    <3> QED BY <1>2, <3>1 DEF MoneyIsFirst, Supplied, Column
  <2>2. CASE k = ev.key
    <3>1. MoneyHolds(ev.key)
      BY EventFacts, MoneyOfAll
    <3>2. /\ IsOfFirst(Before(ev.key)["amount_minor"], Supplied(ev.key, "amount_minor"),
                       Column(ev.key, "amount_minor"))
          /\ IsOfFirst(Before(ev.key)["currency"], Supplied(ev.key, "currency"),
                       Column(ev.key, "currency"))
      BY <3>1 DEF MoneyHolds
    <3>3. IsOfFirst(invoices'[k]["amount_minor"], Supplied(k, "amount_minor")',
                    Column(k, "amount_minor")')
      BY <1>2, <2>2, <3>2, ColumnStep
    <3>4. IsOfFirst(invoices'[k]["currency"], Supplied(k, "currency")', Column(k, "currency")')
      BY <1>2, <2>2, <3>2, ColumnStep
    <3> QED BY <3>3, <3>4
  <2> QED BY <2>1, <2>2
<1>3. ASSUME NEW r \in RawIds, NEW ev \in Events, CreateInvoice(r, ev) \/ UpdateInvoice(r, ev)
      PROVE  MoneyIsFirst'
  BY <1>2, <1>3 DEF MoneyIsFirst
<1> QED BY <1>1, <1>3 DEF Next, ApplyInvoiceEvent, SkipDuplicate

(* No event changes an amount or a currency that an earlier one supplied.  *)
THEOREM MoneyStaysFirst == Spec => []MoneyIsFirst
PROOF
<1>1. Init => MoneyIsFirst
  BY DEF Init, MoneyIsFirst
<1> QED BY <1>1, MoneyStep, RowsInvariant, PTL DEF Spec

-----------------------------------------------------------------------------
(* The rank of the event at position i of the history of k.                *)
RankAt(k, i) == Rank[invoice_events[k][i].state]

LEMMA CurrentStep ==
  RowsInv /\ CurrentIsFirstOfItsRank /\ [Next]_vars => CurrentIsFirstOfItsRank'
PROOF
<1> SUFFICES ASSUME RowsInv, CurrentIsFirstOfItsRank, [Next]_vars
             PROVE  CurrentIsFirstOfItsRank'
  OBVIOUS
<1>1. CASE UNCHANGED vars
  BY <1>1 DEF vars, CurrentIsFirstOfItsRank, CurrentRank
<1>2. ASSUME NEW r \in RawIds, NEW ev \in Events, CreateInvoice(r, ev) \/ UpdateInvoice(r, ev),
             NEW k \in Keys, invoices'[k] # Null
      PROVE  /\ \A i \in DOMAIN invoice_events'[k] : RankAt(k, i)' <= CurrentRank(invoices'[k])
             /\ \E i \in DOMAIN invoice_events'[k] :
                  /\ RankAt(k, i)' = CurrentRank(invoices'[k])
                  /\ \A j \in 1..(i - 1) : RankAt(k, j)' # CurrentRank(invoices'[k])
                  /\ invoices'[k].current_state = invoice_events'[k][i].state
                  /\ invoices'[k].current_state_at = invoice_events'[k][i].at
  <2>1. CASE k # ev.key
    <3>1. invoices'[k] = invoices[k] /\ invoice_events'[k] = invoice_events[k]
      BY <1>2, <2>1, ApplyEffect
    <3>2. \A i : RankAt(k, i)' = RankAt(k, i)
      BY <3>1 DEF RankAt
    <3> QED BY <1>2, <3>1, <3>2 DEF CurrentIsFirstOfItsRank, RankAt
  <2>2. CASE k = ev.key
    <3> DEFINE n == Len(invoice_events[k])
               row == Before(k)
    <3>1. /\ n \in Nat /\ DOMAIN invoice_events[k] = 1..n
          /\ DOMAIN invoice_events'[k] = 1..(n + 1)
          /\ \A i \in 1..n : /\ invoice_events'[k][i] = invoice_events[k][i]
                             /\ invoice_events[k][i] \in EventRow
          /\ invoice_events'[k][n + 1] = EventOf(row, r, ev)
      BY <1>2, <2>2, HistoryGrows
    <3>2. /\ row \in Row
          /\ invoices'[k].current_state =
               IF WillAdvance(row, ev) THEN ev.state ELSE row.current_state
          /\ invoices'[k].current_state_at =
               IF WillAdvance(row, ev) THEN ev.at ELSE row.current_state_at
      <4>1. row \in Row /\ invoices'[k] = Patched(row, ev)
        BY <1>2, <2>2, ApplyEffect
      <4> QED BY <4>1 DEF Patched
    <3>3. /\ invoice_events'[k][n + 1].state = ev.state
          /\ invoice_events'[k][n + 1].at = ev.at
      BY <3>1 DEF EventOf
    <3>4. \A i \in 1..n : RankAt(k, i)' = RankAt(k, i) /\ RankAt(k, i) \in Nat \ {0}
      BY <3>1, InvoicesAssumption DEF RankAt, EventRow
    <3>5. CurrentRank(row) \in Nat /\ Rank[ev.state] \in Nat \ {0} /\ ev.state # Null
      BY <3>2, RankFacts, EventFacts, InvoicesAssumption
    <3>6. \A i \in 1..n : RankAt(k, i) <= CurrentRank(row)
      <4>1. CASE invoices[k] = Null
        BY <3>1, <4>1 DEF RowsInv, NoRowNoEvents
      <4>2. CASE invoices[k] # Null
        BY <3>1, <4>2 DEF CurrentIsFirstOfItsRank, Before, RankAt
      <4> QED BY <4>1, <4>2
    <3> HIDE DEF n, row
    <3>7. CASE WillAdvance(row, ev)
      <4>1. CurrentRank(invoices'[k]) = Rank[ev.state] /\ Rank[ev.state] > CurrentRank(row)
        BY <3>2, <3>5, <3>7 DEF CurrentRank, WillAdvance
      <4>2. \A j \in 1..n : RankAt(k, j)' < Rank[ev.state]
        BY <3>4, <3>5, <3>6, <4>1 DEF RankAt
      <4>3. \A i \in 1..(n + 1) : RankAt(k, i)' <= Rank[ev.state]
        <5>1. \A i \in 1..(n + 1) : i \in 1..n \/ i = n + 1
          BY <3>1
        <5> QED BY <3>3, <3>4, <3>5, <4>2, <5>1 DEF RankAt
      <4>4. \A j \in 1..(n + 1 - 1) : RankAt(k, j)' # Rank[ev.state]
        BY <3>1, <3>4, <3>5, <4>2 DEF RankAt
      <4> QED BY <3>1, <3>2, <3>3, <3>7, <4>1, <4>3, <4>4 DEF RankAt
    <3>8. CASE ~WillAdvance(row, ev)
      <4>1. /\ invoices'[k].current_state = row.current_state
            /\ invoices'[k].current_state_at = row.current_state_at
            /\ CurrentRank(invoices'[k]) = CurrentRank(row)
            /\ Rank[ev.state] <= CurrentRank(row)
        BY <3>2, <3>5, <3>8 DEF CurrentRank, WillAdvance
      <4>2. invoices[k] # Null /\ row = invoices[k]
        <5>1. BlankRow.current_state = Null
          BY DEF BlankRow
        <5>2. row # BlankRow
          BY <3>5, <4>1, <5>1 DEF CurrentRank
        <5> QED BY <5>2 DEF row, Before
      <4>3. PICK i \in 1..n : /\ RankAt(k, i) = CurrentRank(row)
                              /\ \A j \in 1..(i - 1) : RankAt(k, j) # CurrentRank(row)
                              /\ row.current_state = invoice_events[k][i].state
                              /\ row.current_state_at = invoice_events[k][i].at
        BY <3>1, <4>2 DEF CurrentIsFirstOfItsRank, RankAt
      <4>4. /\ i \in DOMAIN invoice_events'[k] /\ invoice_events'[k][i] = invoice_events[k][i]
            /\ RankAt(k, i)' = CurrentRank(row)
        BY <3>1, <3>4, <4>3 DEF RankAt
      <4>5. \A j \in 1..(i - 1) : RankAt(k, j)' # CurrentRank(row)
        <5>1. \A j \in 1..(i - 1) : j \in 1..n
          BY <3>1, <4>3
        <5> QED BY <3>4, <4>3, <5>1 DEF RankAt
      <4>6. \A j \in 1..(n + 1) : RankAt(k, j)' <= CurrentRank(row)
        <5>1. \A j \in 1..(n + 1) : j \in 1..n \/ j = n + 1
          BY <3>1
        <5> QED BY <3>3, <3>4, <3>6, <4>1, <5>1 DEF RankAt
      <4> QED BY <3>1, <4>1, <4>3, <4>4, <4>5, <4>6 DEF RankAt
    <3> QED BY <3>7, <3>8
  <2> QED BY <2>1, <2>2
<1>3. ASSUME NEW r \in RawIds, NEW ev \in Events, CreateInvoice(r, ev) \/ UpdateInvoice(r, ev)
      PROVE  CurrentIsFirstOfItsRank'
  BY <1>2, <1>3 DEF CurrentIsFirstOfItsRank, RankAt, CurrentRank
<1> QED BY <1>1, <1>3 DEF Next, ApplyInvoiceEvent, SkipDuplicate

(* In whatever order events land, the row shows the first of the highest   *)
(* rank among them, with its time: of PAID and VOIDED the earlier to land. *)
THEOREM CurrentStaysFirstOfItsRank == Spec => []CurrentIsFirstOfItsRank
PROOF
<1>1. Init => CurrentIsFirstOfItsRank
  BY DEF Init, CurrentIsFirstOfItsRank
<1> QED BY <1>1, CurrentStep, RowsInvariant, PTL DEF Spec

-----------------------------------------------------------------------------
(* What the ledger sees of an event row and of a history.                  *)
LedgerRow(e) == [raw |-> e.raw, state |-> e.state, advanced |-> e.advanced]
LedgerRows(rows) == [i \in DOMAIN rows |->
  [raw |-> rows[i].raw, state |-> rows[i].state, advanced |-> rows[i].advanced]]
Shown(row) == IF row = Null THEN Null ELSE row.current_state

LEMMA LedgerRowsAppend ==
  ASSUME NEW rows \in Seq(EventRow), NEW e \in EventRow
  PROVE  LedgerRows(Append(rows, e)) = Append(LedgerRows(rows), LedgerRow(e))
PROOF
<1> DEFINE n == Len(rows)
           S == [raw : RawIds, state : States, advanced : BOOLEAN]
<1>1. n \in Nat /\ DOMAIN rows = 1..n /\ \A i \in 1..n : rows[i] \in EventRow
  OBVIOUS
<1>2. LedgerRow(e) \in S /\ \A i \in 1..n : LedgerRow(rows[i]) \in S
  BY <1>1 DEF LedgerRow, EventRow
<1>3. LedgerRows(rows) = [i \in 1..n |-> LedgerRow(rows[i])]
  BY <1>1 DEF LedgerRows, LedgerRow
<1>4. LedgerRows(rows) \in Seq(S) /\ Len(LedgerRows(rows)) = n
  BY <1>1, <1>2, <1>3
<1>5. LedgerRows(Append(rows, e)) = [i \in 1..(n + 1) |-> LedgerRow(Append(rows, e)[i])]
  BY <1>1 DEF LedgerRows, LedgerRow
<1> DEFINE mapped == LedgerRows(Append(rows, e))
           appended == Append(LedgerRows(rows), LedgerRow(e))
<1>6. mapped \in Seq(S) /\ Len(mapped) = n + 1
  BY <1>1, <1>2, <1>5
<1>7. /\ appended \in Seq(S) /\ Len(appended) = n + 1
      /\ \A i \in 1..n : appended[i] = LedgerRows(rows)[i]
      /\ appended[n + 1] = LedgerRow(e)
  BY <1>1, <1>2, <1>4, AppendProperties
<1>8. \A i \in 1..(n + 1) : mapped[i] = appended[i]
  BY <1>1, <1>3, <1>5, <1>7
<1> HIDE DEF mapped, appended
<1>9. mapped = appended
  BY <1>1, <1>6, <1>7, <1>8, SeqEqual
<1> QED BY <1>9 DEF mapped, appended

LEMMA LedgerInitial == Init => Ledger!LedgerInit
PROOF
<1> SUFFICES ASSUME Init PROVE Ledger!LedgerInit
  OBVIOUS
<1>1. \A k \in Keys : invoices[k] = Null /\ invoice_events[k] = <<>>
  BY DEF Init
<1>2. LedgerRows(<<>>) = <<>>
  BY DEF LedgerRows
<1> QED BY <1>1, <1>2 DEF Ledger!LedgerInit, LedgerRows

LEMMA LedgerStep == RowsInv /\ [Next]_vars => [Ledger!LedgerNext]_(Ledger!ledgerVars)
PROOF
<1> SUFFICES ASSUME RowsInv, [Next]_vars
             PROVE  [Ledger!LedgerNext]_(Ledger!ledgerVars)
  OBVIOUS
<1>1. CASE UNCHANGED vars
  BY <1>1 DEF vars, Ledger!ledgerVars
<1>2. ASSUME NEW r \in RawIds, NEW ev \in Events, CreateInvoice(r, ev) \/ UpdateInvoice(r, ev)
      PROVE  Ledger!LedgerNext
  <2> DEFINE k == ev.key
             row == Before(k)
             event == EventOf(row, r, ev)
             history == [j \in Keys |-> LedgerRows(invoice_events[j])]
             current == [j \in Keys |-> Shown(invoices[j])]
  <2>1. k \in Keys /\ ev.state \in States
    BY EventFacts
  <2>2. /\ row \in Row /\ ~Recorded(k, r) /\ event \in EventRow
        /\ invoice_events[k] \in Seq(EventRow)
        /\ invoices' = [invoices EXCEPT ![k] = Patched(row, ev)]
        /\ invoice_events' = [invoice_events EXCEPT ![k] = Append(@, event)]
        /\ Patched(row, ev) # Null
    BY <1>2, ApplyEffect
  <2>3. Shown(invoices[k]) = row.current_state
    BY DEF Shown, Before, BlankRow
  <2>4. Ledger!CurrentRank(k) = CurrentRank(row)
    BY <2>1, <2>3 DEF Ledger!CurrentRank, CurrentRank, Shown
  <2>5. Ledger!Advances(k, ev.state) = WillAdvance(row, ev)
    BY <2>4 DEF Ledger!Advances, WillAdvance
  <2>6. ~Ledger!Recorded(k, r)
    BY <2>1, <2>2 DEF Ledger!Recorded, Recorded
  <2>7. Ledger!NewRow(k, r, ev.state) = LedgerRow(event)
    BY <2>5 DEF Ledger!NewRow, LedgerRow, EventOf
  <2>8. [j \in Keys |-> LedgerRows(invoice_events'[j])]
          = [history EXCEPT ![k] = Append(@, LedgerRow(event))]
    <3>1. LedgerRows(Append(invoice_events[k], event))
            = Append(LedgerRows(invoice_events[k]), LedgerRow(event))
      BY <2>2, LedgerRowsAppend
    <3>2. invoice_events'[k] = Append(invoice_events[k], event)
      BY <2>1, <2>2 DEF RowsInv, TypeOK
    <3>3. \A j \in Keys \ {k} : invoice_events'[j] = invoice_events[j]
      BY <2>2 DEF RowsInv, TypeOK
    <3> QED BY <2>1, <3>1, <3>2, <3>3
  <2>9. [j \in Keys |-> Shown(invoices'[j])]
          = IF WillAdvance(row, ev) THEN [current EXCEPT ![k] = ev.state] ELSE current
    <3>1. invoices'[k] = Patched(row, ev)
      BY <2>1, <2>2 DEF RowsInv, TypeOK
    <3>2. \A j \in Keys \ {k} : invoices'[j] = invoices[j]
      BY <2>2 DEF RowsInv, TypeOK
    <3>3. Shown(invoices'[k]) = IF WillAdvance(row, ev) THEN ev.state ELSE Shown(invoices[k])
      BY <2>2, <2>3, <3>1 DEF Shown, Patched
    <3> QED BY <2>1, <3>2, <3>3
  <2>10. Ledger!RecordEvent(k, r, ev.state)
    BY <2>5, <2>6, <2>7, <2>8, <2>9 DEF Ledger!RecordEvent, LedgerRows, Shown
  <2> QED BY <2>1, <2>10 DEF Ledger!LedgerNext, Ledger!ApplyEvent
<1> QED BY <1>1, <1>2 DEF Next, ApplyInvoiceEvent, SkipDuplicate

(* Invoices, with all that events write to them, keep the promise of the   *)
(* ledger: a webhook is applied once, late events do not regress, and of   *)
(* two states of one rank the first stays.                                 *)
THEOREM InvoicesImplementLedger == Spec => ImplementsLedger
PROOF
<1> QED BY LedgerInitial, LedgerStep, RowsInvariant, PTL
        DEF Spec, ImplementsLedger, Ledger!LedgerSpec
=============================================================================
