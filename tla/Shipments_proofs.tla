-------------------------- MODULE Shipments_proofs --------------------------
(***************************************************************************)
(* What the settle transactions of shipments keep, for any number of       *)
(* connections, shipments, webhooks, states and readings, any isolation    *)
(* level and any rollbacks.                                                *)
(*                                                                         *)
(* First what a transaction record may look like at each statement         *)
(* (TypeInv); then that the row lock excludes (LockInv); then that what a  *)
(* transaction has written and not committed is still right for what is    *)
(* committed (WriteInv), since nobody else may have changed that.  The     *)
(* ledger and the retelling of a row follow for the one step that changes  *)
(* the tables, Commit.                                                     *)
(***************************************************************************)
EXTENDS Shipments, SequenceTheorems, TLAPS

(* From the insert on, a transaction has its shipment and an exclusive     *)
(* lock on it.                                                             *)
Writing == {"insert", "advance", "flip", "commit"}

Whole(t) ==
  /\ tx[t].pc # "none" => tx[t].ev \in Events
  /\ tx[t].pc = "find" => ~tx[t].absent
  /\ tx[t].pc \in {"create", "refind"} => tx[t].absent
  /\ tx[t].pc = "refind" => shipments[KeyOf(t)] # Null
  /\ tx[t].pc \in Writing => tx[t].row \in Row

TypeInv == TypeOK /\ \A t \in Txs : Whole(t)

-----------------------------------------------------------------------------
LEMMA EventFacts ==
  ASSUME NEW ev \in Events
  PROVE  /\ ev.raw \in RawIds /\ ev.key \in Keys /\ ev.state \in States
         /\ ev.at \in At /\ ev.port \in Ports /\ ev.doc \in Docs
         /\ Rank[ev.state] \in Nat \ {0} /\ ev.state # Null
         /\ Null \in Ports /\ Null \in Docs
PROOF BY ShipmentsAssumption DEF At, Ports, Docs

(* What a statement does to the record of its transaction and to no other. *)
LEMMA GotoEffect ==
  ASSUME TypeOK, NEW t \in Txs, NEW s \in Statement, NEW rec \in Tx, Goto(t, s, rec)
  PROVE  /\ tx' \in [Txs -> Tx]
         /\ tx'[t].pc = s
         /\ tx'[t].ev = rec.ev /\ tx'[t].isolation = rec.isolation
         /\ tx'[t].absent = rec.absent /\ tx'[t].row = rec.row /\ tx'[t].event = rec.event
         /\ \A u \in Txs \ {t} : tx'[u] = tx[u]
PROOF
<1>1. tx \in [Txs -> Tx]
  BY DEF TypeOK
<1>2. [rec EXCEPT !.pc = s] \in Tx
  BY DEF Tx
<1>3. tx' = [tx EXCEPT ![t] = [rec EXCEPT !.pc = s]]
  BY DEF Goto
<1>4. tx'[t] = [rec EXCEPT !.pc = s] /\ \A u \in Txs \ {t} : tx'[u] = tx[u]
  BY <1>1, <1>3
<1>5. tx' \in [Txs -> Tx]
  BY <1>1, <1>2, <1>3
<1> QED BY <1>4, <1>5 DEF Tx

LEMMA TxFields ==
  ASSUME TypeOK, NEW t \in Txs
  PROVE  /\ tx[t] \in Tx
         /\ tx[t].pc \in Statement /\ tx[t].ev \in Events \cup {Null}
         /\ tx[t].absent \in BOOLEAN /\ tx[t].row \in Row \cup {Null}
         /\ tx[t].event \in EventRow \cup {Null}
PROOF BY DEF TypeOK, Tx

LEMMA NoTxType ==
  /\ NoTx \in Tx /\ NoTx.pc = "none"
  /\ NoTx.event = Null /\ NoTx.row = Null /\ NoTx.absent = FALSE
PROOF BY DEF NoTx, Tx, Statement

(* A transaction that is open is about an event and its key.               *)
LEMMA OpenFacts ==
  ASSUME TypeInv, NEW t \in Txs, tx[t].pc # "none"
  PROVE  /\ tx[t].ev \in Events /\ KeyOf(t) \in Keys /\ RawOf(t) \in RawIds
         /\ tx[t].ev.state \in States
         /\ shipments[KeyOf(t)] \in Row \cup {Null}
         /\ shipment_events[KeyOf(t)] \in Seq(EventRow)
PROOF BY EventFacts DEF TypeInv, TypeOK, Whole, KeyOf, RawOf

-----------------------------------------------------------------------------
(* What each statement makes of the record of its transaction.             *)
LEMMA BeginEffect ==
  ASSUME TypeInv, NEW t \in Txs, Begin(t)
  PROVE  /\ tx' \in [Txs -> Tx] /\ \A u \in Txs \ {t} : tx'[u] = tx[u]
         /\ tx'[t].pc = "find" /\ tx'[t].ev \in Events /\ ~tx'[t].absent
         /\ tx'[t].event = Null
         /\ UNCHANGED tables /\ settles' \in 0..MaxSettles
PROOF
<1>1. PICK ev \in Events, iso \in Isolation :
        Goto(t, "find", [NoTx EXCEPT !.ev = ev, !.isolation = iso])
  BY DEF Begin
<1> DEFINE rec == [NoTx EXCEPT !.ev = ev, !.isolation = iso]
<1>2. /\ rec \in Tx /\ rec.ev = ev /\ ~rec.absent /\ rec.event = Null
      /\ "find" \in Statement
  BY DEF NoTx, Tx, Statement
<1>3. TypeOK /\ Goto(t, "find", rec)
  BY <1>1 DEF TypeInv
<1>4. settles' \in 0..MaxSettles
  BY ShipmentsAssumption DEF TypeInv, TypeOK, Begin
<1> HIDE DEF rec
<1> QED BY <1>2, <1>3, <1>4, GotoEffect DEF Begin

LEMMA FindEffect ==
  ASSUME TypeInv, NEW t \in Txs, Find(t)
  PROVE  /\ tx' \in [Txs -> Tx] /\ \A u \in Txs \ {t} : tx'[u] = tx[u]
         /\ UNCHANGED <<tables, settles>>
         /\ tx[t].pc = "find"
         /\ tx'[t].ev = tx[t].ev /\ tx'[t].event = tx[t].event
         /\ \/ /\ shipments[KeyOf(t)] # Null
               /\ tx'[t].pc = "insert" /\ tx'[t].row = shipments[KeyOf(t)]
               /\ tx'[t].absent = tx[t].absent
            \/ /\ shipments[KeyOf(t)] = Null
               /\ tx'[t].pc = "create" /\ tx'[t].absent
PROOF
<1>1. TypeOK /\ tx[t] \in Tx /\ tx[t].pc = "find"
  BY TxFields DEF TypeInv, Find, Runs, IsAt
<1>2. "insert" \in Statement /\ "create" \in Statement
  BY DEF Statement
<1>3. CASE shipments[KeyOf(t)] # Null
  <2> DEFINE rec == [tx[t] EXCEPT !.row = shipments[KeyOf(t)]]
  <2>1. /\ rec \in Tx /\ rec.ev = tx[t].ev /\ rec.event = tx[t].event
        /\ rec.row = shipments[KeyOf(t)] /\ rec.absent = tx[t].absent
    BY <1>1, OpenFacts DEF Tx
  <2>2. Goto(t, "insert", rec)
    BY <1>3 DEF Find
  <2> HIDE DEF rec
  <2> QED BY <1>1, <1>2, <1>3, <2>1, <2>2, GotoEffect DEF Find
<1>4. CASE shipments[KeyOf(t)] = Null
  <2> DEFINE rec == [tx[t] EXCEPT !.absent = TRUE]
  <2>1. rec \in Tx /\ rec.ev = tx[t].ev /\ rec.event = tx[t].event /\ rec.absent
    BY <1>1 DEF Tx
  <2>2. Goto(t, "create", rec)
    BY <1>4 DEF Find
  <2> HIDE DEF rec
  <2> QED BY <1>1, <1>2, <1>4, <2>1, <2>2, GotoEffect DEF Find
<1> QED BY <1>3, <1>4

(* The row without a state, as the INSERT leaves it.                       *)
Created(ev) ==
  [current_state |-> Null, current_state_rank |-> 0, current_state_at |-> Null,
   last_port_code |-> ev.port, doc_number |-> ev.doc]

LEMMA CreatedType == ASSUME NEW ev \in Events PROVE Created(ev) \in Row
PROOF BY EventFacts DEF Created, Row

LEMMA CreateEffect ==
  ASSUME TypeInv, NEW t \in Txs, Create(t)
  PROVE  /\ tx' \in [Txs -> Tx] /\ \A u \in Txs \ {t} : tx'[u] = tx[u]
         /\ UNCHANGED <<tables, settles>>
         /\ tx[t].pc = "create" /\ shipments[KeyOf(t)] = Null
         /\ tx'[t].pc = "insert" /\ tx'[t].row = Created(tx[t].ev)
         /\ tx'[t].ev = tx[t].ev /\ tx'[t].event = tx[t].event
         /\ tx'[t].absent = tx[t].absent
PROOF
<1> DEFINE rec == [tx[t] EXCEPT !.row = Created(tx[t].ev)]
<1>1. TypeOK /\ tx[t] \in Tx /\ tx[t].pc = "create"
  BY TxFields DEF TypeInv, Create, Runs, IsAt
<1>2. Created(tx[t].ev) \in Row
  BY <1>1, OpenFacts, CreatedType
<1>3. /\ rec \in Tx /\ rec.ev = tx[t].ev /\ rec.event = tx[t].event
      /\ rec.row = Created(tx[t].ev) /\ rec.absent = tx[t].absent
  BY <1>1, <1>2 DEF Tx
<1>4. Goto(t, "insert", rec) /\ "insert" \in Statement
  BY DEF Create, Created, Statement
<1> HIDE DEF rec
<1> QED BY <1>1, <1>3, <1>4, GotoEffect DEF Create

(* Statements that leave the row and the event row they found: a lost      *)
(* creation, a duplicate, the flip of the status.                          *)
LEMMA PassEffect ==
  ASSUME TypeInv, NEW t \in Txs,
         NEW to \in Statement, Goto(t, to, tx[t])
  PROVE  /\ tx' \in [Txs -> Tx] /\ \A u \in Txs \ {t} : tx'[u] = tx[u]
         /\ tx'[t].pc = to /\ tx'[t].ev = tx[t].ev /\ tx'[t].row = tx[t].row
         /\ tx'[t].event = tx[t].event /\ tx'[t].absent = tx[t].absent
PROOF BY TxFields, GotoEffect DEF TypeInv

LEMMA RefindEffect ==
  ASSUME TypeInv, NEW t \in Txs, Refind(t)
  PROVE  /\ tx' \in [Txs -> Tx] /\ \A u \in Txs \ {t} : tx'[u] = tx[u]
         /\ UNCHANGED <<tables, settles>>
         /\ tx[t].pc = "refind" /\ shipments[KeyOf(t)] # Null
         /\ tx'[t].pc = "insert" /\ tx'[t].row = shipments[KeyOf(t)]
         /\ tx'[t].ev = tx[t].ev /\ tx'[t].event = tx[t].event
         /\ tx'[t].absent = tx[t].absent
PROOF
<1> DEFINE rec == [tx[t] EXCEPT !.row = shipments[KeyOf(t)]]
<1>1. /\ TypeOK /\ tx[t] \in Tx /\ tx[t].pc = "refind"
      /\ shipments[KeyOf(t)] # Null /\ shipments[KeyOf(t)] \in Row \cup {Null}
  <2>1. TypeOK /\ tx[t] \in Tx /\ tx[t].pc = "refind"
    BY TxFields DEF TypeInv, Refind, Runs, IsAt
  <2> QED BY <2>1, OpenFacts DEF TypeInv, Whole
<1>2. /\ rec \in Tx /\ rec.ev = tx[t].ev /\ rec.event = tx[t].event
      /\ rec.row = shipments[KeyOf(t)] /\ rec.absent = tx[t].absent
  BY <1>1 DEF Tx
<1>3. Goto(t, "insert", rec) /\ "insert" \in Statement
  BY DEF Refind, Statement
<1> HIDE DEF rec
<1> QED BY <1>1, <1>2, <1>3, GotoEffect DEF Refind

EventRowOf(t, advanced) ==
  [raw |-> RawOf(t), state |-> tx[t].ev.state, at |-> tx[t].ev.at, port |-> tx[t].ev.port,
   doc |-> tx[t].ev.doc, advanced |-> advanced]

LEMMA EventRowType ==
  ASSUME TypeInv, NEW t \in Txs, tx[t].pc # "none", NEW b \in BOOLEAN
  PROVE  EventRowOf(t, b) \in EventRow
PROOF BY OpenFacts, EventFacts DEF EventRowOf, EventRow, RawOf

LEMMA InsertEffect ==
  ASSUME TypeInv, NEW t \in Txs, InsertEvent(t)
  PROVE  /\ tx' \in [Txs -> Tx] /\ \A u \in Txs \ {t} : tx'[u] = tx[u]
         /\ UNCHANGED <<tables, settles>>
         /\ tx[t].pc = "insert" /\ ~Recorded(KeyOf(t), RawOf(t))
         /\ WillAdvance(t) \in BOOLEAN
         /\ tx'[t].pc = (IF WillAdvance(t) THEN "advance" ELSE "flip")
         /\ tx'[t].event = EventRowOf(t, WillAdvance(t))
         /\ tx'[t].ev = tx[t].ev /\ tx'[t].row = tx[t].row
         /\ tx'[t].absent = tx[t].absent
PROOF
<1> DEFINE rec == [tx[t] EXCEPT !.event = EventRowOf(t, WillAdvance(t))]
           s == IF WillAdvance(t) THEN "advance" ELSE "flip"
<1>1. TypeOK /\ tx[t] \in Tx /\ tx[t].pc = "insert"
  BY TxFields DEF TypeInv, InsertEvent, Runs, IsAt
<1>2. WillAdvance(t) \in BOOLEAN
  <2>1. tx[t].row \in Row /\ tx[t].ev \in Events
    BY <1>1, OpenFacts DEF TypeInv, Whole, Writing
  <2> QED BY <2>1, EventFacts DEF WillAdvance, Row
<1>3. EventRowOf(t, WillAdvance(t)) \in EventRow
  BY <1>1, <1>2, EventRowType
<1>4. /\ rec \in Tx /\ rec.ev = tx[t].ev /\ rec.row = tx[t].row
      /\ rec.event = EventRowOf(t, WillAdvance(t)) /\ rec.absent = tx[t].absent
  BY <1>1, <1>3 DEF Tx
<1>5. Goto(t, s, rec) /\ s \in Statement
  BY DEF InsertEvent, EventRowOf, Statement
<1> HIDE DEF rec, s
<1>6. /\ tx' \in [Txs -> Tx] /\ \A u \in Txs \ {t} : tx'[u] = tx[u]
      /\ tx'[t].pc = s /\ tx'[t].event = EventRowOf(t, WillAdvance(t))
      /\ tx'[t].ev = tx[t].ev /\ tx'[t].row = tx[t].row /\ tx'[t].absent = tx[t].absent
  BY <1>1, <1>4, <1>5, GotoEffect
<1> QED BY <1>1, <1>2, <1>6 DEF InsertEvent, s

LEMMA AdvancedType ==
  ASSUME TypeInv, NEW t \in Txs, tx[t].pc \in Writing
  PROVE  Advanced(t) \in Row
PROOF
<1>1. tx[t].row \in Row /\ tx[t].ev \in Events
  BY DEF TypeInv, Whole, Writing
<1>2. tx[t].row.last_port_code \in Ports /\ tx[t].row.doc_number \in Docs
  BY <1>1 DEF Row
<1> QED BY <1>1, <1>2, EventFacts DEF Advanced, Row

LEMMA AdvanceEffect ==
  ASSUME TypeInv, NEW t \in Txs, AdvanceState(t)
  PROVE  /\ tx' \in [Txs -> Tx] /\ \A u \in Txs \ {t} : tx'[u] = tx[u]
         /\ UNCHANGED <<tables, settles>>
         /\ tx[t].pc = "advance" /\ tx'[t].pc = "flip"
         /\ tx'[t].row = Advanced(t) /\ Advanced(t) \in Row
         /\ tx'[t].ev = tx[t].ev /\ tx'[t].event = tx[t].event
         /\ tx'[t].absent = tx[t].absent
PROOF
<1> DEFINE rec == [tx[t] EXCEPT !.row = Advanced(t)]
<1>1. TypeOK /\ tx[t] \in Tx /\ tx[t].pc = "advance"
  BY TxFields DEF TypeInv, AdvanceState, Runs, IsAt
<1>2. Advanced(t) \in Row
  BY <1>1, AdvancedType DEF Writing
<1>3. /\ rec \in Tx /\ rec.ev = tx[t].ev /\ rec.event = tx[t].event
      /\ rec.row = Advanced(t) /\ rec.absent = tx[t].absent
  BY <1>1, <1>2 DEF Tx
<1>4. Goto(t, "flip", rec) /\ "flip" \in Statement
  BY DEF AdvanceState, Statement
<1> HIDE DEF rec
<1> QED BY <1>1, <1>2, <1>3, <1>4, GotoEffect DEF AdvanceState

(* The end of a transaction, either way.                                   *)
LEMMA EndEffect ==
  ASSUME TypeInv, NEW t \in Txs, tx' = [tx EXCEPT ![t] = NoTx]
  PROVE  /\ tx' \in [Txs -> Tx] /\ \A u \in Txs \ {t} : tx'[u] = tx[u]
         /\ tx'[t] = NoTx /\ tx'[t].pc = "none"
PROOF BY NoTxType DEF TypeInv, TypeOK

-----------------------------------------------------------------------------
LEMMA TypeFrame ==
  ASSUME TypeInv, NEW t \in Txs,
         tx' \in [Txs -> Tx], \A u \in Txs \ {t} : tx'[u] = tx[u],
         UNCHANGED tables, settles' \in 0..MaxSettles, Whole(t)'
  PROVE  TypeInv'
PROOF
<1>1. shipments' = shipments /\ shipment_events' = shipment_events
  BY DEF tables
<1>2. TypeOK'
  BY <1>1 DEF TypeInv, TypeOK
<1>3. \A u \in Txs \ {t} : Whole(u)'
  BY <1>1 DEF TypeInv, Whole, KeyOf
<1> QED BY <1>2, <1>3 DEF TypeInv

LEMMA TypeInit == Init => TypeInv
PROOF
<1> SUFFICES ASSUME Init PROVE TypeInv
  OBVIOUS
<1>1. TypeOK
  BY NoTxType, ShipmentsAssumption DEF Init, TypeOK
<1>2. \A t \in Txs : tx[t].pc = "none"
  BY NoTxType DEF Init
<1> QED BY <1>1, <1>2 DEF TypeInv, Whole, Writing

LEMMA CommitTypes ==
  ASSUME TypeInv, NEW t \in Txs, Commit(t)
  PROVE  /\ shipments' \in [Keys -> Row \cup {Null}]
         /\ shipment_events' \in [Keys -> Seq(EventRow)]
         /\ shipments'[KeyOf(t)] = tx[t].row /\ tx[t].row # Null
         /\ \A k \in Keys \ {KeyOf(t)} :
              shipments'[k] = shipments[k] /\ shipment_events'[k] = shipment_events[k]
PROOF
<1>1. /\ tx[t].pc = "commit" /\ KeyOf(t) \in Keys /\ tx[t].row \in Row
      /\ tx[t].event \in EventRow \cup {Null}
      /\ shipments \in [Keys -> Row \cup {Null}]
      /\ shipment_events \in [Keys -> Seq(EventRow)]
  BY OpenFacts, TxFields DEF TypeInv, TypeOK, Whole, Writing, Commit, IsAt
<1>2. shipments' = [shipments EXCEPT ![KeyOf(t)] = tx[t].row]
  BY DEF Commit
<1>3. /\ shipment_events' \in [Keys -> Seq(EventRow)]
      /\ \A k \in Keys \ {KeyOf(t)} : shipment_events'[k] = shipment_events[k]
  <2>1. CASE tx[t].event = Null
    BY <1>1, <2>1 DEF Commit
  <2>2. CASE tx[t].event # Null
    <3>1. Append(shipment_events[KeyOf(t)], tx[t].event) \in Seq(EventRow)
      BY <1>1, <2>2
    <3> QED BY <1>1, <2>2, <3>1 DEF Commit
  <2> QED BY <2>1, <2>2
<1> QED BY <1>1, <1>2, <1>3, NullAssumption

LEMMA TypeStep == TypeInv /\ [Next]_vars => TypeInv'
PROOF
<1> SUFFICES ASSUME TypeInv, [Next]_vars PROVE TypeInv'
  OBVIOUS
<1>1. CASE UNCHANGED vars
  BY <1>1 DEF vars, TypeInv, TypeOK, Whole, KeyOf
<1>2. ASSUME NEW t \in Txs, Begin(t) \/ SettleStep(t) \/ RollBack(t)
      PROVE  TypeInv'
  <2>0. settles \in 0..MaxSettles
    BY DEF TypeInv, TypeOK
  <2>1. CASE Begin(t)
    <3>1. Whole(t)'
      BY <2>1, BeginEffect DEF Whole, Writing
    <3> QED BY <2>1, <3>1, BeginEffect, TypeFrame
  <2>2. CASE Find(t)
    <3>1. tx[t].ev \in Events /\ shipments[KeyOf(t)] \in Row \cup {Null}
      BY <2>2, FindEffect, OpenFacts
    <3>2. Whole(t)'
      BY <2>2, <3>1, FindEffect DEF Whole, Writing
    <3> QED BY <2>0, <2>2, <3>2, FindEffect, TypeFrame
  <2>3. CASE Create(t)
    <3>1. tx[t].ev \in Events
      BY <2>3, CreateEffect, OpenFacts
    <3>2. Whole(t)'
      BY <2>3, <3>1, CreateEffect, CreatedType DEF Whole, Writing
    <3> QED BY <2>0, <2>3, <3>2, CreateEffect, TypeFrame
  <2>4. CASE LoseCreateRace(t)
    <3>1. /\ tx[t].pc = "create" /\ Goto(t, "refind", tx[t]) /\ "refind" \in Statement
          /\ shipments[KeyOf(t)] # Null /\ UNCHANGED <<tables, settles>>
      BY <2>4 DEF LoseCreateRace, Runs, IsAt, Statement
    <3>2. tx[t].ev \in Events /\ tx[t].absent
      BY <3>1, OpenFacts DEF TypeInv, Whole
    <3>3. Whole(t)'
      <4>1. KeyOf(t)' = KeyOf(t) /\ shipments' = shipments
        BY <3>1, PassEffect DEF KeyOf, tables
      <4> QED BY <3>1, <3>2, <4>1, PassEffect DEF Whole, Writing
    <3> QED BY <2>0, <3>1, <3>3, PassEffect, TypeFrame
  <2>5. CASE Refind(t)
    <3>1. tx[t].ev \in Events /\ shipments[KeyOf(t)] \in Row
      BY <2>5, RefindEffect, OpenFacts
    <3>2. Whole(t)'
      BY <2>5, <3>1, RefindEffect DEF Whole, Writing
    <3> QED BY <2>0, <2>5, <3>2, RefindEffect, TypeFrame
  <2>6. CASE InsertEvent(t)
    <3>1. tx[t].ev \in Events /\ tx[t].row \in Row
      BY <2>6, InsertEffect, OpenFacts DEF TypeInv, Whole, Writing
    <3>2. Whole(t)'
      BY <2>6, <3>1, InsertEffect DEF Whole, Writing
    <3> QED BY <2>0, <2>6, <3>2, InsertEffect, TypeFrame
  <2>7. CASE SkipDuplicate(t)
    <3>1. /\ tx[t].pc = "insert" /\ Goto(t, "flip", tx[t]) /\ "flip" \in Statement
          /\ UNCHANGED <<tables, settles>>
      BY <2>7 DEF SkipDuplicate, Runs, IsAt, Statement
    <3>2. tx[t].ev \in Events /\ tx[t].row \in Row
      BY <3>1, OpenFacts DEF TypeInv, Whole, Writing
    <3>3. Whole(t)'
      BY <3>1, <3>2, PassEffect DEF Whole, Writing
    <3> QED BY <2>0, <3>1, <3>3, PassEffect, TypeFrame
  <2>8. CASE AdvanceState(t)
    <3>1. tx[t].ev \in Events
      BY <2>8, AdvanceEffect, OpenFacts
    <3>2. Whole(t)'
      BY <2>8, <3>1, AdvanceEffect DEF Whole, Writing
    <3> QED BY <2>0, <2>8, <3>2, AdvanceEffect, TypeFrame
  <2>9. CASE FlipStatus(t)
    <3>1. /\ tx[t].pc = "flip" /\ Goto(t, "commit", tx[t]) /\ "commit" \in Statement
          /\ UNCHANGED <<tables, settles>>
      BY <2>9 DEF FlipStatus, Runs, IsAt, Statement
    <3>2. tx[t].ev \in Events /\ tx[t].row \in Row
      BY <3>1, OpenFacts DEF TypeInv, Whole, Writing
    <3>3. Whole(t)'
      BY <3>1, <3>2, PassEffect DEF Whole, Writing
    <3> QED BY <2>0, <3>1, <3>3, PassEffect, TypeFrame
  <2>10. CASE Commit(t)
    <3>1. /\ tx' \in [Txs -> Tx] /\ \A u \in Txs \ {t} : tx'[u] = tx[u]
          /\ tx'[t].pc = "none" /\ settles' \in 0..MaxSettles
      BY <2>0, <2>10, EndEffect DEF Commit
    <3>2. TypeOK'
      BY <2>10, <3>1, CommitTypes DEF TypeOK
    <3>3. Whole(t)'
      BY <3>1 DEF Whole, Writing
    <3>4. ASSUME NEW u \in Txs \ {t} PROVE Whole(u)'
      <4>1. tx[u].pc = "refind" => shipments'[KeyOf(u)] # Null
        BY <2>10, CommitTypes, OpenFacts DEF TypeInv, Whole
      <4> QED BY <3>1, <3>4, <4>1 DEF TypeInv, Whole, KeyOf
    <3> QED BY <3>2, <3>3, <3>4 DEF TypeInv
  <2>11. CASE RollBack(t)
    <3>1. /\ tx' \in [Txs -> Tx] /\ \A u \in Txs \ {t} : tx'[u] = tx[u]
          /\ tx'[t].pc = "none" /\ UNCHANGED <<tables, settles>>
      BY <2>11, EndEffect DEF RollBack
    <3>2. Whole(t)'
      BY <3>1 DEF Whole, Writing
    <3> QED BY <2>0, <3>1, <3>2, TypeFrame
  <2> QED BY <1>2, <2>1, <2>2, <2>3, <2>4, <2>5, <2>6, <2>7, <2>8, <2>9, <2>10, <2>11
          DEF SettleStep
<1> QED BY <1>1, <1>2 DEF Next

LEMMA TypeInvariant == Spec => []TypeInv
PROOF BY TypeInit, TypeStep, PTL DEF Spec

(* Records and tables keep their shape: no transaction works without a     *)
(* row, none refers to a shipment that is not there.                       *)
THEOREM ShipmentsTypeCorrect == Spec => []TypeOK
PROOF
<1>1. TypeInv => TypeOK
  BY DEF TypeInv
<1> QED BY <1>1, TypeInvariant, PTL
-----------------------------------------------------------------------------
(* Who writes a shipment has it alone.  (Two that lost the race for its    *)
(* creation share a lock, and neither writes before the other has ended.)  *)
LockInv ==
  \A t, u \in Txs :
    t # u /\ tx[t].pc \in Writing /\ tx[u].pc \in Writing \cup {"refind"}
      => KeyOf(t) # KeyOf(u)

LEMMA NoLocksOfOthers ==
  ASSUME NEW t \in Txs, NEW s \in {"find", "create", "refind"}, Runs(t, s),
         NEW u \in Txs, u # t, tx[u].pc \in Writing \cup {"refind"}
  PROVE  KeyOf(u) # KeyOf(t)
PROOF
<1>1. tx[t].pc \in {"find", "create", "refind"} /\ ~Waits(t, u)
  BY DEF Runs, IsAt
<1>2. ~HoldsShipment(u, KeyOf(t))
  BY <1>1 DEF Waits, IsAt
<1> QED BY <1>2 DEF HoldsShipment, Writing

(* A step keeps LockInv if its transaction holds no lock after it, or held *)
(* one already, or nobody else does.                                       *)
LEMMA LockFrame ==
  ASSUME LockInv, NEW t \in Txs, \A u \in Txs \ {t} : tx'[u] = tx[u],
         \/ tx'[t].pc \notin Writing \cup {"refind"}
         \/ /\ tx'[t].ev = tx[t].ev
            /\ \/ tx[t].pc \in Writing
               \/ \A u \in Txs : u # t /\ tx[u].pc \in Writing \cup {"refind"}
                                   => KeyOf(u) # KeyOf(t)
  PROVE  LockInv'
PROOF
<1> SUFFICES ASSUME NEW v \in Txs, NEW u \in Txs, v # u, tx'[v].pc \in Writing,
                    tx'[u].pc \in Writing \cup {"refind"}
             PROVE  tx'[v].ev.key # tx'[u].ev.key
  BY DEF LockInv, KeyOf, Writing
<1>1. CASE v # t /\ u # t
  BY <1>1 DEF LockInv, KeyOf
<1>2. CASE v = t
  BY <1>2 DEF LockInv, KeyOf
<1>3. CASE u = t
  <2>1. tx'[v] = tx[v] /\ tx'[t].ev = tx[t].ev
    BY <1>3
  <2> QED BY <1>3, <2>1 DEF LockInv, KeyOf
<1> QED BY <1>1, <1>2, <1>3

LEMMA LockStep == TypeInv /\ LockInv /\ [Next]_vars => LockInv'
PROOF
<1> SUFFICES ASSUME TypeInv, LockInv, [Next]_vars PROVE LockInv'
  OBVIOUS
<1>1. CASE UNCHANGED vars
  BY <1>1 DEF vars, LockInv, KeyOf
<1>2. ASSUME NEW t \in Txs, Begin(t) \/ SettleStep(t) \/ RollBack(t)
      PROVE  LockInv'
  <2>1. CASE Begin(t)
    BY <2>1, BeginEffect, LockFrame DEF Writing
  <2>2. CASE Find(t)
    <3>1. \A u \in Txs : u # t /\ tx[u].pc \in Writing \cup {"refind"} => KeyOf(u) # KeyOf(t)
      BY <2>2, NoLocksOfOthers DEF Find
    <3> QED BY <2>2, <3>1, FindEffect, LockFrame
  <2>3. CASE Create(t)
    <3>1. \A u \in Txs : u # t /\ tx[u].pc \in Writing \cup {"refind"} => KeyOf(u) # KeyOf(t)
      BY <2>3, NoLocksOfOthers DEF Create
    <3> QED BY <2>3, <3>1, CreateEffect, LockFrame
  <2>4. CASE LoseCreateRace(t)
    <3>1. \A u \in Txs : u # t /\ tx[u].pc \in Writing \cup {"refind"} => KeyOf(u) # KeyOf(t)
      BY <2>4, NoLocksOfOthers DEF LoseCreateRace
    <3>2. Goto(t, "refind", tx[t]) /\ "refind" \in Statement
      BY <2>4 DEF LoseCreateRace, Statement
    <3> QED BY <3>1, <3>2, PassEffect, LockFrame
  <2>5. CASE Refind(t)
    <3>1. \A u \in Txs : u # t /\ tx[u].pc \in Writing \cup {"refind"} => KeyOf(u) # KeyOf(t)
      BY <2>5, NoLocksOfOthers DEF Refind
    <3> QED BY <2>5, <3>1, RefindEffect, LockFrame
  <2>6. CASE InsertEvent(t)
    <3>1. tx[t].pc \in Writing
      BY <2>6, InsertEffect DEF Writing
    <3> QED BY <2>6, <3>1, InsertEffect, LockFrame
  <2>7. CASE SkipDuplicate(t)
    <3>1. tx[t].pc \in Writing /\ Goto(t, "flip", tx[t]) /\ "flip" \in Statement
      BY <2>7 DEF SkipDuplicate, Runs, IsAt, Writing, Statement
    <3> QED BY <3>1, PassEffect, LockFrame
  <2>8. CASE AdvanceState(t)
    <3>1. tx[t].pc \in Writing
      BY <2>8, AdvanceEffect DEF Writing
    <3> QED BY <2>8, <3>1, AdvanceEffect, LockFrame
  <2>9. CASE FlipStatus(t)
    <3>1. tx[t].pc \in Writing /\ Goto(t, "commit", tx[t]) /\ "commit" \in Statement
      BY <2>9 DEF FlipStatus, Runs, IsAt, Writing, Statement
    <3> QED BY <3>1, PassEffect, LockFrame
  <2>10. CASE Commit(t) \/ RollBack(t)
    <3>1. tx' = [tx EXCEPT ![t] = NoTx]
      BY <2>10 DEF Commit, RollBack
    <3>2. tx'[t].pc = "none" /\ \A u \in Txs \ {t} : tx'[u] = tx[u]
      BY <3>1, EndEffect
    <3> QED BY <3>2, LockFrame DEF Writing
  <2> QED BY <1>2, <2>1, <2>2, <2>3, <2>4, <2>5, <2>6, <2>7, <2>8, <2>9, <2>10
          DEF SettleStep
<1> QED BY <1>1, <1>2 DEF Next

LEMMA LockInvariant == Spec => []LockInv
PROOF
<1>1. Init => LockInv
  BY NoTxType DEF Init, LockInv, Writing
<1> QED BY <1>1, LockStep, TypeInvariant, PTL DEF Spec

-----------------------------------------------------------------------------
(* Who deadlocks.                                                          *)
LEMMA DeadlockShape ==
  ASSUME TypeInv, LockInv
  PROVE  DeadlocksOnlyOnFirstEvents
PROOF
<1> SUFFICES ASSUME NEW D \in SUBSET Txs, Deadlocked(D), \A t \in D : ~tx[t].absent,
                    \A t, u \in D : t # u => RawOf(t) # RawOf(u)
             PROVE  FALSE
  BY DEF DeadlocksOnlyOnFirstEvents
<1>1. ASSUME NEW t \in D, NEW u \in D, Waits(t, u)
      PROVE  tx[t].pc = "find" /\ tx[u].pc \in Writing
  <2>1. t # u /\ t \in Txs /\ u \in Txs
    BY <1>1 DEF Waits
  <2>2. tx[t].pc \notin {"create", "refind"} /\ tx[u].pc # "refind"
    BY <2>1 DEF TypeInv, Whole
  <2>3. ~SharesRaw(u, RawOf(t)) /\ ~LocksRaw(u, RawOf(t))
    BY <2>1 DEF SharesRaw, LocksRaw
  <2>4. tx[t].pc \in {"find", "advance"} /\ HoldsShipment(u, KeyOf(t))
    BY <1>1, <2>2, <2>3 DEF Waits, IsAt
  <2>5. tx[u].pc \in Writing /\ KeyOf(u) = KeyOf(t)
    BY <2>2, <2>4 DEF HoldsShipment, Writing
  <2>6. tx[t].pc # "advance"
    BY <2>1, <2>5 DEF LockInv, Writing
  <2> QED BY <2>4, <2>5, <2>6
<1>2. PICK t \in D : \E u \in D : Waits(t, u)
  BY DEF Deadlocked
<1>3. PICK u \in D : Waits(t, u)
  BY <1>2
<1>4. PICK v \in D : Waits(u, v)
  BY DEF Deadlocked
<1>5. tx[u].pc \in Writing /\ tx[u].pc = "find"
  BY <1>1, <1>3, <1>4
<1> QED BY <1>5 DEF Writing

(* Transactions that settle different webhooks of shipments that exist     *)
(* never deadlock, whatever their number: whoever waits, waits for one     *)
(* that waits for nobody.                                                  *)
THEOREM DeadlocksAreOverFirstEvents == Spec => []DeadlocksOnlyOnFirstEvents
PROOF BY DeadlockShape, TypeInvariant, LockInvariant, PTL
-----------------------------------------------------------------------------
(* What a transaction that writes has not committed yet, said of what is   *)
(* committed: the row it started from is the committed one (or the one it  *)
(* created), and the event row it inserted is not there yet.               *)
Base(t) == IF shipments[KeyOf(t)] = Null THEN Created(tx[t].ev) ELSE shipments[KeyOf(t)]

Outranks(t) == Rank[tx[t].ev.state] > Base(t).current_state_rank

Moved(row, ev) ==
  [current_state |-> ev.state, current_state_rank |-> Rank[ev.state],
   current_state_at |-> ev.at,
   last_port_code |-> IF ev.port # Null THEN ev.port ELSE row.last_port_code,
   doc_number |-> row.doc_number]

New(t) == ~Recorded(KeyOf(t), RawOf(t))

Skips(t) == ~New(t) /\ tx[t].row = Base(t) /\ tx[t].event = Null
Logs(t) ==
  New(t) /\ ~Outranks(t) /\ tx[t].row = Base(t) /\ tx[t].event = EventRowOf(t, FALSE)
Moving(t) ==
  New(t) /\ Outranks(t) /\ tx[t].row = Base(t) /\ tx[t].event = EventRowOf(t, TRUE)
HasMoved(t) ==
  /\ New(t) /\ Outranks(t)
  /\ tx[t].row = Moved(Base(t), tx[t].ev) /\ tx[t].event = EventRowOf(t, TRUE)

Written(t) ==
  /\ tx[t].pc \in {"find", "create", "refind", "insert"} => tx[t].event = Null
  /\ tx[t].pc = "insert" => tx[t].row = Base(t)
  /\ tx[t].pc = "advance" => Moving(t)
  /\ tx[t].pc \in {"flip", "commit"} => Skips(t) \/ Logs(t) \/ HasMoved(t)

WriteInv == \A t \in Txs : Written(t)

(* The same record and the same tables say the same.                       *)
LEMMA WrittenFrame ==
  ASSUME NEW u \in Txs, tx'[u] = tx[u],
         tx[u].pc \in Writing =>
           shipments'[KeyOf(u)] = shipments[KeyOf(u)]
           /\ shipment_events'[KeyOf(u)] = shipment_events[KeyOf(u)],
         Written(u)
  PROVE  Written(u)'
PROOF
<1>1. CASE tx[u].pc \in Writing
  <2>1. /\ KeyOf(u)' = KeyOf(u) /\ RawOf(u)' = RawOf(u) /\ tx'[u] = tx[u]
        /\ shipments'[KeyOf(u)] = shipments[KeyOf(u)]
        /\ shipment_events'[KeyOf(u)] = shipment_events[KeyOf(u)]
    BY <1>1 DEF KeyOf, RawOf
  <2>2. Base(u)' = Base(u) /\ (New(u)' <=> New(u)) /\ (Outranks(u)' <=> Outranks(u))
    BY <2>1 DEF Base, New, Outranks, Recorded
  <2>3. EventRowOf(u, TRUE)' = EventRowOf(u, TRUE) /\ EventRowOf(u, FALSE)' = EventRowOf(u, FALSE)
    BY <2>1 DEF EventRowOf
  <2>4. (Skips(u)' <=> Skips(u)) /\ (Logs(u)' <=> Logs(u)) /\ (Moving(u)' <=> Moving(u))
        /\ (HasMoved(u)' <=> HasMoved(u))
    BY <2>1, <2>2, <2>3 DEF Skips, Logs, Moving, HasMoved
  <2> QED BY <2>1, <2>2, <2>4 DEF Written
<1>2. CASE tx[u].pc \notin Writing
  BY <1>2 DEF Written, Writing
<1> QED BY <1>1, <1>2

LEMMA WriteFrame ==
  ASSUME WriteInv, NEW t \in Txs, \A u \in Txs \ {t} : tx'[u] = tx[u],
         UNCHANGED tables, Written(t)'
  PROVE  WriteInv'
PROOF
<1>1. shipments' = shipments /\ shipment_events' = shipment_events
  BY DEF tables
<1>2. \A u \in Txs \ {t} : Written(u)'
  BY <1>1, WrittenFrame DEF WriteInv
<1> QED BY <1>2 DEF WriteInv

(* What a statement that keeps the event leaves true about its transaction.*)
LEMMA SameEvent ==
  ASSUME NEW t \in Txs, tx'[t].ev = tx[t].ev, UNCHANGED tables
  PROVE  /\ Base(t)' = Base(t) /\ (New(t)' <=> New(t)) /\ (Outranks(t)' <=> Outranks(t))
         /\ \A b \in BOOLEAN : EventRowOf(t, b)' = EventRowOf(t, b)
PROOF
<1>1. KeyOf(t)' = KeyOf(t) /\ RawOf(t)' = RawOf(t)
  BY DEF KeyOf, RawOf
<1>2. Base(t)' = Base(t)
  BY <1>1 DEF Base, tables
<1> QED BY <1>1, <1>2 DEF New, Outranks, Recorded, EventRowOf, tables

LEMMA WriteStep == TypeInv /\ LockInv /\ WriteInv /\ [Next]_vars => WriteInv'
PROOF
<1> SUFFICES ASSUME TypeInv, LockInv, WriteInv, [Next]_vars PROVE WriteInv'
  OBVIOUS
<1>1. CASE UNCHANGED vars
  BY <1>1, WrittenFrame DEF vars, WriteInv
<1>2. ASSUME NEW t \in Txs, Begin(t) \/ SettleStep(t) \/ RollBack(t)
      PROVE  WriteInv'
  <2>0. Written(t)
    BY DEF WriteInv
  <2>1. CASE Begin(t)
    <3>1. Written(t)'
      BY <2>1, BeginEffect DEF Written
    <3> QED BY <2>1, <3>1, BeginEffect, WriteFrame
  <2>2. CASE Find(t)
    <3>1. tx'[t].event = Null /\ Base(t)' = Base(t)
      BY <2>0, <2>2, FindEffect, SameEvent DEF Written
    <3>2. tx'[t].pc = "insert" => tx'[t].row = Base(t)
      BY <2>2, FindEffect DEF Base
    <3>3. Written(t)'
      BY <2>2, <3>1, <3>2, FindEffect DEF Written
    <3> QED BY <2>2, <3>3, FindEffect, WriteFrame
  <2>3. CASE Create(t)
    <3>1. tx'[t].event = Null /\ Base(t)' = Base(t)
      BY <2>0, <2>3, CreateEffect, SameEvent DEF Written
    <3>2. tx'[t].row = Base(t)
      BY <2>3, CreateEffect DEF Base
    <3>3. Written(t)'
      BY <2>3, <3>1, <3>2, CreateEffect DEF Written
    <3> QED BY <2>3, <3>3, CreateEffect, WriteFrame
  <2>4. CASE LoseCreateRace(t)
    <3>1. /\ tx[t].pc = "create" /\ Goto(t, "refind", tx[t]) /\ "refind" \in Statement
          /\ UNCHANGED tables
      BY <2>4 DEF LoseCreateRace, Runs, IsAt, Statement
    <3>2. Written(t)'
      BY <2>0, <3>1, PassEffect DEF Written
    <3> QED BY <3>1, <3>2, PassEffect, WriteFrame
  <2>5. CASE Refind(t)
    <3>1. tx'[t].event = Null /\ Base(t)' = Base(t)
      BY <2>0, <2>5, RefindEffect, SameEvent DEF Written
    <3>2. tx'[t].row = Base(t)
      BY <2>5, RefindEffect DEF Base
    <3>3. Written(t)'
      BY <2>5, <3>1, <3>2, RefindEffect DEF Written
    <3> QED BY <2>5, <3>3, RefindEffect, WriteFrame
  <2>6. CASE InsertEvent(t)
    <3>1. /\ tx[t].row = Base(t) /\ New(t) /\ tx'[t].row = Base(t)
          /\ (WillAdvance(t) <=> Outranks(t)) /\ WillAdvance(t) \in BOOLEAN
      BY <2>0, <2>6, InsertEffect DEF Written, New, WillAdvance, Outranks
    <3>2. Base(t)' = Base(t) /\ New(t)' /\ (Outranks(t)' <=> Outranks(t))
      BY <2>6, <3>1, InsertEffect, SameEvent
    <3>3. CASE WillAdvance(t)
      <4>1. tx'[t].pc = "advance" /\ tx'[t].event = EventRowOf(t, TRUE)
        BY <2>6, <3>3, <3>1, InsertEffect
      <4>2. EventRowOf(t, TRUE)' = EventRowOf(t, TRUE)
        BY <2>6, InsertEffect, SameEvent
      <4>3. Moving(t)'
        BY <3>1, <3>2, <3>3, <4>1, <4>2 DEF Moving
      <4>4. Written(t)'
        BY <4>1, <4>3 DEF Written
      <4> QED BY <2>6, <4>4, InsertEffect, WriteFrame
    <3>4. CASE ~WillAdvance(t)
      <4>1. tx'[t].pc = "flip" /\ tx'[t].event = EventRowOf(t, FALSE)
        BY <2>6, <3>4, <3>1, InsertEffect
      <4>2. EventRowOf(t, FALSE)' = EventRowOf(t, FALSE)
        BY <2>6, InsertEffect, SameEvent
      <4>3. Logs(t)'
        BY <3>1, <3>2, <3>4, <4>1, <4>2 DEF Logs
      <4>4. Written(t)'
        BY <4>1, <4>3 DEF Written
      <4> QED BY <2>6, <4>4, InsertEffect, WriteFrame
    <3> QED BY <3>3, <3>4
  <2>7. CASE SkipDuplicate(t)
    <3>1. /\ tx[t].pc = "insert" /\ Goto(t, "flip", tx[t]) /\ "flip" \in Statement
          /\ ~New(t) /\ UNCHANGED tables
      BY <2>7 DEF SkipDuplicate, Runs, IsAt, Statement, New
    <3>2. tx[t].row = Base(t) /\ tx[t].event = Null
      BY <2>0, <3>1 DEF Written
    <3>3. Skips(t)'
      BY <3>1, <3>2, PassEffect, SameEvent DEF Skips
    <3>4. Written(t)'
      BY <3>1, <3>3, PassEffect DEF Written
    <3> QED BY <3>1, <3>4, PassEffect, WriteFrame
  <2>8. CASE AdvanceState(t)
    <3>1. Moving(t) /\ tx'[t].pc = "flip" /\ tx'[t].event = EventRowOf(t, TRUE)
      BY <2>0, <2>8, AdvanceEffect DEF Written, Moving
    <3>2. tx'[t].row = Moved(Base(t), tx[t].ev)
      BY <2>8, <3>1, AdvanceEffect DEF Moving, Advanced, Moved
    <3>3. /\ Base(t)' = Base(t) /\ (New(t)' <=> New(t)) /\ (Outranks(t)' <=> Outranks(t))
          /\ EventRowOf(t, TRUE)' = EventRowOf(t, TRUE) /\ tx'[t].ev = tx[t].ev
      BY <2>8, AdvanceEffect, SameEvent
    <3>4. HasMoved(t)'
      BY <3>1, <3>2, <3>3 DEF HasMoved, Moving, Moved
    <3>5. Written(t)'
      BY <3>1, <3>4 DEF Written
    <3> QED BY <2>8, <3>5, AdvanceEffect, WriteFrame
  <2>9. CASE FlipStatus(t)
    <3>1. /\ tx[t].pc = "flip" /\ Goto(t, "commit", tx[t]) /\ "commit" \in Statement
          /\ UNCHANGED tables
      BY <2>9 DEF FlipStatus, Runs, IsAt, Statement
    <3>2. /\ tx'[t].pc = "commit" /\ tx'[t].ev = tx[t].ev /\ tx'[t].row = tx[t].row
          /\ tx'[t].event = tx[t].event
      BY <3>1, PassEffect
    <3>3. /\ Base(t)' = Base(t) /\ (New(t)' <=> New(t)) /\ (Outranks(t)' <=> Outranks(t))
          /\ EventRowOf(t, TRUE)' = EventRowOf(t, TRUE)
          /\ EventRowOf(t, FALSE)' = EventRowOf(t, FALSE)
      BY <3>1, <3>2, SameEvent
    <3>4. Skips(t)' \/ Logs(t)' \/ HasMoved(t)'
      BY <2>0, <3>1, <3>2, <3>3 DEF Written, Skips, Logs, HasMoved, Moved
    <3>5. Written(t)'
      BY <3>2, <3>4 DEF Written
    <3> QED BY <3>1, <3>5, PassEffect, WriteFrame
  <2>10. CASE Commit(t)
    <3>1. tx'[t].pc = "none" /\ \A u \in Txs \ {t} : tx'[u] = tx[u]
      BY <2>10, EndEffect DEF Commit
    <3>2. Written(t)'
      BY <3>1 DEF Written
    <3>3. ASSUME NEW u \in Txs \ {t} PROVE Written(u)'
      <4>1. ASSUME tx[u].pc \in Writing
            PROVE  /\ shipments'[KeyOf(u)] = shipments[KeyOf(u)]
                   /\ shipment_events'[KeyOf(u)] = shipment_events[KeyOf(u)]
        <5>1. tx[t].pc \in Writing /\ KeyOf(u) \in Keys
          BY <2>10, <4>1, OpenFacts DEF Commit, IsAt, Writing
        <5>2. KeyOf(u) # KeyOf(t)
          BY <4>1, <5>1 DEF LockInv
        <5> QED BY <2>10, <5>1, <5>2, CommitTypes
      <4> QED BY <3>1, <4>1, WrittenFrame DEF WriteInv
    <3> QED BY <3>2, <3>3 DEF WriteInv
  <2>11. CASE RollBack(t)
    <3>1. /\ tx'[t].pc = "none" /\ \A u \in Txs \ {t} : tx'[u] = tx[u]
          /\ UNCHANGED tables
      BY <2>11, EndEffect DEF RollBack
    <3>2. Written(t)'
      BY <3>1 DEF Written
    <3> QED BY <3>1, <3>2, WriteFrame
  <2> QED BY <1>2, <2>1, <2>2, <2>3, <2>4, <2>5, <2>6, <2>7, <2>8, <2>9, <2>10, <2>11
          DEF SettleStep
<1> QED BY <1>1, <1>2 DEF Next

LEMMA WriteInvariant == Spec => []WriteInv
PROOF
<1>1. Init => WriteInv
  BY NoTxType DEF Init, WriteInv, Written
<1> QED BY <1>1, WriteStep, TypeInvariant, LockInvariant, PTL DEF Spec

-----------------------------------------------------------------------------
ShipmentInv == TypeInv /\ LockInv /\ WriteInv /\ RowRetoldByHistory

(* A shipment that is there has a state, and its rank is that of the state.*)
LEMMA RetoldFacts ==
  ASSUME TypeInv, RowRetoldByHistory, NEW k \in Keys, shipments[k] # Null
  PROVE  /\ shipments[k].current_state \in States
         /\ shipments[k].current_state_rank = Rank[shipments[k].current_state]
         /\ Len(shipment_events[k]) \in Nat \ {0}
PROOF
<1>1. PICK i \in DOMAIN shipment_events[k] :
        /\ shipments[k].current_state = shipment_events[k][i].state
        /\ shipments[k].current_state_rank = Rank[shipment_events[k][i].state]
  BY DEF RowRetoldByHistory, Moves
<1>2. shipment_events[k] \in Seq(EventRow)
  BY DEF TypeInv, TypeOK
<1>3. shipment_events[k][i] \in EventRow /\ Len(shipment_events[k]) \in Nat \ {0}
  BY <1>1, <1>2
<1> QED BY <1>1, <1>3 DEF EventRow

(* The three things a commit can do to its shipment: nothing, for a        *)
(* duplicate; leave a row in the history of a shipment that is further     *)
(* already; leave a row and move the shipment.                             *)
LEMMA CommitEffect ==
  ASSUME ShipmentInv, NEW t \in Txs, Commit(t)
  PROVE  LET k == KeyOf(t) rows == shipment_events[KeyOf(t)] IN
         /\ k \in Keys /\ RawOf(t) \in RawIds /\ tx[t].ev \in Events /\ Base(t) \in Row
         /\ rows \in Seq(EventRow)
         /\ \A b \in BOOLEAN : EventRowOf(t, b) \in EventRow
         /\ \A j \in Keys \ {k} :
              shipments'[j] = shipments[j] /\ shipment_events'[j] = shipment_events[j]
         /\ \/ UNCHANGED tables
            \/ /\ New(t) /\ ~Outranks(t) /\ shipments[k] # Null
               /\ shipments' = shipments
               /\ shipment_events' =
                    [shipment_events EXCEPT ![k] = Append(@, EventRowOf(t, FALSE))]
            \/ /\ New(t) /\ Outranks(t)
               /\ shipments'[k] = Moved(Base(t), tx[t].ev) /\ shipments'[k] # Null
               /\ shipment_events' =
                    [shipment_events EXCEPT ![k] = Append(@, EventRowOf(t, TRUE))]
PROOF
<1> DEFINE k == KeyOf(t)
<1>1. TypeInv /\ WriteInv /\ RowRetoldByHistory
  BY DEF ShipmentInv
<1>2. tx[t].pc = "commit"
  BY DEF Commit, IsAt
<1>3. /\ k \in Keys /\ RawOf(t) \in RawIds /\ tx[t].ev \in Events
      /\ shipment_events[k] \in Seq(EventRow) /\ shipments[k] \in Row \cup {Null}
  BY <1>1, <1>2, OpenFacts
<1>4. \A b \in BOOLEAN : EventRowOf(t, b) \in EventRow
  BY <1>1, <1>2, EventRowType
<1>5. Base(t) \in Row
  BY <1>3, CreatedType DEF Base
<1>6. /\ shipments'[k] = tx[t].row /\ shipments'[k] # Null
      /\ \A j \in Keys \ {k} :
           shipments'[j] = shipments[j] /\ shipment_events'[j] = shipment_events[j]
  BY <1>1, CommitTypes
<1>7. /\ shipments' = [shipments EXCEPT ![k] = tx[t].row]
      /\ shipments \in [Keys -> Row \cup {Null}]
  BY <1>1 DEF Commit, TypeInv, TypeOK
<1>8. Skips(t) \/ Logs(t) \/ HasMoved(t)
  BY <1>1, <1>2 DEF WriteInv, Written
<1>9. CASE Skips(t)
  <2>1. shipments[k] # Null
    <3>1. shipment_events[k] # <<>>
      BY <1>9 DEF Skips, New, Recorded
    <3> QED BY <1>1, <1>3, <3>1 DEF RowRetoldByHistory
  <2>2. tx[t].row = shipments[k] /\ tx[t].event = Null
    BY <1>9, <2>1 DEF Skips, Base
  <2>3. UNCHANGED tables
    BY <1>3, <1>7, <2>2 DEF Commit, tables
  <2> QED BY <1>3, <1>4, <1>5, <1>6, <2>3
<1>10. CASE Logs(t)
  <2>1. tx[t].event = EventRowOf(t, FALSE) /\ tx[t].event # Null
    BY <1>4, <1>10, NullAssumption DEF Logs
  <2>2. shipments[k] # Null
    <3> SUFFICES ASSUME shipments[k] = Null PROVE FALSE
      OBVIOUS
    <3>1. Base(t).current_state_rank = 0
      BY DEF Base, Created
    <3>2. Outranks(t)
      BY <1>3, <3>1, EventFacts DEF Outranks
    <3> QED BY <1>10, <3>2 DEF Logs
  <2>3. tx[t].row = shipments[k]
    BY <1>10, <2>2 DEF Logs, Base
  <2>4. shipments' = shipments
    BY <1>3, <1>7, <2>3
  <2>5. shipment_events' = [shipment_events EXCEPT ![k] = Append(@, EventRowOf(t, FALSE))]
    BY <2>1 DEF Commit
  <2> QED BY <1>3, <1>4, <1>5, <1>6, <1>10, <2>2, <2>4, <2>5 DEF Logs
<1>11. CASE HasMoved(t)
  <2>1. tx[t].event = EventRowOf(t, TRUE) /\ tx[t].event # Null
    BY <1>4, <1>11, NullAssumption DEF HasMoved
  <2>2. shipment_events' = [shipment_events EXCEPT ![k] = Append(@, EventRowOf(t, TRUE))]
    BY <2>1 DEF Commit
  <2> QED BY <1>3, <1>4, <1>5, <1>6, <1>11, <2>2 DEF HasMoved
<1> QED BY <1>8, <1>9, <1>10, <1>11

LEMMA RowAppended ==
  ASSUME TypeInv, NEW k \in Keys, NEW e \in EventRow,
         shipment_events' = [shipment_events EXCEPT ![k] = Append(@, e)]
  PROVE  \E n \in Nat :
           /\ n = Len(shipment_events[k]) /\ DOMAIN shipment_events[k] = 1..n
           /\ DOMAIN shipment_events'[k] = 1..(n + 1)
           /\ \A i \in 1..n : shipment_events'[k][i] = shipment_events[k][i]
           /\ shipment_events'[k][n + 1] = e
PROOF
<1>1. shipment_events \in [Keys -> Seq(EventRow)]
  BY DEF TypeInv, TypeOK
<1>2. shipment_events'[k] = Append(shipment_events[k], e)
  BY <1>1
<1>3. Len(shipment_events[k]) \in Nat
  BY <1>1
<1> QED BY <1>1, <1>2, <1>3

-----------------------------------------------------------------------------
(* The invariant of one shipment, in parts.                                *)
StateRetold(k) ==
  \E i \in Moves(k) :
    /\ IsLast(i, Moves(k))
    /\ shipments[k].current_state = shipment_events[k][i].state
    /\ shipments[k].current_state_rank = Rank[shipment_events[k][i].state]
    /\ shipments[k].current_state_at = shipment_events[k][i].at

PortRetold(k) ==
  IF PortMoves(k) = {} THEN shipments[k].last_port_code = Null
  ELSE \E i \in PortMoves(k) :
         IsLast(i, PortMoves(k)) /\ shipments[k].last_port_code = shipment_events[k][i].port

Retold(k) ==
  IF shipments[k] = Null THEN shipment_events[k] = <<>>
  ELSE /\ StateRetold(k) /\ PortRetold(k)
       /\ shipments[k].doc_number = shipment_events[k][1].doc

LEMMA RetoldIsAll == RowRetoldByHistory <=> \A k \in Keys : Retold(k)
PROOF BY DEF RowRetoldByHistory, Retold, StateRetold, PortRetold

LEMMA RetoldFrame ==
  ASSUME NEW k \in Keys, shipments'[k] = shipments[k],
         shipment_events'[k] = shipment_events[k], Retold(k)
  PROVE  Retold(k)'
PROOF
<1>1. Moves(k)' = Moves(k) /\ PortMoves(k)' = PortMoves(k)
  BY DEF Moves, PortMoves
<1> QED BY <1>1 DEF Retold, StateRetold, PortRetold, IsLast

(* A row that did not advance retells nothing new.                         *)
LEMMA LoggedRetold ==
  ASSUME TypeInv, NEW k \in Keys, NEW e \in EventRow, ~e.advanced,
         Retold(k), shipments[k] # Null, shipments'[k] = shipments[k],
         shipment_events' = [shipment_events EXCEPT ![k] = Append(@, e)]
  PROVE  Retold(k)'
PROOF
<1>1. PICK n \in Nat :
      /\ n = Len(shipment_events[k]) /\ DOMAIN shipment_events[k] = 1..n
      /\ DOMAIN shipment_events'[k] = 1..(n + 1)
      /\ \A i \in 1..n : shipment_events'[k][i] = shipment_events[k][i]
      /\ shipment_events'[k][n + 1] = e
  BY RowAppended
<1>2. Moves(k)' = Moves(k) /\ Moves(k) \subseteq 1..n
  BY <1>1 DEF Moves
<1>3. PortMoves(k)' = PortMoves(k) /\ PortMoves(k) \subseteq 1..n
  BY <1>1, <1>2 DEF PortMoves
<1>4. StateRetold(k)'
  BY <1>1, <1>2 DEF Retold, StateRetold, IsLast
<1>5. PortRetold(k)'
  BY <1>1, <1>3 DEF Retold, PortRetold, IsLast
<1>6. 1 \in 1..n
  BY <1>1, <1>2 DEF Retold, StateRetold
<1>7. shipments'[k].doc_number = shipment_events'[k][1].doc
  BY <1>1, <1>6 DEF Retold
<1> QED BY <1>4, <1>5, <1>7 DEF Retold

(* A row that advanced is the last that did, and what the shipment shows.  *)
LEMMA MovedRetold ==
  ASSUME TypeInv, NEW k \in Keys, Retold(k), NEW ev \in Events,
         NEW base, base = IF shipments[k] = Null THEN Created(ev) ELSE shipments[k],
         NEW e \in EventRow, e.advanced, e.state = ev.state, e.at = ev.at,
         e.port = ev.port, e.doc = ev.doc,
         shipments'[k] = Moved(base, ev), shipments'[k] # Null,
         shipment_events' = [shipment_events EXCEPT ![k] = Append(@, e)]
  PROVE  Retold(k)'
PROOF
<1>1. PICK n \in Nat :
      /\ n = Len(shipment_events[k]) /\ DOMAIN shipment_events[k] = 1..n
      /\ DOMAIN shipment_events'[k] = 1..(n + 1)
      /\ \A i \in 1..n : shipment_events'[k][i] = shipment_events[k][i]
      /\ shipment_events'[k][n + 1] = e
  BY RowAppended
<1>0. shipments[k] = Null => n = 0
  BY <1>1 DEF Retold
<1>2. Moves(k)' = Moves(k) \cup {n + 1} /\ Moves(k) \subseteq 1..n
  BY <1>1 DEF Moves
<1>3. PortMoves(k)' = PortMoves(k) \cup (IF ev.port # Null THEN {n + 1} ELSE {})
      /\ PortMoves(k) \subseteq 1..n
  BY <1>1, <1>2 DEF PortMoves
<1>4. StateRetold(k)'
  <2>1. n + 1 \in Moves(k)' /\ IsLast(n + 1, Moves(k)')
    BY <1>1, <1>2 DEF IsLast
  <2>2. /\ shipments'[k].current_state = e.state
        /\ shipments'[k].current_state_rank = Rank[e.state]
        /\ shipments'[k].current_state_at = e.at
    BY DEF Moved
  <2> QED BY <1>1, <2>1, <2>2 DEF StateRetold, IsLast
<1>5. PortRetold(k)'
  <2>1. shipments'[k].last_port_code = IF ev.port # Null THEN ev.port ELSE base.last_port_code
    BY DEF Moved
  <2>2. CASE ev.port # Null
    <3>1. n + 1 \in PortMoves(k)' /\ IsLast(n + 1, PortMoves(k)')
      BY <1>1, <1>3, <2>2 DEF IsLast
    <3> QED BY <1>1, <2>1, <2>2, <3>1 DEF PortRetold, IsLast
  <2>3. CASE ev.port = Null
    <3>1. PortMoves(k)' = PortMoves(k) /\ shipments'[k].last_port_code = base.last_port_code
      BY <1>3, <2>1, <2>3
    <3>2. CASE shipments[k] = Null
      <4>1. PortMoves(k) = {} /\ base.last_port_code = Null
        BY <1>0, <1>1, <1>3, <2>3, <3>2 DEF Created
      <4> QED BY <3>1, <4>1 DEF PortRetold
    <3>3. CASE shipments[k] # Null
      <4>1. PortRetold(k) /\ base = shipments[k]
        BY <3>3 DEF Retold
      <4> QED BY <1>1, <1>3, <3>1, <4>1 DEF PortRetold, IsLast
    <3> QED BY <3>2, <3>3
  <2> QED BY <2>2, <2>3
<1>6. shipments'[k].doc_number = shipment_events'[k][1].doc
  <2>1. shipments'[k].doc_number = base.doc_number
    BY DEF Moved
  <2>2. CASE shipments[k] = Null
    <3>1. n + 1 = 1 /\ base.doc_number = ev.doc
      BY <1>0, <2>2 DEF Created
    <3> QED BY <1>1, <2>1, <3>1
  <2>3. CASE shipments[k] # Null
    <3>1. 1 \in 1..n
      BY <1>1, <1>2, <2>3 DEF Retold, StateRetold
    <3> QED BY <1>1, <2>1, <2>3, <3>1 DEF Retold
  <2> QED BY <2>2, <2>3
<1> QED BY <1>4, <1>5, <1>6 DEF Retold

(* Only a commit writes the tables.                                        *)
LEMMA OnlyCommitsWrite ==
  ASSUME [Next]_vars, ~\E t \in Txs : Commit(t)
  PROVE  UNCHANGED tables
PROOF BY DEF vars, tables, Next, SettleStep, Begin, Find, Create, LoseCreateRace, Refind,
             InsertEvent, SkipDuplicate, AdvanceState, FlipStatus, RollBack

LEMMA RetoldStep == ShipmentInv /\ [Next]_vars => RowRetoldByHistory'
PROOF
<1> SUFFICES ASSUME ShipmentInv, [Next]_vars PROVE \A k \in Keys : Retold(k)'
  BY DEF RowRetoldByHistory, Retold, StateRetold, PortRetold
<1>1. TypeInv /\ \A k \in Keys : Retold(k)
  BY RetoldIsAll DEF ShipmentInv
<1>2. ASSUME UNCHANGED tables PROVE \A k \in Keys : Retold(k)'
  BY <1>1, <1>2, RetoldFrame DEF tables
<1>3. ASSUME NEW t \in Txs, Commit(t) PROVE \A k \in Keys : Retold(k)'
  <2> DEFINE k == KeyOf(t)
  <2>1. /\ k \in Keys /\ tx[t].ev \in Events
        /\ \A b \in BOOLEAN : EventRowOf(t, b) \in EventRow
        /\ \A j \in Keys \ {k} :
             shipments'[j] = shipments[j] /\ shipment_events'[j] = shipment_events[j]
    BY <1>3, CommitEffect
  <2>2. Retold(k)
    BY <1>1, <2>1
  <2>3. \A j \in Keys \ {k} : Retold(j)'
    BY <1>1, <2>1, RetoldFrame
  <2>4. CASE /\ ~Outranks(t) /\ shipments[k] # Null /\ shipments' = shipments
             /\ shipment_events' =
                  [shipment_events EXCEPT ![k] = Append(@, EventRowOf(t, FALSE))]
    <3>1. ~EventRowOf(t, FALSE).advanced /\ EventRowOf(t, FALSE) \in EventRow
      BY <2>1 DEF EventRowOf
    <3>2. \A j \in Keys : j = k => Retold(j)'
      BY <1>1, <2>1, <2>2, <2>4, <3>1, LoggedRetold
    <3> QED BY <2>3, <3>2
  <2>5. CASE /\ shipments'[k] = Moved(Base(t), tx[t].ev) /\ shipments'[k] # Null
             /\ shipment_events' =
                  [shipment_events EXCEPT ![k] = Append(@, EventRowOf(t, TRUE))]
    <3>1. /\ EventRowOf(t, TRUE) \in EventRow /\ EventRowOf(t, TRUE).advanced
          /\ EventRowOf(t, TRUE).state = tx[t].ev.state
          /\ EventRowOf(t, TRUE).at = tx[t].ev.at
          /\ EventRowOf(t, TRUE).port = tx[t].ev.port
          /\ EventRowOf(t, TRUE).doc = tx[t].ev.doc
      BY <2>1 DEF EventRowOf
    <3>2. Base(t) = IF shipments[k] = Null THEN Created(tx[t].ev) ELSE shipments[k]
      BY DEF Base
    <3>3. \A j \in Keys : j = k => Retold(j)'
      BY <1>1, <2>1, <2>2, <2>5, <3>1, <3>2, MovedRetold
    <3> QED BY <2>3, <3>3
  <2> QED BY <1>2, <1>3, <2>4, <2>5, CommitEffect
<1> QED BY <1>2, <1>3, OnlyCommitsWrite

LEMMA ShipmentInvariant == Spec => []ShipmentInv
PROOF
<1>1. Init => RowRetoldByHistory
  BY DEF Init, RowRetoldByHistory
<1>2. TypeInv /\ LockInv /\ WriteInv /\ RowRetoldByHistory <=> ShipmentInv
  BY DEF ShipmentInv
<1> QED BY <1>1, <1>2, RetoldStep, TypeInvariant, LockInvariant, WriteInvariant, PTL DEF Spec

(* However transactions interleave, fail and race, a shipment shows what   *)
(* its history tells: the last advance, the last port that one supplied,   *)
(* the document number of its creation, and never a row without a state.   *)
THEOREM RowsStayRetold == Spec => []RowRetoldByHistory
PROOF
<1>1. ShipmentInv => RowRetoldByHistory
  BY DEF ShipmentInv
<1> QED BY <1>1, ShipmentInvariant, PTL

-----------------------------------------------------------------------------
(* What the ledger sees of an event row and of a history.                  *)
LedgerRow(e) == [raw |-> e.raw, state |-> e.state, advanced |-> e.advanced]
LedgerRows(rows) == [i \in DOMAIN rows |->
  [raw |-> rows[i].raw, state |-> rows[i].state, advanced |-> rows[i].advanced]]
Shown(row) == IF row = Null THEN Null ELSE row.current_state

LEMMA LedgerRowsAppend ==
  ASSUME NEW rows \in Seq(EventRow), NEW e \in EventRow
  PROVE  LedgerRows(Append(rows, e)) = Append(LedgerRows(rows), LedgerRow(e))
PROOF
<1> DEFINE n == Len(rows)
           S == [raw : RawIds, state : States, advanced : BOOLEAN]
<1>1. n \in Nat /\ DOMAIN rows = 1..n /\ \A i \in 1..n : rows[i] \in EventRow
  OBVIOUS
<1>2. LedgerRow(e) \in S /\ \A i \in 1..n : LedgerRow(rows[i]) \in S
  BY <1>1 DEF LedgerRow, EventRow
<1>3. LedgerRows(rows) = [i \in 1..n |-> LedgerRow(rows[i])]
  BY <1>1 DEF LedgerRows, LedgerRow
<1>4. LedgerRows(rows) \in Seq(S) /\ Len(LedgerRows(rows)) = n
  BY <1>1, <1>2, <1>3
<1>5. LedgerRows(Append(rows, e)) = [i \in 1..(n + 1) |-> LedgerRow(Append(rows, e)[i])]
  BY <1>1 DEF LedgerRows, LedgerRow
<1> DEFINE mapped == LedgerRows(Append(rows, e))
           appended == Append(LedgerRows(rows), LedgerRow(e))
<1>6. mapped \in Seq(S) /\ Len(mapped) = n + 1
  BY <1>1, <1>2, <1>5
<1>7. /\ appended \in Seq(S) /\ Len(appended) = n + 1
      /\ \A i \in 1..n : appended[i] = LedgerRows(rows)[i]
      /\ appended[n + 1] = LedgerRow(e)
  BY <1>1, <1>2, <1>4, AppendProperties
<1>8. \A i \in 1..(n + 1) : mapped[i] = appended[i]
  BY <1>1, <1>3, <1>5, <1>7
<1> HIDE DEF mapped, appended
<1>9. mapped = appended
  BY <1>1, <1>6, <1>7, <1>8, SeqEqual
<1> QED BY <1>9 DEF mapped, appended

LEMMA LedgerInitial == Init => Ledger!LedgerInit
PROOF
<1> SUFFICES ASSUME Init PROVE Ledger!LedgerInit
  OBVIOUS
<1>1. \A k \in Keys : shipments[k] = Null /\ shipment_events[k] = <<>>
  BY DEF Init
<1>2. LedgerRows(<<>>) = <<>>
  BY DEF LedgerRows
<1> QED BY <1>1, <1>2 DEF Ledger!LedgerInit, LedgerRows

(* A commit that leaves a row is the ledger's step; every other statement, *)
(* the commit of a duplicate included, is a stutter.                       *)
LEMMA LedgerStep == ShipmentInv /\ [Next]_vars => [Ledger!LedgerNext]_(Ledger!ledgerVars)
PROOF
<1> SUFFICES ASSUME ShipmentInv, [Next]_vars
             PROVE  [Ledger!LedgerNext]_(Ledger!ledgerVars)
  OBVIOUS
<1>1. CASE UNCHANGED tables
  BY <1>1 DEF tables, Ledger!ledgerVars
<1>2. ASSUME NEW t \in Txs, Commit(t), NEW adv \in BOOLEAN, New(t), adv <=> Outranks(t),
             shipment_events' = [shipment_events EXCEPT ![KeyOf(t)] = Append(@, EventRowOf(t, adv))],
             Shown(shipments'[KeyOf(t)])
               = IF adv THEN tx[t].ev.state ELSE Shown(shipments[KeyOf(t)])
      PROVE  Ledger!LedgerNext
  <2>0. PICK k \in Keys, r \in RawIds, s \in States :
               k = KeyOf(t) /\ r = RawOf(t) /\ s = tx[t].ev.state
    BY <1>2, CommitEffect, EventFacts
  <2> DEFINE event == EventRowOf(t, adv)
             history == [j \in Keys |-> LedgerRows(shipment_events[j])]
             current == [j \in Keys |-> Shown(shipments[j])]
  <2>1. /\ event \in EventRow
        /\ shipment_events[k] \in Seq(EventRow) /\ tx[t].ev \in Events
        /\ \A j \in Keys \ {k} :
             shipments'[j] = shipments[j] /\ shipment_events'[j] = shipment_events[j]
    BY <1>2, <2>0, CommitEffect
  <2>2. Ledger!CurrentRank(k) = Base(t).current_state_rank
    <3>1. CASE shipments[k] = Null
      BY <2>0, <2>1, <3>1 DEF Ledger!CurrentRank, Base, Created
    <3>2. CASE shipments[k] # Null
      <4>1. /\ shipments[k].current_state \in States
            /\ shipments[k].current_state_rank = Rank[shipments[k].current_state]
        BY <2>1, <3>2, RetoldFacts DEF ShipmentInv
      <4> QED BY <2>0, <2>1, <3>2, <4>1, ShipmentsAssumption DEF Ledger!CurrentRank, Base
    <3> QED BY <3>1, <3>2
  <2>3. Ledger!Advances(k, s) <=> adv
    BY <1>2, <2>0, <2>2 DEF Ledger!Advances, Outranks
  <2>4. ~Ledger!Recorded(k, r)
    BY <1>2, <2>0, <2>1 DEF Ledger!Recorded, New, Recorded
  <2>5. Ledger!NewRow(k, r, s) = LedgerRow(event)
    BY <2>0, <2>3 DEF Ledger!NewRow, LedgerRow, EventRowOf, Ledger!Advances
  <2>6. [j \in Keys |-> LedgerRows(shipment_events'[j])]
          = [history EXCEPT ![k] = Append(@, LedgerRow(event))]
    <3>1. LedgerRows(Append(shipment_events[k], event))
            = Append(LedgerRows(shipment_events[k]), LedgerRow(event))
      BY <2>1, LedgerRowsAppend
    <3>2. shipment_events'[k] = Append(shipment_events[k], event)
      BY <1>2, <2>0, <2>1 DEF ShipmentInv, TypeInv, TypeOK
    <3> QED BY <2>1, <3>1, <3>2
  <2>7. [j \in Keys |-> Shown(shipments'[j])]
          = IF adv THEN [current EXCEPT ![k] = s] ELSE current
    BY <1>2, <2>0, <2>1
  <2>8. Ledger!RecordEvent(k, r, s)
    BY <2>3, <2>4, <2>5, <2>6, <2>7 DEF Ledger!RecordEvent, LedgerRows, Shown
  <2> QED BY <2>8 DEF Ledger!LedgerNext, Ledger!ApplyEvent
<1>3. ASSUME NEW t \in Txs, Commit(t)
      PROVE  [Ledger!LedgerNext]_(Ledger!ledgerVars)
  <2>1. CASE /\ New(t) /\ ~Outranks(t) /\ shipments' = shipments
             /\ shipment_events' =
                  [shipment_events EXCEPT ![KeyOf(t)] = Append(@, EventRowOf(t, FALSE))]
    BY <1>2, <1>3, <2>1
  <2>2. CASE /\ New(t) /\ Outranks(t)
             /\ shipments'[KeyOf(t)] = Moved(Base(t), tx[t].ev) /\ shipments'[KeyOf(t)] # Null
             /\ shipment_events' =
                  [shipment_events EXCEPT ![KeyOf(t)] = Append(@, EventRowOf(t, TRUE))]
    <3>1. Shown(shipments'[KeyOf(t)]) = tx[t].ev.state
      BY <2>2 DEF Shown, Moved
    <3> QED BY <1>2, <1>3, <2>2, <3>1
  <2> QED BY <1>1, <1>3, <2>1, <2>2, CommitEffect
<1> QED BY <1>1, <1>3, OnlyCommitsWrite

(* Statement by statement, with locks, rollbacks and lost races, the       *)
(* shipment tables go through the steps of the atomic ledger and no other: *)
(* no webhook twice in a history, no regress, no rank compared when stale. *)
THEOREM ShipmentsImplementLedger == Spec => ImplementsLedger
PROOF
<1> QED BY LedgerInitial, LedgerStep, ShipmentInvariant, PTL
        DEF Spec, ImplementsLedger, Ledger!LedgerSpec
=============================================================================
