----------------------------- MODULE Shipments -----------------------------
(***************************************************************************)
(* applyShipmentEvent inside the settle transaction, statement by          *)
(* statement, with the row locks, gap locks and unique keys of InnoDB that *)
(* it relies on.                                                           *)
(*                                                                         *)
(* The tables hold what is committed; what a transaction has written and   *)
(* not committed is in its record, guarded by the locks it holds, and is   *)
(* dropped by a rollback.  Every transaction here settles one webhook as a *)
(* shipment event: find the shipment FOR UPDATE, create it if there is     *)
(* none, insert the event row, advance the shipment, flip the status of    *)
(* the raw_events row, commit.  Two transactions may settle one webhook    *)
(* (a worker whose lease ran out, and the one that reclaimed the row).     *)
(*                                                                         *)
(* last_port_code stands for the nine columns that a creation copies and   *)
(* an advance refreshes, doc_number for the two (doc_number, container_no) *)
(* that only a creation copies.                                            *)
(***************************************************************************)
EXTENDS Integers, Sequences

CONSTANTS
  Keys,       \* canonical natural_keys, in index order
  RawIds,     \* raw_events.id
  States,     \* the states of a shipment
  Rank,       \* SHIPMENT_RANK
  Events,     \* what the LLM may extract from it: [raw, key, state, at, port, doc]
  Txs,        \* connections that run a settle transaction
  Isolation,  \* isolation levels a session may have: a set of "RR", "RC"
  Null,       \* a null column, a row that does not exist
  MaxSettles  \* bound: settle transactions begun

ASSUME ShipmentsAssumption ==
  /\ Keys \subseteq Nat
  /\ Rank \in [States -> Nat \ {0}]
  /\ Null \notin States
  /\ Isolation \subseteq {"RR", "RC"}
  /\ \A ev \in Events : ev.raw \in RawIds /\ ev.key \in Keys /\ ev.state \in States
  /\ MaxSettles \in Nat

VARIABLES
  shipments,        \* the committed shipments row of each key, or Null
  shipment_events,  \* the committed event rows of each key, in insertion order
  tx,               \* what each connection is doing
  settles           \* transactions begun so far

vars == <<shipments, shipment_events, tx, settles>>
tables == <<shipments, shipment_events>>

-----------------------------------------------------------------------------
At == {ev.at : ev \in Events}
Ports == {ev.port : ev \in Events} \cup {Null}
Docs == {ev.doc : ev \in Events} \cup {Null}

Row == [current_state : States \cup {Null}, current_state_rank : Nat,
        current_state_at : At \cup {Null}, last_port_code : Ports, doc_number : Docs]

(* doc is in the raw_events row that an event row points to.               *)
EventRow == [raw : RawIds, state : States, at : At, port : Ports, doc : Docs,
             advanced : BOOLEAN]

(* What is not there is told from what is.                                 *)
ASSUME NullAssumption == Null \notin Row /\ Null \notin EventRow

(* The statement a transaction is at.                                      *)
Statement == {"none", "find", "create", "refind", "insert", "advance", "flip", "commit"}

Tx == [pc : Statement, ev : Events \cup {Null},
       isolation : Isolation \cup {Null},
       absent : BOOLEAN,             \* the first find returned no row
       row : Row \cup {Null},        \* the shipment instance it works with
       event : EventRow \cup {Null}] \* the event row it inserted

NoTx == [pc |-> "none", ev |-> Null, isolation |-> Null,
         absent |-> FALSE, row |-> Null, event |-> Null]

TypeOK ==
  /\ shipments \in [Keys -> Row \cup {Null}]
  /\ shipment_events \in [Keys -> Seq(EventRow)]
  /\ tx \in [Txs -> Tx]
  /\ settles \in 0..MaxSettles

Init ==
  /\ shipments = [k \in Keys |-> Null]
  /\ shipment_events = [k \in Keys |-> <<>>]
  /\ tx = [t \in Txs |-> NoTx]
  /\ settles = 0

IsAt(t, s) == tx[t].pc = s
KeyOf(t) == tx[t].ev.key
RawOf(t) == tx[t].ev.raw
Recorded(k, r) == \E i \in DOMAIN shipment_events[k] : shipment_events[k][i].raw = r

-----------------------------------------------------------------------------
(* Locks, as far as the transactions of this module hold them.             *)

(* A lock on the shipments row of its key: exclusive from the find that    *)
(* returned it, or from its creation, to the end of the transaction; a     *)
(* refused creation leaves a shared lock on the row it collided with.      *)
HoldsShipment(u, k) ==
  /\ tx[u].pc \in {"refind", "insert", "advance", "flip", "commit"}
  /\ KeyOf(u) = k

(* REPEATABLE READ: a FOR UPDATE that finds nothing locks the gap between  *)
(* the neighbouring keys, so that nobody else can insert there.  (A row    *)
(* not yet committed does not divide the gap here: more waits than InnoDB.)*)
SameGap(j, k) ==
  \A q \in Keys : (j <= q /\ q <= k) \/ (k <= q /\ q <= j) => shipments[q] = Null
HoldsGap(u, k) ==
  /\ tx[u].absent /\ tx[u].isolation = "RR"
  /\ SameGap(KeyOf(u), k)

(* The foreign key of an inserted event row takes a shared lock on the     *)
(* raw_events row; the status flip takes an exclusive one.                 *)
SharesRaw(u, r) == tx[u].event # Null /\ RawOf(u) = r
LocksRaw(u, r) == IsAt(u, "commit") /\ RawOf(u) = r

(* u holds a lock that the next statement of t has to wait for.            *)
Waits(t, u) ==
  /\ t # u
  /\ \/ tx[t].pc \in {"find", "refind", "advance"} /\ HoldsShipment(u, KeyOf(t))
     \/ IsAt(t, "create") /\ (HoldsShipment(u, KeyOf(t)) \/ HoldsGap(u, KeyOf(t)))
     \/ IsAt(t, "insert") /\ LocksRaw(u, RawOf(t))
     \/ IsAt(t, "flip") /\ (SharesRaw(u, RawOf(t)) \/ LocksRaw(u, RawOf(t)))

(* t has s as its next statement, and every lock that statement needs.     *)
Runs(t, s) == IsAt(t, s) /\ \A u \in Txs : ~Waits(t, u)

Goto(t, s, rec) == tx' = [tx EXCEPT ![t] = [rec EXCEPT !.pc = s]]

-----------------------------------------------------------------------------
(* processOne opens the settle transaction for a webhook and what the LLM  *)
(* made of it this time.                                                   *)
Begin(t) ==
  /\ IsAt(t, "none")
  /\ settles < MaxSettles
  /\ settles' = settles + 1
  /\ \E ev \in Events, iso \in Isolation :
       Goto(t, "find", [NoTx EXCEPT !.ev = ev, !.isolation = iso])
  /\ UNCHANGED tables

(* Faulty variant, used by the mutation checks only. *)
FindWithoutLock(t) ==
  /\ IsAt(t, "find")
  /\ IF shipments[KeyOf(t)] # Null
     THEN Goto(t, "insert", [tx[t] EXCEPT !.row = shipments[KeyOf(t)]])
     ELSE Goto(t, "create", [tx[t] EXCEPT !.absent = TRUE])
  /\ UNCHANGED <<tables, settles>>

(* Shipment.findOne({ lock: UPDATE }).                                     *)
Find(t) ==
  /\ Runs(t, "find")
  /\ IF shipments[KeyOf(t)] # Null
     THEN Goto(t, "insert", [tx[t] EXCEPT !.row = shipments[KeyOf(t)]])
     ELSE Goto(t, "create", [tx[t] EXCEPT !.absent = TRUE])
  /\ UNCHANGED <<tables, settles>>

(* Faulty variant, used by the mutation checks only. *)
CreateWithoutRank(t) ==
  /\ Runs(t, "create")
  /\ shipments[KeyOf(t)] = Null
  /\ Goto(t, "insert",
          [tx[t] EXCEPT !.row = [current_state |-> Null, current_state_at |-> Null,
                                 last_port_code |-> tx[t].ev.port,
                                 doc_number |-> tx[t].ev.doc]])
  /\ UNCHANGED <<tables, settles>>

(* Shipment.create: the row without a state.                               *)
Create(t) ==
  /\ Runs(t, "create")
  /\ shipments[KeyOf(t)] = Null
  /\ Goto(t, "insert",
          [tx[t] EXCEPT !.row = [current_state |-> Null, current_state_rank |-> 0,
                                 current_state_at |-> Null,
                                 last_port_code |-> tx[t].ev.port,
                                 doc_number |-> tx[t].ev.doc]])
  /\ UNCHANGED <<tables, settles>>

(* The row was created and committed since the find: duplicate key.        *)
LoseCreateRace(t) ==
  /\ Runs(t, "create")
  /\ shipments[KeyOf(t)] # Null
  /\ Goto(t, "refind", tx[t])
  /\ UNCHANGED <<tables, settles>>

Refind(t) ==
  /\ Runs(t, "refind")
  /\ Goto(t, "insert", [tx[t] EXCEPT !.row = shipments[KeyOf(t)]])
  /\ UNCHANGED <<tables, settles>>

(* Faulty variant, used by the mutation checks only. *)
AdvancesOnTies(t) == Rank[tx[t].ev.state] >= tx[t].row.current_state_rank

WillAdvance(t) == Rank[tx[t].ev.state] > tx[t].row.current_state_rank

(* ShipmentEvent.create, with UNIQUE(shipment_id, raw_event_id).  Without  *)
(* an advance there is no UPDATE of the shipment.                          *)
InsertEvent(t) ==
  /\ Runs(t, "insert")
  /\ ~Recorded(KeyOf(t), RawOf(t))
  /\ Goto(t, IF WillAdvance(t) THEN "advance" ELSE "flip",
          [tx[t] EXCEPT !.event = [raw |-> RawOf(t), state |-> tx[t].ev.state,
                                   at |-> tx[t].ev.at, port |-> tx[t].ev.port,
                                   doc |-> tx[t].ev.doc, advanced |-> WillAdvance(t)]])
  /\ UNCHANGED <<tables, settles>>

(* Faulty variant, used by the mutation checks only. *)
LeaveDuplicateOpen(t) ==
  /\ Runs(t, "insert")
  /\ Recorded(KeyOf(t), RawOf(t))
  /\ Goto(t, "insert", tx[t])
  /\ UNCHANGED <<tables, settles>>

(* The webhook is in this shipment's history: idempotent skip.             *)
SkipDuplicate(t) ==
  /\ Runs(t, "insert")
  /\ Recorded(KeyOf(t), RawOf(t))
  /\ Goto(t, "flip", tx[t])
  /\ UNCHANGED <<tables, settles>>

(* Faulty variant, used by the mutation checks only. *)
RefreshAll(t) ==
  [current_state |-> tx[t].ev.state, current_state_rank |-> Rank[tx[t].ev.state],
   current_state_at |-> tx[t].ev.at,
   last_port_code |-> IF tx[t].ev.port # Null THEN tx[t].ev.port
                      ELSE tx[t].row.last_port_code,
   doc_number |-> IF tx[t].ev.doc # Null THEN tx[t].ev.doc ELSE tx[t].row.doc_number]

(* data.port_code || shipment.last_port_code; the document number stays.   *)
Advanced(t) ==
  [current_state |-> tx[t].ev.state, current_state_rank |-> Rank[tx[t].ev.state],
   current_state_at |-> tx[t].ev.at,
   last_port_code |-> IF tx[t].ev.port # Null THEN tx[t].ev.port
                      ELSE tx[t].row.last_port_code,
   doc_number |-> tx[t].row.doc_number]

AdvanceState(t) ==
  /\ Runs(t, "advance")
  /\ Goto(t, "flip", [tx[t] EXCEPT !.row = Advanced(t)])
  /\ UNCHANGED <<tables, settles>>

(* RawEvent.update({ status: 'normalized', ... }): the columns it sets are *)
(* in WebhookQueue.                                                        *)
FlipStatus(t) ==
  /\ Runs(t, "flip")
  /\ Goto(t, "commit", tx[t])
  /\ UNCHANGED <<tables, settles>>

Commit(t) ==
  /\ IsAt(t, "commit")
  /\ shipments' = [shipments EXCEPT ![KeyOf(t)] = tx[t].row]
  /\ shipment_events' =
       IF tx[t].event = Null THEN shipment_events
       ELSE [shipment_events EXCEPT ![KeyOf(t)] = Append(@, tx[t].event)]
  /\ tx' = [tx EXCEPT ![t] = NoTx]
  /\ UNCHANGED settles

(* A statement fails, the connection breaks, the lock wait times out, the  *)
(* process dies, or InnoDB picks t as the victim of a deadlock.            *)
RollBack(t) ==
  /\ ~IsAt(t, "none")
  /\ tx' = [tx EXCEPT ![t] = NoTx]
  /\ UNCHANGED <<tables, settles>>

-----------------------------------------------------------------------------
SettleStep(t) ==
  \/ Find(t) \/ Create(t) \/ LoseCreateRace(t) \/ Refind(t)
  \/ InsertEvent(t) \/ SkipDuplicate(t) \/ AdvanceState(t)
  \/ FlipStatus(t) \/ Commit(t)

Next == \E t \in Txs : Begin(t) \/ SettleStep(t) \/ RollBack(t)

Spec == Init /\ [][Next]_vars

(* Transactions that all wait for locks held among themselves.             *)
Deadlocked(D) == D # {} /\ \A t \in D : \E u \in D : Waits(t, u)

(* A statement that can run does, and InnoDB breaks every deadlock.        *)
Fairness ==
  /\ \A t \in Txs : WF_vars(SettleStep(t))
  /\ WF_vars(\E D \in SUBSET Txs : Deadlocked(D) /\ \E t \in D : RollBack(t))

FairSpec == Spec /\ Fairness

-----------------------------------------------------------------------------
(* The ledger these tables hold.                                           *)
Ledger == INSTANCE EntityLedger WITH
  Entities <- Keys,
  NoState <- Null,
  history <- [k \in Keys |->
                [i \in DOMAIN shipment_events[k] |->
                   [raw |-> shipment_events[k][i].raw,
                    state |-> shipment_events[k][i].state,
                    advanced |-> shipment_events[k][i].advanced]]],
  current <- [k \in Keys |-> IF shipments[k] = Null THEN Null
                             ELSE shipments[k].current_state]

(* Statement-wise, concurrent transactions with locks amount to the atomic *)
(* application of one event at a time: the row lock taken by the find      *)
(* keeps the rank that WillAdvance compares with from going stale, and the *)
(* unique keys keep the history of a webhook single.                       *)
ImplementsLedger == Ledger!LedgerSpec

(* Positions of the history at which the shipment moved, and those of them *)
(* that brought a port.                                                    *)
Moves(k) == {i \in DOMAIN shipment_events[k] : shipment_events[k][i].advanced}
PortMoves(k) == {i \in Moves(k) : shipment_events[k][i].port # Null}
IsLast(i, positions) == i \in positions /\ \A j \in positions : j <= i

(* The materialized row can be retold from the history: state, rank and    *)
(* time are those of the last row that advanced, the port is the last one  *)
(* that an advancing row supplied, and the document number is that of the  *)
(* webhook that created the shipment, whatever later ones bring.  Late     *)
(* events and nulls clobber nothing, and a shipment is never left without  *)
(* a state.                                                                *)
RowRetoldByHistory ==
  \A k \in Keys :
    LET row == shipments[k] rows == shipment_events[k] IN
    IF row = Null THEN rows = <<>>
    ELSE /\ \E i \in Moves(k) :
              /\ IsLast(i, Moves(k))
              /\ row.current_state = rows[i].state
              /\ row.current_state_rank = Rank[rows[i].state]
              /\ row.current_state_at = rows[i].at
         /\ IF PortMoves(k) = {} THEN row.last_port_code = Null
            ELSE \E i \in PortMoves(k) :
                   IsLast(i, PortMoves(k)) /\ row.last_port_code = rows[i].port
         /\ row.doc_number = rows[1].doc

(* Transactions deadlock only over the first event of a shipment, or when  *)
(* a webhook is settled twice at once: shipments that exist never make     *)
(* settles fail, however many webhooks arrive for them together.           *)
DeadlocksOnlyOnFirstEvents ==
  \A D \in SUBSET Txs : Deadlocked(D) =>
    \/ \E t \in D : tx[t].absent
    \/ \E t, u \in D : t # u /\ RawOf(t) = RawOf(u)

(* No settle transaction waits for ever, on a lock or on another waiter.   *)
TransactionsEnd == \A t \in Txs : tx[t].pc # "none" ~> tx[t].pc = "none"
=============================================================================
