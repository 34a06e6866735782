------------------------------- MODULE Ingest -------------------------------
(***************************************************************************)
(* POST /webhooks: vendors that retry, API processes with a bounded pool   *)
(* of connections, and the UNIQUE body_hash of raw_events.                 *)
(*                                                                         *)
(* The handler persists a body with RawEvent.findOrCreate and answers 200  *)
(* when the row is there, created or not, and 500 when anything failed.    *)
(* Sequelize's findOrCreate opens a transaction, finds, creates, and, when *)
(* the unique key refuses the row, finds again outside the transaction:    *)
(* on a second connection of the same pool, with the first one still open. *)
(***************************************************************************)
EXTENDS Naturals, FiniteSets, Sequences

CONSTANTS
  Bodies,     \* request bodies, by their SHA-256
  Processes,  \* API processes
  Requests,   \* requests that may be in flight at once
  PoolSize,   \* connections of one process (pool.max)
  Nothing,    \* the body or the process of no request
  MaxFaults   \* bound: failures, crashes and answers lost on the way

ASSUME IngestAssumption ==
  /\ IsFiniteSet(Requests)
  /\ Nothing \notin Bodies \cup Processes
  /\ PoolSize \in Nat \ {0} /\ MaxFaults \in Nat

VARIABLES
  raw_events,  \* the committed rows in insertion order: body, and who created it
  req,         \* what is in flight: a statement of findOrCreate, a body, a process
  sent,        \* bodies a vendor has sent
  acked,       \* bodies a vendor has a 200 for
  faults       \* faults so far

vars == <<raw_events, req, sent, acked, faults>>

-----------------------------------------------------------------------------
(* connect, reconnect: waiting for the pool.  inserted: not yet committed. *)
Statement == {"none", "connect", "find", "create", "inserted",
              "reconnect", "refind", "found"}

Request == [pc : Statement, body : Bodies \cup {Nothing}, process : Processes \cup {Nothing}]
NoRequest == [pc |-> "none", body |-> Nothing, process |-> Nothing]

TypeOK ==
  /\ raw_events \in Seq([body : Bodies, process : Processes])
  /\ req \in [Requests -> Request]
  /\ sent \subseteq Bodies /\ acked \subseteq Bodies
  /\ faults \in 0..MaxFaults

Init ==
  /\ raw_events = <<>>
  /\ req = [h \in Requests |-> NoRequest]
  /\ sent = {}
  /\ acked = {}
  /\ faults = 0

IsAt(h, s) == req[h].pc = s
Goto(h, s) == req' = [req EXCEPT ![h].pc = s]
Stored(b) == \E i \in DOMAIN raw_events : raw_events[i].body = b
Fault == faults < MaxFaults /\ faults' = faults + 1

(* A request holds a connection from the start of its transaction on, and  *)
(* a second one for the find outside it.                                   *)
Holding(p, pcs) == {h \in Requests : req[h].process = p /\ req[h].pc \in pcs}
InUse(p) ==
  Cardinality(Holding(p, Statement \ {"none", "connect"})) + Cardinality(Holding(p, {"refind"}))
HasFree(p) == InUse(p) < PoolSize

(* Every connection of a process is held by a request that waits for one   *)
(* more: only a time-out, and a 500, gets it going again.                  *)
Stalled(p) == ~HasFree(p) /\ \A h \in Requests :
  req[h].process = p => req[h].pc \in {"connect", "reconnect"}

-----------------------------------------------------------------------------
(* A vendor posts a body: a new one, a retry of one it has no 200 for, or  *)
(* a repeat although it has one.  Empty and malformed bodies get a 400 and *)
(* touch nothing; they are left out.                                       *)
Post(h, b, p) ==
  /\ IsAt(h, "none")
  /\ req' = [req EXCEPT ![h] = [pc |-> "connect", body |-> b, process |-> p]]
  /\ sent' = sent \cup {b}
  /\ UNCHANGED <<raw_events, acked, faults>>

(* findOrCreate opens its transaction on a pool connection.                *)
Connect(h) ==
  /\ IsAt(h, "connect") /\ HasFree(req[h].process)
  /\ Goto(h, "find")
  /\ UNCHANGED <<raw_events, sent, acked, faults>>

(* Faulty variant, used by the mutation checks only. *)
FindThenReload(h) ==
  /\ IsAt(h, "find")
  /\ Goto(h, IF Stored(req[h].body) THEN "reconnect" ELSE "create")
  /\ UNCHANGED <<raw_events, sent, acked, faults>>

(* The first find, without a lock.                                         *)
Find(h) ==
  /\ IsAt(h, "find")
  /\ Goto(h, IF Stored(req[h].body) THEN "found" ELSE "create")
  /\ UNCHANGED <<raw_events, sent, acked, faults>>

(* Faulty variant, used by the mutation checks only. *)
InsertUnchecked(h) ==
  /\ IsAt(h, "create")
  /\ Goto(h, "inserted")
  /\ UNCHANGED <<raw_events, sent, acked, faults>>

(* INSERT waits for a transaction that inserted the same hash and is still *)
(* open.                                                                   *)
Inserting(h) ==
  IsAt(h, "create") /\ \A g \in Requests : ~(IsAt(g, "inserted") /\ req[g].body = req[h].body)

Insert(h) ==
  /\ Inserting(h) /\ ~Stored(req[h].body)
  /\ Goto(h, "inserted")
  /\ UNCHANGED <<raw_events, sent, acked, faults>>

(* Faulty variant, used by the mutation checks only. *)
LoseRaceUnhandled(h) ==
  /\ Inserting(h) /\ Stored(req[h].body)
  /\ Goto(h, "duplicate")
  /\ UNCHANGED <<raw_events, sent, acked, faults>>

(* SequelizeUniqueConstraintError: find again, outside the transaction.    *)
LoseRace(h) ==
  /\ Inserting(h) /\ Stored(req[h].body)
  /\ Goto(h, "reconnect")
  /\ UNCHANGED <<raw_events, sent, acked, faults>>

Reconnect(h) ==
  /\ IsAt(h, "reconnect") /\ HasFree(req[h].process)
  /\ Goto(h, "refind")
  /\ UNCHANGED <<raw_events, sent, acked, faults>>

Refind(h) ==
  /\ IsAt(h, "refind")
  /\ Goto(h, "found")
  /\ UNCHANGED <<raw_events, sent, acked, faults>>

(* The request ends; its answer reaches the vendor, or is lost.            *)
AnswerOk(h) ==
  /\ req' = [req EXCEPT ![h] = NoRequest]
  /\ \/ acked' = acked \cup {req[h].body} /\ UNCHANGED faults
     \/ Fault /\ UNCHANGED acked
AnswerError(h) == req' = [req EXCEPT ![h] = NoRequest] /\ UNCHANGED acked

(* COMMIT of a transaction that inserted: 200.                             *)
CommitCreated(h) ==
  /\ IsAt(h, "inserted")
  /\ raw_events' = Append(raw_events, [body |-> req[h].body, process |-> req[h].process])
  /\ AnswerOk(h)
  /\ UNCHANGED sent

(* COMMIT of a transaction that inserted nothing: 200, duplicate.          *)
CommitFound(h) ==
  /\ IsAt(h, "found")
  /\ AnswerOk(h)
  /\ UNCHANGED <<raw_events, sent>>

(* Faulty variants, used by the mutation checks only. *)
AnswerOkAnyway(h) ==
  /\ req[h].pc \notin {"none", "connect"}
  /\ Fault
  /\ req' = [req EXCEPT ![h] = NoRequest]
  /\ acked' = acked \cup {req[h].body}
  /\ UNCHANGED <<raw_events, sent>>
TimeOutKeepingConnection(h) ==
  /\ req[h].pc \in {"connect", "reconnect"} /\ Stalled(req[h].process)
  /\ UNCHANGED vars

(* A statement fails, at the latest the COMMIT, or one takes so long that  *)
(* the pool gives up on a request that waits: rolled back, 500.            *)
Fail(h) ==
  /\ ~IsAt(h, "none")
  /\ Fault
  /\ AnswerError(h)
  /\ UNCHANGED <<raw_events, sent>>

(* COMMIT takes effect, but its answer is lost: 500 for a stored row.      *)
FailAfterCommit(h) ==
  /\ IsAt(h, "inserted")
  /\ Fault
  /\ raw_events' = Append(raw_events, [body |-> req[h].body, process |-> req[h].process])
  /\ AnswerError(h)
  /\ UNCHANGED sent

(* pool.acquire: no connection for 30 seconds, far longer than statements  *)
(* take unless one fails, so nobody is about to release one.  500.         *)
TimeOut(h) ==
  /\ req[h].pc \in {"connect", "reconnect"} /\ Stalled(req[h].process)
  /\ AnswerError(h)
  /\ UNCHANGED <<raw_events, sent, faults>>

(* The process dies: its transactions roll back, nobody is answered.       *)
Crash(p) ==
  /\ \E h \in Requests : req[h].process = p
  /\ Fault
  /\ req' = [h \in Requests |-> IF req[h].process = p THEN NoRequest ELSE req[h]]
  /\ UNCHANGED <<raw_events, sent, acked>>

-----------------------------------------------------------------------------
Handle(h) ==
  \/ Find(h) \/ Insert(h) \/ LoseRace(h) \/ Refind(h)
  \/ CommitCreated(h) \/ CommitFound(h)

Next ==
  \/ \E h \in Requests, b \in Bodies, p \in Processes : Post(h, b, p)
  \/ \E h \in Requests :
       Connect(h) \/ Handle(h) \/ Reconnect(h) \/ Fail(h) \/ FailAfterCommit(h) \/ TimeOut(h)
  \/ \E p \in Processes : Crash(p)

Spec == Init /\ [][Next]_vars

(* Vendors retry until they have a 200, whoever else keeps the server busy;*)
(* statements end; the pool serves its waiters in the order they came, so  *)
(* a body whose requests find a free connection again and again gets one;  *)
(* acquire times out.                                                      *)
Fairness ==
  /\ \A b \in Bodies :
       /\ SF_vars(b \in sent \ acked /\ (\A h \in Requests : req[h].body # b)
                  /\ \E h \in Requests, p \in Processes : Post(h, b, p))
       /\ SF_vars(\E h \in Requests : req[h].body = b /\ (Connect(h) \/ Reconnect(h)))
  /\ \A h \in Requests : WF_vars(Handle(h)) /\ WF_vars(TimeOut(h))

FairSpec == Spec /\ Fairness

-----------------------------------------------------------------------------
(* What the vendors are promised.                                          *)
Promise == INSTANCE Inbox WITH
  inbox <- [i \in DOMAIN raw_events |-> raw_events[i].body]

(* Statement-wise, racing and failing requests amount to one list of       *)
(* bodies that only grows, each in it once, and acknowledged after it is   *)
(* in: neither a lost race, nor a crash between the INSERT and its COMMIT, *)
(* nor a lost answer takes a body or a 200 back.                           *)
ImplementsInbox == Promise!InboxSpec

(* "Better a duplicate (which we'll dedupe) than data loss" (server.js): a *)
(* vendor has a 200 only for a body that is stored for good, although the  *)
(* process may die and the answer to a COMMIT may be lost.                 *)
AckedIsStored == \A b \in acked : Stored(b)

(* "Repeat POSTs from a flaky vendor resolve to the same raw_event row"    *)
(* (server.js), also when they race in several processes.                  *)
OneRowPerBody ==
  \A i, j \in DOMAIN raw_events : raw_events[i].body = raw_events[j].body => i = j

(* It takes a second process to stall a pool: among the requests of one    *)
(* process the creator of the row always has a connection left to commit   *)
(* with and to release.                                                    *)
StallsNeedAnotherProcess ==
  \A p \in Processes : Stalled(p) =>
    \E h \in Holding(p, {"reconnect"}), i \in DOMAIN raw_events :
      raw_events[i].body = req[h].body /\ raw_events[i].process # p

(* "API returns 500 -> vendor retries -> eventually succeeds with same     *)
(* body_hash" (README): every body sent gets its 200, whatever stalls,     *)
(* fails or crashes on the way - finitely often.                           *)
SentGetsAcked == \A b \in Bodies : b \in sent ~> b \in acked
=============================================================================
