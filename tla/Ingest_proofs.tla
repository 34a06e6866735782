--------------------------- MODULE Ingest_proofs ---------------------------
(***************************************************************************)
(* Theorems about POST /webhooks, for any bodies, processes, requests and  *)
(* pool size.                                                              *)
(***************************************************************************)
EXTENDS Ingest, FiniteSetTheorems, SequenceTheorems, TLAPS

StoredRow == [body : Bodies, process : Processes]

(* A request has a body and a process from its POST to its answer.         *)
RequestsWhole ==
  \A h \in Requests : req[h].pc # "none" =>
    req[h].body \in Bodies /\ req[h].process \in Processes

(* The unique key as a lock: a body that is inserted and not committed is  *)
(* neither stored nor inserted by anyone else.                             *)
InsertedAlone ==
  /\ \A h \in Requests : IsAt(h, "inserted") => ~Stored(req[h].body)
  /\ \A g, h \in Requests :
       IsAt(g, "inserted") /\ IsAt(h, "inserted") /\ req[g].body = req[h].body => g = h

(* A request that is past its find or lost the race has its row.           *)
FoundIsStored ==
  \A h \in Requests : req[h].pc \in {"reconnect", "refind", "found"} => Stored(req[h].body)

RowsInv ==
  /\ TypeOK /\ RequestsWhole
  /\ InsertedAlone /\ FoundIsStored
  /\ AckedIsStored /\ OneRowPerBody

-----------------------------------------------------------------------------
Has(list, b) == \E i \in DOMAIN list : list[i].body = b

(* What can happen to the rows: nothing, or a request that inserted a body *)
(* stores it.                                                              *)
StoreRow(h) ==
  /\ IsAt(h, "inserted")
  /\ raw_events' = Append(raw_events, [body |-> req[h].body, process |-> req[h].process])

(* What can happen to a request: it moves on to another statement, or ends.*)
Moves(h, s) == req' = [req EXCEPT ![h].pc = s]
Ends(h) == req' = [req EXCEPT ![h] = NoRequest]

LEMMA AppendedRow ==
  ASSUME TypeOK, RequestsWhole, NEW h \in Requests, StoreRow(h)
  PROVE  /\ raw_events' \in Seq(StoredRow)
         /\ Len(raw_events') = Len(raw_events) + 1
         /\ \A i \in DOMAIN raw_events :
              i \in DOMAIN raw_events' /\ raw_events'[i] = raw_events[i]
         /\ Len(raw_events') \in DOMAIN raw_events'
         /\ raw_events'[Len(raw_events')].body = req[h].body
         /\ raw_events'[Len(raw_events')].process = req[h].process
         /\ DOMAIN raw_events' = DOMAIN raw_events \cup {Len(raw_events')}
PROOF
<1> DEFINE row == [body |-> req[h].body, process |-> req[h].process]
<1>1. row \in StoredRow
  BY DEF StoreRow, IsAt, RequestsWhole, StoredRow
<1>2. raw_events \in Seq(StoredRow)
  BY DEF TypeOK, StoredRow
<1>3. raw_events' = Append(raw_events, row)
  BY DEF StoreRow
<1> HIDE DEF row
<1>4. /\ raw_events' \in Seq(StoredRow)
      /\ Len(raw_events') = Len(raw_events) + 1
      /\ \A i \in 1..Len(raw_events) : raw_events'[i] = raw_events[i]
      /\ raw_events'[Len(raw_events) + 1] = row
  BY <1>1, <1>2, <1>3, AppendProperties
<1>5. DOMAIN raw_events = 1..Len(raw_events) /\ DOMAIN raw_events' = 1..Len(raw_events')
      /\ Len(raw_events) \in Nat
  BY <1>2, <1>4, LenProperties
<1> QED BY <1>4, <1>5 DEF row

(* Rows stay, and a new one is of the body that was inserted.              *)
LEMMA StoredAfter ==
  ASSUME TypeOK, RequestsWhole, NEW h \in Requests, StoreRow(h), NEW b
  PROVE  Has(raw_events', b) <=> Stored(b) \/ b = req[h].body
PROOF
<1> DEFINE n == Len(raw_events')
<1>1. /\ n \in DOMAIN raw_events' /\ raw_events'[n].body = req[h].body
      /\ DOMAIN raw_events' = DOMAIN raw_events \cup {n}
      /\ \A i \in DOMAIN raw_events : raw_events'[i] = raw_events[i]
  BY AppendedRow
<1> HIDE DEF n
<1> QED BY <1>1 DEF Stored, Has

LEMMA RowsOfStored ==
  ASSUME RowsInv, NEW h \in Requests, StoreRow(h)
  PROVE  OneRowPerBody'
PROOF
<1> DEFINE n == Len(raw_events')
<1>1. \A i \in DOMAIN raw_events : raw_events[i].body # req[h].body
  BY DEF RowsInv, InsertedAlone, StoreRow, Stored
<1>2. /\ n \in DOMAIN raw_events' /\ raw_events'[n].body = req[h].body
      /\ DOMAIN raw_events' = DOMAIN raw_events \cup {n}
      /\ \A i \in DOMAIN raw_events : raw_events'[i] = raw_events[i]
  BY AppendedRow DEF RowsInv
<1>3. \A i, j \in DOMAIN raw_events : raw_events[i].body = raw_events[j].body => i = j
  BY DEF RowsInv, OneRowPerBody
<1> HIDE DEF n
<1> QED BY <1>1, <1>2, <1>3 DEF OneRowPerBody

-----------------------------------------------------------------------------
LEMMA InitRows == Init => RowsInv
PROOF
<1> SUFFICES ASSUME Init PROVE RowsInv
  OBVIOUS
<1>1. TypeOK
  BY IngestAssumption DEF Init, TypeOK, NoRequest, Request, Statement
<1> QED BY <1>1 DEF Init, RowsInv, RequestsWhole, InsertedAlone, FoundIsStored,
     AckedIsStored, OneRowPerBody, Stored, IsAt, NoRequest

(* A statement that stores nothing and is not an INSERT.                   *)
LEMMA MoveKeepsRows ==
  ASSUME RowsInv, NEW h \in Requests, ~IsAt(h, "none"), NEW s \in Statement \ {"none", "inserted"},
         Moves(h, s), UNCHANGED <<raw_events, sent, acked, faults>>,
         s \in {"reconnect", "refind", "found"} => Stored(req[h].body)
  PROVE  RowsInv'
PROOF
<1>1. /\ req \in [Requests -> Request] /\ req' \in [Requests -> Request]
      /\ \A g \in Requests : req'[g].body = req[g].body /\ req'[g].process = req[g].process
      /\ \A g \in Requests : req'[g].pc = IF g = h THEN s ELSE req[g].pc
  BY DEF RowsInv, TypeOK, Moves, Request
<1>2. \A b : Stored(b)' <=> Stored(b)
  BY DEF Stored
<1>3. TypeOK'
  BY <1>1 DEF RowsInv, TypeOK
<1>4. RequestsWhole'
  BY <1>1 DEF RowsInv, RequestsWhole, IsAt
<1>5. InsertedAlone'
  BY <1>1, <1>2 DEF RowsInv, InsertedAlone, IsAt
<1>6. FoundIsStored'
  BY <1>1, <1>2 DEF RowsInv, FoundIsStored
<1>7. AckedIsStored' /\ OneRowPerBody'
  BY <1>2 DEF RowsInv, AckedIsStored, OneRowPerBody
<1> QED BY <1>3, <1>4, <1>5, <1>6, <1>7 DEF RowsInv

(* The answer to a request, with or without a COMMIT that stores its body. *)
LEMMA EndKeepsRows ==
  ASSUME RowsInv, NEW h \in Requests, Ends(h), sent' = sent, faults' \in 0..MaxFaults,
         StoreRow(h) \/ raw_events' = raw_events,
         acked' = acked \/ (acked' = acked \cup {req[h].body} /\ Has(raw_events', req[h].body)
                            /\ req[h].body \in Bodies)
  PROVE  RowsInv'
PROOF
<1>1. /\ req \in [Requests -> Request] /\ req' \in [Requests -> Request]
      /\ \A g \in Requests : req'[g] = IF g = h THEN NoRequest ELSE req[g]
  BY DEF RowsInv, TypeOK, Ends, Request, NoRequest, Statement
<1>2. raw_events' \in Seq(StoredRow)
  BY AppendedRow DEF RowsInv, TypeOK, StoredRow
<1>3. \A b : Stored(b) => Has(raw_events', b)
  BY StoredAfter DEF RowsInv, Stored, Has
<1>4. TypeOK'
  BY <1>1, <1>2 DEF RowsInv, TypeOK, StoredRow
<1>5. RequestsWhole'
  BY <1>1 DEF RowsInv, RequestsWhole, NoRequest
<1>6. InsertedAlone'
  <2>1. ASSUME NEW g \in Requests, req'[g].pc = "inserted" PROVE ~Has(raw_events', req'[g].body)
    <3>1. g # h /\ req'[g] = req[g] /\ IsAt(g, "inserted")
      BY <1>1, <2>1 DEF IsAt, NoRequest
    <3>2. ~Stored(req[g].body)
      BY <3>1 DEF RowsInv, InsertedAlone
    <3>3. CASE StoreRow(h)
      <4>1. req[g].body # req[h].body
        BY <3>1, <3>3 DEF RowsInv, InsertedAlone, StoreRow
      <4> QED BY <3>1, <3>2, <3>3, <4>1, StoredAfter DEF RowsInv
    <3>4. CASE raw_events' = raw_events
      BY <3>1, <3>2, <3>4 DEF Stored, Has
    <3> QED BY <3>3, <3>4
  <2>2. ASSUME NEW f \in Requests, NEW g \in Requests, req'[f].pc = "inserted",
               req'[g].pc = "inserted", req'[f].body = req'[g].body
        PROVE  f = g
    BY <1>1, <2>2 DEF RowsInv, InsertedAlone, IsAt, NoRequest
  <2> QED BY <2>1, <2>2 DEF InsertedAlone, IsAt, Stored, Has
<1>7. FoundIsStored'
  <2>1. \A g \in Requests : req'[g].pc \in {"reconnect", "refind", "found"} =>
          Has(raw_events', req'[g].body)
    BY <1>1, <1>3 DEF RowsInv, FoundIsStored, NoRequest
  <2> QED BY <2>1 DEF FoundIsStored, Stored, Has
<1>8. AckedIsStored'
  <2>1. \A b \in acked' : Has(raw_events', b)
    BY <1>3 DEF RowsInv, AckedIsStored
  <2> QED BY <2>1 DEF AckedIsStored, Stored, Has
<1>9. OneRowPerBody'
  BY RowsOfStored DEF RowsInv, OneRowPerBody
<1> QED BY <1>4, <1>5, <1>6, <1>7, <1>8, <1>9 DEF RowsInv

LEMMA RowsStep == RowsInv /\ [Next]_vars => RowsInv'
PROOF
<1> SUFFICES ASSUME RowsInv, [Next]_vars PROVE RowsInv'
  OBVIOUS
<1> USE DEF Statement
<1>a. TypeOK /\ RequestsWhole /\ FoundIsStored
  BY DEF RowsInv
<1>1. CASE UNCHANGED vars
  BY <1>1 DEF RowsInv, vars, TypeOK, RequestsWhole, InsertedAlone, FoundIsStored,
       AckedIsStored, OneRowPerBody, Stored, IsAt
<1>2. ASSUME NEW h \in Requests, NEW b \in Bodies, NEW p \in Processes, Post(h, b, p)
      PROVE  RowsInv'
  <2>1. /\ req \in [Requests -> Request]
        /\ req' \in [Requests -> Request]
        /\ \A g \in Requests : req'[g] = IF g = h THEN [pc |-> "connect", body |-> b, process |-> p]
                                          ELSE req[g]
    BY <1>a, <1>2 DEF TypeOK, Post, Request
  <2>2. raw_events' = raw_events /\ acked' = acked /\ faults' = faults /\ sent' \subseteq Bodies
    BY <1>a, <1>2 DEF Post, TypeOK
  <2>3. TypeOK' /\ RequestsWhole'
    BY <2>1, <2>2 DEF RowsInv, TypeOK, RequestsWhole
  <2>4. InsertedAlone' /\ FoundIsStored'
    BY <2>1, <2>2 DEF RowsInv, InsertedAlone, FoundIsStored, Stored, IsAt
  <2>5. AckedIsStored' /\ OneRowPerBody'
    BY <2>2 DEF RowsInv, AckedIsStored, OneRowPerBody, Stored
  <2> QED BY <2>3, <2>4, <2>5 DEF RowsInv
<1>3. ASSUME NEW h \in Requests, Connect(h) PROVE RowsInv'
  BY <1>3, MoveKeepsRows DEF Connect, IsAt, Goto, Moves
<1>4. ASSUME NEW h \in Requests, Find(h) PROVE RowsInv'
  <2>1. CASE Stored(req[h].body)
    BY <1>4, <2>1, MoveKeepsRows DEF Find, IsAt, Goto, Moves
  <2>2. CASE ~Stored(req[h].body)
    BY <1>4, <2>2, MoveKeepsRows DEF Find, IsAt, Goto, Moves
  <2> QED BY <2>1, <2>2
<1>5. ASSUME NEW h \in Requests, Insert(h) PROVE RowsInv'
  <2>1. /\ req \in [Requests -> Request] /\ req' \in [Requests -> Request]
        /\ \A g \in Requests : req'[g].body = req[g].body /\ req'[g].process = req[g].process
        /\ \A g \in Requests : req'[g].pc = IF g = h THEN "inserted" ELSE req[g].pc
        /\ req[h].pc = "create"
    BY <1>a, <1>5 DEF TypeOK, Insert, Inserting, IsAt, Goto, Request
  <2>2. /\ UNCHANGED <<raw_events, sent, acked, faults>>
        /\ ~Stored(req[h].body)
        /\ \A g \in Requests : ~(req[g].pc = "inserted" /\ req[g].body = req[h].body)
    BY <1>5 DEF Insert, Inserting, IsAt
  <2>3. TypeOK' /\ RequestsWhole'
    BY <2>1, <2>2 DEF RowsInv, TypeOK, RequestsWhole
  <2>4. InsertedAlone'
    BY <2>1, <2>2 DEF RowsInv, InsertedAlone, Stored, IsAt
  <2>5. FoundIsStored'
    BY <2>1, <2>2 DEF RowsInv, FoundIsStored, Stored
  <2>6. AckedIsStored' /\ OneRowPerBody'
    BY <2>2 DEF RowsInv, AckedIsStored, OneRowPerBody, Stored
  <2> QED BY <2>3, <2>4, <2>5, <2>6 DEF RowsInv
<1>6. ASSUME NEW h \in Requests, LoseRace(h) PROVE RowsInv'
  BY <1>6, MoveKeepsRows DEF LoseRace, Inserting, IsAt, Goto, Moves
<1>7. ASSUME NEW h \in Requests, Reconnect(h) PROVE RowsInv'
  BY <1>a, <1>7, MoveKeepsRows DEF Reconnect, IsAt, Goto, Moves, FoundIsStored
<1>8. ASSUME NEW h \in Requests, Refind(h) PROVE RowsInv'
  BY <1>a, <1>8, MoveKeepsRows DEF Refind, IsAt, Goto, Moves, FoundIsStored
<1>9. ASSUME NEW h \in Requests, CommitCreated(h) PROVE RowsInv'
  <2>1. StoreRow(h) /\ Ends(h) /\ sent' = sent /\ faults' \in 0..MaxFaults
    BY <1>a, <1>9, IngestAssumption DEF CommitCreated, AnswerOk, StoreRow, Ends, Fault, TypeOK
  <2>2. Has(raw_events', req[h].body) /\ req[h].body \in Bodies
    BY <1>a, <2>1, StoredAfter DEF RequestsWhole, StoreRow, IsAt
  <2> QED BY <1>9, <2>1, <2>2, EndKeepsRows DEF CommitCreated, AnswerOk
<1>10. ASSUME NEW h \in Requests, CommitFound(h) PROVE RowsInv'
  <2>1. raw_events' = raw_events /\ Ends(h) /\ sent' = sent /\ faults' \in 0..MaxFaults
    BY <1>a, <1>10, IngestAssumption DEF CommitFound, AnswerOk, Ends, Fault, TypeOK
  <2>2. Has(raw_events', req[h].body) /\ req[h].body \in Bodies
    BY <1>a, <1>10, <2>1 DEF CommitFound, IsAt, FoundIsStored, RequestsWhole, Stored, Has
  <2> QED BY <1>10, <2>1, <2>2, EndKeepsRows DEF CommitFound, AnswerOk
<1>11. ASSUME NEW h \in Requests, Fail(h) PROVE RowsInv'
  <2>1. faults' \in 0..MaxFaults
    BY <1>a, <1>11, IngestAssumption DEF Fail, Fault, TypeOK
  <2> QED BY <1>11, <2>1, EndKeepsRows DEF Fail, AnswerError, Ends
<1>12. ASSUME NEW h \in Requests, FailAfterCommit(h) PROVE RowsInv'
  <2>1. faults' \in 0..MaxFaults
    BY <1>a, <1>12, IngestAssumption DEF FailAfterCommit, Fault, TypeOK
  <2> QED BY <1>12, <2>1, EndKeepsRows DEF FailAfterCommit, AnswerError, Ends, StoreRow
<1>13. ASSUME NEW h \in Requests, TimeOut(h) PROVE RowsInv'
  <2>1. faults' \in 0..MaxFaults
    BY <1>a, <1>13 DEF TimeOut, TypeOK
  <2> QED BY <1>13, <2>1, EndKeepsRows DEF TimeOut, AnswerError, Ends
<1>14. ASSUME NEW p \in Processes, Crash(p) PROVE RowsInv'
  <2>1. /\ req \in [Requests -> Request] /\ req' \in [Requests -> Request]
        /\ \A g \in Requests : req'[g] = NoRequest \/ req'[g] = req[g]
    BY <1>a, <1>14 DEF TypeOK, Crash, Request, NoRequest
  <2>2. UNCHANGED <<raw_events, sent, acked>> /\ faults' \in 0..MaxFaults
    BY <1>a, <1>14, IngestAssumption DEF Crash, Fault, TypeOK
  <2>3. TypeOK' /\ RequestsWhole'
    BY <2>1, <2>2 DEF RowsInv, TypeOK, RequestsWhole, NoRequest
  <2>4. InsertedAlone' /\ FoundIsStored'
    BY <2>1, <2>2 DEF RowsInv, InsertedAlone, FoundIsStored, Stored, IsAt, NoRequest
  <2>5. AckedIsStored' /\ OneRowPerBody'
    BY <2>2 DEF RowsInv, AckedIsStored, OneRowPerBody, Stored
  <2> QED BY <2>3, <2>4, <2>5 DEF RowsInv
<1> QED BY <1>1, <1>2, <1>3, <1>4, <1>5, <1>6, <1>7, <1>8, <1>9, <1>10, <1>11, <1>12,
       <1>13, <1>14 DEF Next, Handle

LEMMA RowsAlways == Spec => []RowsInv
BY InitRows, RowsStep, PTL DEF Spec

(* Requests, connections and rows keep their shape through failures, time- *)
(* outs and crashes, and the injected faults stay within their bound.      *)
THEOREM IngestTypeCorrect == Spec => []TypeOK
PROOF
<1>1. RowsInv => TypeOK
  BY DEF RowsInv
<1> QED BY <1>1, RowsAlways, PTL

(* A 200 is for a stored body, and a body has one row, for any number of   *)
(* processes and requests that race and fail.                              *)
THEOREM AcknowledgedOnce == Spec => [](AckedIsStored /\ OneRowPerBody)
PROOF
<1>1. RowsInv => AckedIsStored /\ OneRowPerBody
  BY DEF RowsInv
<1> QED BY <1>1, RowsAlways, PTL

-----------------------------------------------------------------------------
(* The refinement.                                                         *)
Listed == [i \in DOMAIN raw_events |-> raw_events[i].body]

LEMMA ListedIsList ==
  ASSUME TypeOK
  PROVE  Listed \in Seq(Bodies) /\ Len(Listed) = Len(raw_events)
         /\ DOMAIN Listed = 1..Len(raw_events)
PROOF
<1>1. raw_events \in Seq(StoredRow)
  BY DEF TypeOK, StoredRow
<1>2. Len(raw_events) \in Nat /\ DOMAIN raw_events = 1..Len(raw_events)
      /\ \A i \in 1..Len(raw_events) : raw_events[i] \in StoredRow
  BY <1>1, LenProperties, ElementOfSeq
<1>3. \A i \in 1..Len(raw_events) : raw_events[i].body \in Bodies
  BY <1>2 DEF StoredRow
<1> QED BY <1>2, <1>3 DEF Listed

LEMMA ListedStore ==
  ASSUME RowsInv, NEW h \in Requests, StoreRow(h)
  PROVE  Listed' = Append(Listed, req[h].body) /\ ~Promise!In(req[h].body, Listed)
PROOF
<1> DEFINE n == Len(raw_events')
<1>1. /\ n = Len(raw_events) + 1
      /\ DOMAIN raw_events' = DOMAIN raw_events \cup {n}
      /\ n \in DOMAIN raw_events' /\ raw_events'[n].body = req[h].body
      /\ \A i \in DOMAIN raw_events : raw_events'[i] = raw_events[i]
  BY AppendedRow DEF RowsInv
<1>2. /\ Listed \in Seq(Bodies) /\ Len(Listed) = Len(raw_events)
      /\ DOMAIN Listed = 1..Len(raw_events) /\ Len(raw_events) \in Nat
      /\ DOMAIN raw_events = 1..Len(raw_events)
  BY ListedIsList, LenProperties DEF RowsInv, TypeOK
<1>3. req[h].body \in Bodies
  BY DEF RowsInv, RequestsWhole, StoreRow, IsAt
<1>4. Append(Listed, req[h].body) =
        [i \in 1..(Len(Listed) + 1) |-> IF i \in 1..Len(Listed) THEN Listed[i] ELSE req[h].body]
  BY <1>2, <1>3
<1>5. Listed' = [i \in 1..(Len(Listed) + 1) |-> raw_events'[i].body]
  BY <1>1, <1>2 DEF Listed
<1> HIDE DEF n
<1>6. \A i \in 1..(Len(Listed) + 1) :
        raw_events'[i].body = IF i \in 1..Len(Listed) THEN Listed[i] ELSE req[h].body
  BY <1>1, <1>2 DEF Listed
<1>7. ~Promise!In(req[h].body, Listed)
  BY DEF RowsInv, InsertedAlone, StoreRow, Stored, Promise!In, Listed
<1> QED BY <1>4, <1>5, <1>6, <1>7

(* The request whose answer or COMMIT it is, as the vendor sees it.        *)
LEMMA EndIsInboxStep ==
  ASSUME RowsInv, NEW h \in Requests, req[h].body \in Bodies,
         StoreRow(h) \/ raw_events' = raw_events,
         acked' = acked \/ (acked' = acked \cup {req[h].body} /\ Has(raw_events', req[h].body))
  PROVE  [Promise!InboxNext]_Promise!inboxVars
PROOF
<1>1. Promise!In(req[h].body, Listed') <=> Has(raw_events', req[h].body)
  BY DEF Promise!In, Listed, Has
<1>2. CASE StoreRow(h)
  BY <1>1, <1>2, ListedStore
  DEF Promise!InboxNext, Promise!Store, Promise!Acknowledge, Promise!LeaveOpen, Listed
<1>3. CASE raw_events' = raw_events /\ acked' = acked
  BY <1>3 DEF Promise!inboxVars
<1>4. CASE raw_events' = raw_events /\ acked' # acked
  <2>1. Promise!In(req[h].body, Listed) /\ Listed' = Listed
    BY <1>1, <1>4 DEF Listed
  <2> QED BY <1>1, <1>4, <2>1
      DEF Promise!InboxNext, Promise!Store, Promise!Acknowledge, Listed
<1> QED BY <1>2, <1>3, <1>4

LEMMA StepIsInboxStep == RowsInv /\ [Next]_vars => [Promise!InboxNext]_Promise!inboxVars
PROOF
<1> SUFFICES ASSUME RowsInv, [Next]_vars PROVE [Promise!InboxNext]_Promise!inboxVars
  OBVIOUS
<1>1. ASSUME UNCHANGED <<raw_events, acked>> PROVE [Promise!InboxNext]_Promise!inboxVars
  BY <1>1 DEF Promise!inboxVars
<1>2. ASSUME NEW h \in Requests, CommitCreated(h) PROVE [Promise!InboxNext]_Promise!inboxVars
  <2>1. StoreRow(h) /\ req[h].body \in Bodies
    BY <1>2 DEF RowsInv, RequestsWhole, CommitCreated, StoreRow, IsAt
  <2>2. Has(raw_events', req[h].body)
    BY <2>1, StoredAfter DEF RowsInv
  <2> QED BY <1>2, <2>1, <2>2, EndIsInboxStep DEF CommitCreated, AnswerOk
<1>3. ASSUME NEW h \in Requests, CommitFound(h) PROVE [Promise!InboxNext]_Promise!inboxVars
  <2>1. raw_events' = raw_events /\ req[h].body \in Bodies /\ Stored(req[h].body)
    BY <1>3 DEF RowsInv, RequestsWhole, FoundIsStored, CommitFound, IsAt
  <2>2. Has(raw_events', req[h].body)
    BY <2>1 DEF Stored, Has
  <2> QED BY <1>3, <2>1, <2>2, EndIsInboxStep DEF CommitFound, AnswerOk
<1>4. ASSUME NEW h \in Requests, FailAfterCommit(h) PROVE [Promise!InboxNext]_Promise!inboxVars
  <2>1. StoreRow(h) /\ req[h].body \in Bodies /\ acked' = acked
    BY <1>4 DEF RowsInv, RequestsWhole, FailAfterCommit, AnswerError, StoreRow, IsAt
  <2> QED BY <2>1, EndIsInboxStep
<1>5. CASE UNCHANGED vars
  BY <1>1, <1>5 DEF vars
<1>6. CASE \E h \in Requests, b \in Bodies, p \in Processes : Post(h, b, p)
  BY <1>1, <1>6 DEF Post
<1>7. CASE \E h \in Requests : \/ Connect(h) \/ Find(h) \/ Insert(h) \/ LoseRace(h)
                              \/ Refind(h) \/ Reconnect(h) \/ Fail(h) \/ TimeOut(h)
  BY <1>1, <1>7 DEF Connect, Find, Insert, LoseRace, Refind, Reconnect, Fail, TimeOut, AnswerError
<1>8. CASE \E p \in Processes : Crash(p)
  BY <1>1, <1>8 DEF Crash
<1> QED BY <1>2, <1>3, <1>4, <1>5, <1>6, <1>7, <1>8 DEF Next, Handle

(* POST /webhooks implements the inbox, for any number of processes and    *)
(* requests, pools of any size, and every interleaving of their statements.*)
THEOREM IngestImplementsInbox == Spec => ImplementsInbox
PROOF
<1>1. Init => Promise!InboxInit
  BY DEF Init, Promise!InboxInit
<1> QED BY <1>1, RowsAlways, StepIsInboxStep, PTL DEF Spec, ImplementsInbox, Promise!InboxSpec

-----------------------------------------------------------------------------
(* The pool of connections of a process.                                   *)
Conns(p) == Holding(p, Statement \ {"none", "connect"})
Extras(p) == Holding(p, {"refind"})

(* Lost, or about to lose, a race against a request of the same process.   *)
OwnDuplicate(h) ==
  /\ req[h].pc \in {"create", "reconnect"}
  /\ \E i \in DOMAIN raw_events :
       raw_events[i].body = req[h].body /\ raw_events[i].process = req[h].process

(* Requests that lost against their own process never hold the whole pool: *)
(* the winner gave its connection back, and whoever took it since found    *)
(* the row, or lost to another process.                                    *)
OneIsNoOwnDuplicate ==
  \A p \in Processes : HasFree(p) \/ \E h \in Conns(p) : ~OwnDuplicate(h)

PoolInv == (\A p \in Processes : InUse(p) <= PoolSize) /\ OneIsNoOwnDuplicate

LEMMA HoldingIsFinite ==
  ASSUME NEW p, NEW S \in SUBSET Conns(p), NEW T \in SUBSET Extras(p)
  PROVE  /\ IsFiniteSet(Conns(p)) /\ IsFiniteSet(Extras(p)) /\ IsFiniteSet(S) /\ IsFiniteSet(T)
         /\ Cardinality(Conns(p)) \in Nat /\ Cardinality(Extras(p)) \in Nat
         /\ Cardinality(S) \in Nat /\ Cardinality(T) \in Nat
         /\ Cardinality(S) <= Cardinality(Conns(p)) /\ Cardinality(T) <= Cardinality(Extras(p))
         /\ S # Conns(p) => Cardinality(S) # Cardinality(Conns(p))
         /\ T # Extras(p) => Cardinality(T) # Cardinality(Extras(p))
PROOF
<1>1. Conns(p) \subseteq Requests /\ Extras(p) \subseteq Requests
  BY DEF Conns, Extras, Holding
<1>2. IsFiniteSet(Conns(p)) /\ IsFiniteSet(Extras(p))
  BY <1>1, FS_Subset, IngestAssumption
<1>3. IsFiniteSet(S) /\ IsFiniteSet(T)
  BY <1>2, FS_Subset
<1>4. /\ Cardinality(S) <= Cardinality(Conns(p)) /\ Cardinality(T) <= Cardinality(Extras(p))
      /\ Cardinality(Conns(p)) = Cardinality(S) => Conns(p) = S
      /\ Cardinality(Extras(p)) = Cardinality(T) => Extras(p) = T
  BY <1>2, FS_Subset
<1> QED BY <1>2, <1>3, <1>4, FS_CardinalityType

LEMMA InUseCounts == \A p : InUse(p) = Cardinality(Conns(p)) + Cardinality(Extras(p))
BY DEF InUse, Conns, Extras

(* What holds connections stays the same.                                  *)
LEMMA PoolStays ==
  ASSUME PoolInv, NEW p \in Processes, Conns(p)' = Conns(p), Extras(p)' = Extras(p),
         \A h \in Conns(p) : ~OwnDuplicate(h) => ~OwnDuplicate(h)'
  PROVE  InUse(p)' <= PoolSize /\ (HasFree(p) \/ \E h \in Conns(p) : ~OwnDuplicate(h))'
PROOF
<1>1. InUse(p)' = InUse(p)
  BY DEF InUse, Conns, Extras
<1>2. HasFree(p)' <=> HasFree(p)
  BY <1>1 DEF HasFree
<1> QED BY <1>1, <1>2 DEF PoolInv, OneIsNoOwnDuplicate

(* A connection is given back.                                             *)
LEMMA PoolReleases ==
  ASSUME PoolInv, NEW p \in Processes, Conns(p)' \subseteq Conns(p), Extras(p)' \subseteq Extras(p),
         Conns(p)' # Conns(p) \/ Extras(p)' # Extras(p)
  PROVE  InUse(p)' <= PoolSize /\ HasFree(p)'
PROOF
<1>1. /\ Cardinality(Conns(p)') \in Nat /\ Cardinality(Extras(p)') \in Nat
      /\ Cardinality(Conns(p)) \in Nat /\ Cardinality(Extras(p)) \in Nat
      /\ Cardinality(Conns(p)') <= Cardinality(Conns(p))
      /\ Cardinality(Extras(p)') <= Cardinality(Extras(p))
      /\ Cardinality(Conns(p)') # Cardinality(Conns(p))
          \/ Cardinality(Extras(p)') # Cardinality(Extras(p))
  BY HoldingIsFinite
<1>2. InUse(p)' = Cardinality(Conns(p)') + Cardinality(Extras(p)')
  BY DEF InUse, Conns, Extras
<1>3. InUse(p) = Cardinality(Conns(p)) + Cardinality(Extras(p)) /\ InUse(p) <= PoolSize
  BY InUseCounts DEF PoolInv
<1> QED BY <1>1, <1>2, <1>3, IngestAssumption DEF HasFree

(* A free connection is taken by a request that is no own duplicate.       *)
LEMMA PoolTakes ==
  ASSUME PoolInv, NEW p \in Processes, NEW h \in Requests, HasFree(p),
         \/ Conns(p)' = Conns(p) \cup {h} /\ Extras(p)' = Extras(p)
         \/ Conns(p)' = Conns(p) /\ Extras(p)' = Extras(p) \cup {h},
         h \in Conns(p)', ~OwnDuplicate(h)'
  PROVE  InUse(p)' <= PoolSize /\ (\E g \in Conns(p) : ~OwnDuplicate(g))'
PROOF
<1>1. /\ Cardinality(Conns(p)) \in Nat /\ Cardinality(Extras(p)) \in Nat
      /\ IsFiniteSet(Conns(p)) /\ IsFiniteSet(Extras(p))
  BY HoldingIsFinite
<1>2. /\ Cardinality(Conns(p) \cup {h}) <= Cardinality(Conns(p)) + 1
      /\ Cardinality(Conns(p) \cup {h}) \in Nat
      /\ Cardinality(Extras(p) \cup {h}) <= Cardinality(Extras(p)) + 1
      /\ Cardinality(Extras(p) \cup {h}) \in Nat
  <2>1. /\ IsFiniteSet(Conns(p) \cup {h}) /\ IsFiniteSet(Extras(p) \cup {h})
        /\ Cardinality(Conns(p) \cup {h}) =
             IF h \in Conns(p) THEN Cardinality(Conns(p)) ELSE Cardinality(Conns(p)) + 1
        /\ Cardinality(Extras(p) \cup {h}) =
             IF h \in Extras(p) THEN Cardinality(Extras(p)) ELSE Cardinality(Extras(p)) + 1
    BY <1>1, FS_AddElement
  <2> QED BY <1>1, <2>1
<1>3. InUse(p)' = Cardinality(Conns(p)') + Cardinality(Extras(p)')
  BY DEF InUse, Conns, Extras
<1>4. Cardinality(Conns(p)) + Cardinality(Extras(p)) < PoolSize
  BY InUseCounts DEF HasFree
<1> QED BY <1>1, <1>2, <1>3, <1>4, IngestAssumption

(* A step of a request that holds nothing of p's, before and after.        *)
LEMMA OthersStay ==
  ASSUME PoolInv, NEW p \in Processes, NEW h \in Requests,
         \A g \in Requests \ {h} : req'[g] = req[g],
         req[h].process # p \/ req[h].pc \in {"none", "connect"},
         req'[h].process # p \/ req'[h].pc \in {"none", "connect"},
         TypeOK, RequestsWhole,
         raw_events' = raw_events \/ (StoreRow(h) /\ req[h].process # p)
  PROVE  InUse(p)' <= PoolSize /\ (HasFree(p) \/ \E g \in Conns(p) : ~OwnDuplicate(g))'
PROOF
<1>1. h \notin Conns(p) /\ h \notin Extras(p) /\ h \notin Conns(p)' /\ h \notin Extras(p)'
  BY DEF Conns, Extras, Holding
<1>2. Conns(p)' = Conns(p) /\ Extras(p)' = Extras(p)
  BY <1>1 DEF Conns, Extras, Holding
<1>3. ASSUME NEW g \in Conns(p), ~OwnDuplicate(g) PROVE ~OwnDuplicate(g)'
  <2>1. g \in Requests \ {h} /\ req'[g] = req[g] /\ req[g].process = p
    BY <1>1 DEF Conns, Holding
  <2>2. CASE raw_events' = raw_events
    BY <1>3, <2>1, <2>2 DEF OwnDuplicate
  <2>3. CASE StoreRow(h) /\ req[h].process # p
    <3> DEFINE n == Len(raw_events')
    <3>1. /\ raw_events'[n].process # p
          /\ DOMAIN raw_events' = DOMAIN raw_events \cup {n}
          /\ \A i \in DOMAIN raw_events : raw_events'[i] = raw_events[i]
      BY <2>3, AppendedRow
    <3> HIDE DEF n
    <3> QED BY <1>3, <2>1, <3>1 DEF OwnDuplicate
  <2> QED BY <2>2, <2>3
<1> QED BY <1>2, <1>3, PoolStays

(* A request that ends gives its connections back.                         *)
LEMMA EndKeepsPool ==
  ASSUME RowsInv, PoolInv, NEW h \in Requests, ~IsAt(h, "none"), Ends(h),
         raw_events' = raw_events \/ StoreRow(h)
  PROVE  PoolInv'
PROOF
<1>a. TypeOK /\ RequestsWhole
  BY DEF RowsInv
<1>1. /\ req'[h] = NoRequest /\ \A g \in Requests \ {h} : req'[g] = req[g]
      /\ req[h].process \in Processes /\ req[h].pc \in Statement
  BY <1>a DEF TypeOK, RequestsWhole, Ends, IsAt, Request
<1>2. ASSUME NEW p \in Processes
      PROVE  InUse(p)' <= PoolSize /\ (HasFree(p) \/ \E g \in Conns(p) : ~OwnDuplicate(g))'
  <2>1. CASE req[h].process # p \/ req[h].pc = "connect"
    <3>1. req'[h].pc = "none"
      BY <1>1 DEF NoRequest
    <3>2. raw_events' = raw_events \/ (StoreRow(h) /\ req[h].process # p)
      BY <2>1 DEF StoreRow, IsAt
    <3> QED BY <1>a, <1>1, <2>1, <3>1, <3>2, OthersStay
  <2>2. CASE req[h].process = p /\ req[h].pc # "connect"
    <3>1. h \in Conns(p) /\ h \notin Conns(p)'
      BY <1>1, <2>2 DEF Conns, Holding, IsAt, NoRequest
    <3>2. Conns(p)' \subseteq Conns(p) /\ Extras(p)' \subseteq Extras(p)
      BY <1>1 DEF Conns, Extras, Holding, NoRequest
    <3> QED BY <3>1, <3>2, PoolReleases
  <2> QED BY <2>1, <2>2
<1> QED BY <1>2 DEF PoolInv, OneIsNoOwnDuplicate

(* A statement on a connection that the request has and keeps.             *)
LEMMA MoveKeepsPool ==
  ASSUME RowsInv, PoolInv, NEW h \in Requests, NEW s \in Statement \ {"none", "connect", "refind"},
         req[h].pc \in Statement \ {"none", "connect", "refind"}, Moves(h, s),
         raw_events' = raw_events, ~OwnDuplicate(h) => ~OwnDuplicate(h)'
  PROVE  PoolInv'
PROOF
<1>1. /\ req'[h].pc = s /\ req'[h].process = req[h].process
      /\ \A g \in Requests \ {h} : req'[g] = req[g]
  BY DEF RowsInv, TypeOK, Moves, Request
<1>2. ASSUME NEW p \in Processes
      PROVE  InUse(p)' <= PoolSize /\ (HasFree(p) \/ \E g \in Conns(p) : ~OwnDuplicate(g))'
  <2>1. Conns(p)' = Conns(p) /\ Extras(p)' = Extras(p)
    BY <1>1 DEF Conns, Extras, Holding
  <2>2. ASSUME NEW g \in Conns(p), ~OwnDuplicate(g) PROVE ~OwnDuplicate(g)'
    <3>1. CASE g = h
      BY <2>2, <3>1
    <3>2. CASE g # h
      BY <1>1, <2>2, <3>2 DEF OwnDuplicate, Conns, Holding
    <3> QED BY <3>1, <3>2
  <2> QED BY <2>1, <2>2, PoolStays
<1> QED BY <1>2 DEF PoolInv, OneIsNoOwnDuplicate

(* A request gets a connection, its first or its second.                   *)
LEMMA TakeKeepsPool ==
  ASSUME RowsInv, PoolInv, NEW h \in Requests,
         \/ Connect(h)
         \/ Reconnect(h)
  PROVE  PoolInv'
PROOF
<1>a. TypeOK /\ RequestsWhole
  BY DEF RowsInv
<1>1. /\ req'[h].process = req[h].process
      /\ \A g \in Requests \ {h} : req'[g] = req[g]
      /\ \/ req[h].pc = "connect" /\ req'[h].pc = "find"
         \/ req[h].pc = "reconnect" /\ req'[h].pc = "refind"
      /\ HasFree(req[h].process) /\ raw_events' = raw_events
  BY <1>a DEF TypeOK, Connect, Reconnect, IsAt, Goto, Request
<1>2. ASSUME NEW p \in Processes
      PROVE  InUse(p)' <= PoolSize /\ (HasFree(p) \/ \E g \in Conns(p) : ~OwnDuplicate(g))'
  <2>1. CASE req[h].process # p
    BY <1>a, <1>1, <2>1, OthersStay
  <2>2. CASE req[h].process = p
    <3>1. h \in Conns(p)'
      BY <1>1, <2>2 DEF Conns, Holding, Statement
    <3>2. ~OwnDuplicate(h)'
      BY <1>1 DEF OwnDuplicate
    <3>3. CASE req[h].pc = "connect" /\ req'[h].pc = "find"
      <4>1. Conns(p)' = Conns(p) \cup {h} /\ Extras(p)' = Extras(p)
        BY <1>1, <2>2, <3>3 DEF Conns, Extras, Holding, Statement
      <4> QED BY <1>1, <2>2, <3>1, <3>2, <4>1, PoolTakes
    <3>4. CASE req[h].pc = "reconnect" /\ req'[h].pc = "refind"
      <4>1. Conns(p)' = Conns(p) /\ Extras(p)' = Extras(p) \cup {h}
        BY <1>1, <2>2, <3>4 DEF Conns, Extras, Holding, Statement
      <4> QED BY <1>1, <2>2, <3>1, <3>2, <4>1, PoolTakes
    <3> QED BY <1>1, <3>3, <3>4
  <2> QED BY <2>1, <2>2
<1> QED BY <1>2 DEF PoolInv, OneIsNoOwnDuplicate

LEMMA EmptyPool ==
  ASSUME NEW p, Conns(p) = {}, Extras(p) = {} PROVE InUse(p) <= PoolSize /\ HasFree(p)
BY InUseCounts, FS_EmptySet, IngestAssumption DEF HasFree

LEMMA InitPool == Init => PoolInv
PROOF
<1> SUFFICES ASSUME Init, NEW p \in Processes PROVE InUse(p) <= PoolSize /\ HasFree(p)
  BY DEF PoolInv, OneIsNoOwnDuplicate
<1>1. Conns(p) = {} /\ Extras(p) = {}
  BY DEF Init, Conns, Extras, Holding, NoRequest
<1> QED BY <1>1, EmptyPool

LEMMA PoolStep == RowsInv /\ PoolInv /\ [Next]_vars => PoolInv'
PROOF
<1> SUFFICES ASSUME RowsInv, PoolInv, [Next]_vars PROVE PoolInv'
  OBVIOUS
<1>a. TypeOK /\ RequestsWhole
  BY DEF RowsInv
<1>1. CASE UNCHANGED vars
  BY <1>1 DEF vars, PoolInv, OneIsNoOwnDuplicate, OwnDuplicate, HasFree, InUse, Conns, Holding
<1>2. ASSUME NEW h \in Requests, NEW b \in Bodies, NEW q \in Processes, Post(h, b, q)
      PROVE  PoolInv'
  <2>1. /\ req[h].pc = "none" /\ req'[h].pc = "connect"
        /\ \A g \in Requests \ {h} : req'[g] = req[g]
        /\ raw_events' = raw_events
    BY <1>a, <1>2 DEF TypeOK, Post, IsAt
  <2> QED BY <1>a, <2>1, OthersStay DEF PoolInv, OneIsNoOwnDuplicate
<1>3. ASSUME NEW h \in Requests, Connect(h) \/ Reconnect(h) PROVE PoolInv'
  BY <1>3, TakeKeepsPool
<1>4. ASSUME NEW h \in Requests, Find(h) PROVE PoolInv'
  <2>1. CASE Stored(req[h].body)
    <3>1. req'[h].pc = "found"
      BY <1>a, <1>4, <2>1 DEF Find, Goto, TypeOK
    <3> QED BY <1>4, <2>1, <3>1, MoveKeepsPool DEF Find, IsAt, Goto, Moves, Statement, OwnDuplicate
  <2>2. CASE ~Stored(req[h].body)
    <3>1. req'[h].body = req[h].body /\ raw_events' = raw_events
      BY <1>a, <1>4 DEF Find, Goto, TypeOK, Request
    <3>2. ~OwnDuplicate(h)'
      BY <2>2, <3>1 DEF OwnDuplicate, Stored
    <3> QED BY <1>4, <2>2, <3>2, MoveKeepsPool DEF Find, IsAt, Goto, Moves, Statement
  <2> QED BY <2>1, <2>2
<1>5. ASSUME NEW h \in Requests, Insert(h) PROVE PoolInv'
  <2>1. req'[h].pc = "inserted"
    BY <1>a, <1>5 DEF Insert, Goto, TypeOK
  <2>2. ~OwnDuplicate(h)'
    BY <2>1 DEF OwnDuplicate
  <2> QED BY <1>5, <2>2, MoveKeepsPool DEF Insert, Inserting, IsAt, Goto, Moves, Statement
<1>6. ASSUME NEW h \in Requests, LoseRace(h) PROVE PoolInv'
  <2>1. /\ req'[h].body = req[h].body /\ req'[h].process = req[h].process
        /\ req[h].pc = "create" /\ raw_events' = raw_events
    BY <1>a, <1>6 DEF LoseRace, Inserting, IsAt, Goto, TypeOK, Request
  <2>2. ~OwnDuplicate(h) => ~OwnDuplicate(h)'
    BY <2>1 DEF OwnDuplicate
  <2> QED BY <1>6, <2>1, <2>2, MoveKeepsPool DEF LoseRace, Goto, Moves, Statement
<1>7. ASSUME NEW h \in Requests, Refind(h) PROVE PoolInv'
  <2>1. /\ req'[h].process = req[h].process /\ req[h].pc = "refind" /\ req'[h].pc = "found"
        /\ \A g \in Requests \ {h} : req'[g] = req[g]
        /\ raw_events' = raw_events
    BY <1>a, <1>7 DEF Refind, IsAt, Goto, TypeOK, Request
  <2>2. ASSUME NEW p \in Processes
        PROVE  InUse(p)' <= PoolSize /\ (HasFree(p) \/ \E g \in Conns(p) : ~OwnDuplicate(g))'
    <3>1. CASE req[h].process # p
      BY <1>a, <2>1, <3>1, OthersStay
    <3>2. CASE req[h].process = p
      <4>1. Conns(p)' = Conns(p) /\ Extras(p)' = Extras(p) \ {h} /\ h \in Extras(p)
        BY <2>1, <3>2 DEF Conns, Extras, Holding, Statement
      <4> QED BY <4>1, PoolReleases
    <3> QED BY <3>1, <3>2
  <2> QED BY <2>2 DEF PoolInv, OneIsNoOwnDuplicate
<1>8. ASSUME NEW h \in Requests, CommitCreated(h) \/ FailAfterCommit(h) PROVE PoolInv'
  BY <1>8, EndKeepsPool
  DEF CommitCreated, FailAfterCommit, AnswerOk, AnswerError, StoreRow, Ends, IsAt
<1>9. ASSUME NEW h \in Requests, CommitFound(h) \/ Fail(h) \/ TimeOut(h) PROVE PoolInv'
  BY <1>9, EndKeepsPool DEF CommitFound, Fail, TimeOut, AnswerOk, AnswerError, Ends, IsAt
<1>10. ASSUME NEW q \in Processes, Crash(q) PROVE PoolInv'
  <2>1. /\ \A h \in Requests : req'[h] = IF req[h].process = q THEN NoRequest ELSE req[h]
        /\ raw_events' = raw_events
    BY <1>10 DEF Crash
  <2>2. ASSUME NEW p \in Processes
        PROVE  InUse(p)' <= PoolSize /\ (HasFree(p) \/ \E g \in Conns(p) : ~OwnDuplicate(g))'
    <3>1. CASE p = q
      <4>1. Conns(p)' = {} /\ Extras(p)' = {}
        BY <2>1, <3>1 DEF Conns, Extras, Holding, NoRequest
      <4>2. InUse(p)' = Cardinality({}) + Cardinality({})
        BY <4>1 DEF InUse, Conns, Extras
      <4> QED BY <4>2, FS_EmptySet, IngestAssumption DEF HasFree
    <3>2. CASE p # q
      <4>1. Conns(p)' = Conns(p) /\ Extras(p)' = Extras(p)
        BY <2>1, <3>2 DEF Conns, Extras, Holding, NoRequest
      <4>2. \A h \in Conns(p) : req'[h] = req[h]
        BY <2>1, <3>2 DEF Conns, Holding
      <4>3. \A h \in Conns(p) : ~OwnDuplicate(h) => ~OwnDuplicate(h)'
        BY <2>1, <4>2 DEF OwnDuplicate
      <4> QED BY <4>1, <4>3, PoolStays
    <3> QED BY <3>1, <3>2
  <2> QED BY <2>2 DEF PoolInv, OneIsNoOwnDuplicate
<1> QED BY <1>1, <1>2, <1>3, <1>4, <1>5, <1>6, <1>7, <1>8, <1>9, <1>10 DEF Next, Handle

(* Requests of one process alone never starve its pool, whatever its size: *)
(* the second connection of findOrCreate can only be missing for good when *)
(* another process stored the row.                                         *)
THEOREM StallsAreForeign == Spec => []StallsNeedAnotherProcess
PROOF
<1>1. RowsInv /\ PoolInv => StallsNeedAnotherProcess
  <2> SUFFICES ASSUME RowsInv, PoolInv, NEW p \in Processes, Stalled(p)
               PROVE  \E h \in Holding(p, {"reconnect"}), i \in DOMAIN raw_events :
                        raw_events[i].body = req[h].body /\ raw_events[i].process # p
    BY DEF StallsNeedAnotherProcess
  <2>1. PICK h \in Conns(p) : ~OwnDuplicate(h)
    BY DEF PoolInv, OneIsNoOwnDuplicate, Stalled
  <2>2. h \in Requests /\ req[h].process = p /\ req[h].pc = "reconnect"
    BY <2>1 DEF Conns, Holding, Stalled
  <2>3. PICK i \in DOMAIN raw_events : raw_events[i].body = req[h].body
    BY <2>2 DEF RowsInv, FoundIsStored, Stored
  <2> QED BY <2>1, <2>2, <2>3 DEF Holding, OwnDuplicate
<1> QED BY <1>1, InitRows, RowsStep, InitPool, PoolStep, PTL DEF Spec
=============================================================================
