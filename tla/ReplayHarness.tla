--------------------------- MODULE ReplayHarness ---------------------------
(***************************************************************************)
(* The replay harness against the queue, and the read endpoints it uses.   *)
(*                                                                         *)
(* It posts all samples at once, some of which have the same body, posts   *)
(* the first one again, polls /raw-events until nothing is unsettled, and  *)
(* then reads the entities for its report while workers may still run.     *)
(* /raw-events returns Limit rows at most, and an entity and its history   *)
(* come from two queries that no transaction binds together.               *)
(***************************************************************************)
EXTENDS WebhookQueue

CONSTANTS
  Samples,    \* the entries of samples-stress.js
  BodyOf,     \* BodyOf[s]: the row that the body of sample s has, or gets
  First,      \* samples[0]
  Limit,      \* limit of GET /raw-events: 100
  Shipments   \* the entities of /shipments; the others are those of /invoices

ASSUME HarnessAssumption ==
  /\ BodyOf \in [Samples -> RawIds] /\ First \in Samples
  /\ Limit \in Nat \ {0}
  /\ Shipments \subseteq Entities

VARIABLES
  phase,      \* what the harness is about to do
  unposted,   \* the samples whose POST of phase 1 has no answer yet
  raws,       \* the answer of /raw-events: the status of each row in it
  rows,       \* current_state of the entities read so far
  events      \* the history rows of the entities read so far

harnessVars == <<phase, unposted, raws, rows, events>>

(* Each GET of the report is two queries: the rows, then their events.  A  *)
(* harness that fails (no answer, DRAIN_TIMEOUT_MS) takes no further step. *)
Phases == {"posting", "duplicate", "draining", "shipments", "shipment_events",
           "invoices", "invoice_events", "reported"}

Invoices == Entities \ Shipments
Stored == {r \in RawIds : status[r] # "absent"}

HarnessInit ==
  /\ Init
  /\ phase = "posting"
  /\ unposted = Samples
  /\ raws = <<>>
  /\ rows = [e \in Entities |-> NoState]
  /\ events = [e \in Entities |-> <<>>]

-----------------------------------------------------------------------------
(* findOrCreate: a body that has its row already is absorbed.              *)
Store(r) ==
  \/ Receive(r)
  \/ status[r] # "absent" /\ UNCHANGED vars

(* Phase 1, all in parallel.  postOne takes any answer, so a POST that is  *)
(* answered 500 although its row is stored counts as this step too.        *)
Post(s) ==
  /\ phase = "posting" /\ s \in unposted
  /\ Store(BodyOf[s])
  /\ unposted' = unposted \ {s}
  /\ UNCHANGED <<phase, raws, rows, events>>

(* Answered 500 without a row; nobody posts it again.                      *)
PostFails(s) ==
  /\ phase = "posting" /\ s \in unposted
  /\ unposted' = unposted \ {s}
  /\ UNCHANGED <<vars, phase, raws, rows, events>>

AllAnswered ==
  /\ phase = "posting" /\ unposted = {}
  /\ phase' = "duplicate"
  /\ UNCHANGED <<vars, unposted, raws, rows, events>>

(* Phase 2: the first payload again, which stores it if it failed before,  *)
(* unless it fails again.                                                  *)
PostDuplicate ==
  /\ phase = "duplicate"
  /\ Store(BodyOf[First]) \/ UNCHANGED vars
  /\ phase' = "draining"
  /\ UNCHANGED <<unposted, raws, rows, events>>

(* ORDER BY id LIMIT 100.                                                  *)
Listed == {r \in Stored : Cardinality({q \in Stored : q < r}) < Limit}

(* Faulty variant, used by the mutation checks only. *)
UnsettledOnlyPending == {r \in Listed : status[r] = "pending"}

Unsettled == {r \in Listed : status[r] \in {"pending", "processing"}}

(* waitForDrain returns the first answer in which nothing is unsettled.    *)
Drained ==
  /\ phase = "draining"
  /\ Unsettled = {} /\ Listed # {}
  /\ raws' = [r \in Listed |-> status[r]]
  /\ phase' = "shipments"
  /\ UNCHANGED <<vars, unposted, rows, events>>

-----------------------------------------------------------------------------
(* findAll reads the entities, and include with separate: true their       *)
(* events: those of the entities that the first query returned.            *)
ReadRows(S, next) ==
  /\ rows' = [e \in Entities |-> IF e \in S THEN current[e] ELSE rows[e]]
  /\ phase' = next
  /\ UNCHANGED <<vars, unposted, raws, events>>

ReadEvents(S, next) ==
  /\ events' = [e \in Entities |-> IF e \in S /\ rows[e] # NoState THEN history[e] ELSE events[e]]
  /\ phase' = next
  /\ UNCHANGED <<vars, unposted, raws, rows>>

(* Faulty variant, used by the mutation checks only: events before rows.   *)
GetEventsFirst ==
  \/ /\ phase = "shipments"
     /\ events' = [e \in Entities |-> IF e \in Shipments THEN history[e] ELSE events[e]]
     /\ phase' = "shipment_events"
     /\ UNCHANGED <<vars, unposted, raws, rows>>
  \/ phase = "shipment_events" /\ ReadRows(Shipments, "invoices")

GetShipments ==
  \/ phase = "shipments" /\ ReadRows(Shipments, "shipment_events")
  \/ phase = "shipment_events" /\ ReadEvents(Shipments, "invoices")

GetInvoices ==
  \/ phase = "invoices" /\ ReadRows(Invoices, "invoice_events")
  \/ phase = "invoice_events" /\ ReadEvents(Invoices, "reported")

-----------------------------------------------------------------------------
(* The workers meanwhile; every webhook comes from the harness.            *)
WorkerStep ==
  /\ \/ \E r \in RawIds : LockExpires(r)
     \/ \E w \in Workers : Claim(w) \/ Refetch(w) \/ RefetchFails(w) \/ Crash(w)
     \/ \E w \in Workers, r \in RawIds :
          ProcessOne(w, r) \/ SettleAnswerLost(w, r) \/ StatusWriteFails(w, r)
  /\ UNCHANGED harnessVars

HarnessNext ==
  \/ \E s \in Samples : Post(s) \/ PostFails(s)
  \/ AllAnswered
  \/ PostDuplicate
  \/ Drained
  \/ GetShipments
  \/ GetInvoices
  \/ WorkerStep

HarnessSpec == HarnessInit /\ [][HarnessNext]_<<vars, harnessVars>>

-----------------------------------------------------------------------------
Reported(e) == phase = "reported" \/ (e \in Shipments /\ phase \in {"invoices", "invoice_events"})
AllListed == Cardinality(Stored) <= Limit

(* An entity is never shown in a state that the events shown with it do    *)
(* not explain, although workers settle between the two queries of a GET.  *)
ViewExplained ==
  \A e \in Entities : Reported(e) /\ rows[e] # NoState =>
    \E i \in DOMAIN events[e] : events[e][i].advanced /\ events[e][i].state = rows[e]

(* The report is the outcome: if all rows fit into one answer, what        *)
(* waitForDrain took for settled is settled for good, and the report stays *)
(* equal to the tables, whatever workers, retries and crashes went before. *)
ReportIsFinal ==
  phase = "reported" /\ AllListed =>
    /\ raws = [r \in Stored |-> status[r]]
    /\ rows = current /\ events = history

(* What the harness's checks look for: each normalized row shows up as one *)
(* event of one entity, no other row shows up, and a late event left the   *)
(* furthest state in place.                                                *)
SanityChecks ==
  phase = "reported" /\ AllListed =>
    /\ \A r \in DOMAIN raws : raws[r] = "normalized" <=>
         \E e \in Entities : \E i \in DOMAIN events[e] : events[e][i].raw = r
    /\ \A e, f \in Entities : \A i \in DOMAIN events[e], j \in DOMAIN events[f] :
         events[e][i].raw = events[f][j].raw => e = f /\ i = j
    /\ \A e \in Entities : \A i \in DOMAIN events[e] :
         Rank[events[e][i].state] <= Rank[rows[e]]

(* A client of the API can do to the queue what any vendor can: post new   *)
(* webhooks.  Posting one again never takes a row up again.                *)
ActsAsVendor == Spec
=============================================================================
