-------------------------------- MODULE Inbox --------------------------------
(***************************************************************************)
(* What POST /webhooks promises to vendors.                                *)
(*                                                                         *)
(* The inbox is an append-only list of bodies, none of them twice, and a   *)
(* vendor has a 200 only for a body that is in it for good.  Requests,     *)
(* transactions, connections, processes and failures are out of sight:     *)
(* they are in Ingest, which implements this module.                       *)
(***************************************************************************)
EXTENDS Sequences

CONSTANT Bodies  \* request bodies, by their SHA-256

VARIABLES
  inbox,  \* the bodies stored, by raw_events.id
  acked   \* the bodies a vendor has a 200 for

inboxVars == <<inbox, acked>>

InboxInit == inbox = <<>> /\ acked = {}

In(b, list) == \E i \in DOMAIN list : list[i] = b

(* findOrCreate, as a vendor sees it: one row per body.                    *)
Store(b) == inbox' = IF In(b, inbox) THEN inbox ELSE Append(inbox, b)

(* 200: the body was there, or came with this very step.                   *)
Acknowledge(b) == In(b, inbox') /\ acked' = acked \cup {b}

(* 500, or an answer that is lost: the vendor cannot tell what was stored. *)
LeaveOpen == UNCHANGED acked

InboxNext == \E b \in Bodies : Store(b) /\ (Acknowledge(b) \/ LeaveOpen)

InboxSpec == InboxInit /\ [][InboxNext]_inboxVars
=============================================================================
