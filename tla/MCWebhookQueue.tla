--------------------------- MODULE MCWebhookQueue ---------------------------
(* Values for the constants of WebhookQueue: small tables and two states   *)
(* of a shipment; every entity may get either state from the LLM.          *)
EXTENDS WebhookQueue, TLC

MCStates == {"PICKED_UP", "IN_TRANSIT"}
MCRank == "PICKED_UP" :> 10 @@ "IN_TRANSIT" :> 20
MCEvents == [entity : Entities, state : MCStates]

(* One state only, where a property does not depend on ranks. *)
MCOneState == {"PICKED_UP"}
MCOneRank == "PICKED_UP" :> 10
MCOneStateEvents == [entity : Entities, state : MCOneState]

WorkerSymmetry == Permutations(Workers)
=============================================================================
