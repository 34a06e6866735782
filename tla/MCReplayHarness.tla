-------------------------- MODULE MCReplayHarness --------------------------
(* Three samples, the first of which is posted twice, and one entity of    *)
(* each kind.                                                              *)
EXTENDS ReplayHarness, MCWebhookQueue

CONSTANTS s1, s2, s3, e1, e2

MCBodyOf == s1 :> 1 @@ s2 :> 2 @@ s3 :> 3

(* Out of order: the shipment's second state may come first. *)
MCSampleEvents ==
  {[entity |-> e1, state |-> s] : s \in MCStates} \cup {[entity |-> e2, state |-> "PICKED_UP"]}
=============================================================================
