---------------------------- MODULE MCLeaseClock ----------------------------
(* LeaseClock with the values of MCWebhookQueue for the queue's constants. *)
EXTENDS LeaseClock, MCWebhookQueue
=============================================================================
