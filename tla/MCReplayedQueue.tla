-------------------------- MODULE MCReplayedQueue --------------------------
(* ReplayedQueue with the values of MCWebhookQueue for the queue's         *)
(* constants.                                                              *)
EXTENDS ReplayedQueue, MCWebhookQueue
=============================================================================
