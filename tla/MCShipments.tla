---------------------------- MODULE MCShipments ----------------------------
(* Values for the constants of Shipments: three webhooks and two keys next *)
(* to each other, events that advance, tie, come late or bring no port,    *)
(* and a webhook that the LLM does not read the same way twice.            *)
EXTENDS Shipments, TLC

MCStates == {"PICKED_UP", "IN_TRANSIT"}
MCRank == "PICKED_UP" :> 10 @@ "IN_TRANSIT" :> 20

Event(r, k, s, t, p, d) ==
  [raw |-> r, key |-> k, state |-> s, at |-> t, port |-> p, doc |-> d]

MCEvents == {Event(1, 1, "PICKED_UP", 1, "USNYC", Null),
             Event(2, 1, "IN_TRANSIT", 2, Null, "BL7"),
             Event(2, 2, "IN_TRANSIT", 2, "NLRTM", "BL7"),
             Event(3, 1, "IN_TRANSIT", 1, "NLRTM", "BL8")}
=============================================================================
