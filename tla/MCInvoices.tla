----------------------------- MODULE MCInvoices -----------------------------
(* Values for the constants of Invoices: every state, each with events that*)
(* bring an amount, a currency, or neither.                                *)
EXTENDS Invoices, TLC

MCStates == {"ISSUED", "PAID", "VOIDED", "REFUNDED"}
MCRank == "ISSUED" :> 10 @@ "PAID" :> 20 @@ "VOIDED" :> 20 @@ "REFUNDED" :> 30

Event(s, t, a, c) ==
  [key |-> 1, state |-> s, at |-> t, amount_minor |-> a, currency |-> c]

MCEvents == {Event("ISSUED", 1, Null, "USD"), Event("ISSUED", 2, 100, Null),
             Event("PAID", 1, 100, "USD"), Event("PAID", 2, 0, "EUR"),
             Event("VOIDED", 2, Null, Null), Event("REFUNDED", 1, 0, "EUR")}
=============================================================================
