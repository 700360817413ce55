-------------------------- MODULE TradeStateMachine --------------------------
(***************************************************************************)
(* The transition table of trade-service (state-machine/transitions.ts)    *)
(* and the function that consults it (state-machine/trade-state-machine.ts *)
(* transition()).  A trade is a record; the columns that come in pairs, one *)
(* per party (proofASubmitted/proofBSubmitted, partyAPaid/partyBPaid, ...), *)
(* are the set of the parties whose column is true.                        *)
(*                                                                         *)
(* MEDIUM and LOW risk take the same route and differ only in hours, so    *)
(* the model keeps "LOW" and "HIGH".                                       *)
(***************************************************************************)

CONSTANT Party          \* the two parties of a trade

TradeState ==
  {"INITIATED", "OFFERED", "ACCEPTED", "LOCKED", "PROOF_SUBMITTED",
   "UNDER_VERIFICATION", "VERIFIED", "AWAITING_SHIPMENT", "IN_TRANSIT",
   "SHIPPING_TO_CENTER", "AT_CENTER", "CENTER_VERIFICATION",
   "CENTER_VERIFIED", "SHIPPING_TO_RECIPIENTS", "DELIVERED",
   "DISPUTE_OPEN", "COMPLETED", "CANCELLED", "REVOKED"}

\* The states findTimedOutTrades excludes.
Terminal == {"COMPLETED", "CANCELLED", "REVOKED"}

\* <<from, event, to>>, in the order of the source.
TRANSITIONS ==
  {<<"INITIATED", "offer_made", "OFFERED">>,
   <<"OFFERED", "offer_accepted", "ACCEPTED">>,
   <<"OFFERED", "offer_rejected", "CANCELLED">>,
   <<"OFFERED", "timeout", "CANCELLED">>,
   <<"ACCEPTED", "items_locked", "LOCKED">>,
   <<"ACCEPTED", "cancel", "CANCELLED">>,
   <<"LOCKED", "cancel", "CANCELLED">>,
   <<"PROOF_SUBMITTED", "cancel", "CANCELLED">>,
   <<"UNDER_VERIFICATION", "cancel", "CANCELLED">>,
   <<"LOCKED", "proof_submitted", "PROOF_SUBMITTED">>,
   <<"PROOF_SUBMITTED", "begin_verification", "UNDER_VERIFICATION">>,
   <<"UNDER_VERIFICATION", "verified", "VERIFIED">>,
   <<"UNDER_VERIFICATION", "verification_rejected", "LOCKED">>,
   <<"VERIFIED", "cancel", "CANCELLED">>,
   <<"VERIFIED", "direct_shipping_ready", "IN_TRANSIT">>,
   <<"VERIFIED", "shipping_ready", "SHIPPING_TO_CENTER">>,
   <<"VERIFIED", "local_pickup_confirmed", "DELIVERED">>,
   <<"SHIPPING_TO_CENTER", "all_shipments_in_transit", "SHIPPING_TO_CENTER">>,
   <<"SHIPPING_TO_CENTER", "both_items_at_center", "AT_CENTER">>,
   <<"SHIPPING_TO_CENTER", "cancel", "CANCELLED">>,
   <<"AT_CENTER", "cancel", "CANCELLED">>,
   <<"AT_CENTER", "center_inspection_started", "CENTER_VERIFICATION">>,
   <<"CENTER_VERIFICATION", "both_items_center_verified", "CENTER_VERIFIED">>,
   <<"CENTER_VERIFICATION", "center_verification_rejected", "CANCELLED">>,
   <<"CENTER_VERIFIED", "cancel", "CANCELLED">>,
   <<"CENTER_VERIFIED", "all_shipments_in_transit", "SHIPPING_TO_RECIPIENTS">>,
   <<"SHIPPING_TO_RECIPIENTS", "all_shipments_delivered", "DELIVERED">>,
   <<"IN_TRANSIT", "all_shipments_delivered", "DELIVERED">>,
   <<"IN_TRANSIT", "dispute_opened", "DISPUTE_OPEN">>,
   <<"IN_TRANSIT", "cancel", "CANCELLED">>,
   <<"SHIPPING_TO_RECIPIENTS", "dispute_window_expired", "COMPLETED">>,
   <<"SHIPPING_TO_RECIPIENTS", "dispute_opened", "DISPUTE_OPEN">>,
   <<"DELIVERED", "buyer_confirmed_receipt", "COMPLETED">>,
   <<"DELIVERED", "dispute_window_expired", "COMPLETED">>,
   <<"DELIVERED", "dispute_opened", "DISPUTE_OPEN">>,
   <<"VERIFIED", "dispute_opened", "DISPUTE_OPEN">>,
   <<"VERIFIED", "dispute_window_expired", "COMPLETED">>,
   <<"DISPUTE_OPEN", "dispute_resolved", "COMPLETED">>,
   <<"DISPUTE_OPEN", "trade_revoked", "REVOKED">>}

(***************************************************************************)
(* The guards of the table.  The one-hour lock age that ACCEPTED -cancel-> *)
(* tests is not modelled: a failing guard is a handler that does nothing,  *)
(* which a behaviour may always choose.                                    *)
(*                                                                         *)
(* Definitions named after a mistake (AnyProof, AnyPaid, and others in     *)
(* TradeService) are faulty variants of the one that follows.    *)
(* The specifications do not use them: they stand in for it when it is     *)
(* checked that a property would notice the mistake.                       *)
(***************************************************************************)
AnyProof(t) == t.proof # {}
BothProofs(t) == t.proof = Party

AnyPaid(t) == t.paid # {}
BothPaid(t) == t.paid = Party

MayCancelVerified(t) == t.paid # Party

Guard(t, event) ==
  /\ event = "proof_submitted" => BothProofs(t)
  /\ event = "direct_shipping_ready" =>
        t.method = "shipping" /\ t.risk # "HIGH" /\ BothPaid(t)
  /\ event = "shipping_ready" =>
        t.method = "shipping" /\ t.risk = "HIGH" /\ BothPaid(t)
  /\ event = "local_pickup_confirmed" =>
        t.method = "local_pickup" /\ t.pickup = Party /\ BothPaid(t)
  /\ event = "both_items_at_center" => t.arrived = Party
  /\ event = "both_items_center_verified" => t.passed = Party
  /\ t.state = "VERIFIED" =>
        /\ event = "cancel" => MayCancelVerified(t)
        /\ event = "dispute_window_expired" => t.method = "none"
  /\ event = "dispute_opened" /\ t.state \in {"VERIFIED", "DELIVERED"} =>
        t.window = "open"

\* transition(trade, event) succeeds and its newState is to.
Transition(t, event, to) ==
  <<t.state, event, to>> \in TRANSITIONS /\ Guard(t, event)

=============================================================================
