--------------------------- MODULE MCTradeOverlap ---------------------------
(***************************************************************************)
(* TradeService with two handlers at a time.  The state space of the whole *)
(* service is then too large for TLC, so a behaviour is one stretch of a   *)
(* trade's life with the handlers of that stretch.  Every step is a step   *)
(* of TradeService!Next, and the initial states are states that Spec       *)
(* reaches with no job in flight.                                          *)
(***************************************************************************)
EXTENDS TradeService, TLC

\* The stretch a behaviour is about.
VARIABLE stretch

\* The parties play the same role in every handler, and so do executions.
Symmetry == Permutations(Party) \cup Permutations(Handler)

----------------------------------------------------------------------------
(* From the accepted offer to the moderator's verdict.                     *)

VettingNext ==
  \/ \E h \in Handler :
       \/ LockItems(h) \/ BeginVerification(h) \/ Verify(h)
       \/ RejectVerification(h) \/ CancelTrade(h)
       \/ \E p \in Party : SubmitProof(h, p)
       \/ Proceed(h)

VettingInit == Init /\ trade.risk = "LOW"

----------------------------------------------------------------------------
(* A verified trade.                                                       *)

VerifiedTrade ==
  /\ \E r \in {"LOW", "HIGH"} :
       trade = [state |-> "VERIFIED", risk |-> r, method |-> "none",
                timeout |-> "window", window |-> "open", proof |-> Party,
                paid |-> {}, pickup |-> {}, receipt |-> {}, addr |-> {},
                center |-> {}, arrived |-> {}, passed |-> {}]
  /\ jobs = [h \in Handler |-> Idle]
  /\ proofPkgs = Party
  /\ audit = {<<"trade.initiated", "system">>, <<"trade.locked", "system">>,
              <<"trade.verification_started", "system">>,
              <<"trade.verified", "system">>}
             \cup {<<"trade.proof_submitted", p>> : p \in Party}
  /\ outbox = {"trade.initiated", "trade.locked", "trade.proof_submitted",
               "trade.verified"}
  /\ bus = {}
  /\ faults = 0

\* Direct shipping: addresses, payments, delivery and receipt.
ShippingNext ==
  \/ \E h \in Handler :
       \/ CancelTrade(h) \/ DirectShippingReady(h) \/ DirectShipmentDelivered(h)
       \/ \E p \in Party : SubmitAddress(h, p) \/ PaymentSucceeded(h, p, TRUE)
       \/ Proceed(h)

ShippingInit == VerifiedTrade /\ trade.risk = "LOW"

----------------------------------------------------------------------------
(* A HIGH risk trade, one item of which has reached its center.            *)

CenterInit ==
  /\ \E p \in Party :
       trade = [state |-> "SHIPPING_TO_CENTER", risk |-> "HIGH",
                method |-> "shipping", timeout |-> "window", window |-> "open",
                proof |-> Party, paid |-> Party, pickup |-> {}, receipt |-> {},
                addr |-> Party, center |-> Party, arrived |-> {p},
                passed |-> {}]
  /\ jobs = [h \in Handler |-> Idle]
  /\ proofPkgs = Party
  /\ audit = {<<"trade.initiated", "system">>, <<"trade.locked", "system">>,
              <<"trade.verification_started", "system">>,
              <<"trade.verified", "system">>,
              <<"trade.payment_received", "system">>,
              <<"trade.center_selected", "system">>,
              <<"trade.awaiting_shipment", "system">>}
             \cup {<<"trade.proof_submitted", p>> : p \in Party}
             \cup {<<"trade.address_submitted", p>> : p \in Party}
  /\ outbox = {"trade.initiated", "trade.locked", "trade.proof_submitted",
               "trade.verified"}
  /\ bus = {<<"payment.succeeded", p>> : p \in Party}
           \cup {<<"shipping.addresses_ready", "system">>}
  /\ faults = 0

CenterNext ==
  \/ \E h \in Handler :
       \/ Leg2Delivered(h)
       \/ \E p \in Party : ItemAtCenter(h, p) \/ CenterVerificationApproved(h, p)
       \/ Proceed(h)

----------------------------------------------------------------------------
OverlapInit ==
  \/ stretch = "vetting" /\ VettingInit
  \/ stretch = "shipping" /\ ShippingInit
  \/ stretch = "center" /\ CenterInit

OverlapNext ==
  /\ UNCHANGED stretch
  /\ \/ stretch = "vetting" /\ VettingNext
     \/ stretch = "shipping" /\ ShippingNext
     \/ stretch = "center" /\ CenterNext

OverlapSpec == OverlapInit /\ [][OverlapNext]_<<vars, stretch>>

=============================================================================
