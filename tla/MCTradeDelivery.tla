--------------------------- MODULE MCTradeDelivery ---------------------------
(***************************************************************************)
(* What the services do by themselves, for TLC, one request at a time.     *)
(* TradeService with the fairness of its schedulers: from the handover     *)
(* with all its requests, and from the accepted offer with those that the  *)
(* trade's page offers.  CenterFlow with the fairness of its cron job: the *)
(* way out and the way home.  While a behaviour is about one of the two,   *)
(* the other rests in an initial state, where nothing fair is enabled.     *)
(***************************************************************************)
EXTENDS TradePage, TLC

\* What a behaviour is about, and the variables of CenterFlow.
VARIABLES stretch, ship, parcelJobs, queue, events, landed, parcelFaults,
          inspection, desk, said, stage, route, arrived, passed

centerVars == <<ship, parcelJobs, queue, events, landed, parcelFaults,
                inspection, desk, said, stage, route, arrived, passed>>

S == INSTANCE MCShipping WITH
  A <- "A", B <- "B", Worker <- Handler, Admin <- {"m1"}, MaxCopies <- 1,
  MaxFaults <- 0, jobs <- parcelJobs, faults <- parcelFaults

----------------------------------------------------------------------------
(* A LOW risk trade whose items have been handed to the carrier, with all  *)
(* the handlers, so that nobody need use the page.                         *)

InTransit ==
  /\ trade = [state |-> "IN_TRANSIT", risk |-> "LOW", method |-> "shipping",
              timeout |-> "window", window |-> "open", proof |-> Party,
              paid |-> Party, pickup |-> {}, receipt |-> {}, addr |-> Party,
              center |-> {}, arrived |-> {}, passed |-> {}]
  /\ jobs = [h \in Handler |-> Idle]
  /\ proofPkgs = Party
  /\ audit = {<<"trade.initiated", "system">>, <<"trade.locked", "system">>,
              <<"trade.verification_started", "system">>,
              <<"trade.verified", "system">>,
              <<"trade.payment_received", "system">>,
              <<"trade.direct_shipping", "system">>}
             \cup {<<"trade.proof_submitted", p>> : p \in Party}
             \cup {<<"trade.address_submitted", p>> : p \in Party}
  /\ outbox = {"trade.initiated", "trade.locked", "trade.proof_submitted",
               "trade.verified"}
  /\ bus = {<<"payment.succeeded", p>> : p \in Party}
           \cup {<<"shipping.addresses_ready", "system">>}
  /\ faults = 0

----------------------------------------------------------------------------
DeliveryInit ==
  \/ /\ stretch = "transit" /\ InTransit
     /\ S!Init /\ route = "direct"
  \/ /\ stretch = "page" /\ Init
     /\ S!Init /\ route = "direct"
  \/ S!LiveInit /\ Init /\ trade.risk = "LOW"

DeliveryNext ==
  \/ /\ stretch = "transit" /\ Next
     /\ UNCHANGED <<centerVars, stretch>>
  \/ /\ stretch = "page" /\ PageNext
     /\ UNCHANGED <<centerVars, stretch>>
  \/ S!LiveNext /\ UNCHANGED vars

DeliverySpec ==
  /\ DeliveryInit
  /\ [][DeliveryNext]_<<vars, centerVars, stretch>>
  /\ Fairness /\ S!Fairness

----------------------------------------------------------------------------
\* Parcels with made-up numbers arrive and the trade is told: the property of
\* CenterFlow, for the behaviours about the parcels.
SimulatedArrives == S!SimulatedArrives

=============================================================================
