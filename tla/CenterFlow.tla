----------------------------- MODULE CenterFlow -----------------------------
(***************************************************************************)
(* One trade on its way through the verification centers: shipping-service *)
(* (Shipping), the centers (Centers) and the handlers of trade-service     *)
(* that answer their messages.  Those handlers are one step each here;     *)
(* TradeService looks inside them.                                         *)
(***************************************************************************)
EXTENDS Shipping

CONSTANTS Admin         \* moderators with a request in flight at a time

VARIABLES
  inspection, desk, said,       \* see Centers
  stage,        \* state of the trade from VERIFIED on
  route,        \* leg of the first parcels: a HIGH trade goes to centers
  arrived,      \* items whose itemXAtCenter is set
  passed        \* items whose itemXCenterVerified is set

C == INSTANCE Centers WITH Goods <- Item

checkVars == <<inspection, desk, said>>
tradeVars == <<stage, route, arrived, passed>>
flowVars == <<shipVars, checkVars, tradeVars>>

Stage == {"VERIFIED", "IN_TRANSIT", "SHIPPING_TO_CENTER", "CENTER_VERIFICATION",
          "CENTER_VERIFIED", "SHIPPING_TO_RECIPIENTS", "DELIVERED", "CANCELLED"}

\* A message of trade-service to the queues of shipping-service.
Send(m) ==
  /\ queue' = queue \cup {m}
  /\ UNCHANGED <<ship, jobs, events, landed, faults>>

\* checkAndPublishAddressesReady: both addresses, and both centers if HIGH.
Init ==
  /\ ship = [p \in {} |-> [status |-> "PENDING", label |-> "none"]]
  /\ jobs = [w \in Actor |-> Idle]
  /\ route \in {"direct", "to_center"}
  /\ queue = {<<"shipping.addresses_ready", route>>}
  /\ events = {} /\ landed = {} /\ faults = 0
  /\ C!CenterInit
  /\ stage = "VERIFIED" /\ arrived = {} /\ passed = {}

----------------------------------------------------------------------------
(* The handlers of trade-service.  A message that was published may be     *)
(* handled at any later time and again.                                    *)

\* submitAddress or selectCenter once more: the message is sent again.
AddressesReadyAgain ==
  /\ stage = "VERIFIED"
  /\ Send(<<"shipping.addresses_ready", route>>)
  /\ UNCHANGED <<checkVars, tradeVars>>

Move(from, to) ==
  /\ stage \in from
  /\ stage' = to
  /\ UNCHANGED <<shipVars, route, arrived, passed>>

\* shipping.label_created: handleDirectShippingReady, handleShippingReady.
DirectReady ==
  /\ <<"shipping.label_created", "direct">> \in events
  /\ Move({"VERIFIED"}, "IN_TRANSIT")
  /\ UNCHANGED checkVars

CenterReady ==
  /\ <<"shipping.label_created", "to_center">> \in events
  /\ Move({"VERIFIED"}, "SHIPPING_TO_CENTER")
  /\ C!OpenInspections

\* center.item_received, from shipping-service (for both items) and from
\* the centers: handleItemAtCenter, which goes on to the inspection.
ItemAtCenter(item) ==
  /\ \/ <<"center.item_received", "to_center">> \in events
     \/ <<"center.item_received", item>> \in said
  /\ arrived' = arrived \cup {item}
  /\ stage' = IF stage = "SHIPPING_TO_CENTER" /\ arrived' = Item
              THEN "CENTER_VERIFICATION" ELSE stage
  /\ UNCHANGED <<shipVars, checkVars, route, passed>>

\* As handleCenterVerificationApproved would be without its second test.
ApprovedByOne(item) ==
  /\ <<"center.verification_approved", item>> \in said
  /\ passed' = passed \cup {item}
  /\ IF stage = "CENTER_VERIFICATION"
     THEN stage' = "CENTER_VERIFIED" /\ Send(<<"center.both_verified", "trade">>)
     ELSE UNCHANGED <<stage, shipVars>>
  /\ UNCHANGED <<checkVars, route, arrived>>

\* center.verification_approved: handleCenterVerificationApproved.
VerificationApproved(item) ==
  /\ <<"center.verification_approved", item>> \in said
  /\ passed' = passed \cup {item}
  /\ IF stage = "CENTER_VERIFICATION" /\ passed' = Item
     THEN stage' = "CENTER_VERIFIED" /\ Send(<<"center.both_verified", "trade">>)
     ELSE UNCHANGED <<stage, shipVars>>
  /\ UNCHANGED <<checkVars, route, arrived>>

\* center.verification_rejected: handleCenterVerificationRejected publishes
\* the same routing key again, with the parties.
VerificationRejected ==
  /\ \E item \in Item : <<"center.verification_rejected", item>> \in said
  /\ stage = "CENTER_VERIFICATION"
  /\ stage' = "CANCELLED"
  /\ Send(<<"center.verification_rejected", "trade">>)
  /\ UNCHANGED <<checkVars, route, arrived, passed>>

\* shipping.in_transit and shipping.delivered of the second leg.
Leg2InTransit ==
  /\ <<"shipping.in_transit", "to_recipient">> \in events
  /\ Move({"CENTER_VERIFIED"}, "SHIPPING_TO_RECIPIENTS")
  /\ UNCHANGED checkVars

Leg2Delivered ==
  /\ <<"shipping.delivered", "to_recipient">> \in events
  /\ Move({"CENTER_VERIFIED", "SHIPPING_TO_RECIPIENTS"}, "DELIVERED")
  /\ UNCHANGED checkVars

DirectDelivered ==
  /\ <<"shipping.delivered", "direct">> \in events
  /\ Move({"VERIFIED", "IN_TRANSIT"}, "DELIVERED")
  /\ UNCHANGED checkVars

----------------------------------------------------------------------------
(* The centers: a message they publish also reaches shipping-service.      *)

ReceiveItem(a, item) == C!MarkItemReceived(a, item) /\ UNCHANGED <<shipVars, tradeVars>>
Approve(a, item) == C!ApproveVerification(a, item) /\ UNCHANGED <<shipVars, tradeVars>>
Reject(a, item) == C!RejectVerification(a, item) /\ UNCHANGED <<shipVars, tradeVars>>

SaveInspection(a) ==
  /\ C!SaveVerification(a)
  /\ IF desk[a][1] = "rejected"
     THEN Send(<<"center.verification_rejected", "center">>)
     ELSE UNCHANGED shipVars
  /\ UNCHANGED tradeVars

FlowUnchanged == UNCHANGED <<checkVars, tradeVars>>

Next ==
  \/ \E w \in Worker :
       \/ AddressesReady(w) /\ FlowUnchanged
       \/ SecondLeg(w) /\ FlowUnchanged
       \/ Returns(w) /\ FlowUnchanged
       \/ BuyLabel(w) /\ FlowUnchanged
       \/ Webhook(w) /\ FlowUnchanged
       \/ PollTrade(w) /\ FlowUnchanged
       \/ PollOne(w) /\ FlowUnchanged
       \/ SimulateProgress(w) /\ FlowUnchanged
  \/ CronDelivers /\ FlowUnchanged
  \/ \E w \in Actor : Proceed(w) /\ FlowUnchanged
  \/ \E w \in Actor : Fault(w) /\ FlowUnchanged
  \/ AddressesReadyAgain \/ DirectReady \/ CenterReady \/ VerificationRejected
  \/ Leg2InTransit \/ Leg2Delivered \/ DirectDelivered
  \/ \E item \in Item : ItemAtCenter(item) \/ VerificationApproved(item)
  \/ \E a \in Admin, item \in Item :
       ReceiveItem(a, item) \/ Approve(a, item) \/ Reject(a, item)
  \/ \E a \in Admin : SaveInspection(a)

Spec == Init /\ [][Next]_flowVars

\* What the service does by itself: the steps of an execution that began,
\* the cron job, and the delivery of messages that wait.
Fairness ==
  /\ \A w \in Actor : WF_flowVars(Proceed(w) /\ FlowUnchanged)
  /\ WF_flowVars(CronDelivers /\ FlowUnchanged)

FairSpec == Spec /\ Fairness

----------------------------------------------------------------------------
(* Properties.                                                             *)

TypeOK ==
  /\ DOMAIN ship \subseteq Parcel
  /\ \A p \in DOMAIN ship : ship[p] \in Row
  /\ \A w \in Actor : \A i \in DOMAIN jobs[w].steps :
       jobs[w].steps[i].do \in StepKind
  /\ \A e \in events : e[2] \in Leg
  /\ landed \subseteq DOMAIN ship
  /\ faults \in 0..MaxFaults
  /\ inspection \in [Item -> {"none", "pending", "item_received"} \cup C!Verdict]
  /\ stage \in Stage /\ route \in {"direct", "to_center"}
  /\ arrived \subseteq Item /\ passed \subseteq Item

\* An item leaves its center for the other party only when both items of
\* the trade were approved and the trade took note of both (the second leg
\* of shipments.service.ts, against handleCenterVerificationApproved and
\* approveVerification).
ReleaseNeedsApprovals ==
  OnLeg({"to_recipient"}) # {} =>
    /\ passed = Item
    /\ \A item \in Item : <<"center.verification_approved", item>> \in said

\* A trade counts as delivered only when both items reached a party, not
\* just a center (checkAndNotifyBothDelivered and the handlers of
\* shipping.delivered), however late and often the carrier reports.  The
\* exception is an item of which two parcels were made, both of which
\* arrived: the check counts parcels and does not ask whose they are.
Reached(item) ==
  \E p \in landed : p.item = item /\ p.leg \in {"direct", "to_recipient"}
CameTwice(item) ==
  \E p, q \in landed :
    /\ p # q /\ p.item = item /\ q.item = item
    /\ p.leg = q.leg /\ p.leg \in {"direct", "to_recipient"}
DeliveredTradeArrived ==
  stage = "DELIVERED" =>
    \/ \A item \in Item : Reached(item)
    \/ \E item \in Item : CameTwice(item)

\* Two parcels with made-up numbers do arrive and the trade is told, also
\* when a party's poll puts a status back (the cron job, the checks after
\* each save, syncShipmentStatusFromProvider).
SimulatedPair(leg) ==
  Pair(OnLeg({leg})) /\ \A p \in OnLeg({leg}) : ship[p].label = "sim"
Told(leg) ==
  <<IF leg = "to_center" THEN "center.item_received" ELSE "shipping.delivered", leg>>
    \in events
SimulatedArrives ==
  \A leg \in Leg \ {"return"} : SimulatedPair(leg) ~> Told(leg)

\* shipments.service.ts:206 says that return shipments are created on
\* center.verification_rejected.
ReturnsFollowRejection ==
  OnLeg({"return"}) # {} =>
    \E item \in Item : <<"center.verification_rejected", item>> \in said

=============================================================================
