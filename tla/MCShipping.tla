----------------------------- MODULE MCShipping -----------------------------
(***************************************************************************)
(* CenterFlow for TLC.  The whole journey with every report of the carrier *)
(* is too large, so a behaviour is one stretch of it, with the executions  *)
(* of that stretch.  Every step is a step of CenterFlow!Next.              *)
(***************************************************************************)
EXTENDS CenterFlow, TLC

VARIABLE stretch

Symmetry == Permutations(Worker) \cup Permutations(Admin)

\* Reports of the carrier overlap each other and the cron job; a request
\* of a user overlaps the cron job and the reports that come during it.
Quiet == \A w \in Worker : Free(w)

----------------------------------------------------------------------------
(* From the addresses to the centers, or to the other party.               *)

OutInit == Init /\ stretch = "out"

OutNext ==
  \/ \E w \in Worker :
       \/ AddressesReady(w) /\ FlowUnchanged
       \/ Quiet /\ BuyLabel(w) /\ FlowUnchanged
       \/ Webhook(w) /\ FlowUnchanged
       \/ Quiet /\ PollTrade(w) /\ FlowUnchanged
       \/ Quiet /\ PollOne(w) /\ FlowUnchanged
       \/ Quiet /\ SimulateProgress(w) /\ FlowUnchanged
  \/ CronDelivers /\ FlowUnchanged
  \/ \E w \in Actor : Proceed(w) /\ FlowUnchanged
  \/ Cardinality(Worker) = 1 /\ AddressesReadyAgain
  \/ DirectReady \/ CenterReady \/ DirectDelivered
  \/ \E item \in Item : ItemAtCenter(item)

----------------------------------------------------------------------------
(* Straight to the other party, one request after the other, where the     *)
(* process dies between the two parcels: redelivery makes the first again. *)

DyingInit == Init /\ route = "direct" /\ stretch = "dying"

DyingNext ==
  \/ \E w \in Worker :
       \/ Quiet /\ AddressesReady(w) /\ FlowUnchanged
       \/ Quiet /\ BuyLabel(w) /\ FlowUnchanged
       \/ Quiet /\ Webhook(w) /\ FlowUnchanged
       \/ Quiet /\ SimulateProgress(w) /\ FlowUnchanged
       \/ Proceed(w) /\ FlowUnchanged
       \/ NextIs(w, "create") /\ Fault(w) /\ FlowUnchanged
  \/ DirectReady \/ DirectDelivered

----------------------------------------------------------------------------
(* The inspection: both items on their way to the centers or there.        *)

AtCenter(item, status) ==
  [leg |-> "to_center", item |-> item, n |-> 1] :> [status |-> status, label |-> "carrier"]

OnTheirWay(moving, waiting) ==
  /\ ship = AtCenter(A, IF A \in moving THEN "IN_TRANSIT" ELSE "DELIVERED")
            @@ AtCenter(B, IF B \in moving THEN "IN_TRANSIT" ELSE "DELIVERED")
  /\ jobs = [w \in Actor |-> Idle]
  /\ queue = waiting
  /\ landed = {[leg |-> "to_center", item |-> i, n |-> 1] : i \in Item \ moving}
  /\ faults = 0
  /\ route = "to_center"
  /\ desk = [a \in Admin |-> C!NoRequest]

CheckInit ==
  /\ \E moving \in SUBSET Item :
       /\ OnTheirWay(moving, {})
       /\ events = {<<"shipping.label_created", "to_center">>}
                   \cup IF moving = {} THEN {<<"center.item_received", "to_center">>} ELSE {}
  /\ inspection = [i \in Item |-> "pending"]
  /\ said = {}
  /\ stage = "SHIPPING_TO_CENTER" /\ arrived = {} /\ passed = {}
  /\ stretch = "check"

CheckNext ==
  \/ \E w \in Worker :
       \/ SecondLeg(w) /\ FlowUnchanged
       \/ Returns(w) /\ FlowUnchanged
       \/ CreateShipment(w) /\ FlowUnchanged
       \/ faults = 0 /\ Fault(w) /\ FlowUnchanged
  \/ \E item \in Item : ItemAtCenter(item) \/ VerificationApproved(item)
  \/ VerificationRejected
  \/ \E a \in Admin, item \in Item :
       ReceiveItem(a, item) \/ Approve(a, item) \/ Reject(a, item)
  \/ \E a \in Admin : SaveInspection(a)

----------------------------------------------------------------------------
(* The second leg: both items approved.                                    *)

HomeInit ==
  /\ OnTheirWay({}, {<<"center.both_verified", "trade">>})
  /\ events = {<<"shipping.label_created", "to_center">>,
               <<"center.item_received", "to_center">>}
  /\ inspection = [i \in Item |-> "approved"]
  /\ said = {"center.item_received", "center.verification_approved"} \X Item
  /\ stage = "CENTER_VERIFIED" /\ arrived = Item /\ passed = Item
  /\ stretch = "home"

HomeNext ==
  \/ \E w \in Worker :
       \/ SecondLeg(w) /\ FlowUnchanged
       \/ Quiet /\ BuyLabel(w) /\ FlowUnchanged
       \/ Webhook(w) /\ FlowUnchanged /\ Step(w)'.parcel.leg = "to_recipient"
       \/ Quiet /\ PollTrade(w) /\ FlowUnchanged
       \/ Quiet /\ PollOne(w) /\ FlowUnchanged
       \/ Quiet /\ SimulateProgress(w) /\ FlowUnchanged
  \/ CronDelivers /\ FlowUnchanged
  \/ \E w \in Actor : Proceed(w) /\ FlowUnchanged
  \/ Leg2InTransit \/ Leg2Delivered

----------------------------------------------------------------------------
MCInit == OutInit \/ DyingInit \/ CheckInit \/ HomeInit
MCNext ==
  /\ UNCHANGED stretch
  /\ \/ stretch = "out" /\ OutNext
     \/ stretch = "dying" /\ DyingNext
     \/ stretch = "check" /\ CheckNext
     \/ stretch = "home" /\ HomeNext
MCSpec == MCInit /\ [][MCNext]_<<flowVars, stretch>>

\* The stretches in which parcels are on their way, without what trade-service
\* makes of their messages.
LiveInit == OutInit \/ HomeInit
LiveNext ==
  /\ \/ stretch = "out" /\ (OutNext \/ AddressesReadyAgain)
     \/ stretch = "home" /\ HomeNext
  /\ UNCHANGED <<stretch, tradeVars>>

=============================================================================
