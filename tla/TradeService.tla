----------------------------- MODULE TradeService -----------------------------
(***************************************************************************)
(* trade-service: one row of the trades table, the rows that hang off it   *)
(* (proof_packages, trade_events, outbox) and the handler executions that  *)
(* read and write it (trades.service.ts, the two cron schedulers).         *)
(*                                                                         *)
(* Every handler has the same shape in the code: findOne() takes a copy of *)
(* the row, the guard is tested on the copy, the copy is changed, and      *)
(* manager.save(copy) writes it back.  save() of TypeORM is two statements:*)
(* a SELECT of the row as it is now, and an UPDATE of the columns in which *)
(* the copy differs from that row.  Nothing compares the version column.   *)
(* So a handler is a job with a copy "ent" that goes through the points    *)
(*   "load"    the SELECT inside save()                                    *)
(*   "update"  the UPDATE and the inserts of the same transaction          *)
(*   other     what the handler does after its first commit: a second      *)
(*             transaction, a re-read, a direct publish.                   *)
(* With one Handler the handlers run one at a time; with two they overlap. *)
(***************************************************************************)
EXTENDS TradeStateMachine, Naturals

CONSTANTS Handler,      \* handler executions that may be in flight together
          MaxFaults     \* how many executions may die half way (a bound)

ASSUME PartyAssumption == "system" \notin Party
ASSUME FaultsAssumption == MaxFaults \in Nat

VARIABLES
  trade,        \* the row in trades
  jobs,         \* the handler executions in flight
  proofPkgs,    \* parties with a row in proof_packages
  audit,        \* rows of trade_events, as <<eventType, party or "system">>
  outbox,       \* routing keys this trade has in the outbox table
  bus,          \* messages exchanged over RabbitMQ, as <<key, party>>
  faults        \* executions that have died so far

vars == <<trade, jobs, proofPkgs, audit, outbox, bus, faults>>

----------------------------------------------------------------------------
(* The row.                                                                *)

\* timeoutAt is a step deadline, the end of the dispute window, or past.
Trade ==
  [state : TradeState, risk : {"LOW", "HIGH"},
   method : {"none", "shipping", "local_pickup"},
   timeout : {"step", "window", "past"}, window : {"none", "open", "past"},
   proof : SUBSET Party, paid : SUBSET Party, pickup : SUBSET Party,
   receipt : SUBSET Party, addr : SUBSET Party, center : SUBSET Party,
   arrived : SUBSET Party, passed : SUBSET Party]

\* The columns of ent that differ from base overwrite those of row.
MergeValue(row, base, ent) == IF ent # base THEN ent ELSE row
MergeSet(row, base, ent) == (row \cup (ent \ base)) \ (base \ ent)

Merge(row, base, ent) ==
  [state |-> MergeValue(row.state, base.state, ent.state),
   risk |-> row.risk,
   method |-> MergeValue(row.method, base.method, ent.method),
   timeout |-> MergeValue(row.timeout, base.timeout, ent.timeout),
   window |-> MergeValue(row.window, base.window, ent.window),
   proof |-> MergeSet(row.proof, base.proof, ent.proof),
   paid |-> MergeSet(row.paid, base.paid, ent.paid),
   pickup |-> MergeSet(row.pickup, base.pickup, ent.pickup),
   receipt |-> MergeSet(row.receipt, base.receipt, ent.receipt),
   addr |-> MergeSet(row.addr, base.addr, ent.addr),
   center |-> MergeSet(row.center, base.center, ent.center),
   arrived |-> MergeSet(row.arrived, base.arrived, ent.arrived),
   passed |-> MergeSet(row.passed, base.passed, ent.passed)]

----------------------------------------------------------------------------
(* The handler executions.                                                 *)

\* Messages sent with rabbitMQService.publish after the commit.
Publication ==
  {"shipping.addresses_ready", "center.both_verified",
   "center.verification_rejected"}

\* Points that read the row again, with the event they will try.
ReRead ==
  [complete |-> "dispute_window_expired", cancel |-> "cancel",
   pickup |-> "local_pickup_confirmed", shipReady |-> "shipping_ready",
   directReady |-> "direct_shipping_ready"]

\* Points that go on with the copy they have, with the event they will try.
GoOn ==
  [arrive |-> "both_items_at_center", inspect |-> "center_inspection_started",
   pass |-> "both_items_center_verified"]

Then == {"idle", "pickup"} \cup DOMAIN GoOn \cup Publication

Actor == Party \cup {"system"}

\* A copy on its way to the database: the trade_events row and the outbox
\* keys of the same transaction, and what the handler does after it.  The
\* party is kept where a property asks whose proof, address or pickup it was.
Save(who, ent, event, keys, then) ==
  [at |-> "load", who |-> who, ent |-> ent, base |-> ent,
   event |-> event, keys |-> keys, then |-> then]

Idle == [at |-> "idle"]
At(point) == [at |-> point]

Free(h) == jobs[h].at = "idle"
SetJob(h, job) == jobs' = [jobs EXCEPT ![h] = job]

\* A handler reads the row and decides what to write.
Begin(h, job) ==
  /\ SetJob(h, job)
  /\ UNCHANGED <<trade, proofPkgs, audit, outbox, bus, faults>>

\* The same for the consumer of a message, which the history keeps.
Receive(h, msg, job) ==
  /\ SetJob(h, job)
  /\ bus' = bus \cup {msg}
  /\ UNCHANGED <<trade, proofPkgs, audit, outbox, faults>>

CanFire(t, event) == \E to \in TradeState : Transition(t, event, to)

\* createFromOffer: the trade of an accepted offer.
Init ==
  /\ \E r \in {"LOW", "HIGH"} :
       trade = [state |-> "ACCEPTED", risk |-> r, method |-> "none",
                timeout |-> "step", window |-> "none", proof |-> {},
                paid |-> {}, pickup |-> {}, receipt |-> {}, addr |-> {},
                center |-> {}, arrived |-> {}, passed |-> {}]
  /\ jobs = [h \in Handler |-> Idle]
  /\ proofPkgs = {}
  /\ audit = {<<"trade.initiated", "system">>}
  /\ outbox = {"trade.initiated"}
  /\ bus = {}
  /\ faults = 0

----------------------------------------------------------------------------
(* Requests of the parties and the moderators.                             *)

LockInAnyState(h) ==
  /\ Free(h)
  /\ Begin(h, Save("system",
                   [trade EXCEPT !.state = "LOCKED", !.timeout = "step"],
                   "trade.locked", {"trade.locked"}, "idle"))

\* The Redis locks lockItems needs are the subject of module Market; a
\* call that does not get them rolls back and is no step here.
LockItems(h) == \E to \in TradeState :
  /\ Free(h)
  /\ Transition(trade, "items_locked", to)
  /\ Begin(h, Save("system",
                   [trade EXCEPT !.state = to, !.timeout = "step"],
                   "trade.locked", {"trade.locked"}, "idle"))

\* No state is required: only the transition is conditional.
SubmitProof(h, p) ==
  LET t == [trade EXCEPT !.proof = @ \cup {p}, !.timeout = "step"]
  IN \E to \in TradeState :
       /\ Free(h)
       /\ \/ Transition(t, "proof_submitted", to)
          \/ ~CanFire(t, "proof_submitted") /\ to = t.state
       /\ Begin(h, Save(p, [t EXCEPT !.state = to], "trade.proof_submitted",
                        {"trade.proof_submitted"}, "idle"))

BeginVerification(h) == \E to \in TradeState :
  /\ Free(h)
  /\ Transition(trade, "begin_verification", to)
  /\ Begin(h, Save("system", [trade EXCEPT !.state = to, !.timeout = "step"],
                   "trade.verification_started", {}, "idle"))

Verify(h) == \E to \in TradeState :
  /\ Free(h)
  /\ Transition(trade, "verified", to)
  /\ Begin(h, Save("system", [trade EXCEPT !.state = to, !.window = "open",
                                           !.timeout = "window"],
                   "trade.verified", {"trade.verified"}, "idle"))

RejectVerification(h) == \E to \in TradeState :
  /\ Free(h)
  /\ Transition(trade, "verification_rejected", to)
  /\ Begin(h, Save("system", [trade EXCEPT !.state = to, !.proof = {},
                                           !.timeout = "step"],
                   "trade.verification_rejected", {}, "idle"))

\* Called by any user (POST /trades/:id/complete) and by the schedulers; it
\* does not look at the end of the dispute window.
CompleteTrade(h) == \E to \in TradeState :
  /\ Free(h) \/ jobs[h].at = "complete"
  /\ Transition(trade, "dispute_window_expired", to)
  /\ Begin(h, Save("system", [trade EXCEPT !.state = to],
                   "trade.completed", {"trade.completed"}, "idle"))

\* Until both have confirmed only the flag is saved, with no trade_events row.
ConfirmReceipt(h, p) ==
  LET t == [trade EXCEPT !.receipt = @ \cup {p}]
  IN /\ Free(h)
     /\ trade.state = "DELIVERED"
     /\ \/ /\ t.receipt # Party
           /\ Begin(h, Save("system", t, "none", {}, "idle"))
        \/ \E to \in TradeState :
             /\ t.receipt = Party
             /\ Transition(t, "buyer_confirmed_receipt", to)
             /\ Begin(h, Save("system", [t EXCEPT !.state = to],
                      "trade.receipt_confirmed", {"trade.completed"}, "idle"))

ReopenDispute(h) ==
  /\ Free(h)
  /\ trade.state \in {"DELIVERED", "COMPLETED"}
  /\ Begin(h, Save("system", [trade EXCEPT !.state = "DISPUTE_OPEN"],
                   "trade.dispute_opened", {"trade.dispute_opened"}, "idle"))

OpenDispute(h) == \E to \in TradeState :
  /\ Free(h)
  /\ Transition(trade, "dispute_opened", to)
  /\ Begin(h, Save("system", [trade EXCEPT !.state = to],
                   "trade.dispute_opened", {"trade.dispute_opened"}, "idle"))

CancelSilently(h) == \E to \in TradeState :
  /\ Free(h) \/ jobs[h].at = "cancel"
  /\ Transition(trade, "cancel", to)
  /\ Begin(h, Save("system", [trade EXCEPT !.state = to],
                   "trade.cancelled", {}, "idle"))

\* By a party, or by the timeout scheduler as 'system'.
CancelTrade(h) == \E to \in TradeState :
  /\ Free(h) \/ jobs[h].at = "cancel"
  /\ Transition(trade, "cancel", to)
  /\ Begin(h, Save("system", [trade EXCEPT !.state = to],
                   "trade.cancelled", {"trade.cancelled"}, "idle"))

SetShippingMethod(h, m) ==
  /\ Free(h)
  /\ trade.state = "VERIFIED"
  /\ Begin(h, Save("system", [trade EXCEPT !.method = m], "none", {}, "idle"))

\* checkAndPublishAddressesReady, on the entity just saved.
AddressesReady(t) ==
  /\ t.addr = Party
  /\ t.method = "shipping" /\ t.risk = "HIGH" => t.center = Party

AfterAddresses(t) ==
  IF AddressesReady(t) THEN "shipping.addresses_ready" ELSE "idle"

SelectCenter(h, p) ==
  LET t == [trade EXCEPT !.center = @ \cup {p}]
  IN /\ Free(h)
     /\ trade.state = "VERIFIED"
     /\ trade.risk = "HIGH"
     /\ Begin(h, Save("system", t, "trade.center_selected", {}, AfterAddresses(t)))

SubmitAddress(h, p) ==
  LET t == [trade EXCEPT !.addr = @ \cup {p},
              !.method = IF @ = "none" THEN "shipping" ELSE @]
  IN /\ Free(h)
     /\ trade.state \in {"VERIFIED", "AWAITING_SHIPMENT"}
     /\ Begin(h, Save(p, t, "trade.address_submitted", {}, AfterAddresses(t)))

ConfirmLocalPickup(h, p) ==
  LET t == [trade EXCEPT !.pickup = @ \cup {p},
              !.method = IF @ = "none" THEN "local_pickup" ELSE @]
  IN /\ Free(h)
     /\ trade.state = "VERIFIED"
     /\ Begin(h, Save(p, t, "trade.local_pickup_partial", {}, "pickup"))

CompleteLocalPickup(h) == \E to \in TradeState :
  /\ jobs[h].at = "pickup"
  /\ Transition(trade, "local_pickup_confirmed", to)
  /\ Begin(h, Save("system",
                   [trade EXCEPT !.state = to, !.window = "open",
                                 !.timeout = "window"],
                   "trade.local_pickup_confirmed", {}, "idle"))

----------------------------------------------------------------------------
(* Consumers of RabbitMQ messages.  What another service sends is enabled  *)
(* once this service has published what makes it possible; delivery is at  *)
(* least once and in any order, so a message may be handled again.         *)

\* handlePaymentSucceeded writes its columns with one UPDATE of its own.
PaymentSucceeded(h, p, allComplete) ==
  /\ Free(h)
  /\ "trade.verified" \in outbox
  /\ trade' = IF allComplete THEN [trade EXCEPT !.paid = @ \cup {p}] ELSE trade
  /\ audit' = audit \cup {<<"trade.payment_received", "system">>}
  /\ bus' = IF allComplete THEN bus \cup {<<"payment.succeeded", p>>} ELSE bus
  /\ SetJob(h, At("advance"))
  /\ UNCHANGED <<proofPkgs, outbox, faults>>

\* ... and then reads the row again to see what the payment has made possible.
AfterPayment(t) ==
  CASE ~(t.state = "VERIFIED" /\ t.paid = Party) -> "idle"
    [] t.method = "shipping" /\ t.addr = Party /\ t.risk = "HIGH"
         /\ t.center = Party -> "shipReady"
    [] t.method = "shipping" /\ t.addr = Party /\ t.risk # "HIGH"
         -> "directReady"
    [] t.method = "local_pickup" /\ t.pickup = Party -> "pickup"
    [] OTHER -> "idle"

Advance(h) ==
  /\ jobs[h].at = "advance"
  /\ Begin(h, IF AfterPayment(trade) = "idle" THEN Idle
              ELSE At(AfterPayment(trade)))

\* Shipments exist once shipping-service has been told the addresses.
ShipmentsExist == <<"shipping.addresses_ready", "system">> \in bus

\* handleShippingReady, after a payment or on label_created of both parties.
\* It also creates the two center_verifications rows.
ShippingReady(h) == \E to \in TradeState :
  /\ jobs[h].at = "shipReady" \/ (Free(h) /\ ShipmentsExist)
  /\ Transition(trade, "shipping_ready", to)
  /\ Begin(h, Save("system", [trade EXCEPT !.state = to],
                   "trade.awaiting_shipment", {}, "idle"))

DirectShippingReady(h) == \E to \in TradeState :
  /\ jobs[h].at = "directReady" \/ (Free(h) /\ ShipmentsExist)
  /\ Transition(trade, "direct_shipping_ready", to)
  /\ Begin(h, Save("system", [trade EXCEPT !.state = to],
                   "trade.direct_shipping", {}, "idle"))

\* A delivered message is accepted in state through, and also in a state
\* of early from which the event ready leads to through.
Delivered(h, early, ready, through) == \E to \in TradeState :
  /\ Free(h)
  /\ \/ trade.state = through
     \/ trade.state \in early /\ Transition(trade, ready, through)
  /\ Transition([trade EXCEPT !.state = through],
                "all_shipments_delivered", to)
  /\ Begin(h, Save("system", [trade EXCEPT !.state = to, !.window = "open",
                                           !.timeout = "window"],
                   "trade.delivered", {}, "idle"))

DirectShipmentDelivered(h) ==
  /\ ShipmentsExist
  /\ Delivered(h, {"VERIFIED", "AWAITING_SHIPMENT"},
               "direct_shipping_ready", "IN_TRANSIT")

\* The second leg starts when shipping-service hears center.both_verified.
Leg2Exists == <<"center.both_verified", "system">> \in bus

Leg2InTransit(h) == \E to \in TradeState :
  /\ Free(h) /\ Leg2Exists
  /\ trade.state = "CENTER_VERIFIED"
  /\ Transition(trade, "all_shipments_in_transit", to)
  /\ Begin(h, Save("system", [trade EXCEPT !.state = to],
                   "trade.shipping_to_recipients", {}, "idle"))

Leg2Delivered(h) ==
  /\ Leg2Exists
  /\ Delivered(h, {"CENTER_VERIFIED"}, "all_shipments_in_transit",
               "SHIPPING_TO_RECIPIENTS")

\* The rows a center's staff works on exist once ShippingReady has committed.
CenterChecksExist == <<"trade.awaiting_shipment", "system">> \in audit

\* center.item_received comes from shipping-service when the parcels of the
\* first leg have been delivered, or from the staff; no state is required.
ItemAtCenter(h, p) ==
  /\ Free(h) /\ (ShipmentsExist \/ CenterChecksExist)
  /\ Begin(h, Save("system", [trade EXCEPT !.arrived = @ \cup {p}],
                   "none", {}, "arrive"))

ApproveBothItems(h, p) ==
  /\ Free(h) /\ CenterChecksExist
  /\ Receive(h, <<"center.verification_approved", p>>,
             Save("system", [trade EXCEPT !.passed = Party],
                  "none", {}, "pass"))

CenterVerificationApproved(h, p) ==
  /\ Free(h) /\ CenterChecksExist
  /\ Receive(h, <<"center.verification_approved", p>>,
             Save("system", [trade EXCEPT !.passed = @ \cup {p}],
                  "none", {}, "pass"))

CenterVerificationRejected(h) == \E to \in TradeState :
  /\ Free(h) /\ CenterChecksExist
  /\ Transition(trade, "center_verification_rejected", to)
  /\ Begin(h, Save("system", [trade EXCEPT !.state = to],
                   "trade.center_verification_rejected", {"trade.cancelled"},
                   "center.verification_rejected"))

\* The transactions that follow the flag, with the copy already in memory.
NextTransaction(h, point, event, then) == \E to \in TradeState :
  /\ jobs[h].at = point
  /\ Transition(jobs[h].ent, GoOn[point], to)
  /\ Begin(h, Save("system", [jobs[h].ent EXCEPT !.state = to],
                   event, {}, then))

BothItemsAtCenter(h) ==
  NextTransaction(h, "arrive", "trade.at_center", "inspect")
CenterInspectionStarted(h) ==
  NextTransaction(h, "inspect", "trade.center_inspection_started", "idle")
BothItemsCenterVerified(h) ==
  NextTransaction(h, "pass", "trade.center_verified", "center.both_verified")

ResolveFromDispute(h, outcome) == \E to \in TradeState :
  /\ Free(h)
  /\ "trade.dispute_opened" \in outbox
  /\ IF outcome = "revoked"
     THEN /\ Transition(trade, "trade_revoked", to)
          /\ Begin(h, Save("system", [trade EXCEPT !.state = to],
                           "trade.revoked", {"trade.cancelled"}, "idle"))
     ELSE /\ Transition(trade, "dispute_resolved", to)
          /\ Begin(h, Save("system", [trade EXCEPT !.state = to],
                           "trade.completed", {"trade.completed"}, "idle"))

----------------------------------------------------------------------------
(* Schedulers: each decides on the copy it found, then calls a handler     *)
(* that reads the row again.                                               *)

TimeoutScanNotInTransit(h) ==
  /\ Free(h)
  /\ trade.timeout = "past" /\ trade.state \notin Terminal \cup {"IN_TRANSIT"}
  /\ Begin(h, IF \/ trade.state \in {"DELIVERED", "SHIPPING_TO_RECIPIENTS"}
                 \/ trade.state = "VERIFIED" /\ trade.method = "none"
              THEN At("complete")
              ELSE At("cancel"))

TimeoutScan(h) ==
  /\ Free(h)
  /\ trade.timeout = "past" /\ trade.state \notin Terminal
  /\ Begin(h, IF \/ trade.state \in {"DELIVERED", "SHIPPING_TO_RECIPIENTS"}
                 \/ trade.state = "VERIFIED" /\ trade.method = "none"
              THEN At("complete")
              ELSE At("cancel"))

DeliveryScanByTimeout(h) ==
  /\ Free(h)
  /\ trade.state = "DELIVERED" /\ trade.timeout = "past"
  /\ Begin(h, At("complete"))

DeliveryScan(h) ==
  /\ Free(h)
  /\ trade.state = "DELIVERED" /\ trade.window = "past"
  /\ Begin(h, At("complete"))

----------------------------------------------------------------------------
(* What every handler does with its copy.                                  *)

\* The SELECT inside save().
Load(h) ==
  /\ jobs[h].at = "load"
  /\ Begin(h, [jobs[h] EXCEPT !.at = "update", !.base = trade])

After(j) ==
  CASE j.then = "idle" -> Idle
    [] j.then \in DOMAIN GoOn -> [at |-> j.then, ent |-> j.ent]
    [] OTHER -> At(j.then)

\* The tables once the transaction of j has committed.
PackagesWith(j, pkgs) ==
  IF j.event = "trade.proof_submitted" THEN pkgs \cup {j.who} ELSE pkgs
AuditWith(j, evs) ==
  IF j.event = "none" THEN evs ELSE evs \cup {<<j.event, j.who>>}

\* The UPDATE of save() and the other rows of the transaction, committed.
Update(h) ==
  LET j == jobs[h]
  IN /\ j.at = "update"
     /\ trade' = Merge(trade, j.base, j.ent)
     /\ proofPkgs' = PackagesWith(j, proofPkgs)
     /\ audit' = AuditWith(j, audit)
     /\ outbox' = outbox \cup j.keys
     /\ SetJob(h, After(j))
     /\ UNCHANGED <<bus, faults>>

Publish(h) ==
  /\ jobs[h].at \in Publication
  /\ Receive(h, <<jobs[h].at, "system">>, Idle)

\* A second step whose guard fails returns, throws, or logs: nothing follows.
GiveUp(h) ==
  LET j == jobs[h]
  IN /\ \/ j.at \in DOMAIN ReRead /\ ~CanFire(trade, ReRead[j.at])
        \/ j.at \in DOMAIN GoOn /\ ~CanFire(j.ent, GoOn[j.at])
     /\ Begin(h, Idle)

\* The execution dies: its transaction rolls back and nothing follows.
Fault(h) ==
  /\ ~Free(h)
  /\ faults < MaxFaults
  /\ faults' = faults + 1
  /\ SetJob(h, Idle)
  /\ UNCHANGED <<trade, proofPkgs, audit, outbox, bus>>

\* A deadline passes, in the row and in every copy of it.
Pass(t, d) ==
  [t EXCEPT !.timeout = IF @ = d THEN "past" ELSE @,
            !.window = IF d = "window" /\ @ = "open" THEN "past" ELSE @]

Elapse(d) ==
  /\ Pass(trade, d) # trade
  /\ trade' = Pass(trade, d)
  /\ jobs' = [h \in Handler |->
                CASE jobs[h].at \in {"load", "update"} ->
                       [jobs[h] EXCEPT !.ent = Pass(@, d), !.base = Pass(@, d)]
                  [] jobs[h].at \in DOMAIN GoOn ->
                       [jobs[h] EXCEPT !.ent = Pass(@, d)]
                  [] OTHER -> jobs[h]]
  /\ UNCHANGED <<proofPkgs, audit, outbox, bus, faults>>

----------------------------------------------------------------------------
Request(h) ==
  \/ BeginVerification(h) \/ Verify(h) \/ RejectVerification(h)
  \/ CompleteTrade(h) \/ LockItems(h) \/ OpenDispute(h)
  \/ CancelTrade(h)
  \/ \E p \in Party :
       \/ SubmitProof(h, p) \/ ConfirmReceipt(h, p)
       \/ SelectCenter(h, p) \/ SubmitAddress(h, p)
       \/ ConfirmLocalPickup(h, p)
  \/ \E m \in {"shipping", "local_pickup"} : SetShippingMethod(h, m)

Consume(h) ==
  \/ \E p \in Party :
       \/ \E all \in BOOLEAN : PaymentSucceeded(h, p, all)
       \/ ItemAtCenter(h, p) \/ CenterVerificationApproved(h, p)
  \/ ShippingReady(h) \/ DirectShippingReady(h) \/ DirectShipmentDelivered(h)
  \/ Leg2InTransit(h) \/ Leg2Delivered(h) \/ CenterVerificationRejected(h)
  \/ \E outcome \in {"completed", "revoked"} : ResolveFromDispute(h, outcome)

\* The steps of an execution already in flight.
Proceed(h) ==
  \/ Load(h) \/ Update(h) \/ Publish(h) \/ GiveUp(h) \/ Advance(h)
  \/ CompleteLocalPickup(h) \/ BothItemsAtCenter(h)
  \/ CenterInspectionStarted(h) \/ BothItemsCenterVerified(h)

Next ==
  \/ \E h \in Handler :
       \/ Request(h) \/ Consume(h) \/ Proceed(h)
       \/ TimeoutScan(h) \/ DeliveryScan(h) \/ Fault(h)
  \/ \E d \in {"step", "window"} : Elapse(d)

Spec == Init /\ [][Next]_vars

----------------------------------------------------------------------------
(* Types.                                                                  *)

EventType ==
  {"none", "trade.initiated", "trade.locked", "trade.proof_submitted",
   "trade.verification_started", "trade.verified",
   "trade.verification_rejected", "trade.completed",
   "trade.receipt_confirmed", "trade.dispute_opened", "trade.cancelled",
   "trade.center_selected", "trade.address_submitted",
   "trade.local_pickup_partial", "trade.local_pickup_confirmed",
   "trade.payment_received", "trade.awaiting_shipment",
   "trade.direct_shipping", "trade.delivered",
   "trade.shipping_to_recipients", "trade.center_verification_rejected",
   "trade.at_center", "trade.center_inspection_started",
   "trade.center_verified", "trade.revoked"}

RoutingKey ==
  {"trade.initiated", "trade.locked", "trade.proof_submitted",
   "trade.verified", "trade.completed", "trade.dispute_opened",
   "trade.cancelled"}

MessageKey ==
  Publication \cup {"payment.succeeded", "center.verification_approved"}

\* An execution inside save(), after a commit with its copy, and without one.
Saving ==
  [at : {"load", "update"}, who : Actor, ent : Trade, base : Trade,
   event : EventType, keys : SUBSET RoutingKey, then : Then]
Going == [at : DOMAIN GoOn, ent : Trade]
Pointing == [at : DOMAIN ReRead \cup Publication \cup {"idle", "advance"}]

Job == Saving \cup Going \cup Pointing

\* The row, the copies in memory and the tables have the types of the entities.
TypeOK ==
  /\ trade \in Trade
  /\ jobs \in [Handler -> Job]
  /\ proofPkgs \subseteq Party
  /\ audit \subseteq EventType \X Actor
  /\ outbox \subseteq RoutingKey
  /\ bus \subseteq MessageKey \X Actor
  /\ faults \in 0 .. MaxFaults

----------------------------------------------------------------------------
(* Safety that must hold however the handlers overlap.                     *)

\* The states that are only reached through VERIFIED.
Vetted ==
  {"VERIFIED", "AWAITING_SHIPMENT", "IN_TRANSIT", "SHIPPING_TO_CENTER",
   "AT_CENTER", "CENTER_VERIFICATION", "CENTER_VERIFIED",
   "SHIPPING_TO_RECIPIENTS", "DELIVERED", "DISPUTE_OPEN", "COMPLETED",
   "REVOKED"}

\* The states in which an item has been handed to a carrier or a recipient.
Shipped ==
  {"IN_TRANSIT", "SHIPPING_TO_CENTER", "AT_CENTER", "CENTER_VERIFICATION",
   "CENTER_VERIFIED", "SHIPPING_TO_RECIPIENTS", "DELIVERED"}

\* The states of the route through a verification center.
CenterRoute ==
  {"SHIPPING_TO_CENTER", "AT_CENTER", "CENTER_VERIFICATION",
   "CENTER_VERIFIED", "SHIPPING_TO_RECIPIENTS"}

Approved(msgs) == \A p \in Party : <<"center.verification_approved", p>> \in msgs
PickedUp(evs) == \A p \in Party : <<"trade.local_pickup_partial", p>> \in evs

\* "ALL trades require moderator verification" and "both parties to submit
\* proof" (transitions.ts): no trade is verified, shipped, disputed or
\* completed unless a moderator's verify() committed and both parties have a
\* stored proof package, whatever stale copies are written back.
AntiScamGate ==
  trade.state \in Vetted =>
    /\ <<"trade.verified", "system">> \in audit
    /\ proofPkgs = Party

\* No item moves before a complete payment of each of the two parties has
\* been consumed (guards of VERIFIED -> IN_TRANSIT / SHIPPING_TO_CENTER /
\* DELIVERED), even when the paid columns are overwritten by a stale copy.
PaymentGate ==
  trade.state \in Shipped =>
    \A p \in Party : <<"payment.succeeded", p>> \in bus

\* A HIGH risk trade is never shipped directly, only HIGH risk trades go
\* through a center, and an item leaves the centers, or arrives by carrier,
\* only after the center approved both items; a HIGH risk trade may also be
\* delivered by a local pickup that both parties confirmed.
CenterGate ==
  /\ trade.state \in CenterRoute => trade.risk = "HIGH"
  /\ trade.state = "IN_TRANSIT" => trade.risk # "HIGH"
  /\ trade.state \in {"CENTER_VERIFIED", "SHIPPING_TO_RECIPIENTS"} => Approved(bus)
  /\ trade.state = "DELIVERED" /\ trade.risk = "HIGH" =>
        Approved(bus) \/ PickedUp(audit)

\* The outbox promise of the README: the event that tells payment-service and
\* listing-service of the outcome is committed with the outcome, so there is
\* no settled trade whose escrow nobody will be told to settle.
OutcomeAnnounced ==
  /\ trade.state = "COMPLETED" => "trade.completed" \in outbox
  /\ trade.state \in {"CANCELLED", "REVOKED"} => "trade.cancelled" \in outbox
  /\ trade.state = "DISPUTE_OPEN" => "trade.dispute_opened" \in outbox

----------------------------------------------------------------------------
(* Why those hold: whatever a row or a copy says is backed by rows and     *)
(* messages that are never taken back, so that writing an old copy over a  *)
(* newer row, or half of it, gives a row that is backed as well.           *)

StateBacked(s, risk, pkgs, evs, keys, msgs) ==
  /\ s \in Vetted \cup {"PROOF_SUBMITTED", "UNDER_VERIFICATION"} => pkgs = Party
  /\ s \in Vetted => <<"trade.verified", "system">> \in evs
  /\ s \in Shipped => \A p \in Party : <<"payment.succeeded", p>> \in msgs
  /\ s \in CenterRoute => risk = "HIGH"
  /\ s = "IN_TRANSIT" => risk # "HIGH"
  /\ s \in {"CENTER_VERIFIED", "SHIPPING_TO_RECIPIENTS"} => Approved(msgs)
  /\ s = "DELIVERED" /\ risk = "HIGH" => Approved(msgs) \/ PickedUp(evs)
  /\ s = "COMPLETED" => "trade.completed" \in keys
  /\ s \in {"CANCELLED", "REVOKED"} => "trade.cancelled" \in keys
  /\ s = "DISPUTE_OPEN" => "trade.dispute_opened" \in keys

ColumnsBacked(t, pkgs, evs, msgs) ==
  /\ t.proof \subseteq pkgs
  /\ \A p \in t.paid : <<"payment.succeeded", p>> \in msgs
  /\ \A p \in t.passed : <<"center.verification_approved", p>> \in msgs
  /\ \A p \in t.pickup : <<"trade.local_pickup_partial", p>> \in evs

Backed(t, pkgs, evs, keys, msgs) ==
  /\ StateBacked(t.state, t.risk, pkgs, evs, keys, msgs)
  /\ ColumnsBacked(t, pkgs, evs, msgs)

\* A copy is backed by the tables as its own transaction will leave them.
JobBacked(j, risk, pkgs, evs, keys, msgs) ==
  /\ j.at \in {"load", "update"} =>
        /\ PackagesWith(j, pkgs) \subseteq Party
        /\ Backed(j.ent, PackagesWith(j, pkgs), AuditWith(j, evs),
                  keys \cup j.keys, msgs)
        /\ j.ent.risk = risk
  /\ j.at \in DOMAIN GoOn =>
        /\ Backed(j.ent, pkgs, evs, keys, msgs)
        /\ j.ent.risk = risk

\* The inductive invariant behind the four gates: the row, and every copy an
\* execution may still write, says nothing the history does not back.
EverythingBacked ==
  /\ Backed(trade, proofPkgs, audit, outbox, bus)
  /\ \A h \in Handler :
       JobBacked(jobs[h], trade.risk, proofPkgs, audit, outbox, bus)

----------------------------------------------------------------------------
(* Safety that holds when handlers run one at a time.                      *)

\* payment-service releases the escrow on trade.completed and refunds it on
\* trade.cancelled: a trade never tells it both.
OneOutcome == ~({"trade.completed", "trade.cancelled"} \subseteq outbox)

\* COMPLETED, CANCELLED and REVOKED are final.
TerminalIsFinal ==
  [][trade.state \in Terminal => trade'.state = trade.state]_vars

\* The stage of a trade in a state of the table.
StageOf(state) ==
  CASE state \in {"VERIFIED", "AWAITING_SHIPMENT"} -> "vetted"
    [] state \in {"IN_TRANSIT", "SHIPPING_TO_CENTER", "AT_CENTER",
                  "CENTER_VERIFICATION"} -> "moving"
    [] state \in {"CENTER_VERIFIED", "SHIPPING_TO_RECIPIENTS"} -> "cleared"
    [] state = "DELIVERED" -> "delivered"
    [] state = "DISPUTE_OPEN" -> "disputed"
    [] state = "COMPLETED" -> "completed"
    [] state = "CANCELLED" -> "cancelled"
    [] state = "REVOKED" -> "revoked"
    [] OTHER -> "agreed"

Promised(keys) ==
  keys \cap {"trade.verified", "trade.dispute_opened", "trade.completed",
             "trade.cancelled"}

\* What a row and the outbox say of the life of the trade.
LifeOf(t, keys) ==
  [stage |-> StageOf(t.state), risk |-> t.risk, method |-> t.method,
   proof |-> t.proof, paid |-> t.paid, met |-> t.pickup,
   approved |-> t.passed, announced |-> Promised(keys)]

\* With its copies, its re-read rows, its transactions and its faults, the
\* service still moves a trade as the table of transitions.ts means it: every
\* commit is one step of the abstract lifecycle whose guard holds when it
\* commits, with what has committed by then, or changes nothing.
Lifecycle == INSTANCE TradeLifecycle WITH life <- LifeOf(trade, outbox)
LifecycleKept == Lifecycle!Spec

\* trade-timeout.scheduler.ts 23-27 auto-completes a trade as one whose
\* "dispute window expired": no scheduler decides to complete a trade while
\* its parties may still open a dispute.
AutoCompleteAfterWindow ==
  [][\A h \in Handler :
       jobs[h].at = "idle" /\ jobs'[h].at = "complete"
         => trade.window # "open"]_vars

----------------------------------------------------------------------------
(* Liveness.                                                               *)

\* The process keeps running its handlers, the two cron jobs keep firing and
\* find a free execution again and again, and a dispute window ends.  A step
\* deadline need not pass, because submitProof renews it in every state; and
\* no party, admin or other service is assumed ever to do anything.
Fairness ==
  /\ \A h \in Handler :
       /\ WF_vars(Proceed(h))
       /\ WF_vars(CompleteTrade(h) /\ jobs[h].at = "complete")
       /\ WF_vars(CancelTrade(h) /\ jobs[h].at = "cancel")
       /\ SF_vars(TimeoutScan(h))
       /\ SF_vars(DeliveryScan(h))
  /\ WF_vars(Elapse("window"))

\* A delivered trade does not stay open: a party disputes it, or the delivery
\* scheduler completes it, even if timeoutAt is renewed for ever.
DeliveredIsSettled ==
  trade.state = "DELIVERED" ~> trade.state \in {"COMPLETED", "DISPUTE_OPEN"}

\* A trade shipped directly does not stay in transit: it is delivered or
\* disputed, or the timeout scheduler cancels it when the dispute window set
\* at verification ends, unless a party renews timeoutAt by submitProof.
TransitEnds ==
  trade.state = "IN_TRANSIT"
    ~> trade.state # "IN_TRANSIT" \/ trade.timeout = "step"

=============================================================================
