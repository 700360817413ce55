------------------------------- MODULE Shipping -------------------------------
(***************************************************************************)
(* shipping-service: the shipments of one trade, their labels and their    *)
(* way to the centers, to the recipients and back (shipments.service.ts,   *)
(* shipment-simulation.scheduler.ts, geliver.provider.ts).                 *)
(*                                                                         *)
(* An execution (a consumed message, a request, a webhook, the cron job)   *)
(* is a list of steps; each step is what the code does between two awaits  *)
(* that other executions can be seen through.  The copies of rows that a   *)
(* step carries were read when the execution began.  save() is one step:   *)
(* it leaves the row equal to the copy.                                    *)
(***************************************************************************)
EXTENDS Naturals, FiniteSets, Sequences

CONSTANTS A, B,         \* the two items, named for the party that gives them
          Worker,       \* executions in flight, apart from the cron job
          MaxCopies,    \* rows of one item on one leg (a bound)
          MaxFaults     \* executions that may die half way (a bound)

ASSUME ItemAssumption == A # B
ASSUME CopiesAssumption == MaxCopies \in Nat \ {0}
ASSUME CronAssumption == "cron" \notin Worker

VARIABLES
  ship,     \* the rows of shipments
  jobs,     \* the executions in flight
  queue,    \* messages that wait in the two queues of the service
  events,   \* messages the service has published, as <<key, leg>>
  landed,   \* history: the parcels that have been DELIVERED
  faults

shipVars == <<ship, jobs, queue, events, landed, faults>>

Item == {A, B}
Leg == {"direct", "to_center", "to_recipient", "return"}
Status == {"PENDING", "LABEL_CREATED", "IN_TRANSIT", "OUT_FOR_DELIVERY",
           "DELIVERED", "FAILED"}
\* A label is bought from the carrier, or made up (tracking number SIM...).
Label == {"none", "carrier", "sim"}
Parcel == [leg : Leg, item : Item, n : 1..MaxCopies]
Row == [status : Status, label : Label]

OnLeg(legs) == {p \in DOMAIN ship : p.leg \in legs}
All(parcels, statuses) == \A p \in parcels : ship[p].status \in statuses
\* Two rows, one of each item unless a leg was created twice.
Pair(parcels) == Cardinality(parcels) >= 2

Moving == {"IN_TRANSIT", "OUT_FOR_DELIVERY", "DELIVERED"}
Active == {"LABEL_CREATED", "IN_TRANSIT", "OUT_FOR_DELIVERY"}

\* A set of rows in the order in which a query returns them.
Orders(S) == {f \in [1..Cardinality(S) -> S] : \A p \in S : \E i \in DOMAIN f : f[i] = p}

----------------------------------------------------------------------------
(* Executions.                                                             *)

Create(leg, item) == [do |-> "create", leg |-> leg, item |-> item]
Buy(p) == [do |-> "buy", parcel |-> p]
Sync(p, row) == [do |-> "sync", parcel |-> p, row |-> row]
Store(p, row) == [do |-> "store", parcel |-> p, row |-> row]
Then(what) == [do |-> what]

StepKind == {"create", "buy", "sync", "store", "labels", "transit", "delivered",
             "republish"}

NoMsg == <<"none", "none">>
Idle == [steps |-> <<>>, msg |-> NoMsg]

Actor == Worker \cup {"cron"}
Free(w) == jobs[w].steps = <<>>

\* Once its last step is done the message of an execution is acknowledged.
Continue(w, steps) ==
  jobs' = [jobs EXCEPT ![w] =
             IF steps = <<>> THEN Idle ELSE [@ EXCEPT !.steps = steps]]

NextIs(w, what) == ~Free(w) /\ Head(jobs[w].steps).do = what
Step(w) == Head(jobs[w].steps)
Rest(w) == Tail(jobs[w].steps)

\* A request, or a message that stays unacknowledged while steps remain.
Begin(w, steps) ==
  /\ Free(w)
  /\ steps # <<>>
  /\ jobs' = [jobs EXCEPT ![w] = [steps |-> steps, msg |-> NoMsg]]
  /\ UNCHANGED <<ship, queue, events, landed, faults>>

Consume(w, m, steps) ==
  /\ Free(w)
  /\ m \in queue
  /\ queue' = queue \ {m}
  /\ jobs' = [jobs EXCEPT ![w] =
                IF steps = <<>> THEN Idle ELSE [steps |-> steps, msg |-> m]]
  /\ UNCHANGED <<ship, events, landed, faults>>

----------------------------------------------------------------------------
(* The subscriptions.                                                      *)

\* shipping.addresses_ready: one parcel of each item to its center, or to
\* the other party when no center was chosen.
AddressesReady(w) ==
  \E leg \in {"direct", "to_center"} :
    Consume(w, <<"shipping.addresses_ready", leg>>,
            IF OnLeg({"to_center"}) # {} \/ Pair(DOMAIN ship)
            THEN <<>> ELSE <<Create(leg, A), Create(leg, B)>>)

\* Two consumers share the queue shipping.on-center-events, and RabbitMQ
\* gives a message to either, whatever its routing key.
OnCenter == {"center.both_verified", "center.verification_rejected"}

\* The consumer written for center.both_verified.  A rejection carries no
\* addresses: building the first parcel throws and the message is requeued
\* (no step), unless the second leg exists and the message is dropped.
SecondLeg(w) ==
  \E m \in queue :
    /\ m[1] \in OnCenter
    /\ m[1] = "center.verification_rejected" => OnLeg({"to_recipient"}) # {}
    /\ Consume(w, m, IF OnLeg({"to_recipient"}) # {} THEN <<>>
                     ELSE <<Create("to_recipient", A),
                            Create("to_recipient", B)>>)

\* The consumer written for center.verification_rejected: the items that
\* are DELIVERED at a center go back.  It never looks at the routing key.
Back == {p \in OnLeg({"to_center"}) : ship[p].status = "DELIVERED"}
BackOf(item) == IF \E p \in Back : p.item = item
                THEN <<Create("return", item)>> ELSE <<>>

Returns(w) ==
  \E m \in queue :
    /\ m[1] \in OnCenter
    /\ Consume(w, m, IF OnLeg({"return"}) # {} THEN <<>>
                     ELSE BackOf(A) \o BackOf(B))

----------------------------------------------------------------------------
(* Requests, webhooks and the cron job.                                    *)

BuyLabel(w) == \E p \in DOMAIN ship : Begin(w, <<Buy(p)>>)

\* mapGeliverStatus looks for "deliver" first: out_for_delivery contains it.
MapGeliver ==
  [created |-> "LABEL_CREATED", transit |-> "IN_TRANSIT",
   out_for_delivery |-> "DELIVERED", delivered |-> "DELIVERED",
   failed |-> "FAILED"]
CarrierSays == {MapGeliver[word] : word \in DOMAIN MapGeliver}

\* The carrier reports what it wants, in any order and late.
Webhook(w) ==
  \E p \in DOMAIN ship, status \in CarrierSays :
    /\ ship[p].label = "carrier"
    /\ Begin(w, <<Store(p, [ship[p] EXCEPT !.status = status])>>)

\* getByTradeId asks the carrier about every active parcel, then publishes
\* again what the rows say.
ActiveParcels == {p \in DOMAIN ship : ship[p].status \in Active}
PollTrade(w) ==
  \E order \in Orders(ActiveParcels) :
    Begin(w, [i \in DOMAIN order |-> Sync(order[i], ship[order[i]])]
             \o <<Then("republish")>>)

\* getById.
PollOne(w) == \E p \in ActiveParcels : Begin(w, <<Sync(p, ship[p])>>)

\* The button of a party and of the moderator's page.
Progress == <<"LABEL_CREATED", "IN_TRANSIT", "OUT_FOR_DELIVERY", "DELIVERED">>
SimulateProgress(w) ==
  \E p \in DOMAIN ship, i \in 1..3 :
    /\ ship[p].status = Progress[i]
    /\ Begin(w, [k \in 1..(4 - i) |->
                   Store(p, [ship[p] EXCEPT !.status = Progress[i + k]])])

\* As the query would be that a poll can hide a parcel from.
SimulatedLabelled == {p \in DOMAIN ship :
                        ship[p].label = "sim" /\ ship[p].status = "LABEL_CREATED"}

\* Every ten seconds: the parcels with a made-up number arrive at once.
Simulated == {p \in DOMAIN ship :
                ship[p].label = "sim" /\ ship[p].status \notin {"DELIVERED", "FAILED"}}
CronDelivers ==
  \E order \in Orders(Simulated) :
    Begin("cron", [i \in DOMAIN order |->
            Store(order[i], [ship[order[i]] EXCEPT !.status = "DELIVERED"])])

----------------------------------------------------------------------------
(* The steps.                                                              *)

\* createShipment; the second leg's labels are bought by the platform.
CreateShipment(w) ==
  /\ NextIs(w, "create")
  /\ \E n \in 1..MaxCopies :
       LET p == [leg |-> Step(w).leg, item |-> Step(w).item, n |-> n]
       IN  /\ p \notin DOMAIN ship
           /\ \A k \in 1..(n - 1) : [p EXCEPT !.n = k] \in DOMAIN ship
           /\ ship' = [q \in DOMAIN ship \cup {p} |->
                         IF q = p THEN [status |-> "PENDING", label |-> "none"]
                         ELSE ship[q]]
           /\ Continue(w, IF p.leg = "to_recipient"
                          THEN Rest(w) \o <<Buy(p)>> ELSE Rest(w))
  /\ UNCHANGED <<queue, events, landed, faults>>

\* getRates: none, those of the carrier, or made-up ones when there is no
\* token or the API fails.
Rate == {"none", "carrier", "sim"}

\* buyLabel of the provider: a made-up rate gives a made-up label; an offer
\* gives the carrier's, a made-up one when the API fails, or an exception
\* when the process that cached the offer has gone.
LabelsFor(rate) ==
  CASE rate = "carrier" -> Label
    [] rate = "sim" -> {"sim"}
    [] OTHER -> {"none"}

\* buyLabel and autoBuyLabel up to the provider's answer; without a label
\* they end with an exception, which autoBuyLabel swallows.
BuyFromProvider(w) ==
  /\ NextIs(w, "buy")
  /\ LET p == Step(w).parcel
     IN  \/ Continue(w, Rest(w))
         \/ /\ ship[p].status = "PENDING"
            /\ \E rate \in Rate : \E label \in LabelsFor(rate) \ {"none"} :
                 Continue(w, <<Store(p, [status |-> "LABEL_CREATED", label |-> label]),
                               Then("labels")>> \o Rest(w))
  /\ UNCHANGED <<ship, queue, events, landed, faults>>

\* save, and the check that updateShipmentStatus makes after it.
AfterStore(status) ==
  CASE status = "IN_TRANSIT" -> <<Then("transit")>>
    [] status = "DELIVERED" -> <<Then("delivered")>>
    [] OTHER -> <<>>

Write(p, row) ==
  /\ ship' = [ship EXCEPT ![p] = row]
  /\ landed' = IF row.status = "DELIVERED" THEN landed \cup {p} ELSE landed

StoreRow(w) ==
  /\ NextIs(w, "store")
  /\ Write(Step(w).parcel, Step(w).row)
  /\ Continue(w, AfterStore(Step(w).row.status) \o Rest(w))
  /\ UNCHANGED <<queue, events, faults>>

\* syncShipmentStatusFromProvider: only a status further on is taken.
Order == [PENDING |-> 0, LABEL_CREATED |-> 1, IN_TRANSIT |-> 2,
          OUT_FOR_DELIVERY |-> 3, DELIVERED |-> 4, FAILED |-> 6]

\* getTracking: what the carrier says now and said before; without a token
\* everything is in transit.
Reports(label) == IF label = "sim" THEN {"IN_TRANSIT"} ELSE CarrierSays

SyncFromProvider(w) ==
  /\ NextIs(w, "sync")
  /\ LET p == Step(w).parcel
         row == Step(w).row
     IN  \/ Continue(w, Rest(w)) /\ UNCHANGED <<ship, landed>>
         \/ \E status \in Reports(row.label) :
              /\ Order[status] > Order[row.status]
              /\ Write(p, [row EXCEPT !.status = status])
              /\ Continue(w, AfterStore(status) \o Rest(w))
  /\ UNCHANGED <<queue, events, faults>>

Publish(w, msgs) ==
  /\ events' = events \cup msgs
  /\ Continue(w, Rest(w))
  /\ UNCHANGED <<ship, queue, landed, faults>>

FirstLeg == OnLeg({"direct", "to_center"})
TagOf(parcels) == (CHOOSE p \in parcels : TRUE).leg
Report(parcels, statuses, key) ==
  IF Pair(parcels) /\ All(parcels, statuses) THEN {<<key, TagOf(parcels)>>} ELSE {}

\* checkAndNotifyBothLabelsReady: once no parcel of the second leg is
\* PENDING the leg it looks at is the first one again.
LabelsReady(w) ==
  /\ NextIs(w, "labels")
  /\ LET leg2 == OnLeg({"to_recipient"})
         leg == IF All(leg2, Status \ {"PENDING"}) THEN FirstLeg ELSE leg2
     IN  Publish(w, Report(leg, Status \ {"PENDING"}, "shipping.label_created"))

\* checkAndNotifyBothInTransit.
BothInTransit(w) ==
  /\ NextIs(w, "transit")
  /\ LET leg2 == OnLeg({"to_recipient"})
     IN  Publish(w, Report(IF Pair(leg2) THEN leg2 ELSE FirstLeg, Moving,
                           "shipping.in_transit"))

\* As checkAndNotifyBothDelivered would be with some() for every().
NewsOfAnyDelivery ==
  LET some(leg) == Pair(leg) /\ \E p \in leg : ship[p].status = "DELIVERED"
      direct == OnLeg({"direct"})
      leg1 == OnLeg({"to_center"})
      leg2 == OnLeg({"to_recipient"})
  IN  IF some(direct) THEN {<<"shipping.delivered", "direct">>}
      ELSE IF some(leg1) /\ leg2 = {} THEN {<<"center.item_received", "to_center">>}
      ELSE IF some(leg2) THEN {<<"shipping.delivered", "to_recipient">>} ELSE {}

\* checkAndNotifyBothDelivered.
DeliveredNews ==
  LET direct == OnLeg({"direct"})
      leg1 == OnLeg({"to_center"})
      leg2 == OnLeg({"to_recipient"})
      here(leg) == Pair(leg) /\ All(leg, {"DELIVERED"})
  IN  IF here(direct) THEN {<<"shipping.delivered", "direct">>}
      ELSE IF here(leg1) /\ leg2 = {} THEN {<<"center.item_received", "to_center">>}
      ELSE Report(leg2, {"DELIVERED"}, "shipping.delivered")

BothDelivered(w) ==
  /\ NextIs(w, "delivered")
  /\ Publish(w, DeliveredNews)

\* The end of getByTradeId: which of the three checks is made again.
WhatToRepublish(rows) ==
  IF ~Pair(rows) THEN <<>>
  ELSE IF All(rows, {"DELIVERED"}) THEN <<Then("delivered")>>
  ELSE IF All(rows, Moving) THEN <<Then("transit")>>
  ELSE IF All(rows, Status \ {"PENDING"}) THEN <<Then("labels")>>
  ELSE <<>>

Republish(w) ==
  /\ NextIs(w, "republish")
  /\ Continue(w, WhatToRepublish(DOMAIN ship))
  /\ UNCHANGED <<ship, queue, events, landed, faults>>

\* The process dies, or a statement fails: a message is delivered again.
Fault(w) ==
  /\ ~Free(w)
  /\ faults < MaxFaults
  /\ faults' = faults + 1
  /\ jobs' = [jobs EXCEPT ![w] = Idle]
  /\ queue' = IF jobs[w].msg = NoMsg THEN queue ELSE queue \cup {jobs[w].msg}
  /\ UNCHANGED <<ship, events, landed>>

Proceed(w) ==
  \/ CreateShipment(w) \/ BuyFromProvider(w) \/ StoreRow(w)
  \/ SyncFromProvider(w) \/ LabelsReady(w) \/ BothInTransit(w)
  \/ BothDelivered(w) \/ Republish(w)

=============================================================================
