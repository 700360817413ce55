-------------------------- MODULE CenterFlowProofs --------------------------
(***************************************************************************)
(* Proofs about CenterFlow, for every number of executions, moderators,    *)
(* copies and faults: nothing goes from a center to a recipient before     *)
(* both approvals, and a trade that counts as delivered has arrived.       *)
(***************************************************************************)
EXTENDS CenterFlow, FiniteSetTheorems, SequenceTheorems, TLAPS

\* The steps executions may have before them when the parcels of d exist and
\* only those of the legs of L may be created.
CreateStep(L) == [do : {"create"}, leg : L, item : Item]
BuyStep(d) == [do : {"buy"}, parcel : d]
RowStep(d) == [do : {"sync", "store"}, parcel : d, row : Row]
CheckStep == [do : {"labels", "transit", "delivered", "republish"}]
AnyStep(L, d) == CreateStep(L) \cup BuyStep(d) \cup RowStep(d) \cup CheckStep

\* The messages that may wait: center.both_verified opens the second leg.
Key == {"none", "shipping.addresses_ready", "center.both_verified",
        "center.verification_rejected"}
Message(L) ==
  {m \in Key \X {"none", "direct", "to_center", "trade", "center"} :
     m[1] = "center.both_verified" => "to_recipient" \in L}

JobType(L, d) == [steps : Seq(AnyStep(L, d)), msg : Message(L)]

\* shipping-service has nothing to do with any leg but those of L.
Contained(L) ==
  /\ DOMAIN ship \subseteq [leg : L, item : Item, n : 1..MaxCopies]
  /\ ship = [p \in DOMAIN ship |-> ship[p]]
  /\ \A p \in DOMAIN ship : ship[p] \in Row
  /\ jobs \in [Actor -> JobType(L, DOMAIN ship)]
  /\ queue \subseteq Message(L)

OutOrBack == Leg \ {"to_recipient"}
Legs == {Leg, OutOrBack}

\* What permits the second leg, and does so for ever.
Permitted ==
  /\ passed = Item
  /\ \A item \in Item : <<"center.verification_approved", item>> \in said

\* The trade has noted only approvals that were published.
NotedWasSaid ==
  /\ passed \subseteq Item
  /\ \A item \in passed : <<"center.verification_approved", item>> \in said

IInv ==
  /\ NotedWasSaid
  /\ route \in {"direct", "to_center"}
  /\ Contained(Leg)
  /\ ~Permitted => Contained(OutOrBack)

----------------------------------------------------------------------------
(* Steps, messages and rows.                                               *)

LEMMA LegFacts ==
  ASSUME NEW L \in Legs
  PROVE  L \subseteq Leg /\ {"direct", "to_center", "return"} \subseteq L
  BY DEF Legs, OutOrBack, Leg

LEMMA StepFacts ==
  ASSUME NEW L, NEW d, NEW s \in AnyStep(L, d)
  PROVE  /\ s.do = "create" => s.leg \in L /\ s.item \in Item
         /\ s.do = "buy" => s.parcel \in d
         /\ s.do \in {"sync", "store"} => s.parcel \in d /\ s.row \in Row
<1>1. CASE s \in CreateStep(L)
  BY <1>1 DEF CreateStep
<1>2. CASE s \in BuyStep(d)
  BY <1>2 DEF BuyStep
<1>3. CASE s \in RowStep(d)
  BY <1>3 DEF RowStep
<1>4. CASE s \in CheckStep
  BY <1>4 DEF CheckStep
<1> QED
  BY <1>1, <1>2, <1>3, <1>4 DEF AnyStep

LEMMA StepsAre ==
  ASSUME NEW L, NEW d
  PROVE  /\ \A leg \in L, item \in Item : Create(leg, item) \in AnyStep(L, d)
         /\ \A p \in d : Buy(p) \in AnyStep(L, d)
         /\ \A p \in d, row \in Row : Sync(p, row) \in AnyStep(L, d)
         /\ \A p \in d, row \in Row : Store(p, row) \in AnyStep(L, d)
         /\ \A what \in {"labels", "transit", "delivered", "republish"} :
              Then(what) \in AnyStep(L, d)
<1>1. \A leg \in L, item \in Item : Create(leg, item) \in CreateStep(L)
  BY DEF Create, CreateStep
<1>2. \A p \in d : Buy(p) \in BuyStep(d)
  BY DEF Buy, BuyStep
<1>3. \A p \in d, row \in Row : Sync(p, row) \in RowStep(d) /\ Store(p, row) \in RowStep(d)
  BY DEF Sync, Store, RowStep
<1>4. \A what \in {"labels", "transit", "delivered", "republish"} : Then(what) \in CheckStep
  BY DEF Then, CheckStep
<1> QED
  BY <1>1, <1>2, <1>3, <1>4 DEF AnyStep

\* More parcels, more steps.
LEMMA StepsGrow ==
  ASSUME NEW L, NEW d, NEW e, d \subseteq e
  PROVE  JobType(L, d) \subseteq JobType(L, e)
<1>1. BuyStep(d) \subseteq BuyStep(e) /\ RowStep(d) \subseteq RowStep(e)
  BY DEF BuyStep, RowStep
<1>2. AnyStep(L, d) \subseteq AnyStep(L, e)
  BY <1>1 DEF AnyStep
<1>3. \A s \in Seq(AnyStep(L, d)) : s \in Seq(AnyStep(L, e))
  BY <1>2, SeqMonotonic, Zenon
<1> QED
  BY <1>3 DEF JobType

LEMMA IdleFacts == ASSUME NEW L, NEW d PROVE Idle \in JobType(L, d)
<1>1. <<>> \in Seq(AnyStep(L, d))
  BY EmptySeq
<1>2. NoMsg \in Message(L)
  BY DEF NoMsg, Message, Key
<1> QED
  BY <1>1, <1>2 DEF Idle, JobType

LEMMA RowFacts ==
  ASSUME NEW row \in Row, NEW status \in Status
  PROVE  [row EXCEPT !.status = status] \in Row
  BY DEF Row

LEMMA SequencesOf ==
  ASSUME NEW S
  PROVE  /\ <<>> \in Seq(S)
         /\ \A s \in S : <<s>> \in Seq(S)
         /\ \A s, t \in S : <<s, t>> \in Seq(S)
         /\ \A x, y \in Seq(S) : x \o y \in Seq(S)
  OBVIOUS

\* A set of parcels is finite, so a query returns it in some order.
LEMMA ParcelsAreFinite == IsFiniteSet(Parcel)
<1> DEFINE Of(l, i) == {p \in Parcel : p.leg = l /\ p.item = i}
<1>1. ASSUME NEW l \in Leg, NEW i \in Item PROVE IsFiniteSet(Of(l, i))
  <2> DEFINE f == [p \in Of(l, i) |-> p.n]
  <2>1. f \in Injection(Of(l, i), 1..MaxCopies)
    BY CopiesAssumption DEF Parcel, Injection, IsInjective
  <2>2. IsFiniteSet(1..MaxCopies)
    BY FS_Interval, CopiesAssumption
  <2> QED
    BY <2>1, <2>2, FS_Injection
<1>2. ASSUME NEW l \in Leg PROVE IsFiniteSet(Of(l, A) \cup Of(l, B))
  BY <1>1, FS_Union DEF Item
<1> DEFINE Out == (Of("direct", A) \cup Of("direct", B)) \cup (Of("to_center", A) \cup Of("to_center", B))
           In == (Of("to_recipient", A) \cup Of("to_recipient", B)) \cup (Of("return", A) \cup Of("return", B))
<1>3. IsFiniteSet(Out) /\ IsFiniteSet(In)
  BY <1>2, FS_Union DEF Leg
<1>4. Parcel = Out \cup In
  BY DEF Parcel, Leg, Item
<1> HIDE DEF Out, In
<1> QED
  BY <1>3, <1>4, FS_Union

LEMMA OrdersAreSequences ==
  ASSUME NEW S, S \subseteq Parcel, NEW order \in Orders(S)
  PROVE  /\ Cardinality(S) \in Nat
         /\ DOMAIN order = 1..Cardinality(S)
         /\ \A i \in DOMAIN order : order[i] \in S
<1>1. Cardinality(S) \in Nat
  BY ParcelsAreFinite, FS_Subset, FS_CardinalityType
<1> QED
  BY <1>1 DEF Orders

----------------------------------------------------------------------------
(* What an execution does to what is contained.                            *)

LEMMA ContinueKeeps ==
  ASSUME NEW L, NEW d, NEW e, d \subseteq e,
         jobs \in [Actor -> JobType(L, d)],
         NEW w \in Actor, NEW steps \in Seq(AnyStep(L, e)), Continue(w, steps)
  PROVE  jobs' \in [Actor -> JobType(L, e)]
<1>1. jobs \in [Actor -> JobType(L, e)]
  BY StepsGrow
<1>2. [jobs[w] EXCEPT !.steps = steps] \in JobType(L, e)
  BY <1>1 DEF JobType
<1>3. Idle \in JobType(L, e)
  BY IdleFacts
<1> QED
  BY <1>1, <1>2, <1>3 DEF Continue

LEMMA BeginKeeps ==
  ASSUME NEW L \in Legs, Contained(L), NEW w \in Actor,
         NEW steps \in Seq(AnyStep(L, DOMAIN ship)), Begin(w, steps)
  PROVE  Contained(L)'
<1>1. NoMsg \in Message(L)
  BY DEF NoMsg, Message, Key
<1>2. [steps |-> steps, msg |-> NoMsg] \in JobType(L, DOMAIN ship)
  BY <1>1 DEF JobType
<1>3. jobs' \in [Actor -> JobType(L, DOMAIN ship)]
  BY <1>2 DEF Begin, Contained
<1> QED
  BY <1>3 DEF Begin, Contained

LEMMA ConsumeKeeps ==
  ASSUME NEW L \in Legs, Contained(L), NEW w \in Actor, NEW m,
         NEW steps \in Seq(AnyStep(L, DOMAIN ship)), Consume(w, m, steps)
  PROVE  Contained(L)'
<1>1. m \in Message(L)
  BY DEF Consume, Contained
<1>2. [steps |-> steps, msg |-> m] \in JobType(L, DOMAIN ship)
  BY <1>1 DEF JobType
<1>3. Idle \in JobType(L, DOMAIN ship)
  BY IdleFacts
<1>4. jobs' \in [Actor -> JobType(L, DOMAIN ship)]
  BY <1>2, <1>3 DEF Consume, Contained
<1> QED
  BY <1>4 DEF Consume, Contained

\* The subscriptions.  Only center.both_verified begins a second leg.
LEMMA MessagesKeep ==
  ASSUME NEW L \in Legs, Contained(L), NEW w \in Actor,
         AddressesReady(w) \/ SecondLeg(w) \/ Returns(w)
  PROVE  Contained(L)'
<1> DEFINE S == AnyStep(L, DOMAIN ship)
<1>1. ASSUME NEW leg \in L
      PROVE  /\ <<Create(leg, A), Create(leg, B)>> \in Seq(S)
             /\ <<Create(leg, A)>> \in Seq(S) /\ <<Create(leg, B)>> \in Seq(S)
  <2>1. Create(leg, A) \in S /\ Create(leg, B) \in S
    BY StepsAre DEF Item
  <2> HIDE DEF S
  <2> QED
    BY <2>1, SequencesOf
<1>2. <<>> \in Seq(S) /\ \A x, y \in Seq(S) : x \o y \in Seq(S)
  BY SequencesOf, Zenon
<1> HIDE DEF S
<1>3. CASE AddressesReady(w)
  <2>1. PICK leg \in {"direct", "to_center"} :
          Consume(w, <<"shipping.addresses_ready", leg>>,
            IF OnLeg({"to_center"}) # {} \/ Pair(DOMAIN ship)
            THEN <<>> ELSE <<Create(leg, A), Create(leg, B)>>)
    BY <1>3 DEF AddressesReady
  <2>2. leg \in L
    BY LegFacts
  <2>3. (IF OnLeg({"to_center"}) # {} \/ Pair(DOMAIN ship)
         THEN <<>> ELSE <<Create(leg, A), Create(leg, B)>>) \in Seq(S)
    BY <1>1, <1>2, <2>2
  <2> QED
    BY <2>1, <2>3, ConsumeKeeps DEF S
<1>4. CASE SecondLeg(w)
  <2>1. PICK m \in queue :
          /\ m[1] \in OnCenter
          /\ m[1] = "center.verification_rejected" => OnLeg({"to_recipient"}) # {}
          /\ Consume(w, m, IF OnLeg({"to_recipient"}) # {} THEN <<>>
                           ELSE <<Create("to_recipient", A), Create("to_recipient", B)>>)
    BY <1>4 DEF SecondLeg
  <2>2. OnLeg({"to_recipient"}) = {} => "to_recipient" \in L
    BY <2>1 DEF Contained, Message, OnCenter
  <2>3. (IF OnLeg({"to_recipient"}) # {} THEN <<>>
         ELSE <<Create("to_recipient", A), Create("to_recipient", B)>>) \in Seq(S)
    BY <1>1, <1>2, <2>2
  <2> QED
    BY <2>1, <2>3, ConsumeKeeps DEF S
<1>5. CASE Returns(w)
  <2>1. PICK m \in queue :
          Consume(w, m, IF OnLeg({"return"}) # {} THEN <<>> ELSE BackOf(A) \o BackOf(B))
    BY <1>5 DEF Returns
  <2>2. "return" \in L
    BY LegFacts
  <2>3. BackOf(A) \in Seq(S) /\ BackOf(B) \in Seq(S)
    BY <1>1, <1>2, <2>2 DEF BackOf
  <2>4. (IF OnLeg({"return"}) # {} THEN <<>> ELSE BackOf(A) \o BackOf(B)) \in Seq(S)
    BY <1>2, <2>3
  <2> QED
    BY <2>1, <2>4, ConsumeKeeps DEF S
<1> QED
  BY <1>3, <1>4, <1>5

LEMMA StatusFacts ==
  /\ CarrierSays \subseteq Status
  /\ \A i \in 1..4 : Progress[i] \in Status
  /\ "DELIVERED" \in Status
<1>1. CarrierSays \subseteq Status
  BY DEF CarrierSays, MapGeliver, Status
<1>2. \A i \in 1..4 : Progress[i] \in Status
  BY DEF Progress, Status
<1> QED
  BY <1>1, <1>2 DEF Status

\* Requests, webhooks and the cron job.
LEMMA RequestsKeep ==
  ASSUME NEW L \in Legs, Contained(L), NEW w \in Actor,
         BuyLabel(w) \/ Webhook(w) \/ PollTrade(w) \/ PollOne(w)
           \/ SimulateProgress(w) \/ (w = "cron" /\ CronDelivers)
  PROVE  Contained(L)'
<1> DEFINE S == AnyStep(L, DOMAIN ship)
<1>1. /\ \A s \in S : <<s>> \in Seq(S)
      /\ \A x, y \in Seq(S) : x \o y \in Seq(S)
  BY SequencesOf, Zenon
<1>2. /\ \A p \in DOMAIN ship : Buy(p) \in S /\ Sync(p, ship[p]) \in S
      /\ \A p \in DOMAIN ship, status \in Status :
           Store(p, [ship[p] EXCEPT !.status = status]) \in S
      /\ Then("republish") \in S
  <2>1. \A p \in DOMAIN ship, status \in Status : [ship[p] EXCEPT !.status = status] \in Row
    BY RowFacts DEF Contained
  <2>2. \A p \in DOMAIN ship : ship[p] \in Row
    BY DEF Contained
  <2> QED
    BY <2>1, <2>2, StepsAre
<1>3. DOMAIN ship \subseteq Parcel
  BY LegFacts DEF Contained, Parcel
<1> HIDE DEF S
<1>4. CASE BuyLabel(w)
  BY <1>1, <1>2, <1>4, BeginKeeps DEF BuyLabel, S
<1>5. CASE Webhook(w)
  BY <1>1, <1>2, <1>5, StatusFacts, BeginKeeps DEF Webhook, S
<1>6. CASE PollTrade(w)
  <2>1. PICK order \in Orders(ActiveParcels) :
          Begin(w, [i \in DOMAIN order |-> Sync(order[i], ship[order[i]])]
                     \o <<Then("republish")>>)
    BY <1>6 DEF PollTrade
  <2>2. ActiveParcels \subseteq DOMAIN ship
    BY DEF ActiveParcels
  <2>3. /\ Cardinality(ActiveParcels) \in Nat
        /\ DOMAIN order = 1..Cardinality(ActiveParcels)
        /\ \A i \in DOMAIN order : order[i] \in DOMAIN ship
    BY <1>3, <2>2, OrdersAreSequences
  <2>4. [i \in DOMAIN order |-> Sync(order[i], ship[order[i]])] \in Seq(S)
    <3> DEFINE n == Cardinality(ActiveParcels)
               f == [i \in 1..n |-> Sync(order[i], ship[order[i]])]
    <3>1. f \in [1..n -> S]
      BY <1>2, <2>3
    <3> HIDE DEF f, n
    <3>2. n \in Nat
      BY <2>3 DEF n
    <3>3. f \in Seq(S)
      BY <3>1, <3>2
    <3> QED
      BY <2>3, <3>3 DEF f, n
  <2>5. [i \in DOMAIN order |-> Sync(order[i], ship[order[i]])]
          \o <<Then("republish")>> \in Seq(S)
    BY <1>1, <1>2, <2>4
  <2> QED
    BY <2>1, <2>5, BeginKeeps DEF S
<1>7. CASE PollOne(w)
  BY <1>1, <1>2, <1>7, BeginKeeps DEF PollOne, ActiveParcels, S
<1>8. CASE SimulateProgress(w)
  <2>1. PICK p \in DOMAIN ship, i \in 1..3 :
          Begin(w, [k \in 1..(4 - i) |-> Store(p, [ship[p] EXCEPT !.status = Progress[i + k]])])
    BY <1>8 DEF SimulateProgress
  <2>2. [k \in 1..(4 - i) |-> Store(p, [ship[p] EXCEPT !.status = Progress[i + k]])] \in Seq(S)
    <3> DEFINE n == 4 - i
               g(k) == Store(p, [ship[p] EXCEPT !.status = Progress[i + k]])
    <3>1. n \in Nat
      OBVIOUS
    <3>2. \A k \in 1..n : g(k) \in S
      <4>1. \A k \in 1..n : i + k \in 1..4
        OBVIOUS
      <4> QED
        BY <1>2, <4>1, StatusFacts
    <3> HIDE DEF g, n
    <3>3. [k \in 1..n |-> g(k)] \in Seq(S)
      BY <3>1, <3>2
    <3> QED
      BY <3>3 DEF g, n
  <2> QED
    BY <2>1, <2>2, BeginKeeps DEF S
<1>9. CASE w = "cron" /\ CronDelivers
  <2> DEFINE g(order) == [i \in DOMAIN order |->
            Store(order[i], [ship[order[i]] EXCEPT !.status = "DELIVERED"])]
  <2>1. PICK order \in Orders(Simulated) : Begin("cron", g(order))
    BY <1>9 DEF CronDelivers
  <2>2. Simulated \subseteq DOMAIN ship
    BY DEF Simulated
  <2>3. /\ Cardinality(Simulated) \in Nat
        /\ DOMAIN order = 1..Cardinality(Simulated)
        /\ \A i \in DOMAIN order : order[i] \in DOMAIN ship
    BY <1>3, <2>2, OrdersAreSequences
  <2>4. g(order) \in Seq(S)
    <3> DEFINE n == Cardinality(Simulated)
               f(i) == Store(order[i], [ship[order[i]] EXCEPT !.status = "DELIVERED"])
    <3>1. \A i \in 1..n : f(i) \in S
      BY <1>2, <2>3, StatusFacts
    <3> HIDE DEF f, n
    <3>2. n \in Nat
      BY <2>3 DEF n
    <3>3. [i \in 1..n |-> f(i)] \in Seq(S)
      BY <3>1, <3>2
    <3> QED
      BY <2>3, <3>3 DEF f, n
  <2> HIDE DEF g
  <2> QED
    BY <1>9, <2>1, <2>4, BeginKeeps DEF S
<1> QED
  BY <1>4, <1>5, <1>6, <1>7, <1>8, <1>9

----------------------------------------------------------------------------
(* The steps of an execution.                                              *)

\* What an execution is about to do, and what it still has to do after it.
LEMMA NextStep ==
  ASSUME NEW L, Contained(L), NEW w \in Actor, ~Free(w)
  PROVE  /\ Step(w) \in AnyStep(L, DOMAIN ship)
         /\ Rest(w) \in Seq(AnyStep(L, DOMAIN ship))
<1>1. jobs[w].steps \in Seq(AnyStep(L, DOMAIN ship)) /\ jobs[w].steps # <<>>
  BY DEF Contained, JobType, Free
<1> QED
  BY <1>1, HeadTailProperties, Zenon DEF Step, Rest

\* A step that leaves the rows alone.
LEMMA QuietStep ==
  ASSUME NEW L, Contained(L), NEW w \in Actor,
         NEW steps \in Seq(AnyStep(L, DOMAIN ship)), Continue(w, steps),
         UNCHANGED <<ship, queue>>
  PROVE  Contained(L)'
<1>1. jobs' \in [Actor -> JobType(L, DOMAIN ship)]
  BY ContinueKeeps DEF Contained
<1> QED
  BY <1>1 DEF Contained

\* A step that writes a row.
LEMMA WritingStep ==
  ASSUME NEW L, Contained(L), NEW w \in Actor,
         NEW steps \in Seq(AnyStep(L, DOMAIN ship)), Continue(w, steps),
         NEW p \in DOMAIN ship, NEW row \in Row, Write(p, row), UNCHANGED queue
  PROVE  Contained(L)'
<1>1. jobs' \in [Actor -> JobType(L, DOMAIN ship)]
  BY ContinueKeeps DEF Contained
<1>2. DOMAIN ship' = DOMAIN ship
  BY DEF Write
<1>3. \A q \in DOMAIN ship : ship'[q] \in Row
  BY DEF Write, Contained
<1>4. ship' = [q \in DOMAIN ship |-> ship'[q]]
  BY DEF Write
<1> QED
  BY <1>1, <1>2, <1>3, <1>4 DEF Contained

LEMMA CreateKeeps ==
  ASSUME NEW L \in Legs, Contained(L), NEW w \in Actor, CreateShipment(w)
  PROVE  Contained(L)'
<1>1. ~Free(w) /\ Step(w).do = "create"
  BY DEF CreateShipment, NextIs, Step
<1>2. Step(w).leg \in L /\ Step(w).item \in Item
  BY <1>1, NextStep, StepFacts
<1>3. PICK n \in 1..MaxCopies :
        LET p == [leg |-> Step(w).leg, item |-> Step(w).item, n |-> n]
        IN  /\ ship' = [q \in DOMAIN ship \cup {p} |->
                         IF q = p THEN [status |-> "PENDING", label |-> "none"]
                         ELSE ship[q]]
            /\ Continue(w, IF p.leg = "to_recipient"
                           THEN Rest(w) \o <<Buy(p)>> ELSE Rest(w))
  BY DEF CreateShipment
<1> DEFINE p == [leg |-> Step(w).leg, item |-> Step(w).item, n |-> n]
           d == DOMAIN ship \cup {p}
           S == AnyStep(L, d)
           steps == IF p.leg = "to_recipient" THEN Rest(w) \o <<Buy(p)>> ELSE Rest(w)
<1>4. p \in [leg : L, item : Item, n : 1..MaxCopies]
  BY <1>2
<1>5. Rest(w) \in Seq(S)
  <2>1. jobs[w] \in JobType(L, d)
    BY StepsGrow DEF Contained
  <2>2. jobs[w].steps \in Seq(S) /\ jobs[w].steps # <<>>
    BY <1>1, <2>1 DEF JobType, Free
  <2> HIDE DEF S
  <2> QED
    BY <2>2, HeadTailProperties, Zenon DEF Rest
<1>6. <<Buy(p)>> \in Seq(S)
  <2>1. Buy(p) \in S
    BY StepsAre
  <2> HIDE DEF S
  <2> QED
    BY <2>1
<1>7. steps \in Seq(S)
  <2> HIDE DEF S, p
  <2> QED
    BY <1>5, <1>6
<1>8. DOMAIN ship' = d
  BY <1>3
<1>9. [status |-> "PENDING", label |-> "none"] \in Row
  BY DEF Row, Status, Label
<1>10. \A q \in d : ship'[q] \in Row
  <2> HIDE DEF p
  <2> QED
    BY <1>3, <1>9 DEF Contained, p
<1>11. ship' = [q \in d |-> ship'[q]]
  BY <1>3
<1>12. Continue(w, steps)
  BY <1>3
<1>13. jobs' \in [Actor -> JobType(L, d)]
  <2>1. DOMAIN ship \subseteq d
    OBVIOUS
  <2> HIDE DEF steps, d
  <2> QED
    BY <1>7, <1>12, <2>1, ContinueKeeps DEF Contained
<1> QED
  BY <1>4, <1>8, <1>10, <1>11, <1>13 DEF Contained, CreateShipment

LEMMA ProceedKeeps ==
  ASSUME NEW L \in Legs, Contained(L), NEW w \in Actor, Proceed(w)
  PROVE  Contained(L)'
<1> DEFINE S == AnyStep(L, DOMAIN ship)
<1>1. /\ <<>> \in Seq(S)
      /\ \A s \in S : <<s>> \in Seq(S)
      /\ \A s, t \in S : <<s, t>> \in Seq(S)
      /\ \A x, y \in Seq(S) : x \o y \in Seq(S)
  BY SequencesOf, Zenon
<1>2. /\ \A p \in DOMAIN ship, row \in Row : Store(p, row) \in S
      /\ \A what \in {"labels", "transit", "delivered", "republish"} : Then(what) \in S
  BY StepsAre
<1>3. ~Free(w) => Step(w) \in S /\ Rest(w) \in Seq(S)
  BY NextStep
<1>4. \A what \in {"labels", "transit", "delivered", "republish"} : <<Then(what)>> \in Seq(S)
  <2> HIDE DEF S
  <2> QED
    BY <1>1, <1>2
<1>5. \A status : AfterStore(status) \in Seq(S)
  BY <1>1, <1>4 DEF AfterStore
<1>6. ~Free(w) /\ Step(w).do \in {"sync", "store"} =>
        Step(w).parcel \in DOMAIN ship /\ Step(w).row \in Row
  BY <1>3, StepFacts
<1>7. ~Free(w) /\ Step(w).do = "buy" => Step(w).parcel \in DOMAIN ship
  BY <1>3, StepFacts
<1> HIDE DEF S
<1>8. CASE BuyFromProvider(w)
  <2> DEFINE p == Step(w).parcel
  <2>1. ~Free(w) /\ p \in DOMAIN ship /\ UNCHANGED <<ship, queue>>
    BY <1>7, <1>8 DEF BuyFromProvider, NextIs, Step
  <2>2. CASE Continue(w, Rest(w))
    BY <1>3, <2>1, <2>2, QuietStep DEF S
  <2>3. CASE \E rate \in Rate : \E label \in LabelsFor(rate) \ {"none"} :
               Continue(w, <<Store(p, [status |-> "LABEL_CREATED", label |-> label]),
                             Then("labels")>> \o Rest(w))
    <3>1. PICK rate \in Rate : \E label \in LabelsFor(rate) \ {"none"} :
            Continue(w, <<Store(p, [status |-> "LABEL_CREATED", label |-> label]),
                          Then("labels")>> \o Rest(w))
      BY <2>3
    <3>2. PICK label \in LabelsFor(rate) :
            Continue(w, <<Store(p, [status |-> "LABEL_CREATED", label |-> label]),
                          Then("labels")>> \o Rest(w))
      BY <3>1
    <3>3. [status |-> "LABEL_CREATED", label |-> label] \in Row
      BY DEF Row, Status, Label, LabelsFor, Rate
    <3>4. <<Store(p, [status |-> "LABEL_CREATED", label |-> label]),
            Then("labels")>> \o Rest(w) \in Seq(S)
      <4>1. Store(p, [status |-> "LABEL_CREATED", label |-> label]) \in S
        BY <1>2, <2>1, <3>3
      <4> HIDE DEF p
      <4> QED
        BY <1>1, <1>2, <1>3, <2>1, <4>1
    <3> QED
      BY <2>1, <3>2, <3>4, QuietStep DEF S
  <2> QED
    BY <1>8, <2>2, <2>3 DEF BuyFromProvider
<1>9. CASE StoreRow(w)
  <2>1. ~Free(w) /\ Step(w).do = "store"
    BY <1>9 DEF StoreRow, NextIs, Step
  <2>2. AfterStore(Step(w).row.status) \o Rest(w) \in Seq(S)
    BY <1>1, <1>3, <1>5, <2>1
  <2> QED
    BY <1>6, <1>9, <2>1, <2>2, WritingStep DEF StoreRow, S
<1>10. CASE SyncFromProvider(w)
  <2> DEFINE p == Step(w).parcel
             row == Step(w).row
  <2>1. ~Free(w) /\ p \in DOMAIN ship /\ row \in Row /\ UNCHANGED queue
    BY <1>6, <1>10 DEF SyncFromProvider, NextIs, Step
  <2>2. CASE Continue(w, Rest(w)) /\ UNCHANGED <<ship, landed>>
    BY <1>3, <2>1, <2>2, QuietStep DEF S
  <2>3. CASE \E status \in Reports(row.label) :
               /\ Write(p, [row EXCEPT !.status = status])
               /\ Continue(w, AfterStore(status) \o Rest(w))
    <3>1. PICK status \in Reports(row.label) :
            /\ Write(p, [row EXCEPT !.status = status])
            /\ Continue(w, AfterStore(status) \o Rest(w))
      BY <2>3
    <3>2. status \in Status
      BY StatusFacts DEF Reports, Status
    <3>3. [row EXCEPT !.status = status] \in Row
      BY <2>1, <3>2, RowFacts
    <3>4. AfterStore(status) \o Rest(w) \in Seq(S)
      BY <1>1, <1>3, <1>5, <2>1
    <3> HIDE DEF p, row
    <3> QED
      BY <2>1, <3>1, <3>3, <3>4, WritingStep DEF S
  <2> QED
    BY <1>10, <2>2, <2>3 DEF SyncFromProvider
<1>11. CASE LabelsReady(w) \/ BothInTransit(w) \/ BothDelivered(w)
  <2>1. ~Free(w) /\ Continue(w, Rest(w)) /\ UNCHANGED <<ship, queue>>
    BY <1>11 DEF LabelsReady, BothInTransit, BothDelivered, Publish, NextIs
  <2> QED
    BY <1>3, <2>1, QuietStep DEF S
<1>12. CASE Republish(w)
  <2>1. WhatToRepublish(DOMAIN ship) \in Seq(S)
    BY <1>1, <1>4 DEF WhatToRepublish
  <2> QED
    BY <1>12, <2>1, QuietStep DEF Republish, S
<1> QED
  BY <1>8, <1>9, <1>10, <1>11, <1>12, CreateKeeps DEF Proceed

\* A message that was being handled waits again.
LEMMA FaultKeeps ==
  ASSUME NEW L, Contained(L), NEW w \in Actor, Fault(w)
  PROVE  Contained(L)'
<1>1. jobs[w].msg \in Message(L)
  BY DEF Contained, JobType
<1>2. Idle \in JobType(L, DOMAIN ship)
  BY IdleFacts
<1>3. jobs' \in [Actor -> JobType(L, DOMAIN ship)]
  BY <1>2 DEF Contained, Fault
<1>4. queue' \subseteq Message(L)
  BY <1>1 DEF Contained, Fault
<1> QED
  BY <1>3, <1>4 DEF Contained, Fault

----------------------------------------------------------------------------
(* The handlers of trade-service and the centers.                          *)

LEMMA SendKeeps ==
  ASSUME NEW L, Contained(L), NEW m \in Message(L), Send(m)
  PROVE  Contained(L)'
  BY DEF Send, Contained

LEMMA MessagesAre ==
  ASSUME NEW L
  PROVE  /\ \A leg \in {"direct", "to_center"} :
              <<"shipping.addresses_ready", leg>> \in Message(L)
         /\ \A from \in {"trade", "center"} :
              <<"center.verification_rejected", from>> \in Message(L)
         /\ "to_recipient" \in L => <<"center.both_verified", "trade">> \in Message(L)
  BY DEF Message, Key

\* The steps after which the trade has noted both items: the approval that
\* completes them, and then the second leg is permitted.
LEMMA NotingPermits ==
  ASSUME NotedWasSaid, NEW item \in Item, VerificationApproved(item), passed' = Item
  PROVE  Permitted'
<1>1. said' = said
  BY DEF VerificationApproved, checkVars
<1>2. ASSUME NEW i \in Item
      PROVE  <<"center.verification_approved", i>> \in said
  <2>1. i \in passed \/ i = item
    BY <1>2 DEF VerificationApproved
  <2> QED
    BY <2>1 DEF NotedWasSaid, VerificationApproved
<1> QED
  BY <1>1, <1>2 DEF Permitted

\* Whatever happens, shipping-service stays with the legs it may touch,
\* unless the step permits the second.
LEMMA ContainedStep ==
  ASSUME NEW L \in Legs, Contained(L), NotedWasSaid, route \in {"direct", "to_center"},
         "to_recipient" \in L \/ ~Permitted', [Next]_flowVars
  PROVE  Contained(L)'
<1>1. CASE UNCHANGED shipVars
  BY <1>1 DEF shipVars, Contained
<1>2. ASSUME NEW w \in Worker,
             \/ AddressesReady(w) \/ SecondLeg(w) \/ Returns(w)
             \/ BuyLabel(w) \/ Webhook(w) \/ PollTrade(w) \/ PollOne(w)
             \/ SimulateProgress(w)
      PROVE  Contained(L)'
  <2>1. w \in Actor
    BY DEF Actor
  <2> QED
    BY <1>2, <2>1, MessagesKeep, RequestsKeep
<1>3. CASE CronDelivers
  <2>1. "cron" \in Actor
    BY DEF Actor
  <2> QED
    BY <1>3, <2>1, RequestsKeep
<1>4. ASSUME NEW w \in Actor, Proceed(w) \/ Fault(w) PROVE Contained(L)'
  BY <1>4, ProceedKeeps, FaultKeeps
<1>5. CASE AddressesReadyAgain
  BY <1>5, SendKeeps, MessagesAre DEF AddressesReadyAgain
<1>6. CASE DirectReady \/ CenterReady \/ Leg2InTransit \/ Leg2Delivered \/ DirectDelivered
  BY <1>1, <1>6 DEF DirectReady, CenterReady, Leg2InTransit, Leg2Delivered,
                    DirectDelivered, Move
<1>7. CASE VerificationRejected
  BY <1>7, SendKeeps, MessagesAre DEF VerificationRejected
<1>8. ASSUME NEW item \in Item, ItemAtCenter(item) PROVE Contained(L)'
  BY <1>1, <1>8 DEF ItemAtCenter
<1>9. ASSUME NEW item \in Item, VerificationApproved(item) PROVE Contained(L)'
  <2>1. CASE passed' = Item
    <3>1. "to_recipient" \in L
      BY <1>9, <2>1, NotingPermits
    <3> QED
      BY <1>1, <1>9, <3>1, SendKeeps, MessagesAre DEF VerificationApproved
  <2>2. CASE passed' # Item
    BY <1>1, <1>9, <2>2 DEF VerificationApproved
  <2> QED
    BY <2>1, <2>2
<1>10. ASSUME NEW a \in Admin, NEW item \in Item,
              ReceiveItem(a, item) \/ Approve(a, item) \/ Reject(a, item)
       PROVE  Contained(L)'
  BY <1>1, <1>10 DEF ReceiveItem, Approve, Reject
<1>11. ASSUME NEW a \in Admin, SaveInspection(a) PROVE Contained(L)'
  BY <1>1, <1>11, SendKeeps, MessagesAre DEF SaveInspection
<1>12. UNCHANGED flowVars => UNCHANGED shipVars
  BY DEF flowVars
<1> QED
  BY <1>1, <1>2, <1>3, <1>4, <1>5, <1>6, <1>7, <1>8, <1>9, <1>10, <1>11, <1>12 DEF Next

\* Published approvals stay published, and noted ones noted.
LEMMA HistoryGrows ==
  ASSUME NotedWasSaid, [Next]_flowVars
  PROVE  /\ said \subseteq said'
         /\ NotedWasSaid'
         /\ Permitted => Permitted'
         /\ route' = route
<1>1. CASE UNCHANGED <<said, passed, route>>
  BY <1>1 DEF NotedWasSaid, Permitted
<1>2. ASSUME NEW item \in Item, VerificationApproved(item)
      PROVE  /\ UNCHANGED <<said, route>> /\ passed' \subseteq Item /\ passed \subseteq passed'
             /\ \A i \in passed' : i \in passed \/ i = item
  BY <1>2 DEF VerificationApproved, checkVars, NotedWasSaid
<1>3. ASSUME NEW item \in Item, VerificationApproved(item)
      PROVE  NotedWasSaid' /\ (Permitted => Permitted')
  BY <1>2, <1>3 DEF NotedWasSaid, Permitted, VerificationApproved
<1>4. ASSUME NEW a \in Admin, SaveInspection(a)
      PROVE  said \subseteq said' /\ UNCHANGED <<passed, route>>
  BY <1>4 DEF SaveInspection, C!SaveVerification, tradeVars
<1>5. ASSUME NEW a \in Admin, SaveInspection(a)
      PROVE  NotedWasSaid' /\ (Permitted => Permitted')
  BY <1>4, <1>5 DEF NotedWasSaid, Permitted
<1>6. CASE FlowUnchanged \/ UNCHANGED flowVars
  BY <1>1, <1>6 DEF FlowUnchanged, flowVars, checkVars, tradeVars
<1>7. CASE AddressesReadyAgain \/ DirectReady \/ CenterReady \/ VerificationRejected
           \/ Leg2InTransit \/ Leg2Delivered \/ DirectDelivered
  <2>1. UNCHANGED <<said, passed, route>>
    BY <1>7 DEF AddressesReadyAgain, DirectReady, CenterReady, VerificationRejected,
       Leg2InTransit, Leg2Delivered, DirectDelivered, Move, checkVars, tradeVars,
       C!OpenInspections
  <2> QED
    BY <1>1, <2>1
<1>8. ASSUME NEW item \in Item, ItemAtCenter(item)
      PROVE  UNCHANGED <<said, passed, route>>
  BY <1>8 DEF ItemAtCenter, checkVars
<1>9. ASSUME NEW a \in Admin, NEW item \in Item,
             ReceiveItem(a, item) \/ Approve(a, item) \/ Reject(a, item)
      PROVE  UNCHANGED <<said, passed, route>>
  BY <1>9 DEF ReceiveItem, Approve, Reject, C!MarkItemReceived, C!ApproveVerification,
     C!RejectVerification, C!Request, tradeVars
<1> QED
  BY <1>1, <1>2, <1>3, <1>4, <1>5, <1>6, <1>7, <1>8, <1>9 DEF Next

----------------------------------------------------------------------------
LEMMA InitIsContained == Init => IInv
<1> SUFFICES ASSUME Init PROVE IInv
  OBVIOUS
<1>1. ASSUME NEW L \in Legs PROVE Contained(L)
  <2>1. DOMAIN ship = {}
    BY DEF Init
  <2>2. ship = [p \in DOMAIN ship |-> ship[p]]
    BY DEF Init
  <2>3. jobs \in [Actor -> JobType(L, DOMAIN ship)]
    BY IdleFacts DEF Init
  <2>4. queue \subseteq Message(L)
    BY MessagesAre DEF Init
  <2> QED
    BY <2>1, <2>2, <2>3, <2>4 DEF Contained
<1>2. NotedWasSaid /\ route \in {"direct", "to_center"}
  BY DEF Init, NotedWasSaid
<1> QED
  BY <1>1, <1>2 DEF IInv, Legs

LEMMA StepIsContained == IInv /\ [Next]_flowVars => IInv'
<1> SUFFICES ASSUME IInv, [Next]_flowVars PROVE IInv'
  OBVIOUS
<1>1. NotedWasSaid' /\ (Permitted => Permitted') /\ route' = route
  BY HistoryGrows DEF IInv
<1>2. Contained(Leg)'
  BY ContainedStep DEF IInv, Legs, Leg
<1>3. ~Permitted' => Contained(OutOrBack)'
  BY <1>1, ContainedStep DEF IInv, Legs
<1> QED
  BY <1>1, <1>2, <1>3 DEF IInv

\* Nothing leaves a center for a recipient before both approvals, however
\* messages are repeated and given to either consumer (shipments.service.ts
\* 105-210), for any number of executions, moderators, copies and faults.
THEOREM ReleaseIsApproved == Spec => []ReleaseNeedsApprovals
<1>1. IInv => ReleaseNeedsApprovals
  <2> SUFFICES ASSUME IInv, OnLeg({"to_recipient"}) # {} PROVE Permitted
    BY DEF ReleaseNeedsApprovals, Permitted
  <2>1. PICK p \in DOMAIN ship : p.leg = "to_recipient"
    BY DEF OnLeg
  <2>2. ~Contained(OutOrBack)
    BY <2>1 DEF Contained, OutOrBack
  <2> QED
    BY <2>2 DEF IInv
<1> QED
  BY <1>1, InitIsContained, StepIsContained, PTL DEF Spec

----------------------------------------------------------------------------
(* A trade that counts as delivered.                                       *)

\* Two different parcels have arrived on the leg.
TwoLanded(leg) ==
  \E p, q \in landed : p # q /\ p.leg = leg /\ q.leg = leg

\* A row says DELIVERED only of a parcel that landed.
RowsInv ==
  /\ landed \subseteq DOMAIN ship
  /\ \A p \in DOMAIN ship : ship[p].status = "DELIVERED" => p \in landed

\* The service announces only what landed, and the trade believes only what
\* was announced.
Announced(leg) == <<"shipping.delivered", leg>> \in events
LandedInv ==
  /\ RowsInv
  /\ \A leg \in {"direct", "to_recipient"} : Announced(leg) => TwoLanded(leg)
  /\ stage = "DELIVERED" => \E leg \in {"direct", "to_recipient"} : Announced(leg)

LEMMA WriteKeepsRows ==
  ASSUME RowsInv, NEW p \in DOMAIN ship, NEW row, Write(p, row)
  PROVE  RowsInv' /\ landed \subseteq landed'
<1>1. DOMAIN ship' = DOMAIN ship
  BY DEF Write
<1>2. \A q \in DOMAIN ship : ship'[q] = IF q = p THEN row ELSE ship[q]
  BY DEF Write
<1>3. landed' = IF row.status = "DELIVERED" THEN landed \cup {p} ELSE landed
  BY DEF Write
<1> QED
  BY <1>1, <1>2, <1>3 DEF RowsInv

LEMMA ProceedKeepsRows ==
  ASSUME RowsInv, Contained(Leg), NEW w \in Actor, Proceed(w)
  PROVE  RowsInv' /\ landed \subseteq landed'
<1>1. ~Free(w) /\ Step(w).do \in {"sync", "store"} => Step(w).parcel \in DOMAIN ship
  BY NextStep, StepFacts
<1>2. CASE UNCHANGED <<ship, landed>>
  BY <1>2 DEF RowsInv
<1>3. CASE CreateShipment(w)
  <2>1. PICK n \in 1..MaxCopies :
          LET p == [leg |-> Step(w).leg, item |-> Step(w).item, n |-> n]
          IN  ship' = [q \in DOMAIN ship \cup {p} |->
                         IF q = p THEN [status |-> "PENDING", label |-> "none"]
                         ELSE ship[q]]
    BY <1>3 DEF CreateShipment
  <2> DEFINE p == [leg |-> Step(w).leg, item |-> Step(w).item, n |-> n]
  <2>2. landed' = landed
    BY <1>3 DEF CreateShipment
  <2>3. ship' = [q \in DOMAIN ship \cup {p} |->
                   IF q = p THEN [status |-> "PENDING", label |-> "none"] ELSE ship[q]]
    BY <2>1
  <2> HIDE DEF p
  <2> QED
    BY <2>2, <2>3 DEF RowsInv
<1>4. CASE StoreRow(w)
  <2>1. ~Free(w) /\ Step(w).do = "store" /\ Write(Step(w).parcel, Step(w).row)
    BY <1>4 DEF StoreRow, NextIs, Step
  <2> QED
    BY <1>1, <2>1, WriteKeepsRows
<1>5. CASE SyncFromProvider(w)
  <2> DEFINE p == Step(w).parcel
             row == Step(w).row
  <2>1. ~Free(w) /\ Step(w).do = "sync"
    BY <1>5 DEF SyncFromProvider, NextIs, Step
  <2>2. ASSUME NEW status, Write(p, [row EXCEPT !.status = status])
        PROVE  RowsInv' /\ landed \subseteq landed'
    <3> DEFINE new == [row EXCEPT !.status = status]
    <3>1. Write(p, new)
      BY <2>2
    <3>2. p \in DOMAIN ship
      BY <1>1, <2>1
    <3> HIDE DEF new, p
    <3> QED
      BY <3>1, <3>2, WriteKeepsRows
  <2>3. \/ UNCHANGED <<ship, landed>>
        \/ \E status : Write(p, [row EXCEPT !.status = status])
    BY <1>5 DEF SyncFromProvider
  <2> QED
    BY <1>2, <2>2, <2>3
<1>6. CASE BuyFromProvider(w) \/ LabelsReady(w) \/ BothInTransit(w) \/ BothDelivered(w)
           \/ Republish(w)
  BY <1>2, <1>6 DEF BuyFromProvider, LabelsReady, BothInTransit, BothDelivered,
     Republish, Publish
<1> QED
  BY <1>3, <1>4, <1>5, <1>6 DEF Proceed

\* Only the steps of an execution write rows and announce anything.
LEMMA OnlyProceed ==
  ASSUME [Next]_flowVars
  PROVE  \/ \E w \in Actor : Proceed(w) /\ FlowUnchanged
         \/ UNCHANGED <<ship, landed, events>>
<1>1. ASSUME NEW w, NEW m, NEW steps, Begin(w, steps) \/ Consume(w, m, steps)
      PROVE  UNCHANGED <<ship, landed, events>>
  BY <1>1 DEF Begin, Consume
<1>2. ASSUME NEW w, AddressesReady(w) \/ SecondLeg(w) \/ Returns(w) \/ BuyLabel(w)
                    \/ Webhook(w) \/ PollTrade(w) \/ PollOne(w) \/ SimulateProgress(w)
      PROVE  UNCHANGED <<ship, landed, events>>
  BY <1>1, <1>2 DEF AddressesReady, SecondLeg, Returns, BuyLabel, Webhook, PollTrade,
     PollOne, SimulateProgress
<1>3. CASE CronDelivers
  BY <1>1, <1>3 DEF CronDelivers
<1>4. ASSUME NEW w \in Actor, Fault(w) PROVE UNCHANGED <<ship, landed, events>>
  BY <1>4 DEF Fault
<1>5. CASE AddressesReadyAgain \/ DirectReady \/ CenterReady \/ VerificationRejected
           \/ Leg2InTransit \/ Leg2Delivered \/ DirectDelivered
  BY <1>5 DEF AddressesReadyAgain, DirectReady, CenterReady, VerificationRejected,
     Leg2InTransit, Leg2Delivered, DirectDelivered, Move, Send, shipVars
<1>6. ASSUME NEW item \in Item, ItemAtCenter(item) \/ VerificationApproved(item)
      PROVE  UNCHANGED <<ship, landed, events>>
  BY <1>6 DEF ItemAtCenter, VerificationApproved, Send, shipVars
<1>7. ASSUME NEW a \in Admin, NEW item \in Item,
             ReceiveItem(a, item) \/ Approve(a, item) \/ Reject(a, item)
      PROVE  UNCHANGED <<ship, landed, events>>
  BY <1>7 DEF ReceiveItem, Approve, Reject, shipVars
<1>8. ASSUME NEW a \in Admin, SaveInspection(a) PROVE UNCHANGED <<ship, landed, events>>
  BY <1>8 DEF SaveInspection, Send, shipVars
<1>9. CASE UNCHANGED flowVars
  BY <1>9 DEF flowVars, shipVars
<1> QED
  BY <1>2, <1>3, <1>4, <1>5, <1>6, <1>7, <1>8, <1>9 DEF Next

LEMMA RowsStep ==
  ASSUME RowsInv, Contained(Leg), [Next]_flowVars
  PROVE  RowsInv' /\ landed \subseteq landed'
<1>1. CASE UNCHANGED <<ship, landed, events>>
  BY <1>1 DEF RowsInv
<1> QED
  BY <1>1, OnlyProceed, ProceedKeepsRows

LEMMA TwoOf ==
  ASSUME NEW S, Cardinality(S) >= 2
  PROVE  \E p, q \in S : p # q
<1> SUFFICES ASSUME \A p, q \in S : p = q PROVE FALSE
  OBVIOUS
<1>1. S = {} \/ \E p : S = {p}
  OBVIOUS
<1>2. Cardinality(S) = 0 \/ Cardinality(S) = 1
  BY <1>1, FS_EmptySet, FS_Singleton
<1> QED
  BY <1>2

\* Of a leg whose two parcels are said to be DELIVERED, two have landed.
LEMMA PairHasLanded ==
  ASSUME RowsInv, NEW leg, Pair(OnLeg({leg})), All(OnLeg({leg}), {"DELIVERED"})
  PROVE  TwoLanded(leg)
<1>1. PICK p, q \in OnLeg({leg}) : p # q
  BY TwoOf DEF Pair
<1>2. /\ p \in DOMAIN ship /\ p.leg = leg /\ q \in DOMAIN ship /\ q.leg = leg
      /\ ship[p].status = "DELIVERED" /\ ship[q].status = "DELIVERED"
  BY DEF OnLeg, All
<1>3. p \in landed /\ q \in landed
  BY <1>2 DEF RowsInv
<1> QED
  BY <1>1, <1>2, <1>3 DEF TwoLanded

LEMMA NewsIsTrue ==
  ASSUME RowsInv, NEW leg \in {"direct", "to_recipient"},
         <<"shipping.delivered", leg>> \in DeliveredNews
  PROVE  TwoLanded(leg)
<1> DEFINE direct == OnLeg({"direct"})
           leg2 == OnLeg({"to_recipient"})
<1>1. \/ Pair(direct) /\ All(direct, {"DELIVERED"}) /\ leg = "direct"
      \/ <<"shipping.delivered", leg>> \in Report(leg2, {"DELIVERED"}, "shipping.delivered")
  <2> HIDE DEF direct, leg2
  <2> QED
    BY DEF DeliveredNews, direct, leg2
<1>2. CASE Pair(direct) /\ All(direct, {"DELIVERED"}) /\ leg = "direct"
  BY <1>2, PairHasLanded
<1>3. CASE <<"shipping.delivered", leg>> \in Report(leg2, {"DELIVERED"}, "shipping.delivered")
  <2>1. Pair(leg2) /\ All(leg2, {"DELIVERED"}) /\ leg = TagOf(leg2)
    BY <1>3 DEF Report
  <2>2. TwoLanded("to_recipient")
    BY <2>1, PairHasLanded
  <2>3. \E p \in leg2 : TRUE
    BY <2>1, TwoOf DEF Pair
  <2>4. TagOf(leg2) = "to_recipient"
    <3>1. (CHOOSE p \in leg2 : TRUE) \in leg2
      BY <2>3
    <3>2. \A p \in leg2 : p.leg = "to_recipient"
      BY DEF OnLeg
    <3> HIDE DEF leg2
    <3> QED
      BY <3>1, <3>2 DEF TagOf
  <2> QED
    BY <2>1, <2>2, <2>4
<1> QED
  BY <1>1, <1>2, <1>3

\* Only checkAndNotifyBothDelivered announces that a leg was delivered.
LEMMA AnnouncedStep ==
  ASSUME [Next]_flowVars, NEW leg \in {"direct", "to_recipient"}, Announced(leg)'
  PROVE  \/ Announced(leg)
         \/ <<"shipping.delivered", leg>> \in DeliveredNews /\ UNCHANGED <<landed, stage>>
<1>1. CASE UNCHANGED events
  BY <1>1 DEF Announced
<1>2. ASSUME NEW w \in Actor, BothDelivered(w), FlowUnchanged
      PROVE  \/ Announced(leg)
             \/ <<"shipping.delivered", leg>> \in DeliveredNews /\ UNCHANGED <<landed, stage>>
  BY <1>2 DEF BothDelivered, Publish, Announced, FlowUnchanged, tradeVars
<1>3. ASSUME NEW w \in Actor, LabelsReady(w) \/ BothInTransit(w) PROVE Announced(leg)
  <2>1. ASSUME NEW parcels, NEW statuses,
               NEW key \in {"shipping.label_created", "shipping.in_transit"},
               Publish(w, Report(parcels, statuses, key))
        PROVE  Announced(leg)
    BY <2>1 DEF Publish, Report, Announced
  <2>2. CASE LabelsReady(w)
    BY <2>1, <2>2, Zenon DEF LabelsReady
  <2>3. CASE BothInTransit(w)
    BY <2>1, <2>3, Zenon DEF BothInTransit
  <2> QED
    BY <1>3, <2>2, <2>3
<1>4. ASSUME NEW w \in Actor, Proceed(w), FlowUnchanged
      PROVE  \/ Announced(leg)
             \/ <<"shipping.delivered", leg>> \in DeliveredNews /\ UNCHANGED <<landed, stage>>
  <2>1. CASE CreateShipment(w) \/ BuyFromProvider(w) \/ StoreRow(w) \/ SyncFromProvider(w)
             \/ Republish(w)
    BY <1>1, <2>1 DEF CreateShipment, BuyFromProvider, StoreRow, SyncFromProvider, Republish
  <2> QED
    BY <1>2, <1>3, <1>4, <2>1 DEF Proceed
<1> QED
  BY <1>1, <1>4, OnlyProceed

\* What the service has announced stays announced.
LEMMA EventsGrow ==
  ASSUME [Next]_flowVars
  PROVE  events \subseteq events'
<1>1. ASSUME NEW w \in Actor, Proceed(w) PROVE events \subseteq events'
  <2>1. ASSUME NEW msgs, Publish(w, msgs) PROVE events \subseteq events'
    BY <2>1 DEF Publish
  <2>2. CASE LabelsReady(w) \/ BothInTransit(w) \/ BothDelivered(w)
    BY <2>1, <2>2, Zenon DEF LabelsReady, BothInTransit, BothDelivered
  <2>3. CASE CreateShipment(w) \/ BuyFromProvider(w) \/ StoreRow(w) \/ SyncFromProvider(w)
             \/ Republish(w)
    BY <2>3 DEF CreateShipment, BuyFromProvider, StoreRow, SyncFromProvider, Republish
  <2> QED
    BY <1>1, <2>2, <2>3 DEF Proceed
<1> QED
  BY <1>1, OnlyProceed

\* The trade counts as delivered on the announcement only.
LEMMA StageStep ==
  ASSUME [Next]_flowVars, stage' = "DELIVERED"
  PROVE  stage = "DELIVERED" \/ \E leg \in {"direct", "to_recipient"} : Announced(leg)
<1>1. CASE UNCHANGED stage
  BY <1>1
<1>2. CASE FlowUnchanged \/ UNCHANGED flowVars \/ AddressesReadyAgain
  BY <1>1, <1>2 DEF FlowUnchanged, flowVars, tradeVars, AddressesReadyAgain
<1>3. CASE Leg2Delivered \/ DirectDelivered
  BY <1>3 DEF Leg2Delivered, DirectDelivered, Announced
<1>4. CASE DirectReady \/ CenterReady \/ VerificationRejected \/ Leg2InTransit
  BY <1>4 DEF DirectReady, CenterReady, VerificationRejected, Leg2InTransit, Move
<1>5. ASSUME NEW item \in Item, ItemAtCenter(item) \/ VerificationApproved(item)
      PROVE  stage = "DELIVERED"
  BY <1>5 DEF ItemAtCenter, VerificationApproved
<1>6. ASSUME NEW a \in Admin, NEW item \in Item,
             ReceiveItem(a, item) \/ Approve(a, item) \/ Reject(a, item)
      PROVE  UNCHANGED stage
  BY <1>6 DEF ReceiveItem, Approve, Reject, tradeVars
<1>7. ASSUME NEW a \in Admin, SaveInspection(a) PROVE UNCHANGED stage
  BY <1>7 DEF SaveInspection, tradeVars
<1> QED
  BY <1>1, <1>2, <1>3, <1>4, <1>5, <1>6, <1>7 DEF Next

LEMMA InitHasLanded == Init => LandedInv
  BY DEF Init, LandedInv, RowsInv, Announced

LEMMA StepHasLanded == IInv /\ LandedInv /\ [Next]_flowVars => LandedInv'
<1> SUFFICES ASSUME IInv, LandedInv, [Next]_flowVars PROVE LandedInv'
  OBVIOUS
<1>1. RowsInv' /\ landed \subseteq landed'
  BY RowsStep DEF IInv, LandedInv
<1>2. ASSUME NEW leg \in {"direct", "to_recipient"}, Announced(leg)'
      PROVE  TwoLanded(leg)'
  <2>1. TwoLanded(leg)
    BY <1>2, AnnouncedStep, NewsIsTrue DEF LandedInv
  <2> QED
    BY <1>1, <2>1 DEF TwoLanded
<1>3. ASSUME stage' = "DELIVERED"
      PROVE  \E leg \in {"direct", "to_recipient"} : Announced(leg)'
  <2>1. PICK leg \in {"direct", "to_recipient"} : Announced(leg)
    BY <1>3, StageStep DEF LandedInv
  <2> QED
    BY <2>1, EventsGrow DEF Announced
<1> QED
  BY <1>1, <1>2, <1>3 DEF LandedInv

\* A trade is DELIVERED only when both items reached a party, unless two
\* parcels of one item did (checkAndNotifyBothDelivered, shipments.service.ts
\* 799-856), for any number of executions, copies and faults, whatever the
\* carrier reports and in whichever order the copies of a row are saved.
THEOREM DeliveredHasArrived == Spec => []DeliveredTradeArrived
<1>1. IInv /\ LandedInv => DeliveredTradeArrived
  <2> SUFFICES ASSUME IInv, LandedInv, stage = "DELIVERED"
               PROVE  \/ \A item \in Item : Reached(item)
                      \/ \E item \in Item : CameTwice(item)
    BY DEF DeliveredTradeArrived
  <2>1. PICK leg \in {"direct", "to_recipient"} : TwoLanded(leg)
    BY DEF LandedInv
  <2>2. PICK p, q \in landed : p # q /\ p.leg = leg /\ q.leg = leg
    BY <2>1 DEF TwoLanded
  <2>3. p.item \in Item /\ q.item \in Item
    BY DEF LandedInv, RowsInv, IInv, Contained
  <2>4. CASE p.item = q.item
    BY <2>2, <2>3, <2>4 DEF CameTwice
  <2>5. CASE p.item # q.item
    BY <2>2, <2>3, <2>5 DEF Reached, Item
  <2> QED
    BY <2>4, <2>5
<1> QED
  BY <1>1, InitIsContained, StepIsContained, InitHasLanded, StepHasLanded, PTL DEF Spec

=============================================================================
