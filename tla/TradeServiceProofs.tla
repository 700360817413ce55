-------------------------- MODULE TradeServiceProofs --------------------------
(* Proofs about TradeService, the lifecycle it implements and the page on   *)
(* top of it, for every set of parties and executions.                      *)
EXTENDS TradePage, TLAPS

\* save() of two rows gives a row.
LEMMA MergeIsTrade ==
  ASSUME NEW row \in Trade, NEW base \in Trade, NEW ent \in Trade
  PROVE  Merge(row, base, ent) \in Trade
  BY DEF Merge, MergeValue, MergeSet, Trade

\* The points at which an execution has a copy.
LEMMA Points ==
  /\ DOMAIN GoOn = {"arrive", "inspect", "pass"}
  /\ DOMAIN ReRead = {"complete", "cancel", "pickup", "shipReady", "directReady"}
  BY DEF GoOn, ReRead

\* An execution inside save() has all the fields of a Save.
LEMMA SavingJob ==
  ASSUME NEW j \in Job, j.at \in {"load", "update"}
  PROVE  j \in Saving
  BY Points DEF Job, Going, Pointing, Publication

\* An execution that goes on with its copy has one.
LEMMA GoingJob ==
  ASSUME NEW j \in Job, j.at \in DOMAIN GoOn
  PROVE  j \in Going
  BY Points DEF Job, Saving, Pointing, Publication

\* A handler that has decided what to write is a job.
LEMMA SaveIsJob ==
  ASSUME NEW who \in Actor, NEW ent \in Trade, NEW event \in EventType,
         NEW keys \in SUBSET RoutingKey, NEW then \in Then
  PROVE  Save(who, ent, event, keys, then) \in Job
  BY DEF Save, Job, Saving

\* A handler that has not is one too.
LEMMA PointIsJob ==
  ASSUME NEW point \in DOMAIN ReRead \cup Publication \cup {"idle", "advance"}
  PROVE  At(point) \in Job /\ Idle \in Job
  BY DEF At, Idle, Job, Pointing

\* What follows the commit of a job is a job.
LEMMA AfterIsJob ==
  ASSUME NEW j \in Saving
  PROVE  After(j) \in Job
<1>1. CASE j.then = "idle"
  BY <1>1, Points, PointIsJob DEF After
<1>2. CASE j.then \in DOMAIN GoOn
  BY <1>2, Points DEF After, Job, Going, Saving
<1>3. CASE j.then \in {"pickup"} \cup Publication
  BY <1>3, Points DEF After, At, Job, Pointing, Publication
<1> QED  BY <1>1, <1>2, <1>3 DEF Saving, Then

\* A deadline that passes leaves a row a row, and changes only the deadlines.
LEMMA PassIsTrade ==
  ASSUME NEW t \in Trade, NEW d \in {"step", "window"}
  PROVE  /\ Pass(t, d) \in Trade
         /\ \A c \in {"state", "risk", "method", "proof", "paid", "pickup", "addr", "center",
                   "passed"} :
              Pass(t, d)[c] = t[c]
<1> DEFINE timeout == IF t.timeout = d THEN "past" ELSE t.timeout
           window == IF d = "window" /\ t.window = "open" THEN "past" ELSE t.window
<1>1. timeout \in {"step", "window", "past"} /\ window \in {"none", "open", "past"}
  BY DEF Trade
<1>2. Pass(t, d) = [t EXCEPT !.timeout = timeout, !.window = window]
  BY DEF Pass
<1> HIDE DEF timeout, window
<1>3. [t EXCEPT !.timeout = timeout, !.window = window] \in Trade
  BY <1>1 DEF Trade
<1> QED  BY <1>2, <1>3 DEF Trade

----------------------------------------------------------------------------
(* Rows that are backed.                                                   *)

\* The history only grows, so what was backed stays backed.
LEMMA BackedGrows ==
  ASSUME NEW t \in Trade,
         NEW pkgs, NEW evs, NEW keys, NEW msgs,
         NEW pkgs2 \in SUBSET Party, NEW evs2, NEW keys2, NEW msgs2,
         pkgs \subseteq pkgs2, evs \subseteq evs2,
         keys \subseteq keys2, msgs \subseteq msgs2,
         Backed(t, pkgs, evs, keys, msgs)
  PROVE  Backed(t, pkgs2, evs2, keys2, msgs2)
<1>1. ColumnsBacked(t, pkgs2, evs2, msgs2)
  BY DEF Backed, ColumnsBacked, Trade
<1>2. Approved(msgs) => Approved(msgs2)
  BY DEF Approved
<1>3. PickedUp(evs) => PickedUp(evs2)
  BY DEF PickedUp
<1>4. StateBacked(t.state, t.risk, pkgs2, evs2, keys2, msgs2)
  BY <1>2, <1>3 DEF Backed, StateBacked
<1> QED  BY <1>1, <1>4 DEF Backed

\* Backing is a matter of six columns.
LEMMA BackedColumns ==
  ASSUME NEW t, NEW u, NEW pkgs, NEW evs, NEW keys, NEW msgs,
         u.state = t.state, u.risk = t.risk, u.proof = t.proof,
         u.paid = t.paid, u.pickup = t.pickup, u.passed = t.passed,
         Backed(t, pkgs, evs, keys, msgs)
  PROVE  Backed(u, pkgs, evs, keys, msgs)
  BY DEF Backed, ColumnsBacked

\* Columns of a backed copy written over a backed row give a backed row.
LEMMA MergeIsBacked ==
  ASSUME NEW row \in Trade, NEW base \in Trade, NEW ent \in Trade,
         NEW pkgs, NEW evs, NEW keys, NEW msgs,
         ent.risk = row.risk,
         Backed(row, pkgs, evs, keys, msgs), Backed(ent, pkgs, evs, keys, msgs)
  PROVE  Backed(Merge(row, base, ent), pkgs, evs, keys, msgs)
<1> DEFINE m == Merge(row, base, ent)
<1>1. m.state = row.state \/ m.state = ent.state
  BY DEF Merge, MergeValue
<1>2. m.risk = row.risk
  BY DEF Merge
<1>3. /\ m.proof \subseteq row.proof \cup ent.proof
      /\ m.paid \subseteq row.paid \cup ent.paid
      /\ m.pickup \subseteq row.pickup \cup ent.pickup
      /\ m.passed \subseteq row.passed \cup ent.passed
  BY DEF Merge, MergeSet
<1> HIDE DEF m
<1>4. ColumnsBacked(m, pkgs, evs, msgs)
  BY <1>3 DEF Backed, ColumnsBacked
<1>5. StateBacked(m.state, m.risk, pkgs, evs, keys, msgs)
  BY <1>1, <1>2 DEF Backed
<1> QED  BY <1>4, <1>5 DEF Backed, m

\* An edge of the table leads from a backed state to a backed state, if the
\* transaction records the verdict and announces the outcome.
LEMMA EdgeIsBacked ==
  ASSUME NEW t \in Trade, NEW event, NEW to,
         NEW pkgs \in SUBSET Party, NEW evs, NEW keys, NEW msgs,
         Backed(t, pkgs, evs, keys, msgs), Transition(t, event, to),
         event = "verified" => <<"trade.verified", "system">> \in evs,
         to = "COMPLETED" => "trade.completed" \in keys,
         to \in {"CANCELLED", "REVOKED"} => "trade.cancelled" \in keys,
         to = "DISPUTE_OPEN" => "trade.dispute_opened" \in keys
  PROVE  StateBacked(to, t.risk, pkgs, evs, keys, msgs)
<1>1. <<t.state, event, to>> \in TRANSITIONS /\ Guard(t, event)
  BY DEF Transition
<1>2. to \in Vetted \cup {"PROOF_SUBMITTED", "UNDER_VERIFICATION"} => pkgs = Party
  BY <1>1 DEF TRANSITIONS, Guard, BothProofs, BothPaid, Backed, StateBacked, ColumnsBacked, Vetted
<1>3. to \in Vetted => <<"trade.verified", "system">> \in evs
  BY <1>1 DEF TRANSITIONS, Backed, StateBacked, Vetted
<1>4. to \in Shipped => \A p \in Party : <<"payment.succeeded", p>> \in msgs
  BY <1>1 DEF TRANSITIONS, Guard, BothProofs, BothPaid, Backed, StateBacked, ColumnsBacked, Shipped
<1>5. to \in CenterRoute => t.risk = "HIGH"
  BY <1>1 DEF TRANSITIONS, Guard, BothProofs, BothPaid, Backed, StateBacked, CenterRoute
<1>6. to = "IN_TRANSIT" => t.risk # "HIGH"
  BY <1>1 DEF TRANSITIONS, Guard
<1>7. to \in {"CENTER_VERIFIED", "SHIPPING_TO_RECIPIENTS"} => Approved(msgs)
  BY <1>1 DEF TRANSITIONS, Guard, BothProofs, BothPaid, Backed, StateBacked, ColumnsBacked, Approved
<1>8. to = "DELIVERED" /\ t.risk = "HIGH" => Approved(msgs) \/ PickedUp(evs)
  BY <1>1 DEF TRANSITIONS, Guard, BothProofs, BothPaid, Backed, StateBacked, ColumnsBacked, PickedUp
<1> QED  BY <1>2, <1>3, <1>4, <1>5, <1>6, <1>7, <1>8 DEF StateBacked
----------------------------------------------------------------------------
(* Steps.                                                                  *)

IInv == TypeOK /\ EverythingBacked

\* What the invariant says of the row.
LEMMA Row ==
  ASSUME IInv
  PROVE  /\ trade \in Trade
         /\ Backed(trade, proofPkgs, audit, outbox, bus)
         /\ proofPkgs \in SUBSET Party
  BY DEF IInv, TypeOK, EverythingBacked

\* A handler that reads the row and decides what to write keeps the
\* invariant if what it is going to write is backed.
LEMMA BeginKeeps ==
  ASSUME IInv, NEW h \in Handler, NEW job \in Job,
         JobBacked(job, trade.risk, proofPkgs, audit, outbox, bus),
         Begin(h, job)
  PROVE  IInv'
<1>1. /\ jobs' = [jobs EXCEPT ![h] = job]
      /\ trade' = trade /\ proofPkgs' = proofPkgs /\ audit' = audit
      /\ outbox' = outbox /\ bus' = bus /\ faults' = faults
  BY DEF Begin, SetJob
<1>2. TypeOK'
  BY <1>1 DEF IInv, TypeOK
<1>3. EverythingBacked'
  BY <1>1 DEF IInv, TypeOK, EverythingBacked
<1> QED  BY <1>2, <1>3 DEF IInv

\* A handler that writes one event with a copy of a backed row.
LEMMA SaveKeeps ==
  ASSUME IInv, NEW h \in Handler,
         NEW who \in Actor, NEW ent \in Trade, NEW event \in EventType,
         NEW keys \in SUBSET RoutingKey, NEW then \in Then,
         event = "trade.proof_submitted" => who \in Party,
         ent.risk = trade.risk,
         Backed(ent, IF event = "trade.proof_submitted"
                     THEN proofPkgs \cup {who} ELSE proofPkgs,
                IF event = "none" THEN audit ELSE audit \cup {<<event, who>>},
                outbox \cup keys, bus),
         Begin(h, Save(who, ent, event, keys, then))
  PROVE  IInv'
<1> DEFINE job == Save(who, ent, event, keys, then)
<1>1. job \in Job
  BY SaveIsJob
<1>2. /\ job.at = "load" /\ job.ent = ent /\ job.who = who
      /\ job.event = event /\ job.keys = keys
  BY DEF Save
<1> HIDE DEF job
<1>3. JobBacked(job, trade.risk, proofPkgs, audit, outbox, bus)
  BY <1>2, Row, Points DEF JobBacked, PackagesWith, AuditWith
<1> QED  BY <1>1, <1>3, BeginKeeps DEF job

\* The same for a copy of t whose state is the target of an edge: what
\* the other columns may be changed to does not need backing.
LEMMA EdgeKeeps ==
  ASSUME IInv, NEW h \in Handler, NEW t \in Trade, NEW ent \in Trade,
         Backed(t, proofPkgs, audit, outbox, bus), t.risk = trade.risk,
         NEW edge, NEW to, Transition(t, edge, to),
         NEW event \in EventType \ {"none", "trade.proof_submitted"},
         NEW keys \in SUBSET RoutingKey, NEW then \in Then,
         ent.state = to, ent.risk = t.risk, ent.proof \subseteq t.proof,
         ent.paid = t.paid, ent.pickup = t.pickup, ent.passed = t.passed,
         edge = "verified" => event = "trade.verified",
         to = "COMPLETED" => "trade.completed" \in keys,
         to \in {"CANCELLED", "REVOKED"} => "trade.cancelled" \in keys,
         to = "DISPUTE_OPEN" => "trade.dispute_opened" \in keys,
         Begin(h, Save("system", ent, event, keys, then))
  PROVE  IInv'
<1> DEFINE evs == audit \cup {<<event, "system">>}
           ks == outbox \cup keys
<1>1. proofPkgs \in SUBSET Party
  BY DEF IInv, TypeOK
<1>2. Backed(t, proofPkgs, evs, ks, bus)
  BY <1>1, BackedGrows
<1>3. /\ edge = "verified" => <<"trade.verified", "system">> \in evs
      /\ to = "COMPLETED" => "trade.completed" \in ks
      /\ to \in {"CANCELLED", "REVOKED"} => "trade.cancelled" \in ks
      /\ to = "DISPUTE_OPEN" => "trade.dispute_opened" \in ks
  OBVIOUS
<1> HIDE DEF evs, ks
<1>4. StateBacked(to, t.risk, proofPkgs, evs, ks, bus)
  BY <1>1, <1>2, <1>3, EdgeIsBacked
<1>5. ColumnsBacked(ent, proofPkgs, evs, bus)
  BY <1>2 DEF Backed, ColumnsBacked
<1>6. Backed(ent, proofPkgs, evs, ks, bus)
  BY <1>4, <1>5 DEF Backed
<1>7. "system" \in Actor
  BY DEF Actor
<1> QED  BY <1>6, <1>7, SaveKeeps DEF evs, ks
\* Where the edges of the table lead.
LEMMA EdgeTargets ==
  ASSUME NEW t, NEW edge, NEW to, Transition(t, edge, to)
  PROVE  /\ edge = "items_locked" => to = "LOCKED"
         /\ edge = "proof_submitted" => to = "PROOF_SUBMITTED"
         /\ edge = "begin_verification" => to = "UNDER_VERIFICATION"
         /\ edge = "verified" => to = "VERIFIED"
         /\ edge = "verification_rejected" => to = "LOCKED"
         /\ edge \in {"dispute_window_expired", "buyer_confirmed_receipt",
                     "dispute_resolved"} => to = "COMPLETED"
         /\ edge \in {"cancel", "center_verification_rejected"} => to = "CANCELLED"
         /\ edge = "trade_revoked" => to = "REVOKED"
         /\ edge = "dispute_opened" => to = "DISPUTE_OPEN"
         /\ edge \in {"local_pickup_confirmed", "all_shipments_delivered"}
              => to = "DELIVERED"
         /\ edge = "shipping_ready" => to = "SHIPPING_TO_CENTER"
         /\ edge = "direct_shipping_ready" => to = "IN_TRANSIT"
         /\ edge = "all_shipments_in_transit"
              => to \in {"SHIPPING_TO_CENTER", "SHIPPING_TO_RECIPIENTS"}
         /\ edge = "both_items_at_center" => to = "AT_CENTER"
         /\ edge = "center_inspection_started" => to = "CENTER_VERIFICATION"
         /\ edge = "both_items_center_verified" => to = "CENTER_VERIFIED"
  BY DEF Transition, TRANSITIONS

\* Locking both items keeps the invariant.
LEMMA LockItemsKeeps ==
  ASSUME IInv, NEW h \in Handler, LockItems(h)
  PROVE  IInv'
<1> DEFINE ent(to) == [trade EXCEPT !.state = to, !.timeout = "step"]
           keys == {"trade.locked"}
<1>1. PICK to \in TradeState :
        /\ Transition(trade, "items_locked", to)
        /\ Begin(h, Save("system", ent(to), "trade.locked", keys, "idle"))
  BY DEF LockItems
<1>2. /\ ent(to) \in Trade
      /\ ent(to).state = to /\ ent(to).risk = trade.risk
      /\ ent(to).proof \subseteq trade.proof /\ ent(to).paid = trade.paid
      /\ ent(to).pickup = trade.pickup /\ ent(to).passed = trade.passed
  BY Row DEF Trade
<1>3. /\ to = "COMPLETED" => "trade.completed" \in keys
      /\ to \in {"CANCELLED", "REVOKED"} => "trade.cancelled" \in keys
      /\ to = "DISPUTE_OPEN" => "trade.dispute_opened" \in keys
  BY <1>1, EdgeTargets
<1>4. /\ "trade.locked" \in EventType \ {"none", "trade.proof_submitted"}
      /\ keys \in SUBSET RoutingKey /\ "idle" \in Then
  BY DEF EventType, RoutingKey, Then
<1> HIDE DEF ent, keys
<1> QED  BY <1>1, <1>2, <1>3, <1>4, Row, EdgeKeeps

\* Starting the verification keeps the invariant.
LEMMA BeginVerificationKeeps ==
  ASSUME IInv, NEW h \in Handler, BeginVerification(h)
  PROVE  IInv'
<1> DEFINE ent(to) == [trade EXCEPT !.state = to, !.timeout = "step"]
           keys == {}
<1>1. PICK to \in TradeState :
        /\ Transition(trade, "begin_verification", to)
        /\ Begin(h, Save("system", ent(to), "trade.verification_started", keys, "idle"))
  BY DEF BeginVerification
<1>2. /\ ent(to) \in Trade
      /\ ent(to).state = to /\ ent(to).risk = trade.risk
      /\ ent(to).proof \subseteq trade.proof /\ ent(to).paid = trade.paid
      /\ ent(to).pickup = trade.pickup /\ ent(to).passed = trade.passed
  BY Row DEF Trade
<1>3. /\ to = "COMPLETED" => "trade.completed" \in keys
      /\ to \in {"CANCELLED", "REVOKED"} => "trade.cancelled" \in keys
      /\ to = "DISPUTE_OPEN" => "trade.dispute_opened" \in keys
  BY <1>1, EdgeTargets
<1>4. /\ "trade.verification_started" \in EventType \ {"none", "trade.proof_submitted"}
      /\ keys \in SUBSET RoutingKey /\ "idle" \in Then
  BY DEF EventType, RoutingKey, Then
<1> HIDE DEF ent, keys
<1> QED  BY <1>1, <1>2, <1>3, <1>4, Row, EdgeKeeps

\* A moderator's approval keeps the invariant.
LEMMA VerifyKeeps ==
  ASSUME IInv, NEW h \in Handler, Verify(h)
  PROVE  IInv'
<1> DEFINE ent(to) == [trade EXCEPT !.state = to, !.window = "open", !.timeout = "window"]
           keys == {"trade.verified"}
<1>1. PICK to \in TradeState :
        /\ Transition(trade, "verified", to)
        /\ Begin(h, Save("system", ent(to), "trade.verified", keys, "idle"))
  BY DEF Verify
<1>2. /\ ent(to) \in Trade
      /\ ent(to).state = to /\ ent(to).risk = trade.risk
      /\ ent(to).proof \subseteq trade.proof /\ ent(to).paid = trade.paid
      /\ ent(to).pickup = trade.pickup /\ ent(to).passed = trade.passed
  BY Row DEF Trade
<1>3. /\ to = "COMPLETED" => "trade.completed" \in keys
      /\ to \in {"CANCELLED", "REVOKED"} => "trade.cancelled" \in keys
      /\ to = "DISPUTE_OPEN" => "trade.dispute_opened" \in keys
  BY <1>1, EdgeTargets
<1>4. /\ "trade.verified" \in EventType \ {"none", "trade.proof_submitted"}
      /\ keys \in SUBSET RoutingKey /\ "idle" \in Then
  BY DEF EventType, RoutingKey, Then
<1> HIDE DEF ent, keys
<1> QED  BY <1>1, <1>2, <1>3, <1>4, Row, EdgeKeeps

\* A moderator's rejection, which clears the proof columns but not the packages, keeps the invariant.
LEMMA RejectVerificationKeeps ==
  ASSUME IInv, NEW h \in Handler, RejectVerification(h)
  PROVE  IInv'
<1> DEFINE ent(to) == [trade EXCEPT !.state = to, !.proof = {}, !.timeout = "step"]
           keys == {}
<1>1. PICK to \in TradeState :
        /\ Transition(trade, "verification_rejected", to)
        /\ Begin(h, Save("system", ent(to), "trade.verification_rejected", keys, "idle"))
  BY DEF RejectVerification
<1>2. /\ ent(to) \in Trade
      /\ ent(to).state = to /\ ent(to).risk = trade.risk
      /\ ent(to).proof \subseteq trade.proof /\ ent(to).paid = trade.paid
      /\ ent(to).pickup = trade.pickup /\ ent(to).passed = trade.passed
  BY Row DEF Trade
<1>3. /\ to = "COMPLETED" => "trade.completed" \in keys
      /\ to \in {"CANCELLED", "REVOKED"} => "trade.cancelled" \in keys
      /\ to = "DISPUTE_OPEN" => "trade.dispute_opened" \in keys
  BY <1>1, EdgeTargets
<1>4. /\ "trade.verification_rejected" \in EventType \ {"none", "trade.proof_submitted"}
      /\ keys \in SUBSET RoutingKey /\ "idle" \in Then
  BY DEF EventType, RoutingKey, Then
<1> HIDE DEF ent, keys
<1> QED  BY <1>1, <1>2, <1>3, <1>4, Row, EdgeKeeps

\* Completing a trade keeps the invariant.
LEMMA CompleteTradeKeeps ==
  ASSUME IInv, NEW h \in Handler, CompleteTrade(h)
  PROVE  IInv'
<1> DEFINE ent(to) == [trade EXCEPT !.state = to]
           keys == {"trade.completed"}
<1>1. PICK to \in TradeState :
        /\ Transition(trade, "dispute_window_expired", to)
        /\ Begin(h, Save("system", ent(to), "trade.completed", keys, "idle"))
  BY DEF CompleteTrade
<1>2. /\ ent(to) \in Trade
      /\ ent(to).state = to /\ ent(to).risk = trade.risk
      /\ ent(to).proof \subseteq trade.proof /\ ent(to).paid = trade.paid
      /\ ent(to).pickup = trade.pickup /\ ent(to).passed = trade.passed
  BY Row DEF Trade
<1>3. /\ to = "COMPLETED" => "trade.completed" \in keys
      /\ to \in {"CANCELLED", "REVOKED"} => "trade.cancelled" \in keys
      /\ to = "DISPUTE_OPEN" => "trade.dispute_opened" \in keys
  BY <1>1, EdgeTargets
<1>4. /\ "trade.completed" \in EventType \ {"none", "trade.proof_submitted"}
      /\ keys \in SUBSET RoutingKey /\ "idle" \in Then
  BY DEF EventType, RoutingKey, Then
<1> HIDE DEF ent, keys
<1> QED  BY <1>1, <1>2, <1>3, <1>4, Row, EdgeKeeps

\* Opening a dispute keeps the invariant.
LEMMA OpenDisputeKeeps ==
  ASSUME IInv, NEW h \in Handler, OpenDispute(h)
  PROVE  IInv'
<1> DEFINE ent(to) == [trade EXCEPT !.state = to]
           keys == {"trade.dispute_opened"}
<1>1. PICK to \in TradeState :
        /\ Transition(trade, "dispute_opened", to)
        /\ Begin(h, Save("system", ent(to), "trade.dispute_opened", keys, "idle"))
  BY DEF OpenDispute
<1>2. /\ ent(to) \in Trade
      /\ ent(to).state = to /\ ent(to).risk = trade.risk
      /\ ent(to).proof \subseteq trade.proof /\ ent(to).paid = trade.paid
      /\ ent(to).pickup = trade.pickup /\ ent(to).passed = trade.passed
  BY Row DEF Trade
<1>3. /\ to = "COMPLETED" => "trade.completed" \in keys
      /\ to \in {"CANCELLED", "REVOKED"} => "trade.cancelled" \in keys
      /\ to = "DISPUTE_OPEN" => "trade.dispute_opened" \in keys
  BY <1>1, EdgeTargets
<1>4. /\ "trade.dispute_opened" \in EventType \ {"none", "trade.proof_submitted"}
      /\ keys \in SUBSET RoutingKey /\ "idle" \in Then
  BY DEF EventType, RoutingKey, Then
<1> HIDE DEF ent, keys
<1> QED  BY <1>1, <1>2, <1>3, <1>4, Row, EdgeKeeps

\* Cancelling keeps the invariant.
LEMMA CancelTradeKeeps ==
  ASSUME IInv, NEW h \in Handler, CancelTrade(h)
  PROVE  IInv'
<1> DEFINE ent(to) == [trade EXCEPT !.state = to]
           keys == {"trade.cancelled"}
<1>1. PICK to \in TradeState :
        /\ Transition(trade, "cancel", to)
        /\ Begin(h, Save("system", ent(to), "trade.cancelled", keys, "idle"))
  BY DEF CancelTrade
<1>2. /\ ent(to) \in Trade
      /\ ent(to).state = to /\ ent(to).risk = trade.risk
      /\ ent(to).proof \subseteq trade.proof /\ ent(to).paid = trade.paid
      /\ ent(to).pickup = trade.pickup /\ ent(to).passed = trade.passed
  BY Row DEF Trade
<1>3. /\ to = "COMPLETED" => "trade.completed" \in keys
      /\ to \in {"CANCELLED", "REVOKED"} => "trade.cancelled" \in keys
      /\ to = "DISPUTE_OPEN" => "trade.dispute_opened" \in keys
  BY <1>1, EdgeTargets
<1>4. /\ "trade.cancelled" \in EventType \ {"none", "trade.proof_submitted"}
      /\ keys \in SUBSET RoutingKey /\ "idle" \in Then
  BY DEF EventType, RoutingKey, Then
<1> HIDE DEF ent, keys
<1> QED  BY <1>1, <1>2, <1>3, <1>4, Row, EdgeKeeps

\* The second step of a local pickup keeps the invariant.
LEMMA CompleteLocalPickupKeeps ==
  ASSUME IInv, NEW h \in Handler, CompleteLocalPickup(h)
  PROVE  IInv'
<1> DEFINE ent(to) == [trade EXCEPT !.state = to, !.window = "open", !.timeout = "window"]
           keys == {}
<1>1. PICK to \in TradeState :
        /\ Transition(trade, "local_pickup_confirmed", to)
        /\ Begin(h, Save("system", ent(to), "trade.local_pickup_confirmed", keys, "idle"))
  BY DEF CompleteLocalPickup
<1>2. /\ ent(to) \in Trade
      /\ ent(to).state = to /\ ent(to).risk = trade.risk
      /\ ent(to).proof \subseteq trade.proof /\ ent(to).paid = trade.paid
      /\ ent(to).pickup = trade.pickup /\ ent(to).passed = trade.passed
  BY Row DEF Trade
<1>3. /\ to = "COMPLETED" => "trade.completed" \in keys
      /\ to \in {"CANCELLED", "REVOKED"} => "trade.cancelled" \in keys
      /\ to = "DISPUTE_OPEN" => "trade.dispute_opened" \in keys
  BY <1>1, EdgeTargets
<1>4. /\ "trade.local_pickup_confirmed" \in EventType \ {"none", "trade.proof_submitted"}
      /\ keys \in SUBSET RoutingKey /\ "idle" \in Then
  BY DEF EventType, RoutingKey, Then
<1> HIDE DEF ent, keys
<1> QED  BY <1>1, <1>2, <1>3, <1>4, Row, EdgeKeeps

\* The start of the route through the centers keeps the invariant.
LEMMA ShippingReadyKeeps ==
  ASSUME IInv, NEW h \in Handler, ShippingReady(h)
  PROVE  IInv'
<1> DEFINE ent(to) == [trade EXCEPT !.state = to]
           keys == {}
<1>1. PICK to \in TradeState :
        /\ Transition(trade, "shipping_ready", to)
        /\ Begin(h, Save("system", ent(to), "trade.awaiting_shipment", keys, "idle"))
  BY DEF ShippingReady
<1>2. /\ ent(to) \in Trade
      /\ ent(to).state = to /\ ent(to).risk = trade.risk
      /\ ent(to).proof \subseteq trade.proof /\ ent(to).paid = trade.paid
      /\ ent(to).pickup = trade.pickup /\ ent(to).passed = trade.passed
  BY Row DEF Trade
<1>3. /\ to = "COMPLETED" => "trade.completed" \in keys
      /\ to \in {"CANCELLED", "REVOKED"} => "trade.cancelled" \in keys
      /\ to = "DISPUTE_OPEN" => "trade.dispute_opened" \in keys
  BY <1>1, EdgeTargets
<1>4. /\ "trade.awaiting_shipment" \in EventType \ {"none", "trade.proof_submitted"}
      /\ keys \in SUBSET RoutingKey /\ "idle" \in Then
  BY DEF EventType, RoutingKey, Then
<1> HIDE DEF ent, keys
<1> QED  BY <1>1, <1>2, <1>3, <1>4, Row, EdgeKeeps

\* The start of direct shipping keeps the invariant.
LEMMA DirectShippingReadyKeeps ==
  ASSUME IInv, NEW h \in Handler, DirectShippingReady(h)
  PROVE  IInv'
<1> DEFINE ent(to) == [trade EXCEPT !.state = to]
           keys == {}
<1>1. PICK to \in TradeState :
        /\ Transition(trade, "direct_shipping_ready", to)
        /\ Begin(h, Save("system", ent(to), "trade.direct_shipping", keys, "idle"))
  BY DEF DirectShippingReady
<1>2. /\ ent(to) \in Trade
      /\ ent(to).state = to /\ ent(to).risk = trade.risk
      /\ ent(to).proof \subseteq trade.proof /\ ent(to).paid = trade.paid
      /\ ent(to).pickup = trade.pickup /\ ent(to).passed = trade.passed
  BY Row DEF Trade
<1>3. /\ to = "COMPLETED" => "trade.completed" \in keys
      /\ to \in {"CANCELLED", "REVOKED"} => "trade.cancelled" \in keys
      /\ to = "DISPUTE_OPEN" => "trade.dispute_opened" \in keys
  BY <1>1, EdgeTargets
<1>4. /\ "trade.direct_shipping" \in EventType \ {"none", "trade.proof_submitted"}
      /\ keys \in SUBSET RoutingKey /\ "idle" \in Then
  BY DEF EventType, RoutingKey, Then
<1> HIDE DEF ent, keys
<1> QED  BY <1>1, <1>2, <1>3, <1>4, Row, EdgeKeeps

\* The start of the second leg keeps the invariant.
LEMMA Leg2InTransitKeeps ==
  ASSUME IInv, NEW h \in Handler, Leg2InTransit(h)
  PROVE  IInv'
<1> DEFINE ent(to) == [trade EXCEPT !.state = to]
           keys == {}
<1>1. PICK to \in TradeState :
        /\ Transition(trade, "all_shipments_in_transit", to)
        /\ Begin(h, Save("system", ent(to), "trade.shipping_to_recipients", keys, "idle"))
  BY DEF Leg2InTransit
<1>2. /\ ent(to) \in Trade
      /\ ent(to).state = to /\ ent(to).risk = trade.risk
      /\ ent(to).proof \subseteq trade.proof /\ ent(to).paid = trade.paid
      /\ ent(to).pickup = trade.pickup /\ ent(to).passed = trade.passed
  BY Row DEF Trade
<1>3. /\ to = "COMPLETED" => "trade.completed" \in keys
      /\ to \in {"CANCELLED", "REVOKED"} => "trade.cancelled" \in keys
      /\ to = "DISPUTE_OPEN" => "trade.dispute_opened" \in keys
  BY <1>1, EdgeTargets
<1>4. /\ "trade.shipping_to_recipients" \in EventType \ {"none", "trade.proof_submitted"}
      /\ keys \in SUBSET RoutingKey /\ "idle" \in Then
  BY DEF EventType, RoutingKey, Then
<1> HIDE DEF ent, keys
<1> QED  BY <1>1, <1>2, <1>3, <1>4, Row, EdgeKeeps

\* A center's rejection keeps the invariant.
LEMMA CenterVerificationRejectedKeeps ==
  ASSUME IInv, NEW h \in Handler, CenterVerificationRejected(h)
  PROVE  IInv'
<1> DEFINE ent(to) == [trade EXCEPT !.state = to]
           keys == {"trade.cancelled"}
<1>1. PICK to \in TradeState :
        /\ Transition(trade, "center_verification_rejected", to)
        /\ Begin(h, Save("system", ent(to), "trade.center_verification_rejected", keys, "center.verification_rejected"))
  BY DEF CenterVerificationRejected
<1>2. /\ ent(to) \in Trade
      /\ ent(to).state = to /\ ent(to).risk = trade.risk
      /\ ent(to).proof \subseteq trade.proof /\ ent(to).paid = trade.paid
      /\ ent(to).pickup = trade.pickup /\ ent(to).passed = trade.passed
  BY Row DEF Trade
<1>3. /\ to = "COMPLETED" => "trade.completed" \in keys
      /\ to \in {"CANCELLED", "REVOKED"} => "trade.cancelled" \in keys
      /\ to = "DISPUTE_OPEN" => "trade.dispute_opened" \in keys
  BY <1>1, EdgeTargets
<1>4. /\ "trade.center_verification_rejected" \in EventType \ {"none", "trade.proof_submitted"}
      /\ keys \in SUBSET RoutingKey /\ "center.verification_rejected" \in Then
  BY DEF EventType, RoutingKey, Then, Publication
<1> HIDE DEF ent, keys
<1> QED  BY <1>1, <1>2, <1>3, <1>4, Row, EdgeKeeps

\* A moderator's decision on a dispute keeps the invariant.
LEMMA ResolveFromDisputeKeeps ==
  ASSUME IInv, NEW h \in Handler, NEW outcome, ResolveFromDispute(h, outcome)
  PROVE  IInv'
<1> DEFINE ent(to) == [trade EXCEPT !.state = to]
           keys == IF outcome = "revoked" THEN {"trade.cancelled"} ELSE {"trade.completed"}
           event == IF outcome = "revoked" THEN "trade.revoked" ELSE "trade.completed"
           edge == IF outcome = "revoked" THEN "trade_revoked" ELSE "dispute_resolved"
<1>1. PICK to \in TradeState :
        /\ Transition(trade, edge, to)
        /\ Begin(h, Save("system", ent(to), event, keys, "idle"))
  BY DEF ResolveFromDispute
<1>2. /\ ent(to) \in Trade
      /\ ent(to).state = to /\ ent(to).risk = trade.risk
      /\ ent(to).proof \subseteq trade.proof /\ ent(to).paid = trade.paid
      /\ ent(to).pickup = trade.pickup /\ ent(to).passed = trade.passed
  BY Row DEF Trade
<1>3. /\ to = "COMPLETED" => "trade.completed" \in keys
      /\ to \in {"CANCELLED", "REVOKED"} => "trade.cancelled" \in keys
      /\ to = "DISPUTE_OPEN" => "trade.dispute_opened" \in keys
      /\ edge # "verified"
  BY <1>1, EdgeTargets
<1>4. /\ event \in EventType \ {"none", "trade.proof_submitted"}
      /\ keys \in SUBSET RoutingKey /\ "idle" \in Then
  BY DEF EventType, RoutingKey, Then
<1> HIDE DEF ent, keys, event, edge
<1> QED  BY <1>1, <1>2, <1>3, <1>4, Row, EdgeKeeps

\* A transaction that goes on with the copy of the one before keeps the
\* invariant, because that copy was backed by what has committed since.
LEMMA NextTransactionKeeps ==
  ASSUME IInv, NEW h \in Handler, NEW point \in DOMAIN GoOn,
         NEW event \in EventType \ {"none", "trade.proof_submitted"},
         NEW then \in Then, NextTransaction(h, point, event, then)
  PROVE  IInv'
<1> DEFINE t == jobs[h].ent
           ent(to) == [t EXCEPT !.state = to]
           keys == {}
<1>1. PICK to \in TradeState :
        /\ jobs[h].at = point
        /\ Transition(t, GoOn[point], to)
        /\ Begin(h, Save("system", ent(to), event, keys, then))
  BY DEF NextTransaction
<1>2. jobs[h] \in Job /\ jobs[h].at \in DOMAIN GoOn
  BY <1>1 DEF IInv, TypeOK
<1>3. t \in Trade
  BY <1>2, GoingJob DEF Going
<1>4. Backed(t, proofPkgs, audit, outbox, bus) /\ t.risk = trade.risk
  BY <1>2 DEF IInv, EverythingBacked, JobBacked
<1> HIDE DEF t
<1>5. /\ ent(to) \in Trade
      /\ ent(to).state = to /\ ent(to).risk = t.risk
      /\ ent(to).proof \subseteq t.proof /\ ent(to).paid = t.paid
      /\ ent(to).pickup = t.pickup /\ ent(to).passed = t.passed
  BY <1>3 DEF Trade
<1>6. GoOn[point] \in {"both_items_at_center", "center_inspection_started",
                       "both_items_center_verified"}
  BY Points DEF GoOn
<1>7. /\ to = "COMPLETED" => "trade.completed" \in keys
      /\ to \in {"CANCELLED", "REVOKED"} => "trade.cancelled" \in keys
      /\ to = "DISPUTE_OPEN" => "trade.dispute_opened" \in keys
      /\ GoOn[point] # "verified"
  BY <1>1, <1>6, EdgeTargets
<1>8. keys \in SUBSET RoutingKey
  OBVIOUS
<1> DEFINE edge == GoOn[point]
<1> HIDE DEF ent, keys, edge
<1> QED  BY <1>1, <1>3, <1>4, <1>5, <1>7, <1>8, EdgeKeeps DEF edge

\* The three of them keep the invariant.
LEMMA CenterStepsKeep ==
  ASSUME IInv, NEW h \in Handler,
         BothItemsAtCenter(h) \/ CenterInspectionStarted(h) \/ BothItemsCenterVerified(h)
  PROVE  IInv'
<1>1. /\ "trade.at_center" \in EventType \ {"none", "trade.proof_submitted"}
      /\ "trade.center_inspection_started" \in EventType \ {"none", "trade.proof_submitted"}
      /\ "trade.center_verified" \in EventType \ {"none", "trade.proof_submitted"}
  BY DEF EventType
<1>2. {"inspect", "idle", "center.both_verified"} \subseteq Then
  BY Points DEF Then, Publication
<1>3. CASE BothItemsAtCenter(h)
  BY <1>1, <1>2, <1>3, Points, NextTransactionKeeps DEF BothItemsAtCenter
<1>4. CASE CenterInspectionStarted(h)
  BY <1>1, <1>2, <1>4, Points, NextTransactionKeeps DEF CenterInspectionStarted
<1>5. CASE BothItemsCenterVerified(h)
  BY <1>1, <1>2, <1>5, Points, NextTransactionKeeps DEF BothItemsCenterVerified
<1> QED  BY <1>3, <1>4, <1>5

\* A delivery, which may first pass the edge that a lost message would have
\* taken, keeps the invariant: that edge has the guard it always has.
LEMMA DeliveredKeeps ==
  ASSUME IInv, NEW h \in Handler, NEW early, NEW through \in TradeState,
         NEW ready \in {"direct_shipping_ready", "all_shipments_in_transit"},
         Delivered(h, early, ready, through)
  PROVE  IInv'
<1> DEFINE t == [trade EXCEPT !.state = through]
           ent(to) == [trade EXCEPT !.state = to, !.window = "open",
                                    !.timeout = "window"]
           keys == {}
<1>1. PICK to \in TradeState :
        /\ trade.state = through \/ Transition(trade, ready, through)
        /\ Transition(t, "all_shipments_delivered", to)
        /\ Begin(h, Save("system", ent(to), "trade.delivered", keys, "idle"))
  BY DEF Delivered
<1>2. /\ t \in Trade /\ t.state = through /\ t.risk = trade.risk
      /\ t.proof = trade.proof /\ t.paid = trade.paid
      /\ t.pickup = trade.pickup /\ t.passed = trade.passed
  BY Row DEF Trade
<1>3. /\ ent(to) \in Trade
      /\ ent(to).state = to /\ ent(to).risk = t.risk
      /\ ent(to).proof \subseteq t.proof /\ ent(to).paid = t.paid
      /\ ent(to).pickup = t.pickup /\ ent(to).passed = t.passed
  BY Row DEF Trade
<1> HIDE DEF t, ent
<1>4. StateBacked(through, trade.risk, proofPkgs, audit, outbox, bus)
  <2>1. CASE trade.state = through
    BY <2>1, Row DEF Backed
  <2>2. CASE Transition(trade, ready, through)
    <3>1. through \notin {"COMPLETED", "CANCELLED", "REVOKED", "DISPUTE_OPEN"}
      BY <2>2, EdgeTargets
    <3> QED  BY <2>2, <3>1, Row, EdgeIsBacked
  <2> QED  BY <1>1, <2>1, <2>2
<1>5. Backed(t, proofPkgs, audit, outbox, bus)
  BY <1>2, <1>4, Row DEF Backed, ColumnsBacked
<1>6. /\ to = "COMPLETED" => "trade.completed" \in keys
      /\ to \in {"CANCELLED", "REVOKED"} => "trade.cancelled" \in keys
      /\ to = "DISPUTE_OPEN" => "trade.dispute_opened" \in keys
  BY <1>1, EdgeTargets
<1>7. /\ "trade.delivered" \in EventType \ {"none", "trade.proof_submitted"}
      /\ keys \in SUBSET RoutingKey /\ "idle" \in Then
  BY DEF EventType, RoutingKey, Then
<1> HIDE DEF keys
<1> QED  BY <1>1, <1>2, <1>3, <1>5, <1>6, <1>7, EdgeKeeps

\* A proof submission keeps the invariant: the package is inserted in the
\* transaction that sets the column.
LEMMA SubmitProofKeeps ==
  ASSUME IInv, NEW h \in Handler, NEW p \in Party, SubmitProof(h, p)
  PROVE  IInv'
<1> DEFINE t == [trade EXCEPT !.proof = @ \cup {p}, !.timeout = "step"]
           ent(to) == [t EXCEPT !.state = to]
           keys == {"trade.proof_submitted"}
           evs == audit \cup {<<"trade.proof_submitted", p>>}
           pkgs == proofPkgs \cup {p}
           ks == outbox \cup keys
<1>1. PICK to \in TradeState :
        /\ Transition(t, "proof_submitted", to) \/ to = t.state
        /\ Begin(h, Save(p, ent(to), "trade.proof_submitted", keys, "idle"))
  BY DEF SubmitProof
<1>2. /\ t \in Trade /\ t.state = trade.state /\ t.risk = trade.risk
      /\ t.proof = trade.proof \cup {p} /\ t.paid = trade.paid
      /\ t.pickup = trade.pickup /\ t.passed = trade.passed
  BY Row DEF Trade
<1>3. Backed(trade, pkgs, evs, ks, bus)
  BY Row, BackedGrows
<1>4. pkgs \in SUBSET Party
  BY Row
<1> HIDE DEF t
<1>5. Backed(t, pkgs, evs, ks, bus)
  BY <1>2, <1>3 DEF Backed, ColumnsBacked
<1> HIDE DEF pkgs, evs, ks
<1>6. StateBacked(to, t.risk, pkgs, evs, ks, bus)
  <2>1. CASE Transition(t, "proof_submitted", to)
    BY <2>1, <1>2, <1>4, <1>5, EdgeTargets, EdgeIsBacked
  <2>2. CASE to = t.state
    BY <2>2, <1>5 DEF Backed
  <2> QED  BY <1>1, <2>1, <2>2
<1>7. /\ ent(to) \in Trade /\ ent(to).state = to /\ ent(to).risk = t.risk
      /\ ent(to).proof = t.proof /\ ent(to).paid = t.paid
      /\ ent(to).pickup = t.pickup /\ ent(to).passed = t.passed
  BY <1>2 DEF Trade
<1> HIDE DEF ent
<1>8. Backed(ent(to), pkgs, evs, ks, bus)
  BY <1>5, <1>6, <1>7 DEF Backed, ColumnsBacked
<1>9. /\ "trade.proof_submitted" \in EventType /\ "trade.proof_submitted" # "none"
      /\ keys \in SUBSET RoutingKey /\ "idle" \in Then /\ p \in Actor
  BY DEF EventType, RoutingKey, Then, Actor
<1> HIDE DEF keys
<1> QED  BY <1>1, <1>2, <1>7, <1>8, <1>9, SaveKeeps DEF pkgs, evs, ks

\* A handler that leaves the state and the backed columns as they are keeps
\* the invariant, whatever it notes in trade_events.
LEMMA ColumnsKeep ==
  ASSUME IInv, NEW h \in Handler, NEW who \in Actor, NEW ent \in Trade,
         NEW event \in EventType \ {"trade.proof_submitted"}, NEW then \in Then,
         ent.state = trade.state, ent.risk = trade.risk,
         ent.proof = trade.proof, ent.paid = trade.paid, ent.passed = trade.passed,
         \/ ent.pickup = trade.pickup
         \/ ent.pickup = trade.pickup \cup {who} /\ event = "trade.local_pickup_partial",
         Begin(h, Save(who, ent, event, {}, then))
  PROVE  IInv'
<1> DEFINE evs == IF event = "none" THEN audit ELSE audit \cup {<<event, who>>}
           keys == {}
           ks == outbox \cup keys
<1>1. Backed(trade, proofPkgs, evs, ks, bus)
  BY Row, BackedGrows
<1>2. \A p \in ent.pickup : <<"trade.local_pickup_partial", p>> \in evs
  BY <1>1 DEF Backed, ColumnsBacked
<1>3. Backed(ent, proofPkgs, evs, ks, bus)
  BY <1>1, <1>2 DEF Backed, ColumnsBacked
<1>4. Begin(h, Save(who, ent, event, keys, then)) /\ keys \in SUBSET RoutingKey
  OBVIOUS
<1> HIDE DEF keys
<1> QED  BY <1>3, <1>4, SaveKeeps DEF evs, ks

\* The first confirmation of a receipt only sets its flag; the second
\* completes the trade and announces it: both keep the invariant.
LEMMA ConfirmReceiptKeeps ==
  ASSUME IInv, NEW h \in Handler, NEW p \in Party, ConfirmReceipt(h, p)
  PROVE  IInv'
<1> DEFINE t == [trade EXCEPT !.receipt = @ \cup {p}]
           ent(to) == [t EXCEPT !.state = to]
           keys == {"trade.completed"}
<1>1. /\ t \in Trade /\ t.state = trade.state /\ t.risk = trade.risk
      /\ t.proof = trade.proof /\ t.paid = trade.paid
      /\ t.pickup = trade.pickup /\ t.passed = trade.passed
  BY Row DEF Trade
<1>2. "system" \in Actor /\ "idle" \in Then
  BY DEF Actor, Then
<1>3. CASE Begin(h, Save("system", t, "none", {}, "idle"))
  <2>1. "none" \in EventType \ {"trade.proof_submitted"}
    BY DEF EventType
  <2> HIDE DEF t
  <2> QED  BY <1>1, <1>2, <1>3, <2>1, ColumnsKeep
<1>4. ASSUME NEW to \in TradeState, Transition(t, "buyer_confirmed_receipt", to),
             Begin(h, Save("system", ent(to), "trade.receipt_confirmed", keys, "idle"))
      PROVE  IInv'
  <2> HIDE DEF t
  <2>1. Backed(t, proofPkgs, audit, outbox, bus)
    BY <1>1, Row DEF Backed, ColumnsBacked
  <2>2. /\ ent(to) \in Trade /\ ent(to).state = to /\ ent(to).risk = t.risk
        /\ ent(to).proof \subseteq t.proof /\ ent(to).paid = t.paid
        /\ ent(to).pickup = t.pickup /\ ent(to).passed = t.passed
    BY <1>1 DEF Trade
  <2>3. to = "COMPLETED" /\ "trade.completed" \in keys
    BY <1>4, EdgeTargets
  <2>4. /\ "trade.receipt_confirmed" \in EventType \ {"none", "trade.proof_submitted"}
        /\ keys \in SUBSET RoutingKey
    BY DEF EventType, RoutingKey
  <2> HIDE DEF ent, keys
  <2> QED  BY <1>1, <1>2, <1>4, <2>1, <2>2, <2>3, <2>4, EdgeKeeps
<1> QED  BY <1>3, <1>4 DEF ConfirmReceipt

\* A choice of the shipping method keeps the invariant.
LEMMA SetShippingMethodKeeps ==
  ASSUME IInv, NEW h \in Handler, NEW m \in {"shipping", "local_pickup"},
         SetShippingMethod(h, m)
  PROVE  IInv'
<1> DEFINE ent == [trade EXCEPT !.method = m]
<1>1. /\ ent \in Trade /\ ent.state = trade.state /\ ent.risk = trade.risk
      /\ ent.proof = trade.proof /\ ent.paid = trade.paid
      /\ ent.pickup = trade.pickup /\ ent.passed = trade.passed
  BY Row DEF Trade
<1>2. Begin(h, Save("system", ent, "none", {}, "idle"))
  BY DEF SetShippingMethod
<1>3. /\ "system" \in Actor /\ "idle" \in Then
      /\ "none" \in EventType \ {"trade.proof_submitted"}
  BY DEF Actor, Then, EventType
<1> HIDE DEF ent
<1> QED  BY <1>1, <1>2, <1>3, ColumnsKeep

\* The parties' choices of center, address and pickup keep the
\* invariant.
LEMMA ChoicesKeep ==
  ASSUME IInv, NEW h \in Handler, NEW p \in Party,
         SelectCenter(h, p) \/ SubmitAddress(h, p) \/ ConfirmLocalPickup(h, p)
  PROVE  IInv'
<1>1. /\ "idle" \in Then /\ "pickup" \in Then
      /\ \A t : AfterAddresses(t) \in Then
  BY DEF Then, AfterAddresses, Publication
<1>2. "system" \in Actor /\ p \in Actor
  BY DEF Actor
<1>3. {"none", "trade.center_selected", "trade.address_submitted",
       "trade.local_pickup_partial"} \subseteq EventType \ {"trade.proof_submitted"}
  BY DEF EventType
<1>4. CASE SelectCenter(h, p)
  <2> DEFINE ent == [trade EXCEPT !.center = @ \cup {p}]
  <2>1. /\ ent \in Trade /\ ent.state = trade.state /\ ent.risk = trade.risk
        /\ ent.proof = trade.proof /\ ent.paid = trade.paid
        /\ ent.pickup = trade.pickup /\ ent.passed = trade.passed
    BY Row DEF Trade
  <2>2. Begin(h, Save("system", ent, "trade.center_selected", {}, AfterAddresses(ent)))
    BY <1>4 DEF SelectCenter
  <2> HIDE DEF ent
  <2> QED  BY <1>1, <1>2, <1>3, <2>1, <2>2, ColumnsKeep
<1>5. CASE SubmitAddress(h, p)
  <2> DEFINE m == IF trade.method = "none" THEN "shipping" ELSE trade.method
             ent == [trade EXCEPT !.addr = @ \cup {p}, !.method = m]
  <2>1. m \in {"none", "shipping", "local_pickup"}
    BY Row DEF Trade
  <2>2. Begin(h, Save(p, ent, "trade.address_submitted", {}, AfterAddresses(ent)))
    BY <1>5 DEF SubmitAddress
  <2> HIDE DEF m
  <2>3. /\ ent \in Trade /\ ent.state = trade.state /\ ent.risk = trade.risk
        /\ ent.proof = trade.proof /\ ent.paid = trade.paid
        /\ ent.pickup = trade.pickup /\ ent.passed = trade.passed
    BY <2>1, Row DEF Trade
  <2> HIDE DEF ent
  <2> QED  BY <1>1, <1>2, <1>3, <2>2, <2>3, ColumnsKeep
<1>6. CASE ConfirmLocalPickup(h, p)
  <2> DEFINE m == IF trade.method = "none" THEN "local_pickup" ELSE trade.method
             ent == [trade EXCEPT !.pickup = @ \cup {p}, !.method = m]
  <2>1. m \in {"none", "shipping", "local_pickup"}
    BY Row DEF Trade
  <2>2. Begin(h, Save(p, ent, "trade.local_pickup_partial", {}, "pickup"))
    BY <1>6 DEF ConfirmLocalPickup
  <2> HIDE DEF m
  <2>3. /\ ent \in Trade /\ ent.state = trade.state /\ ent.risk = trade.risk
        /\ ent.proof = trade.proof /\ ent.paid = trade.paid
        /\ ent.pickup = trade.pickup \cup {p} /\ ent.passed = trade.passed
    BY <2>1, Row DEF Trade
  <2> HIDE DEF ent
  <2> QED  BY <1>1, <1>2, <1>3, <2>2, <2>3, ColumnsKeep
<1> QED  BY <1>4, <1>5, <1>6

\* The arrival of an item at its center only sets a flag.
LEMMA ItemAtCenterKeeps ==
  ASSUME IInv, NEW h \in Handler, NEW p \in Party, ItemAtCenter(h, p)
  PROVE  IInv'
<1> DEFINE ent == [trade EXCEPT !.arrived = @ \cup {p}]
<1>1. /\ ent \in Trade /\ ent.state = trade.state /\ ent.risk = trade.risk
      /\ ent.proof = trade.proof /\ ent.paid = trade.paid
      /\ ent.pickup = trade.pickup /\ ent.passed = trade.passed
  BY Row DEF Trade
<1>2. Begin(h, Save("system", ent, "none", {}, "arrive"))
  BY DEF ItemAtCenter
<1>3. "system" \in Actor /\ "arrive" \in Then
      /\ "none" \in EventType \ {"trade.proof_submitted"}
  BY Points DEF Actor, Then, EventType
<1> HIDE DEF ent
<1> QED  BY <1>1, <1>2, <1>3, ColumnsKeep

\* The invariant only asks the history to be large enough: it may grow while
\* one execution moves on.
LEMMA HistoryGrows ==
  ASSUME IInv, NEW h \in Handler, NEW job \in Job,
         jobs' = [jobs EXCEPT ![h] = job],
         trade' \in Trade, trade'.risk = trade.risk, faults' \in 0 .. MaxFaults,
         proofPkgs \subseteq proofPkgs', audit \subseteq audit',
         outbox \subseteq outbox', bus \subseteq bus',
         proofPkgs' \in SUBSET Party, audit' \subseteq EventType \X Actor,
         outbox' \subseteq RoutingKey, bus' \subseteq MessageKey \X Actor,
         Backed(trade', proofPkgs', audit', outbox', bus'),
         JobBacked(job, trade.risk, proofPkgs', audit', outbox', bus')
  PROVE  IInv'
<1>1. TypeOK'
  BY DEF IInv, TypeOK
<1>2. ASSUME NEW j \in Job,
             JobBacked(j, trade.risk, proofPkgs, audit, outbox, bus)
      PROVE  JobBacked(j, trade.risk, proofPkgs', audit', outbox', bus')
  <2>1. CASE j.at \in {"load", "update"}
    <3>1. j \in Saving
      BY <2>1, SavingJob
    <3>2. /\ PackagesWith(j, proofPkgs) \subseteq PackagesWith(j, proofPkgs')
          /\ AuditWith(j, audit) \subseteq AuditWith(j, audit')
          /\ outbox \cup j.keys \subseteq outbox' \cup j.keys
      BY DEF PackagesWith, AuditWith
    <3>3. PackagesWith(j, proofPkgs') \in SUBSET Party
      BY <1>2, <2>1 DEF JobBacked, PackagesWith
    <3>4. j.ent \in Trade
      BY <3>1 DEF Saving
    <3> QED  BY <1>2, <2>1, <3>2, <3>3, <3>4, BackedGrows, Points DEF JobBacked
  <2>2. CASE j.at \in DOMAIN GoOn
    <3>1. j.ent \in Trade
      BY <2>2, GoingJob DEF Going
    <3> QED  BY <1>2, <2>2, <3>1, BackedGrows, Points DEF JobBacked
  <2> QED  BY <2>1, <2>2 DEF JobBacked
<1>3. EverythingBacked'
  BY <1>2 DEF IInv, TypeOK, EverythingBacked
<1> QED  BY <1>1, <1>3 DEF IInv

\* An execution that holds no copy has nothing to back.
LEMMA PointIsBacked ==
  ASSUME NEW point \in DOMAIN ReRead \cup Publication \cup {"idle", "advance"},
         NEW risk, NEW pkgs, NEW evs, NEW keys, NEW msgs
  PROVE  /\ JobBacked(At(point), risk, pkgs, evs, keys, msgs)
         /\ JobBacked(Idle, risk, pkgs, evs, keys, msgs)
<1>1. At(point).at = point /\ Idle.at = "idle"
  BY DEF At, Idle
<1> QED  BY <1>1, Points DEF JobBacked, Publication

\* The steps that only choose where an execution goes on keep the invariant.
LEMMA PointsKeep ==
  ASSUME IInv, NEW h \in Handler,
         Advance(h) \/ TimeoutScan(h) \/ DeliveryScan(h) \/ GiveUp(h)
  PROVE  IInv'
<1>1. {"complete", "cancel", "idle"}
        \subseteq DOMAIN ReRead \cup Publication \cup {"idle", "advance"}
  BY Points
<1>2. AfterPayment(trade)
        \in DOMAIN ReRead \cup Publication \cup {"idle", "advance"}
  BY Points DEF AfterPayment
<1>3. \/ Begin(h, Idle)
      \/ \E point \in DOMAIN ReRead \cup Publication \cup {"idle", "advance"} :
           Begin(h, At(point))
  BY <1>1, <1>2 DEF Advance, TimeoutScan, DeliveryScan, GiveUp
<1> QED  BY <1>1, <1>3, PointIsJob, PointIsBacked, BeginKeeps

\* The SELECT inside save() keeps the invariant: the base is not written.
LEMMA LoadKeeps ==
  ASSUME IInv, NEW h \in Handler, Load(h)
  PROVE  IInv'
<1> DEFINE j == jobs[h]
           k == [j EXCEPT !.at = "update", !.base = trade]
<1>1. j \in Job /\ j.at = "load" /\ Begin(h, k)
  BY DEF Load, IInv, TypeOK
<1>2. j \in Saving
  BY <1>1, SavingJob
<1>3. JobBacked(j, trade.risk, proofPkgs, audit, outbox, bus)
  BY DEF IInv, EverythingBacked
<1> HIDE DEF j
<1>4. /\ k \in Saving
      /\ k.at = "update" /\ k.ent = j.ent /\ k.who = j.who
      /\ k.event = j.event /\ k.keys = j.keys
  BY <1>2, Row DEF Saving
<1> HIDE DEF k
<1>5. JobBacked(k, trade.risk, proofPkgs, audit, outbox, bus)
  BY <1>1, <1>3, <1>4, Points DEF JobBacked, PackagesWith, AuditWith
<1> QED  BY <1>1, <1>4, <1>5, BeginKeeps DEF Job

\* The UPDATE keeps the invariant: the merged row is backed by what the same
\* transaction inserts, whatever the copy overwrites.
LEMMA UpdateKeeps ==
  ASSUME IInv, NEW h \in Handler, Update(h)
  PROVE  IInv'
<1> DEFINE j == jobs[h]
           k == After(j)
           pkgs == PackagesWith(j, proofPkgs)
           evs == AuditWith(j, audit)
           ks == outbox \cup j.keys
<1>1. /\ j.at = "update" /\ trade' = Merge(trade, j.base, j.ent)
      /\ proofPkgs' = pkgs /\ audit' = evs /\ outbox' = ks
      /\ jobs' = [jobs EXCEPT ![h] = k] /\ bus' = bus /\ faults' = faults
  BY DEF Update, SetJob
<1>2. j \in Saving
  BY <1>1, SavingJob DEF IInv, TypeOK
<1>3. /\ pkgs \in SUBSET Party /\ Backed(j.ent, pkgs, evs, ks, bus)
      /\ j.ent.risk = trade.risk
  BY <1>1 DEF IInv, EverythingBacked, JobBacked
<1>4. k \in Job
  BY <1>2, AfterIsJob
<1>5. /\ proofPkgs \subseteq pkgs /\ audit \subseteq evs /\ outbox \subseteq ks
      /\ evs \subseteq EventType \X Actor /\ ks \subseteq RoutingKey
  BY <1>2 DEF PackagesWith, AuditWith, Saving, IInv, TypeOK
<1>6. /\ j.ent \in Trade /\ j.base \in Trade
  BY <1>2 DEF Saving
<1>7. k.at \in DOMAIN GoOn => k.ent = j.ent
  BY <1>2, Points DEF After, Idle, At
<1> HIDE DEF j, k, pkgs, evs, ks
<1>8. Backed(trade, pkgs, evs, ks, bus)
  BY <1>3, <1>5, Row, BackedGrows
<1>9. Backed(trade', pkgs, evs, ks, bus)
  BY <1>1, <1>3, <1>6, <1>8, Row, MergeIsBacked
<1>10. trade' \in Trade /\ trade'.risk = trade.risk
  BY <1>1, <1>6, Row, MergeIsTrade DEF Merge
<1>11. k.at \notin {"load", "update"}
  BY <1>2, Points DEF k, After, Idle, At, Saving, Then, Publication
<1>12. JobBacked(k, trade.risk, pkgs, evs, ks, bus)
  BY <1>3, <1>7, <1>11 DEF JobBacked
<1>13. bus \subseteq MessageKey \X Actor /\ faults \in 0 .. MaxFaults
  BY DEF IInv, TypeOK
<1> QED  BY <1>1, <1>3, <1>4, <1>5, <1>9, <1>10, <1>12, <1>13, HistoryGrows

\* A message that is published or consumed keeps the invariant.
LEMMA MessagesKeep ==
  ASSUME IInv, NEW h \in Handler,
         Publish(h) \/ \E p \in Party : CenterVerificationApproved(h, p)
  PROVE  IInv'
<1>1. ASSUME NEW msg \in MessageKey \X Actor, NEW job \in Job,
             Receive(h, msg, job),
             JobBacked(job, trade.risk, proofPkgs, audit, outbox, bus \cup {msg})
      PROVE  IInv'
  <2> DEFINE msgs == bus \cup {msg}
  <2>1. /\ jobs' = [jobs EXCEPT ![h] = job] /\ bus' = msgs
        /\ trade' = trade /\ proofPkgs' = proofPkgs /\ audit' = audit
        /\ outbox' = outbox /\ faults' = faults
    BY <1>1 DEF Receive, SetJob
  <2>2. /\ msgs \subseteq MessageKey \X Actor /\ bus \subseteq msgs
        /\ audit \subseteq EventType \X Actor /\ outbox \subseteq RoutingKey
        /\ faults \in 0 .. MaxFaults
    BY DEF IInv, TypeOK
  <2> HIDE DEF msgs
  <2>3. Backed(trade, proofPkgs, audit, outbox, msgs)
    BY <2>2, Row, BackedGrows
  <2> QED  BY <1>1, <2>1, <2>2, <2>3, Row, HistoryGrows DEF msgs
<1>2. CASE Publish(h)
  <2>1. /\ Receive(h, <<jobs[h].at, "system">>, Idle)
        /\ <<jobs[h].at, "system">> \in MessageKey \X Actor
    BY <1>2 DEF Publish, MessageKey, Actor
  <2> QED  BY <1>1, <2>1, PointIsJob, PointIsBacked
<1>3. ASSUME NEW p \in Party, CenterVerificationApproved(h, p)
      PROVE  IInv'
  <2> DEFINE ent == [trade EXCEPT !.passed = @ \cup {p}]
             msg == <<"center.verification_approved", p>>
             msgs == bus \cup {msg}
             job == Save("system", ent, "none", {}, "pass")
  <2>1. Receive(h, msg, job)
    BY <1>3 DEF CenterVerificationApproved
  <2>2. /\ ent \in Trade /\ ent.state = trade.state /\ ent.risk = trade.risk
        /\ ent.proof = trade.proof /\ ent.paid = trade.paid
        /\ ent.pickup = trade.pickup /\ ent.passed = trade.passed \cup {p}
    BY Row DEF Trade
  <2>3. Backed(trade, proofPkgs, audit, outbox, msgs)
    BY Row, BackedGrows
  <2>4. msg \in MessageKey \X Actor
    BY DEF MessageKey, Actor
  <2> HIDE DEF ent
  <2>5. Backed(ent, proofPkgs, audit, outbox, msgs)
    BY <2>2, <2>3 DEF Backed, ColumnsBacked
  <2>6. job \in Job
    BY <2>2, SaveIsJob, Points DEF Actor, EventType, Then
  <2>7. /\ job.at = "load" /\ job.ent = ent
        /\ PackagesWith(job, proofPkgs) = proofPkgs /\ AuditWith(job, audit) = audit
        /\ outbox \cup job.keys = outbox
    BY DEF Save, PackagesWith, AuditWith
  <2> HIDE DEF msg, job
  <2>8. JobBacked(job, trade.risk, proofPkgs, audit, outbox, msgs)
    BY <2>2, <2>5, <2>7, Row, Points DEF JobBacked
  <2> QED  BY <1>1, <2>1, <2>4, <2>6, <2>8
<1> QED  BY <1>2, <1>3

\* A consumed payment keeps the invariant: the message is in the history
\* before the column is set.
LEMMA PaymentSucceededKeeps ==
  ASSUME IInv, NEW h \in Handler, NEW p \in Party, NEW all \in BOOLEAN,
         PaymentSucceeded(h, p, all)
  PROVE  IInv'
<1> DEFINE job == At("advance")
           row == IF all THEN [trade EXCEPT !.paid = @ \cup {p}] ELSE trade
           msgs == IF all THEN bus \cup {<<"payment.succeeded", p>>} ELSE bus
           evs == audit \cup {<<"trade.payment_received", "system">>}
<1>1. /\ trade' = row /\ audit' = evs /\ bus' = msgs
      /\ jobs' = [jobs EXCEPT ![h] = job]
      /\ proofPkgs' = proofPkgs /\ outbox' = outbox /\ faults' = faults
  BY DEF PaymentSucceeded, SetJob
<1>2. /\ row \in Trade /\ row.state = trade.state /\ row.risk = trade.risk
      /\ row.proof = trade.proof /\ row.pickup = trade.pickup
      /\ row.passed = trade.passed
      /\ row.paid = IF all THEN trade.paid \cup {p} ELSE trade.paid
  BY Row DEF Trade
<1>3. /\ evs \subseteq EventType \X Actor /\ msgs \subseteq MessageKey \X Actor
      /\ audit \subseteq evs /\ bus \subseteq msgs
      /\ outbox \subseteq RoutingKey /\ faults \in 0 .. MaxFaults
  BY DEF IInv, TypeOK, EventType, MessageKey, Actor
<1>4. Backed(trade, proofPkgs, evs, outbox, msgs)
  BY <1>3, Row, BackedGrows
<1>5. all => <<"payment.succeeded", p>> \in msgs
  OBVIOUS
<1>6. job \in Job /\ JobBacked(job, trade.risk, proofPkgs, evs, outbox, msgs)
  BY PointIsJob, PointIsBacked
<1> HIDE DEF row, evs, msgs, job
<1>7. Backed(row, proofPkgs, evs, outbox, msgs)
  BY <1>2, <1>4, <1>5 DEF Backed, ColumnsBacked
<1> QED  BY <1>1, <1>2, <1>3, <1>6, <1>7, Row, HistoryGrows

\* An execution that dies leaves nothing that is not backed.
LEMMA FaultKeeps ==
  ASSUME IInv, NEW h \in Handler, Fault(h)
  PROVE  IInv'
<1>1. Idle \in Job /\ JobBacked(Idle, trade.risk, proofPkgs, audit, outbox, bus)
  BY PointIsJob, PointIsBacked
<1>2. faults' \in 0 .. MaxFaults
  BY FaultsAssumption DEF Fault, IInv, TypeOK
<1>3. /\ audit \subseteq EventType \X Actor /\ outbox \subseteq RoutingKey
      /\ bus \subseteq MessageKey \X Actor
  BY DEF IInv, TypeOK
<1> QED  BY <1>1, <1>2, <1>3, Row, HistoryGrows DEF Fault, SetJob

\* A deadline changes no column that needs backing, in the row or in a copy.
LEMMA ElapseKeeps ==
  ASSUME IInv, NEW d \in {"step", "window"}, Elapse(d)
  PROVE  IInv'
<1> DEFINE passed(j) ==
             CASE j.at \in {"load", "update"} ->
                    [j EXCEPT !.ent = Pass(@, d), !.base = Pass(@, d)]
               [] j.at \in DOMAIN GoOn -> [j EXCEPT !.ent = Pass(@, d)]
               [] OTHER -> j
<1>1. /\ trade' = Pass(trade, d) /\ jobs' = [h \in Handler |-> passed(jobs[h])]
      /\ proofPkgs' = proofPkgs /\ audit' = audit /\ outbox' = outbox
      /\ bus' = bus /\ faults' = faults
  BY DEF Elapse
<1>2. ASSUME NEW j \in Job,
             JobBacked(j, trade.risk, proofPkgs, audit, outbox, bus)
      PROVE  /\ passed(j) \in Job
             /\ JobBacked(passed(j), trade.risk, proofPkgs, audit, outbox, bus)
  <2>1. CASE j.at \in {"load", "update"}
    <3> DEFINE k == [j EXCEPT !.ent = Pass(j.ent, d), !.base = Pass(j.base, d)]
    <3>1. j \in Saving /\ passed(j) = k
      BY <2>1, SavingJob, Points
    <3>2. /\ j.ent \in Trade /\ Pass(j.ent, d) \in Trade
          /\ Pass(j.base, d) \in Trade
      BY <3>1, PassIsTrade DEF Saving
    <3>3. /\ k \in Saving /\ k.at = j.at /\ k.ent = Pass(j.ent, d)
          /\ k.who = j.who /\ k.event = j.event /\ k.keys = j.keys
      BY <3>1, <3>2 DEF Saving
    <3>4. /\ k.ent.state = j.ent.state /\ k.ent.risk = j.ent.risk
          /\ k.ent.proof = j.ent.proof /\ k.ent.paid = j.ent.paid
          /\ k.ent.pickup = j.ent.pickup /\ k.ent.passed = j.ent.passed
      BY <3>2, <3>3, PassIsTrade
    <3> HIDE DEF passed, k
    <3>5. JobBacked(k, trade.risk, proofPkgs, audit, outbox, bus)
      BY <1>2, <2>1, <3>3, <3>4, BackedColumns, Points
         DEF JobBacked, PackagesWith, AuditWith
    <3> QED  BY <3>1, <3>3, <3>5 DEF Job
  <2>2. CASE j.at \in DOMAIN GoOn
    <3> DEFINE k == [j EXCEPT !.ent = Pass(j.ent, d)]
    <3>1. j \in Going /\ passed(j) = k
      BY <2>2, GoingJob, Points
    <3>2. j.ent \in Trade /\ Pass(j.ent, d) \in Trade
      BY <3>1, PassIsTrade DEF Going
    <3>3. k \in Going /\ k.at = j.at /\ k.ent = Pass(j.ent, d)
      BY <3>1, <3>2 DEF Going
    <3>4. /\ k.ent.state = j.ent.state /\ k.ent.risk = j.ent.risk
          /\ k.ent.proof = j.ent.proof /\ k.ent.paid = j.ent.paid
          /\ k.ent.pickup = j.ent.pickup /\ k.ent.passed = j.ent.passed
      BY <3>2, <3>3, PassIsTrade
    <3> HIDE DEF passed, k
    <3>5. JobBacked(k, trade.risk, proofPkgs, audit, outbox, bus)
      BY <1>2, <2>2, <3>3, <3>4, BackedColumns, Points DEF JobBacked
    <3> QED  BY <3>1, <3>3, <3>5 DEF Job
  <2>3. CASE j.at \notin {"load", "update"} \cup DOMAIN GoOn
    BY <1>2, <2>3
  <2> QED  BY <2>1, <2>2, <2>3
<1> HIDE DEF passed
<1>3. /\ trade' \in Trade /\ trade'.risk = trade.risk
      /\ Backed(trade', proofPkgs, audit, outbox, bus)
  <2>1. /\ Pass(trade, d).state = trade.state /\ Pass(trade, d).risk = trade.risk
        /\ Pass(trade, d).proof = trade.proof /\ Pass(trade, d).paid = trade.paid
        /\ Pass(trade, d).pickup = trade.pickup
        /\ Pass(trade, d).passed = trade.passed
    BY Row, PassIsTrade
  <2> QED  BY <1>1, <2>1, Row, PassIsTrade, BackedColumns
<1>4. TypeOK'
  BY <1>1, <1>2, <1>3 DEF IInv, TypeOK, EverythingBacked
<1>5. EverythingBacked'
  BY <1>1, <1>2, <1>3 DEF IInv, TypeOK, EverythingBacked
<1> QED  BY <1>4, <1>5 DEF IInv

----------------------------------------------------------------------------
(* The theorems.                                                           *)

\* The trade that createFromOffer inserts is backed.
LEMMA InitBacked == Init => IInv
<1> SUFFICES ASSUME Init PROVE IInv
  OBVIOUS
<1>1. TypeOK
  BY FaultsAssumption, PointIsJob
     DEF Init, TypeOK, Trade, TradeState, EventType, Actor, RoutingKey
<1>2. Backed(trade, proofPkgs, audit, outbox, bus)
  BY DEF Init, Backed, StateBacked, ColumnsBacked, Vetted, Shipped, CenterRoute
<1>3. \A h \in Handler :
        JobBacked(jobs[h], trade.risk, proofPkgs, audit, outbox, bus)
  BY PointIsBacked DEF Init
<1> QED  BY <1>1, <1>2, <1>3 DEF IInv, EverythingBacked

\* Every handler, scheduler, fault and deadline keeps what is backed backed.
LEMMA NextBacked == IInv /\ [Next]_vars => IInv'
<1> SUFFICES ASSUME IInv, [Next]_vars PROVE IInv'
  OBVIOUS
<1>1. ASSUME NEW h \in Handler, Request(h) PROVE IInv'
  BY <1>1, LockItemsKeeps, BeginVerificationKeeps, VerifyKeeps,
     RejectVerificationKeeps, CompleteTradeKeeps, OpenDisputeKeeps,
     CancelTradeKeeps, SubmitProofKeeps, ConfirmReceiptKeeps, SetShippingMethodKeeps,
     ChoicesKeep
     DEF Request
<1>2. ASSUME NEW h \in Handler, Consume(h) PROVE IInv'
  <2>1. CASE DirectShipmentDelivered(h)
    BY <2>1, DeliveredKeeps DEF DirectShipmentDelivered, TradeState
  <2>2. CASE Leg2Delivered(h)
    BY <2>2, DeliveredKeeps DEF Leg2Delivered, TradeState
  <2> QED
    BY <1>2, <2>1, <2>2, PaymentSucceededKeeps, ItemAtCenterKeeps, MessagesKeep,
       ShippingReadyKeeps, DirectShippingReadyKeeps, Leg2InTransitKeeps,
       CenterVerificationRejectedKeeps, ResolveFromDisputeKeeps DEF Consume
<1>3. ASSUME NEW h \in Handler, Proceed(h) PROVE IInv'
  BY <1>3, LoadKeeps, UpdateKeeps, MessagesKeep, PointsKeep,
     CompleteLocalPickupKeeps, CenterStepsKeep DEF Proceed
<1>4. ASSUME NEW h \in Handler, TimeoutScan(h) \/ DeliveryScan(h) \/ Fault(h)
      PROVE  IInv'
  BY <1>4, PointsKeep, FaultKeeps
<1>5. ASSUME NEW d \in {"step", "window"}, Elapse(d) PROVE IInv'
  BY <1>5, ElapseKeeps
<1>6. CASE UNCHANGED vars
  BY <1>6 DEF vars, IInv, TypeOK, EverythingBacked
<1> QED  BY <1>1, <1>2, <1>3, <1>4, <1>5, <1>6 DEF Next

\* The row, the jobs and the tables keep their types, and the row and every
\* copy of it in flight are backed by the history, in every behaviour of any
\* number of overlapping handler executions.
THEOREM Inductive == Spec => []IInv
  BY InitBacked, NextBacked, PTL DEF Spec

\* What the row, and every stale copy that may still be written over it, says
\* of proofs, payments, approvals and outcomes is backed by stored history.
THEOREM RowsAreBacked == Spec => []EverythingBacked
<1>1. IInv => EverythingBacked
  BY DEF IInv
<1> QED  BY <1>1, Inductive, PTL

\* Type correctness of the trade row, its copies and its tables.
THEOREM TypeCorrect == Spec => []TypeOK
<1>1. IInv => TypeOK
  BY DEF IInv
<1> QED  BY <1>1, Inductive, PTL

\* No trade passes its verification without the moderator and both proofs.
THEOREM AntiScam == Spec => []AntiScamGate
<1>1. IInv => AntiScamGate
  BY DEF IInv, EverythingBacked, Backed, StateBacked, AntiScamGate
<1> QED  BY <1>1, Inductive, PTL

\* No item moves before both parties have paid.
THEOREM PaidBeforeShipped == Spec => []PaymentGate
<1>1. IInv => PaymentGate
  BY DEF IInv, EverythingBacked, Backed, StateBacked, PaymentGate
<1> QED  BY <1>1, Inductive, PTL

\* A HIGH risk trade reaches its parties through the centers or by hand.
THEOREM CheckedByCenters == Spec => []CenterGate
<1>1. IInv => CenterGate
  BY DEF IInv, EverythingBacked, Backed, StateBacked, CenterGate
<1> QED  BY <1>1, Inductive, PTL

\* The outcome of a trade and its announcement are committed together.
THEOREM OutcomesAnnounced == Spec => []OutcomeAnnounced
<1>1. IInv => OutcomeAnnounced
  BY DEF IInv, EverythingBacked, Backed, StateBacked, OutcomeAnnounced
<1> QED  BY <1>1, Inductive, PTL

----------------------------------------------------------------------------
(* Handlers that run one at a time.  The copy an execution is about to     *)
(* save then follows the row as it is, so nothing that has committed in    *)
(* between can be overwritten.                                             *)

OneAtATime == \A g, h \in Handler : g = h

Outcomes == {"trade.completed", "trade.cancelled"}

\* What an execution may change: it takes back no payment, address or pickup,
\* leaves what is over, cancels nothing paid, and announces what it decides.
Follows(j) ==
  /\ j.ent.paid = trade.paid
  /\ trade.addr \subseteq j.ent.addr
  /\ trade.pickup \subseteq j.ent.pickup
  /\ j.event = "trade.address_submitted" => j.who \in j.ent.addr
  /\ j.event = "trade.local_pickup_partial" => j.who \in j.ent.pickup
  /\ trade.state \in Terminal => j.ent.state = trade.state /\ j.keys \cap Outcomes = {}
  /\ trade.state = "VERIFIED" /\ j.ent.state = "CANCELLED" => trade.paid # Party
  /\ "trade.completed" \in j.keys => j.ent.state = "COMPLETED"
  /\ "trade.cancelled" \in j.keys => j.ent.state \in {"CANCELLED", "REVOKED"}

JobInTurn(j) ==
  /\ j.at \in {"load", "update"} => Follows(j)
  /\ j.at = "update" => j.base = trade
  /\ j.at \in DOMAIN GoOn => j.ent = trade

\* An outcome that was announced is the state of the row.
AnnouncedIsState ==
  /\ "trade.completed" \in outbox => trade.state = "COMPLETED"
  /\ "trade.cancelled" \in outbox => trade.state \in {"CANCELLED", "REVOKED"}

\* What has been recorded is still in its column.
NoLostUpdate ==
  \A p \in Party :
    /\ <<"payment.succeeded", p>> \in bus => p \in trade.paid
    /\ <<"trade.address_submitted", p>> \in audit => p \in trade.addr
    /\ <<"trade.local_pickup_partial", p>> \in audit => p \in trade.pickup

InTurn ==
  /\ NoLostUpdate
  /\ AnnouncedIsState
  /\ \A h \in Handler : JobInTurn(jobs[h])

\* An execution has decided what to save, and nothing else has happened.
Decides(h) ==
  /\ jobs'[h].at = "load" /\ Follows(jobs'[h])
  /\ UNCHANGED <<trade, audit, outbox>>
  /\ \A p \in Party : <<"payment.succeeded", p>> \in bus' => <<"payment.succeeded", p>> \in bus

LEMMA DecidesInTurn ==
  ASSUME OneAtATime, InTurn, NEW h \in Handler, Decides(h)
  PROVE  InTurn'
<1>1. NoLostUpdate' /\ AnnouncedIsState'
  BY DEF InTurn, Decides, NoLostUpdate, AnnouncedIsState
<1>2. JobInTurn(jobs[h])'
  BY Points DEF Decides, Follows, JobInTurn
<1>3. \A g \in Handler : g = h
  BY DEF OneAtATime
<1> QED  BY <1>1, <1>2, <1>3 DEF InTurn

\* Where the edges of the table start.
LEMMA EdgeSources ==
  ASSUME NEW t, NEW edge, NEW to, Transition(t, edge, to)
  PROVE  /\ t.state \notin Terminal
         /\ t.state = "VERIFIED" /\ to = "CANCELLED" => t.paid # Party
  BY DEF Transition, TRANSITIONS, Guard, MayCancelVerified, Terminal

\* A handler that has read the row and is about to save a copy of it.
LEMMA SaveDecides ==
  ASSUME IInv, NEW h \in Handler,
         NEW who, NEW ent, NEW event, NEW keys, NEW then,
         ent.paid = trade.paid, trade.addr \subseteq ent.addr,
         trade.pickup \subseteq ent.pickup,
         event = "trade.address_submitted" => who \in ent.addr,
         event = "trade.local_pickup_partial" => who \in ent.pickup,
         trade.state \in Terminal => ent.state = trade.state /\ keys \cap Outcomes = {},
         trade.state = "VERIFIED" /\ ent.state = "CANCELLED" => trade.paid # Party,
         "trade.completed" \in keys => ent.state = "COMPLETED",
         "trade.cancelled" \in keys => ent.state \in {"CANCELLED", "REVOKED"},
         Begin(h, Save(who, ent, event, keys, then))
  PROVE  Decides(h)
<1> DEFINE job == Save(who, ent, event, keys, then)
<1>1. /\ job.at = "load" /\ job.ent = ent /\ job.who = who
      /\ job.event = event /\ job.keys = keys
  BY DEF Save
<1> HIDE DEF job
<1>2. Follows(job)
  BY <1>1 DEF Follows
<1>3. jobs \in [Handler -> Job]
  BY DEF IInv, TypeOK
<1>4. /\ jobs'[h] = job
      /\ trade' = trade /\ audit' = audit /\ outbox' = outbox /\ bus' = bus
  BY <1>3 DEF Begin, SetJob, job
<1> QED  BY <1>1, <1>2, <1>4 DEF Decides

\* The same for a copy of the row moved along an edge.
LEMMA EdgeDecides ==
  ASSUME IInv, NEW h \in Handler, NEW ent, NEW edge, NEW to,
         Transition(trade, edge, to),
         NEW event, NEW keys \in SUBSET RoutingKey, NEW then,
         event \notin {"trade.address_submitted", "trade.local_pickup_partial"},
         ent.state = to, ent.paid = trade.paid,
         ent.addr = trade.addr, ent.pickup = trade.pickup,
         "trade.completed" \in keys => to = "COMPLETED",
         "trade.cancelled" \in keys => to \in {"CANCELLED", "REVOKED"},
         Begin(h, Save("system", ent, event, keys, then))
  PROVE  Decides(h)
<1>1. trade.state \notin Terminal
  BY EdgeSources
<1>2. trade.state = "VERIFIED" /\ to = "CANCELLED" => trade.paid # Party
  BY EdgeSources
<1> QED  BY <1>1, <1>2, SaveDecides

\* The handlers that take an edge and write no column of the parties.
LEMMA EdgesDecide ==
  ASSUME IInv, NEW h \in Handler,
         \/ LockItems(h) \/ BeginVerification(h) \/ Verify(h) \/ RejectVerification(h)
         \/ CompleteTrade(h) \/ OpenDispute(h) \/ CancelTrade(h)
         \/ CompleteLocalPickup(h) \/ ShippingReady(h) \/ DirectShippingReady(h)
         \/ Leg2InTransit(h) \/ CenterVerificationRejected(h)
  PROVE  Decides(h)
<1> DEFINE moved(to) == [trade EXCEPT !.state = to]
           renewed(to) == [trade EXCEPT !.state = to, !.timeout = "step"]
           emptied(to) == [trade EXCEPT !.state = to, !.proof = {}, !.timeout = "step"]
           opened(to) == [trade EXCEPT !.state = to, !.window = "open", !.timeout = "window"]
<1>k. \A to \in TradeState : \A ent \in {moved(to), renewed(to), emptied(to), opened(to)} :
        /\ ent.state = to /\ ent.paid = trade.paid
        /\ ent.addr = trade.addr /\ ent.pickup = trade.pickup
  BY Row DEF Trade
<1>e. \A keys \in {{}, {"trade.locked"}, {"trade.verified"}, {"trade.dispute_opened"},
                   {"trade.completed"}, {"trade.cancelled"}} : keys \in SUBSET RoutingKey
  BY DEF RoutingKey
<1>1. CASE LockItems(h)
  <2>1. PICK to \in TradeState :
          /\ Transition(trade, "items_locked", to)
          /\ Begin(h, Save("system", renewed(to), "trade.locked", {"trade.locked"}, "idle"))
    BY <1>1 DEF LockItems
  <2> HIDE DEF renewed
  <2> QED  BY <2>1, <1>k, <1>e, EdgeTargets, EdgeDecides
<1>2. CASE BeginVerification(h)
  <2>1. PICK to \in TradeState :
          /\ Transition(trade, "begin_verification", to)
          /\ Begin(h, Save("system", renewed(to), "trade.verification_started", {}, "idle"))
    BY <1>2 DEF BeginVerification
  <2> HIDE DEF renewed
  <2> QED  BY <2>1, <1>k, <1>e, EdgeTargets, EdgeDecides
<1>3. CASE Verify(h)
  <2>1. PICK to \in TradeState :
          /\ Transition(trade, "verified", to)
          /\ Begin(h, Save("system", opened(to), "trade.verified", {"trade.verified"}, "idle"))
    BY <1>3 DEF Verify
  <2> HIDE DEF opened
  <2> QED  BY <2>1, <1>k, <1>e, EdgeTargets, EdgeDecides
<1>4. CASE RejectVerification(h)
  <2>1. PICK to \in TradeState :
          /\ Transition(trade, "verification_rejected", to)
          /\ Begin(h, Save("system", emptied(to), "trade.verification_rejected", {}, "idle"))
    BY <1>4 DEF RejectVerification
  <2> HIDE DEF emptied
  <2> QED  BY <2>1, <1>k, <1>e, EdgeTargets, EdgeDecides
<1>5. CASE CompleteTrade(h)
  <2>1. PICK to \in TradeState :
          /\ Transition(trade, "dispute_window_expired", to)
          /\ Begin(h, Save("system", moved(to), "trade.completed", {"trade.completed"}, "idle"))
    BY <1>5 DEF CompleteTrade
  <2> HIDE DEF moved
  <2> QED  BY <2>1, <1>k, <1>e, EdgeTargets, EdgeDecides
<1>6. CASE OpenDispute(h)
  <2>1. PICK to \in TradeState :
          /\ Transition(trade, "dispute_opened", to)
          /\ Begin(h, Save("system", moved(to), "trade.dispute_opened", {"trade.dispute_opened"}, "idle"))
    BY <1>6 DEF OpenDispute
  <2> HIDE DEF moved
  <2> QED  BY <2>1, <1>k, <1>e, EdgeTargets, EdgeDecides
<1>7. CASE CancelTrade(h)
  <2>1. PICK to \in TradeState :
          /\ Transition(trade, "cancel", to)
          /\ Begin(h, Save("system", moved(to), "trade.cancelled", {"trade.cancelled"}, "idle"))
    BY <1>7 DEF CancelTrade
  <2> HIDE DEF moved
  <2> QED  BY <2>1, <1>k, <1>e, EdgeTargets, EdgeDecides
<1>8. CASE CompleteLocalPickup(h)
  <2>1. PICK to \in TradeState :
          /\ Transition(trade, "local_pickup_confirmed", to)
          /\ Begin(h, Save("system", opened(to), "trade.local_pickup_confirmed", {}, "idle"))
    BY <1>8 DEF CompleteLocalPickup
  <2> HIDE DEF opened
  <2> QED  BY <2>1, <1>k, <1>e, EdgeTargets, EdgeDecides
<1>9. CASE ShippingReady(h)
  <2>1. PICK to \in TradeState :
          /\ Transition(trade, "shipping_ready", to)
          /\ Begin(h, Save("system", moved(to), "trade.awaiting_shipment", {}, "idle"))
    BY <1>9 DEF ShippingReady
  <2> HIDE DEF moved
  <2> QED  BY <2>1, <1>k, <1>e, EdgeTargets, EdgeDecides
<1>10. CASE DirectShippingReady(h)
  <2>1. PICK to \in TradeState :
          /\ Transition(trade, "direct_shipping_ready", to)
          /\ Begin(h, Save("system", moved(to), "trade.direct_shipping", {}, "idle"))
    BY <1>10 DEF DirectShippingReady
  <2> HIDE DEF moved
  <2> QED  BY <2>1, <1>k, <1>e, EdgeTargets, EdgeDecides
<1>11. CASE Leg2InTransit(h)
  <2>1. PICK to \in TradeState :
          /\ Transition(trade, "all_shipments_in_transit", to)
          /\ Begin(h, Save("system", moved(to), "trade.shipping_to_recipients", {}, "idle"))
    BY <1>11 DEF Leg2InTransit
  <2> HIDE DEF moved
  <2> QED  BY <2>1, <1>k, <1>e, EdgeTargets, EdgeDecides
<1>12. CASE CenterVerificationRejected(h)
  <2>1. PICK to \in TradeState :
          /\ Transition(trade, "center_verification_rejected", to)
          /\ Begin(h, Save("system", moved(to), "trade.center_verification_rejected", {"trade.cancelled"}, "center.verification_rejected"))
    BY <1>12 DEF CenterVerificationRejected
  <2> HIDE DEF moved
  <2> QED  BY <2>1, <1>k, <1>e, EdgeTargets, EdgeDecides
<1> QED  BY <1>1, <1>2, <1>3, <1>4, <1>5, <1>6, <1>7, <1>8, <1>9, <1>10, <1>11, <1>12

\* A carrier's delivery moves a copy through the state it skipped.
LEMMA DeliveredDecides ==
  ASSUME IInv, NEW h \in Handler, NEW early, NEW ready,
         NEW through \in TradeState, through \notin Terminal,
         Delivered(h, early, ready, through)
  PROVE  Decides(h)
<1> DEFINE t == [trade EXCEPT !.state = through]
           ent(to) == [trade EXCEPT !.state = to, !.window = "open", !.timeout = "window"]
<1>1. PICK to \in TradeState :
        /\ Transition(t, "all_shipments_delivered", to)
        /\ Begin(h, Save("system", ent(to), "trade.delivered", {}, "idle"))
  BY DEF Delivered
<1>2. trade.state = through \/ Transition(trade, ready, through)
  BY DEF Delivered
<1>3. /\ ent(to).state = to /\ ent(to).paid = trade.paid
      /\ ent(to).addr = trade.addr /\ ent(to).pickup = trade.pickup
  BY Row DEF Trade
<1> HIDE DEF t, ent
<1>4. trade.state \notin Terminal
  BY <1>2, EdgeSources
<1>5. to = "DELIVERED"
  BY <1>1, EdgeTargets
<1> QED  BY <1>1, <1>3, <1>4, <1>5, SaveDecides

\* A proof package moves the trade along an edge or leaves its state alone.
LEMMA SubmitProofDecides ==
  ASSUME IInv, NEW h \in Handler, NEW p \in Party, SubmitProof(h, p)
  PROVE  Decides(h)
<1> DEFINE t == [trade EXCEPT !.proof = @ \cup {p}, !.timeout = "step"]
           ent(to) == [t EXCEPT !.state = to]
           keys == {"trade.proof_submitted"}
<1>1. PICK to \in TradeState :
        /\ Transition(t, "proof_submitted", to) \/ to = t.state
        /\ Begin(h, Save(p, ent(to), "trade.proof_submitted", keys, "idle"))
  BY DEF SubmitProof
<1>2. t \in Trade /\ t.state = trade.state /\ t.paid = trade.paid
      /\ t.addr = trade.addr /\ t.pickup = trade.pickup
  BY Row DEF Trade
<1> HIDE DEF t
<1>3. /\ ent(to).state = to /\ ent(to).paid = trade.paid
      /\ ent(to).addr = trade.addr /\ ent(to).pickup = trade.pickup
  BY <1>2 DEF Trade
<1> HIDE DEF ent
<1>4. /\ to = trade.state \/ (trade.state \notin Terminal /\ to = "PROOF_SUBMITTED")
      /\ keys \cap Outcomes = {}
  BY <1>1, <1>2, EdgeSources, EdgeTargets DEF Outcomes
<1>5. "trade.completed" \notin keys /\ "trade.cancelled" \notin keys
  OBVIOUS
<1> HIDE DEF keys
<1> QED  BY <1>1, <1>3, <1>4, <1>5, SaveDecides

\* Confirming the receipt needs a delivered trade.
LEMMA ConfirmReceiptDecides ==
  ASSUME IInv, NEW h \in Handler, NEW p \in Party, ConfirmReceipt(h, p)
  PROVE  Decides(h)
<1> DEFINE t == [trade EXCEPT !.receipt = @ \cup {p}]
           ent(to) == [t EXCEPT !.state = to]
<1>1. t \in Trade /\ t.state = trade.state /\ t.paid = trade.paid
      /\ t.addr = trade.addr /\ t.pickup = trade.pickup
  BY Row DEF Trade
<1>2. trade.state = "DELIVERED"
  BY DEF ConfirmReceipt
<1>3. CASE Begin(h, Save("system", t, "none", {}, "idle"))
  <2> HIDE DEF t
  <2> QED  BY <1>1, <1>2, <1>3, SaveDecides DEF Terminal
<1>4. CASE \E to \in TradeState :
             /\ Transition(t, "buyer_confirmed_receipt", to)
             /\ Begin(h, Save("system", ent(to), "trade.receipt_confirmed",
                              {"trade.completed"}, "idle"))
  <2>1. PICK to \in TradeState :
             /\ Transition(t, "buyer_confirmed_receipt", to)
             /\ Begin(h, Save("system", ent(to), "trade.receipt_confirmed",
                              {"trade.completed"}, "idle"))
    BY <1>4
  <2> HIDE DEF t
  <2>2. /\ ent(to).state = to /\ ent(to).paid = trade.paid
        /\ ent(to).addr = trade.addr /\ ent(to).pickup = trade.pickup
    BY <1>1 DEF Trade
  <2> HIDE DEF ent
  <2>3. to = "COMPLETED"
    BY <2>1, EdgeTargets
  <2> QED  BY <1>2, <2>1, <2>2, <2>3, SaveDecides DEF Terminal
<1> QED  BY <1>3, <1>4 DEF ConfirmReceipt

\* The parties' choices and confirmations before shipping, whose guard is a
\* state that is not over, and a center that has received an item.
LEMMA ColumnsDecide ==
  ASSUME IInv, NEW h \in Handler, NEW p \in Party,
         \/ SelectCenter(h, p) \/ SubmitAddress(h, p) \/ ConfirmLocalPickup(h, p)
         \/ ItemAtCenter(h, p)
  PROVE  Decides(h)
<1> DEFINE chosen == [trade EXCEPT !.center = @ \cup {p}]
           addressed == [trade EXCEPT !.addr = @ \cup {p},
                           !.method = IF @ = "none" THEN "shipping" ELSE @]
           picked == [trade EXCEPT !.pickup = @ \cup {p},
                        !.method = IF @ = "none" THEN "local_pickup" ELSE @]
           received == [trade EXCEPT !.arrived = @ \cup {p}]
<1>1. CASE SelectCenter(h, p)
  <2>1. Begin(h, Save("system", chosen, "trade.center_selected", {}, AfterAddresses(chosen)))
    BY <1>1 DEF SelectCenter
  <2>2. /\ chosen.state = trade.state /\ chosen.paid = trade.paid
        /\ chosen.addr = trade.addr /\ chosen.pickup = trade.pickup
    BY Row DEF Trade
  <2> HIDE DEF chosen
  <2> QED  BY <1>1, <2>1, <2>2, SaveDecides DEF SelectCenter, Terminal
<1>2. CASE SubmitAddress(h, p)
  <2>1. Begin(h, Save(p, addressed, "trade.address_submitted", {}, AfterAddresses(addressed)))
    BY <1>2 DEF SubmitAddress
  <2>2. /\ addressed.state = trade.state /\ addressed.paid = trade.paid
        /\ addressed.addr = trade.addr \cup {p} /\ addressed.pickup = trade.pickup
    BY Row DEF Trade
  <2> HIDE DEF addressed
  <2> QED  BY <1>2, <2>1, <2>2, SaveDecides DEF SubmitAddress, Terminal
<1>3. CASE ConfirmLocalPickup(h, p)
  <2>1. Begin(h, Save(p, picked, "trade.local_pickup_partial", {}, "pickup"))
    BY <1>3 DEF ConfirmLocalPickup
  <2>2. /\ picked.state = trade.state /\ picked.paid = trade.paid
        /\ picked.addr = trade.addr /\ picked.pickup = trade.pickup \cup {p}
    BY Row DEF Trade
  <2> HIDE DEF picked
  <2> QED  BY <1>3, <2>1, <2>2, SaveDecides DEF ConfirmLocalPickup, Terminal
<1>4. CASE ItemAtCenter(h, p)
  <2>1. Begin(h, Save("system", received, "none", {}, "arrive"))
    BY <1>4 DEF ItemAtCenter
  <2>2. /\ received.state = trade.state /\ received.paid = trade.paid
        /\ received.addr = trade.addr /\ received.pickup = trade.pickup
    BY Row DEF Trade
  <2>3. trade.state # "VERIFIED" \/ trade.state # "CANCELLED"
    OBVIOUS
  <2> HIDE DEF received
  <2> QED  BY <2>1, <2>2, <2>3, SaveDecides
<1> QED  BY <1>1, <1>2, <1>3, <1>4

\* The choice of the shipping method.
LEMMA MethodDecides ==
  ASSUME IInv, NEW h \in Handler, NEW m \in {"shipping", "local_pickup"},
         SetShippingMethod(h, m)
  PROVE  Decides(h)
<1> DEFINE sent == [trade EXCEPT !.method = m]
<1>1. /\ trade.state = "VERIFIED"
      /\ Begin(h, Save("system", sent, "none", {}, "idle"))
  BY DEF SetShippingMethod
<1>2. /\ sent.state = trade.state /\ sent.paid = trade.paid
      /\ sent.addr = trade.addr /\ sent.pickup = trade.pickup
  BY Row DEF Trade
<1> HIDE DEF sent
<1> QED  BY <1>1, <1>2, SaveDecides DEF Terminal

\* A center's approval of an item, and what a resolved dispute leads to.
LEMMA VerdictsDecide ==
  ASSUME IInv, NEW h \in Handler,
         \/ \E p \in Party : CenterVerificationApproved(h, p)
         \/ \E outcome \in {"completed", "revoked"} : ResolveFromDispute(h, outcome)
  PROVE  Decides(h)
<1> DEFINE moved(to) == [trade EXCEPT !.state = to]
           passed(p) == [trade EXCEPT !.passed = @ \cup {p}]
<1>1. ASSUME NEW p \in Party, CenterVerificationApproved(h, p)
      PROVE  Decides(h)
  <2> DEFINE job == Save("system", passed(p), "none", {}, "pass")
  <2>1. Receive(h, <<"center.verification_approved", p>>, job)
    BY <1>1 DEF CenterVerificationApproved
  <2>2. /\ passed(p).state = trade.state /\ passed(p).paid = trade.paid
        /\ passed(p).addr = trade.addr /\ passed(p).pickup = trade.pickup
    BY Row DEF Trade
  <2>3. /\ job.at = "load" /\ job.ent = passed(p) /\ job.event = "none" /\ job.keys = {}
    BY DEF Save
  <2> HIDE DEF passed, job
  <2>4. Follows(job)
    BY <2>2, <2>3 DEF Follows
  <2>5. jobs \in [Handler -> Job]
    BY DEF IInv, TypeOK
  <2>6. /\ jobs'[h] = job /\ trade' = trade /\ audit' = audit /\ outbox' = outbox
        /\ bus' = bus \cup {<<"center.verification_approved", p>>}
    BY <2>1, <2>5 DEF Receive, SetJob
  <2> QED  BY <2>3, <2>4, <2>6 DEF Decides
<1>2. ASSUME NEW outcome \in {"completed", "revoked"}, ResolveFromDispute(h, outcome)
      PROVE  Decides(h)
  <2>1. PICK to \in TradeState :
          \/ /\ Transition(trade, "trade_revoked", to)
             /\ Begin(h, Save("system", moved(to), "trade.revoked",
                              {"trade.cancelled"}, "idle"))
          \/ /\ Transition(trade, "dispute_resolved", to)
             /\ Begin(h, Save("system", moved(to), "trade.completed",
                              {"trade.completed"}, "idle"))
    BY <1>2 DEF ResolveFromDispute
  <2>2. /\ moved(to).state = to /\ moved(to).paid = trade.paid
        /\ moved(to).addr = trade.addr /\ moved(to).pickup = trade.pickup
    BY Row DEF Trade
  <2>3. {"trade.cancelled"} \in SUBSET RoutingKey /\ {"trade.completed"} \in SUBSET RoutingKey
    BY DEF RoutingKey
  <2> HIDE DEF moved
  <2> QED  BY <2>1, <2>2, <2>3, EdgeTargets, EdgeDecides
<1> QED  BY <1>1, <1>2

\* A center's next transaction goes on with its copy, which is the row.
LEMMA NextTransactionDecides ==
  ASSUME IInv, InTurn, NEW h \in Handler, NEW point \in DOMAIN GoOn,
         NEW event, NEW then,
         event \notin {"trade.address_submitted", "trade.local_pickup_partial"},
         NextTransaction(h, point, event, then)
  PROVE  Decides(h)
<1> DEFINE moved(to) == [trade EXCEPT !.state = to]
<1>1. jobs[h].ent = trade
  BY DEF InTurn, JobInTurn, NextTransaction
<1>2. PICK to \in TradeState :
        /\ Transition(trade, GoOn[point], to)
        /\ Begin(h, Save("system", moved(to), event, {}, then))
  BY <1>1 DEF NextTransaction
<1>3. /\ moved(to).state = to /\ moved(to).paid = trade.paid
      /\ moved(to).addr = trade.addr /\ moved(to).pickup = trade.pickup
  BY Row DEF Trade
<1> HIDE DEF moved
<1> QED  BY <1>2, <1>3, EdgeDecides

LEMMA CenterStepsDecide ==
  ASSUME IInv, InTurn, NEW h \in Handler,
         BothItemsAtCenter(h) \/ CenterInspectionStarted(h) \/ BothItemsCenterVerified(h)
  PROVE  Decides(h)
  BY NextTransactionDecides, Points
     DEF BothItemsAtCenter, CenterInspectionStarted, BothItemsCenterVerified

\* An execution that ends, or goes on without a copy, and writes nothing.
Leaves(h) ==
  /\ jobs'[h].at \notin {"load", "update"} \cup DOMAIN GoOn
  /\ UNCHANGED <<trade, audit, outbox>>
  /\ \A p \in Party : <<"payment.succeeded", p>> \in bus' => <<"payment.succeeded", p>> \in bus

LEMMA LeavesInTurn ==
  ASSUME OneAtATime, InTurn, NEW h \in Handler, Leaves(h)
  PROVE  InTurn'
<1>1. NoLostUpdate' /\ AnnouncedIsState'
  BY DEF InTurn, Leaves, NoLostUpdate, AnnouncedIsState
<1>2. JobInTurn(jobs[h])'
  BY DEF Leaves, JobInTurn
<1>3. \A g \in Handler : g = h
  BY DEF OneAtATime
<1> QED  BY <1>1, <1>2, <1>3 DEF InTurn

\* The schedulers, a payment's second look, a publication and a failure.
LEMMA PointsLeave ==
  ASSUME IInv, NEW h \in Handler,
         \/ TimeoutScan(h) \/ DeliveryScan(h) \/ Advance(h)
         \/ GiveUp(h) \/ Publish(h) \/ Fault(h)
  PROVE  Leaves(h)
<1>1. jobs \in [Handler -> Job]
  BY DEF IInv, TypeOK
<1>2. AfterPayment(trade) \in {"idle", "shipReady", "directReady", "pickup"}
  BY DEF AfterPayment
<1>3. /\ Idle.at = "idle"
      /\ \A point : At(point).at = point
  BY DEF Idle, At
<1>4. CASE TimeoutScan(h) \/ DeliveryScan(h) \/ Advance(h) \/ GiveUp(h)
  <2> DEFINE advanced == IF AfterPayment(trade) = "idle" THEN Idle ELSE At(AfterPayment(trade))
             timedOut == IF \/ trade.state \in {"DELIVERED", "SHIPPING_TO_RECIPIENTS"}
                            \/ trade.state = "VERIFIED" /\ trade.method = "none"
                         THEN At("complete") ELSE At("cancel")
  <2>1. /\ advanced.at \notin {"load", "update"} \cup DOMAIN GoOn
        /\ timedOut.at \notin {"load", "update"} \cup DOMAIN GoOn
    BY <1>2, <1>3, Points
  <2>2. PICK job \in {advanced, timedOut, At("complete"), Idle} : Begin(h, job)
    BY <1>4 DEF TimeoutScan, DeliveryScan, Advance, GiveUp
  <2>3. job.at \notin {"load", "update"} \cup DOMAIN GoOn
    BY <1>3, <2>1, Points
  <2> QED  BY <1>1, <2>2, <2>3 DEF Begin, SetJob, Leaves
<1>5. CASE Publish(h)
  <2>1. jobs'[h] = Idle
    BY <1>1, <1>5 DEF Publish, Receive, SetJob
  <2>2. /\ UNCHANGED <<trade, audit, outbox>>
        /\ bus' = bus \cup {<<jobs[h].at, "system">>}
        /\ jobs[h].at # "payment.succeeded"
    BY <1>5 DEF Publish, Receive, Publication
  <2> QED  BY <1>3, <2>1, <2>2, Points DEF Leaves
<1>6. CASE Fault(h)
  BY <1>1, <1>3, <1>6, Points DEF Fault, SetJob, Leaves
<1> QED  BY <1>4, <1>5, <1>6

\* The two steps that change the state of the row keep to the table.
MovesInTurn ==
  /\ trade.state \in Terminal => trade'.state = trade.state
  /\ trade.state = "VERIFIED" /\ trade'.state = "CANCELLED" => trade.paid # Party

\* A complete payment is counted and heard of in one step.
LEMMA PaymentInTurn ==
  ASSUME OneAtATime, IInv, InTurn, NEW h \in Handler, NEW p \in Party,
         NEW all \in BOOLEAN, PaymentSucceeded(h, p, all)
  PROVE  InTurn' /\ MovesInTurn
<1>1. jobs \in [Handler -> Job]
  BY DEF IInv, TypeOK
<1>2. jobs'[h] = [at |-> "advance"] /\ outbox' = outbox
  BY <1>1 DEF PaymentSucceeded, SetJob, At
<1>3. /\ trade'.state = trade.state /\ trade'.addr = trade.addr
      /\ trade'.pickup = trade.pickup /\ trade.paid \subseteq trade'.paid
  BY Row DEF PaymentSucceeded, Trade
<1>4. NoLostUpdate'
  <2>1. audit' = audit \cup {<<"trade.payment_received", "system">>}
    BY DEF PaymentSucceeded
  <2>2. \A q \in Party : <<"payment.succeeded", q>> \in bus' => q \in trade'.paid
    BY <1>3, Row DEF PaymentSucceeded, InTurn, NoLostUpdate, Trade
  <2> QED  BY <1>3, <2>1, <2>2 DEF InTurn, NoLostUpdate
<1>5. AnnouncedIsState'
  BY <1>2, <1>3 DEF InTurn, AnnouncedIsState
<1>6. JobInTurn(jobs[h])'
  BY <1>2, Points DEF JobInTurn
<1>7. \A g \in Handler : g = h
  BY DEF OneAtATime
<1> QED  BY <1>3, <1>4, <1>5, <1>6, <1>7 DEF InTurn, MovesInTurn

\* The SELECT of save() finds the row the handler copied.
LEMMA LoadInTurn ==
  ASSUME OneAtATime, IInv, InTurn, NEW h \in Handler, Load(h)
  PROVE  InTurn' /\ MovesInTurn
<1> DEFINE j == jobs[h]
           k == [j EXCEPT !.at = "update", !.base = trade]
<1>1. jobs \in [Handler -> Job] /\ j \in Saving
  BY SavingJob DEF IInv, TypeOK, Load
<1>2. /\ jobs'[h] = k
      /\ trade' = trade /\ audit' = audit /\ outbox' = outbox /\ bus' = bus
  BY <1>1 DEF Load, Begin, SetJob
<1>3. /\ k.at = "update" /\ k.base = trade /\ k.ent = j.ent
      /\ k.who = j.who /\ k.event = j.event /\ k.keys = j.keys
  BY <1>1 DEF Saving
<1>4. Follows(j)
  BY DEF Load, InTurn, JobInTurn
<1> HIDE DEF j, k
<1>5. JobInTurn(k)
  BY <1>3, <1>4, Points DEF JobInTurn, Follows
<1>6. JobInTurn(jobs[h])'
  BY <1>2, <1>5 DEF JobInTurn, Follows
<1>7. NoLostUpdate' /\ AnnouncedIsState'
  BY <1>2 DEF InTurn, NoLostUpdate, AnnouncedIsState
<1>8. \A g \in Handler : g = h
  BY DEF OneAtATime
<1> QED  BY <1>2, <1>6, <1>7, <1>8 DEF InTurn, MovesInTurn

\* A copy saved over the row it was taken from is the new row.
LEMMA MergeInTurn ==
  ASSUME NEW row \in Trade, NEW ent \in Trade, ent.risk = row.risk
  PROVE  Merge(row, row, ent) = ent
<1> DEFINE m == Merge(row, row, ent)
<1>1. /\ m.state = ent.state /\ m.risk = ent.risk /\ m.method = ent.method
      /\ m.timeout = ent.timeout /\ m.window = ent.window
  BY DEF Merge, MergeValue
<1>2. \A a, b : MergeSet(a, a, b) = b
  BY DEF MergeSet
<1>3. /\ m.proof = ent.proof /\ m.paid = ent.paid /\ m.pickup = ent.pickup
      /\ m.receipt = ent.receipt /\ m.addr = ent.addr /\ m.center = ent.center
      /\ m.arrived = ent.arrived /\ m.passed = ent.passed
  BY <1>2 DEF Merge
<1>4. m \in Trade
  BY MergeIsTrade
<1> HIDE DEF m
<1>5. m = ent
  BY <1>1, <1>3, <1>4 DEF Trade
<1> QED  BY <1>5 DEF m

\* The UPDATE of save() leaves nothing of the row behind.
LEMMA UpdateInTurn ==
  ASSUME OneAtATime, IInv, InTurn, NEW h \in Handler, Update(h)
  PROVE  InTurn' /\ MovesInTurn
<1> DEFINE j == jobs[h]
<1>1. jobs \in [Handler -> Job] /\ j \in Saving /\ j.ent \in Trade
  BY SavingJob DEF IInv, TypeOK, Update, Saving
<1>2. Follows(j) /\ j.base = trade
  BY DEF Update, InTurn, JobInTurn
<1>3. j.ent.risk = trade.risk
  BY DEF Update, IInv, EverythingBacked, JobBacked
<1>4. /\ trade' = Merge(trade, j.base, j.ent) /\ jobs'[h] = After(j)
      /\ audit' = AuditWith(j, audit) /\ outbox' = outbox \cup j.keys /\ bus' = bus
  BY <1>1 DEF Update, SetJob
<1> HIDE DEF j
<1>5. trade' = j.ent
  BY <1>1, <1>2, <1>3, <1>4, Row, MergeInTurn
<1>6. NoLostUpdate'
  BY <1>2, <1>4, <1>5 DEF InTurn, NoLostUpdate, Follows, AuditWith
<1>7. AnnouncedIsState'
  BY <1>2, <1>4, <1>5 DEF InTurn, AnnouncedIsState, Follows, Terminal, Outcomes
<1>8. JobInTurn(jobs[h])'
  <2>1. CASE j.then = "idle"
    BY <1>4, <2>1, Points DEF After, Idle, JobInTurn
  <2>2. CASE j.then \in DOMAIN GoOn
    <3>1. After(j).at = j.then /\ After(j).ent = j.ent
      BY <2>2, Points DEF After
    <3> QED  BY <1>4, <1>5, <2>2, <3>1, Points DEF JobInTurn
  <2>3. CASE j.then \in {"pickup"} \cup Publication
    <3>1. After(j).at = j.then
      BY <2>3, Points DEF After, At, Publication
    <3> QED  BY <1>4, <2>3, <3>1, Points DEF JobInTurn, Publication
  <2> QED  BY <1>1, <2>1, <2>2, <2>3 DEF Saving, Then
<1>9. \A g \in Handler : g = h
  BY DEF OneAtATime
<1>10. MovesInTurn
  BY <1>2, <1>5 DEF Follows, MovesInTurn
<1> QED  BY <1>6, <1>7, <1>8, <1>9, <1>10 DEF InTurn

\* A deadline passes in the row and in its copy alike.
LEMMA ElapseInTurn ==
  ASSUME OneAtATime, IInv, InTurn, NEW d \in {"step", "window"}, Elapse(d)
  PROVE  InTurn' /\ MovesInTurn
<1>1. /\ trade' = Pass(trade, d)
      /\ audit' = audit /\ outbox' = outbox /\ bus' = bus
  BY DEF Elapse
<1>2. \A t \in Trade : /\ Pass(t, d).state = t.state /\ Pass(t, d).paid = t.paid
                       /\ Pass(t, d).addr = t.addr /\ Pass(t, d).pickup = t.pickup
  BY PassIsTrade
<1>3. /\ trade'.state = trade.state /\ trade'.paid = trade.paid
      /\ trade'.addr = trade.addr /\ trade'.pickup = trade.pickup
  BY <1>1, <1>2, Row
<1>4. NoLostUpdate' /\ AnnouncedIsState'
  BY <1>1, <1>3 DEF InTurn, NoLostUpdate, AnnouncedIsState
<1>5. ASSUME NEW h \in Handler PROVE JobInTurn(jobs[h])'
  <2> DEFINE j == jobs[h]
             k == [j EXCEPT !.ent = Pass(j.ent, d), !.base = Pass(j.base, d)]
             l == [j EXCEPT !.ent = Pass(j.ent, d)]
  <2>1. j \in Job /\ JobInTurn(j)
    BY DEF IInv, TypeOK, InTurn
  <2>2. CASE j.at \in {"load", "update"}
    <3>1. j \in Saving /\ jobs'[h] = k
      BY <2>1, <2>2, SavingJob, Points DEF Elapse
    <3>2. /\ k.at = j.at /\ k.ent = Pass(j.ent, d) /\ k.base = Pass(j.base, d)
          /\ k.who = j.who /\ k.event = j.event /\ k.keys = j.keys
          /\ j.ent \in Trade
      BY <3>1 DEF Saving
    <3> HIDE DEF j, k
    <3>3. /\ k.ent.state = j.ent.state /\ k.ent.paid = j.ent.paid
          /\ k.ent.addr = j.ent.addr /\ k.ent.pickup = j.ent.pickup
      BY <1>2, <3>2
    <3>4. Follows(j)
      BY <2>1, <2>2 DEF JobInTurn
    <3>5. Follows(jobs[h])'
      BY <1>3, <3>1, <3>2, <3>3, <3>4 DEF Follows
    <3>6. j.at = "update" => k.base = trade'
      BY <1>1, <2>1, <3>2 DEF JobInTurn
    <3> QED  BY <2>2, <3>1, <3>2, <3>5, <3>6, Points DEF JobInTurn
  <2>3. CASE j.at \in DOMAIN GoOn
    <3>1. j \in Going /\ jobs'[h] = l
      BY <2>1, <2>3, GoingJob, Points DEF Elapse
    <3>2. l.at = j.at /\ l.ent = Pass(j.ent, d) /\ j.ent = trade
      BY <2>1, <2>3, <3>1 DEF Going, JobInTurn
    <3> HIDE DEF j, l
    <3> QED  BY <1>1, <2>3, <3>1, <3>2, Points DEF JobInTurn
  <2>4. CASE j.at \notin {"load", "update"} \cup DOMAIN GoOn
    <3>1. jobs'[h] = j
      BY <2>4 DEF Elapse
    <3> QED  BY <2>4, <3>1 DEF JobInTurn
  <2> QED  BY <2>2, <2>3, <2>4
<1> QED  BY <1>3, <1>4, <1>5 DEF InTurn, MovesInTurn

\* Nothing is lost in the trade that createFromOffer inserts.
LEMMA InitInTurn == Init => InTurn
<1> SUFFICES ASSUME Init PROVE InTurn
  OBVIOUS
<1>1. /\ trade.state = "ACCEPTED" /\ bus = {} /\ outbox = {"trade.initiated"}
      /\ audit = {<<"trade.initiated", "system">>}
  BY DEF Init
<1>2. \A h \in Handler : jobs[h].at = "idle"
  BY DEF Init, Idle
<1> QED  BY <1>1, <1>2, Points DEF InTurn, NoLostUpdate, AnnouncedIsState, JobInTurn

\* No step of an execution that has the row to itself loses an update or
\* leaves a state it may not leave.
LEMMA NextInTurn ==
  ASSUME OneAtATime, IInv, InTurn, [Next]_vars
  PROVE  InTurn' /\ MovesInTurn
<1>1. ASSUME NEW h \in Handler, Decides(h) \/ Leaves(h)
      PROVE  InTurn' /\ MovesInTurn
  BY <1>1, DecidesInTurn, LeavesInTurn DEF Decides, Leaves, MovesInTurn
<1>2. ASSUME NEW h \in Handler, Request(h) PROVE Decides(h)
  BY <1>2, EdgesDecide, SubmitProofDecides, ConfirmReceiptDecides, ColumnsDecide,
     MethodDecides DEF Request
<1>3. ASSUME NEW h \in Handler, Consume(h) PROVE InTurn' /\ MovesInTurn
  <2>1. CASE DirectShipmentDelivered(h)
    BY <1>1, <2>1, DeliveredDecides DEF DirectShipmentDelivered, TradeState, Terminal
  <2>2. CASE Leg2Delivered(h)
    BY <1>1, <2>2, DeliveredDecides DEF Leg2Delivered, TradeState, Terminal
  <2>3. CASE \E p \in Party, all \in BOOLEAN : PaymentSucceeded(h, p, all)
    BY <2>3, PaymentInTurn
  <2> QED
    BY <1>1, <1>3, <2>1, <2>2, <2>3, EdgesDecide, ColumnsDecide, VerdictsDecide DEF Consume
<1>4. ASSUME NEW h \in Handler, Proceed(h) PROVE InTurn' /\ MovesInTurn
  BY <1>1, <1>4, LoadInTurn, UpdateInTurn, PointsLeave, EdgesDecide, CenterStepsDecide
     DEF Proceed
<1>5. ASSUME NEW h \in Handler, TimeoutScan(h) \/ DeliveryScan(h) \/ Fault(h)
      PROVE  Leaves(h)
  BY <1>5, PointsLeave
<1>6. ASSUME NEW d \in {"step", "window"}, Elapse(d) PROVE InTurn' /\ MovesInTurn
  BY <1>6, ElapseInTurn
<1>7. CASE UNCHANGED vars
  BY <1>7 DEF vars, InTurn, NoLostUpdate, AnnouncedIsState, JobInTurn, Follows, MovesInTurn
<1> QED  BY <1>1, <1>2, <1>3, <1>4, <1>5, <1>6, <1>7 DEF Next

\* When executions do not overlap, every copy in flight follows the row.
THEOREM CopiesFollowRow ==
  ASSUME OneAtATime
  PROVE  Spec => []InTurn
<1>1. IInv /\ InTurn /\ [Next]_vars => InTurn'
  BY NextInTurn
<1> QED  BY <1>1, InitInTurn, Inductive, PTL DEF Spec

\* Handled one execution at a time, a trade never announces two outcomes:
\* payment-service is not told both to release an escrow and to refund it.
THEOREM OneOutcomeInTurn ==
  ASSUME OneAtATime
  PROVE  Spec => []OneOutcome
<1>1. InTurn => OneOutcome
  BY DEF InTurn, AnnouncedIsState, OneOutcome
<1> QED  BY <1>1, CopiesFollowRow, PTL

\* ... and a trade that is over stays over.
THEOREM TerminalInTurn ==
  ASSUME OneAtATime
  PROVE  Spec => TerminalIsFinal
<1>1. IInv /\ InTurn /\ [Next]_vars
        => [trade.state \in Terminal => trade'.state = trade.state]_vars
  BY NextInTurn DEF MovesInTurn
<1> QED  BY <1>1, CopiesFollowRow, Inductive, PTL DEF Spec, TerminalIsFinal

----------------------------------------------------------------------------
(* The lifecycle: what an execution that has the row to itself commits is  *)
(* one step of TradeLifecycle.                                             *)

\* What the other services are to be told of an edge.
Due(edge) ==
  CASE edge = "verified" -> {"trade.verified"}
    [] edge = "dispute_opened" -> {"trade.dispute_opened"}
    [] edge \in {"dispute_window_expired", "buyer_confirmed_receipt",
                 "dispute_resolved"} -> {"trade.completed"}
    [] edge \in {"cancel", "center_verification_rejected", "trade_revoked"}
         -> {"trade.cancelled"}
    [] OTHER -> {}

\* A handler is about to save the row moved along an edge.
MovesAlong(h, edge, event, keys, then) ==
  \E to \in TradeState, ent \in Trade :
    /\ Transition(trade, edge, to)
    /\ ent.state = to /\ ent.risk = trade.risk /\ ent.method = trade.method
    /\ ent.proof = IF edge = "verification_rejected" THEN {} ELSE trade.proof
    /\ ent.paid = trade.paid /\ ent.pickup = trade.pickup
    /\ ent.passed = trade.passed
    /\ ent.addr = trade.addr /\ ent.center = trade.center
    /\ Begin(h, Save("system", ent, event, keys, then))

\* ... as all of these are.
LEMMA EdgesMove ==
  ASSUME IInv, NEW h \in Handler
  PROVE  /\ LockItems(h) =>
              MovesAlong(h, "items_locked", "trade.locked", {"trade.locked"}, "idle")
         /\ BeginVerification(h) =>
              MovesAlong(h, "begin_verification", "trade.verification_started", {}, "idle")
         /\ Verify(h) =>
              MovesAlong(h, "verified", "trade.verified", {"trade.verified"}, "idle")
         /\ RejectVerification(h) =>
              MovesAlong(h, "verification_rejected", "trade.verification_rejected", {}, "idle")
         /\ CompleteTrade(h) =>
              MovesAlong(h, "dispute_window_expired", "trade.completed",
                         {"trade.completed"}, "idle")
         /\ OpenDispute(h) =>
              MovesAlong(h, "dispute_opened", "trade.dispute_opened",
                         {"trade.dispute_opened"}, "idle")
         /\ CancelTrade(h) =>
              MovesAlong(h, "cancel", "trade.cancelled", {"trade.cancelled"}, "idle")
         /\ CompleteLocalPickup(h) =>
              MovesAlong(h, "local_pickup_confirmed", "trade.local_pickup_confirmed", {}, "idle")
         /\ ShippingReady(h) =>
              MovesAlong(h, "shipping_ready", "trade.awaiting_shipment", {}, "idle")
         /\ DirectShippingReady(h) =>
              MovesAlong(h, "direct_shipping_ready", "trade.direct_shipping", {}, "idle")
         /\ Leg2InTransit(h) =>
              MovesAlong(h, "all_shipments_in_transit", "trade.shipping_to_recipients", {}, "idle")
         /\ CenterVerificationRejected(h) =>
              MovesAlong(h, "center_verification_rejected",
                         "trade.center_verification_rejected", {"trade.cancelled"},
                         "center.verification_rejected")
         /\ ResolveFromDispute(h, "revoked") =>
              MovesAlong(h, "trade_revoked", "trade.revoked", {"trade.cancelled"}, "idle")
         /\ ResolveFromDispute(h, "completed") =>
              MovesAlong(h, "dispute_resolved", "trade.completed", {"trade.completed"}, "idle")
<1> DEFINE moved(to) == [trade EXCEPT !.state = to]
           renewed(to) == [trade EXCEPT !.state = to, !.timeout = "step"]
           emptied(to) == [trade EXCEPT !.state = to, !.proof = {}, !.timeout = "step"]
           opened(to) == [trade EXCEPT !.state = to, !.window = "open", !.timeout = "window"]
<1>t. trade \in Trade
  BY Row
<1>m. ASSUME NEW to \in TradeState
      PROVE  /\ moved(to) \in Trade /\ moved(to).state = to /\ moved(to).risk = trade.risk
             /\ moved(to).method = trade.method /\ moved(to).paid = trade.paid
             /\ moved(to).pickup = trade.pickup /\ moved(to).passed = trade.passed
             /\ moved(to).addr = trade.addr /\ moved(to).center = trade.center
             /\ moved(to).proof = trade.proof
  BY <1>t DEF Trade
<1>r. ASSUME NEW to \in TradeState
      PROVE  /\ renewed(to) \in Trade /\ renewed(to).state = to /\ renewed(to).risk = trade.risk
             /\ renewed(to).method = trade.method /\ renewed(to).paid = trade.paid
             /\ renewed(to).pickup = trade.pickup /\ renewed(to).passed = trade.passed
             /\ renewed(to).addr = trade.addr /\ renewed(to).center = trade.center
             /\ renewed(to).proof = trade.proof
  BY <1>t DEF Trade
<1>e. ASSUME NEW to \in TradeState
      PROVE  /\ emptied(to) \in Trade /\ emptied(to).state = to /\ emptied(to).risk = trade.risk
             /\ emptied(to).method = trade.method /\ emptied(to).paid = trade.paid
             /\ emptied(to).pickup = trade.pickup /\ emptied(to).passed = trade.passed
             /\ emptied(to).addr = trade.addr /\ emptied(to).center = trade.center
             /\ emptied(to).proof = {}
  BY <1>t DEF Trade
<1>o. ASSUME NEW to \in TradeState
      PROVE  /\ opened(to) \in Trade /\ opened(to).state = to /\ opened(to).risk = trade.risk
             /\ opened(to).method = trade.method /\ opened(to).paid = trade.paid
             /\ opened(to).pickup = trade.pickup /\ opened(to).passed = trade.passed
             /\ opened(to).addr = trade.addr /\ opened(to).center = trade.center
             /\ opened(to).proof = trade.proof
  BY <1>t DEF Trade
<1>1. LockItems(h) =>
        MovesAlong(h, "items_locked", "trade.locked", {"trade.locked"}, "idle")
  <2> HAVE LockItems(h)
  <2>1. PICK to \in TradeState :
          /\ Transition(trade, "items_locked", to)
          /\ Begin(h, Save("system", renewed(to), "trade.locked", {"trade.locked"}, "idle"))
    BY DEF LockItems
  <2> HIDE DEF renewed
  <2> QED  BY <2>1, <1>r DEF MovesAlong
<1>2. BeginVerification(h) =>
        MovesAlong(h, "begin_verification", "trade.verification_started", {}, "idle")
  <2> HAVE BeginVerification(h)
  <2>1. PICK to \in TradeState :
          /\ Transition(trade, "begin_verification", to)
          /\ Begin(h, Save("system", renewed(to), "trade.verification_started", {}, "idle"))
    BY DEF BeginVerification
  <2> HIDE DEF renewed
  <2> QED  BY <2>1, <1>r DEF MovesAlong
<1>3. Verify(h) =>
        MovesAlong(h, "verified", "trade.verified", {"trade.verified"}, "idle")
  <2> HAVE Verify(h)
  <2>1. PICK to \in TradeState :
          /\ Transition(trade, "verified", to)
          /\ Begin(h, Save("system", opened(to), "trade.verified", {"trade.verified"}, "idle"))
    BY DEF Verify
  <2> HIDE DEF opened
  <2> QED  BY <2>1, <1>o DEF MovesAlong
<1>4. RejectVerification(h) =>
        MovesAlong(h, "verification_rejected", "trade.verification_rejected", {}, "idle")
  <2> HAVE RejectVerification(h)
  <2>1. PICK to \in TradeState :
          /\ Transition(trade, "verification_rejected", to)
          /\ Begin(h, Save("system", emptied(to), "trade.verification_rejected", {}, "idle"))
    BY DEF RejectVerification
  <2> HIDE DEF emptied
  <2> QED  BY <2>1, <1>e DEF MovesAlong
<1>5. CompleteTrade(h) =>
        MovesAlong(h, "dispute_window_expired", "trade.completed", {"trade.completed"}, "idle")
  <2> HAVE CompleteTrade(h)
  <2>1. PICK to \in TradeState :
          /\ Transition(trade, "dispute_window_expired", to)
          /\ Begin(h, Save("system", moved(to), "trade.completed", {"trade.completed"}, "idle"))
    BY DEF CompleteTrade
  <2> HIDE DEF moved
  <2> QED  BY <2>1, <1>m DEF MovesAlong
<1>6. OpenDispute(h) =>
        MovesAlong(h, "dispute_opened", "trade.dispute_opened", {"trade.dispute_opened"}, "idle")
  <2> HAVE OpenDispute(h)
  <2>1. PICK to \in TradeState :
          /\ Transition(trade, "dispute_opened", to)
          /\ Begin(h, Save("system", moved(to), "trade.dispute_opened", {"trade.dispute_opened"}, "idle"))
    BY DEF OpenDispute
  <2> HIDE DEF moved
  <2> QED  BY <2>1, <1>m DEF MovesAlong
<1>7. CancelTrade(h) =>
        MovesAlong(h, "cancel", "trade.cancelled", {"trade.cancelled"}, "idle")
  <2> HAVE CancelTrade(h)
  <2>1. PICK to \in TradeState :
          /\ Transition(trade, "cancel", to)
          /\ Begin(h, Save("system", moved(to), "trade.cancelled", {"trade.cancelled"}, "idle"))
    BY DEF CancelTrade
  <2> HIDE DEF moved
  <2> QED  BY <2>1, <1>m DEF MovesAlong
<1>8. CompleteLocalPickup(h) =>
        MovesAlong(h, "local_pickup_confirmed", "trade.local_pickup_confirmed", {}, "idle")
  <2> HAVE CompleteLocalPickup(h)
  <2>1. PICK to \in TradeState :
          /\ Transition(trade, "local_pickup_confirmed", to)
          /\ Begin(h, Save("system", opened(to), "trade.local_pickup_confirmed", {}, "idle"))
    BY DEF CompleteLocalPickup
  <2> HIDE DEF opened
  <2> QED  BY <2>1, <1>o DEF MovesAlong
<1>9. ShippingReady(h) =>
        MovesAlong(h, "shipping_ready", "trade.awaiting_shipment", {}, "idle")
  <2> HAVE ShippingReady(h)
  <2>1. PICK to \in TradeState :
          /\ Transition(trade, "shipping_ready", to)
          /\ Begin(h, Save("system", moved(to), "trade.awaiting_shipment", {}, "idle"))
    BY DEF ShippingReady
  <2> HIDE DEF moved
  <2> QED  BY <2>1, <1>m DEF MovesAlong
<1>10. DirectShippingReady(h) =>
        MovesAlong(h, "direct_shipping_ready", "trade.direct_shipping", {}, "idle")
  <2> HAVE DirectShippingReady(h)
  <2>1. PICK to \in TradeState :
          /\ Transition(trade, "direct_shipping_ready", to)
          /\ Begin(h, Save("system", moved(to), "trade.direct_shipping", {}, "idle"))
    BY DEF DirectShippingReady
  <2> HIDE DEF moved
  <2> QED  BY <2>1, <1>m DEF MovesAlong
<1>11. Leg2InTransit(h) =>
        MovesAlong(h, "all_shipments_in_transit", "trade.shipping_to_recipients", {}, "idle")
  <2> HAVE Leg2InTransit(h)
  <2>1. PICK to \in TradeState :
          /\ Transition(trade, "all_shipments_in_transit", to)
          /\ Begin(h, Save("system", moved(to), "trade.shipping_to_recipients", {}, "idle"))
    BY DEF Leg2InTransit
  <2> HIDE DEF moved
  <2> QED  BY <2>1, <1>m DEF MovesAlong
<1>12. CenterVerificationRejected(h) =>
        MovesAlong(h, "center_verification_rejected", "trade.center_verification_rejected", {"trade.cancelled"},
                           "center.verification_rejected")
  <2> HAVE CenterVerificationRejected(h)
  <2>1. PICK to \in TradeState :
          /\ Transition(trade, "center_verification_rejected", to)
          /\ Begin(h, Save("system", moved(to), "trade.center_verification_rejected", {"trade.cancelled"},
                           "center.verification_rejected"))
    BY DEF CenterVerificationRejected
  <2> HIDE DEF moved
  <2> QED  BY <2>1, <1>m DEF MovesAlong
<1>13. ResolveFromDispute(h, "revoked") =>
        MovesAlong(h, "trade_revoked", "trade.revoked", {"trade.cancelled"}, "idle")
  <2> HAVE ResolveFromDispute(h, "revoked")
  <2>1. PICK to \in TradeState :
          /\ Transition(trade, "trade_revoked", to)
          /\ Begin(h, Save("system", moved(to), "trade.revoked", {"trade.cancelled"}, "idle"))
    BY DEF ResolveFromDispute
  <2> HIDE DEF moved
  <2> QED  BY <2>1, <1>m DEF MovesAlong
<1>14. ResolveFromDispute(h, "completed") =>
        MovesAlong(h, "dispute_resolved", "trade.completed", {"trade.completed"}, "idle")
  <2> HAVE ResolveFromDispute(h, "completed")
  <2>1. PICK to \in TradeState :
          /\ Transition(trade, "dispute_resolved", to)
          /\ Begin(h, Save("system", moved(to), "trade.completed", {"trade.completed"}, "idle"))
    BY DEF ResolveFromDispute
  <2> HIDE DEF moved
  <2> QED  BY <2>1, <1>m DEF MovesAlong
<1> QED
  BY <1>1, <1>2, <1>3, <1>4, <1>5, <1>6, <1>7, <1>8, <1>9, <1>10, <1>11, <1>12, <1>13, <1>14

life == LifeOf(trade, outbox)

\* What the copy of an execution would make of the life, if it is saved now.
Planned(ent, keys) == LifeOf(ent, outbox \cup keys)

\* It is a legal next life, or the same.
Legal(ent, keys) ==
  Lifecycle!Step(life, Planned(ent, keys)) \/ Planned(ent, keys) = life

\* Both proofs are there until the moderator has sent the parties back; a
\* center has something to approve only after the handover.
ProofsIn(t) == t.state \in {"PROOF_SUBMITTED", "UNDER_VERIFICATION"} => t.proof = Party
HandedOver(t) == StageOf(t.state) \notin {"agreed", "vetted"}

LegalJob(j) ==
  j.at \in {"load", "update"} =>
    /\ Legal(j.ent, j.keys)
    /\ ProofsIn(j.ent)
    /\ CenterChecksExist => HandedOver(j.ent)
    /\ j.event = "trade.awaiting_shipment" => HandedOver(j.ent)

LegalInv ==
  /\ ProofsIn(trade)
  /\ CenterChecksExist => HandedOver(trade)
  /\ \A h \in Handler : LegalJob(jobs[h])

\* The fields of a life.
LEMMA LifeFields ==
  ASSUME NEW t, NEW keys
  PROVE  LET l == LifeOf(t, keys)
         IN  /\ l.stage = StageOf(t.state) /\ l.risk = t.risk /\ l.method = t.method
             /\ l.proof = t.proof /\ l.paid = t.paid /\ l.met = t.pickup
             /\ l.approved = t.passed /\ l.announced = Promised(keys)
  BY DEF LifeOf

\* Stages of the states.
LEMMA Stages ==
  /\ \A s \in {"INITIATED", "OFFERED", "ACCEPTED", "LOCKED", "PROOF_SUBMITTED",
               "UNDER_VERIFICATION"} : StageOf(s) = "agreed"
  /\ \A s \in {"VERIFIED", "AWAITING_SHIPMENT"} : StageOf(s) = "vetted"
  /\ \A s \in {"IN_TRANSIT", "SHIPPING_TO_CENTER", "AT_CENTER",
               "CENTER_VERIFICATION"} : StageOf(s) = "moving"
  /\ \A s \in {"CENTER_VERIFIED", "SHIPPING_TO_RECIPIENTS"} : StageOf(s) = "cleared"
  /\ StageOf("DELIVERED") = "delivered" /\ StageOf("DISPUTE_OPEN") = "disputed"
  /\ StageOf("COMPLETED") = "completed" /\ StageOf("CANCELLED") = "cancelled"
  /\ StageOf("REVOKED") = "revoked"
  BY DEF StageOf

\* What is announced is the sum of what was and what is.
LEMMA Promises ==
  ASSUME NEW keys, NEW more
  PROVE  Promised(keys \cup more) = Promised(keys) \cup Promised(more)
  BY DEF Promised

\* A row says something of a life.
LEMMA LifeOfRow ==
  ASSUME NEW t \in Trade, NEW keys
  PROVE  LifeOf(t, keys) \in Lifecycle!Life
<1>1. StageOf(t.state) \in Lifecycle!Stage
  BY DEF StageOf, Lifecycle!Stage
<1>2. Promised(keys) \in SUBSET Lifecycle!Promise
  BY DEF Promised, Lifecycle!Promise
<1> QED  BY <1>1, <1>2 DEF LifeOf, Lifecycle!Life, Trade

\* Two lives that agree in every field are one.
LEMMA SameLife ==
  ASSUME NEW a \in Lifecycle!Life, NEW b \in Lifecycle!Life,
         a.stage = b.stage, a.risk = b.risk, a.method = b.method,
         a.proof = b.proof, a.paid = b.paid, a.met = b.met,
         a.approved = b.approved, a.announced = b.announced
  PROVE  a = b
  BY DEF Lifecycle!Life

\* A plan that changes only the stage, and announces it, is a move.
LEMMA PlanIsMove ==
  ASSUME IInv, NEW ent \in Trade, NEW keys,
         ent.risk = trade.risk, ent.method = trade.method, ent.proof = trade.proof,
         ent.paid = trade.paid, ent.pickup = trade.pickup, ent.passed = trade.passed
  PROVE  Planned(ent, keys) = [life EXCEPT !.stage = StageOf(ent.state),
                                           !.announced = @ \cup Promised(keys)]
<1> DEFINE s == StageOf(ent.state)
           b == Promised(keys)
           n == Planned(ent, keys)
           m == [life EXCEPT !.stage = s, !.announced = @ \cup b]
<1>1. n \in Lifecycle!Life /\ life \in Lifecycle!Life
  BY Row, LifeOfRow DEF Planned, life
<1>2. /\ n.stage = s /\ n.risk = life.risk /\ n.method = life.method
      /\ n.proof = life.proof /\ n.paid = life.paid /\ n.met = life.met
      /\ n.approved = life.approved /\ n.announced = life.announced \cup b
  BY LifeFields, Promises DEF Planned, life
<1>3. s \in Lifecycle!Stage /\ life.announced \cup b \in SUBSET Lifecycle!Promise
  BY <1>1, <1>2 DEF Lifecycle!Life
<1> HIDE DEF s, b, n
<1>4. /\ m \in Lifecycle!Life
      /\ m.stage = s /\ m.risk = life.risk /\ m.method = life.method
      /\ m.proof = life.proof /\ m.paid = life.paid /\ m.met = life.met
      /\ m.approved = life.approved /\ m.announced = life.announced \cup b
  BY <1>1, <1>3 DEF Lifecycle!Life
<1> HIDE DEF m
<1>5. n = m
  BY <1>1, <1>2, <1>4, SameLife
<1> QED  BY <1>5 DEF n, m, s, b

\* A plan that changes nothing of the life.
LEMMA PlanIsLife ==
  ASSUME IInv, NEW ent \in Trade, NEW keys,
         StageOf(ent.state) = StageOf(trade.state),
         ent.risk = trade.risk, ent.method = trade.method, ent.proof = trade.proof,
         ent.paid = trade.paid, ent.pickup = trade.pickup, ent.passed = trade.passed,
         Promised(keys) = {}
  PROVE  Planned(ent, keys) = life
<1> DEFINE n == Planned(ent, keys)
<1>1. n \in Lifecycle!Life /\ life \in Lifecycle!Life
  BY Row, LifeOfRow DEF Planned, life
<1>2. /\ n.stage = life.stage /\ n.risk = life.risk /\ n.method = life.method
      /\ n.proof = life.proof /\ n.paid = life.paid /\ n.met = life.met
      /\ n.approved = life.approved
  BY LifeFields DEF Planned, life
<1>3. n.announced = life.announced
  <2>1. /\ n.announced = Promised(outbox \cup keys)
        /\ life.announced = Promised(outbox)
    BY LifeFields DEF Planned, life
  <2>2. Promised(outbox \cup keys) = Promised(outbox) \cup Promised(keys)
    BY Promises
  <2> QED  BY <2>1, <2>2
<1> HIDE DEF n
<1>4. n = life
  BY <1>1, <1>2, <1>3, SameLife
<1> QED  BY <1>4 DEF n

\* What the life is in the state of the row.
LEMMA LifeNow ==
  /\ life.stage = StageOf(trade.state) /\ life.risk = trade.risk
  /\ life.method = trade.method /\ life.proof = trade.proof /\ life.paid = trade.paid
  /\ life.met = trade.pickup /\ life.approved = trade.passed
  /\ life.announced = Promised(outbox)
  BY LifeFields DEF life

\* An edge of the table whose guard holds of the row is a legal plan.
LEMMA EdgeIsLegal ==
  ASSUME IInv, LegalInv, NEW edge, NEW to,
         edge \notin {"offer_rejected", "timeout", "verification_rejected"},
         Transition(trade, edge, to),
         NEW ent \in Trade, NEW keys, ent.state = to,
         ent.risk = trade.risk, ent.method = trade.method, ent.proof = trade.proof,
         ent.paid = trade.paid, ent.pickup = trade.pickup, ent.passed = trade.passed,
         Promised(keys) = Due(edge)
  PROVE  Legal(ent, keys)
<1> DEFINE n == Planned(ent, keys)
<1>0. n = [life EXCEPT !.stage = StageOf(ent.state), !.announced = @ \cup Promised(keys)]
  BY PlanIsMove
<1>1. n = [life EXCEPT !.stage = StageOf(to), !.announced = @ \cup Due(edge)]
  BY <1>0
<1>2. <<trade.state, edge, to>> \in TRANSITIONS /\ Guard(trade, edge)
  BY DEF Transition
<1>3. /\ trade.state \in CenterRoute => trade.risk = "HIGH"
      /\ trade.state = "IN_TRANSIT" => trade.risk # "HIGH"
      /\ trade.risk \in {"LOW", "HIGH"}
  BY Row DEF Backed, StateBacked, Trade
<1>4. Lifecycle!Step(life, n) => Legal(ent, keys)
  BY DEF Legal
<1> HIDE DEF n
<1>5. CASE edge \in {"offer_made", "offer_accepted", "items_locked", "proof_submitted",
                    "begin_verification", "all_shipments_in_transit",
                    "both_items_at_center", "center_inspection_started"}
  <2>1. StageOf(to) = StageOf(trade.state)
    BY <1>2, <1>5, Stages DEF TRANSITIONS
  <2>2. Due(edge) = {}
    BY <1>5 DEF Due
  <2> QED  BY <2>1, <2>2, PlanIsLife DEF Legal
<1>6. CASE edge = "verified"
  <2>1. StageOf(trade.state) = "agreed" /\ StageOf(to) = "vetted" /\ trade.proof = Party
    BY <1>2, <1>6, Stages DEF TRANSITIONS, LegalInv, ProofsIn
  <2>2. Lifecycle!Vet(life, n)
    BY <1>1, <1>6, <2>1, LifeNow DEF Due, Lifecycle!Vet, Lifecycle!Move
  <2> QED  BY <1>4, <2>2 DEF Lifecycle!Step
<1>7. CASE edge \in {"direct_shipping_ready", "shipping_ready"}
  <2>1. /\ StageOf(trade.state) = "vetted" /\ StageOf(to) = "moving"
        /\ trade.method = "shipping" /\ trade.paid = Party
    BY <1>2, <1>7, Stages DEF TRANSITIONS, Guard, BothPaid
  <2>2. Lifecycle!HandOver(life, n)
    BY <1>1, <1>7, <2>1, LifeNow DEF Due, Lifecycle!HandOver, Lifecycle!Move
  <2> QED  BY <1>4, <2>2 DEF Lifecycle!Step
<1>8. CASE edge = "both_items_center_verified"
  <2>1. /\ StageOf(trade.state) = "moving" /\ StageOf(to) = "cleared"
        /\ trade.risk = "HIGH" /\ trade.passed = Party
    BY <1>2, <1>3, <1>8, Stages DEF TRANSITIONS, Guard, CenterRoute
  <2>2. Lifecycle!Clear(life, n)
    BY <1>1, <1>8, <2>1, LifeNow DEF Due, Lifecycle!Clear, Lifecycle!Move
  <2> QED  BY <1>4, <2>2 DEF Lifecycle!Step
<1>9. CASE edge \in {"local_pickup_confirmed", "all_shipments_delivered"}
  <2>1. /\ StageOf(to) = "delivered"
        /\ \/ StageOf(trade.state) = "cleared"
           \/ StageOf(trade.state) = "moving" /\ trade.risk = "LOW"
           \/ /\ StageOf(trade.state) = "vetted" /\ trade.paid = Party
              /\ trade.method = "local_pickup" /\ trade.pickup = Party
    BY <1>2, <1>3, <1>9, Stages DEF TRANSITIONS, Guard, BothPaid
  <2>2. Lifecycle!Deliver(life, n)
    BY <1>1, <1>9, <2>1, LifeNow DEF Due, Lifecycle!Deliver, Lifecycle!Move
  <2> QED  BY <1>4, <2>2 DEF Lifecycle!Step
<1>10. CASE edge = "dispute_opened"
  <2>1. /\ StageOf(to) = "disputed"
        /\ \/ StageOf(trade.state) \in {"vetted", "cleared", "delivered"}
           \/ StageOf(trade.state) = "moving" /\ trade.risk = "LOW"
    BY <1>2, <1>3, <1>10, Stages DEF TRANSITIONS
  <2>2. Lifecycle!RaiseDispute(life, n)
    BY <1>1, <1>10, <2>1, LifeNow DEF Due, Lifecycle!RaiseDispute, Lifecycle!Move
  <2> QED  BY <1>4, <2>2 DEF Lifecycle!Step
<1>11. CASE edge \in {"dispute_window_expired", "buyer_confirmed_receipt",
                     "dispute_resolved"}
  <2>1. /\ StageOf(to) = "completed"
        /\ \/ StageOf(trade.state) \in {"cleared", "delivered", "disputed"}
           \/ StageOf(trade.state) = "vetted" /\ trade.method = "none"
    BY <1>2, <1>11, Stages DEF TRANSITIONS, Guard
  <2>2. Lifecycle!Complete(life, n)
    BY <1>1, <1>11, <2>1, LifeNow DEF Due, Lifecycle!Complete, Lifecycle!Move
  <2> QED  BY <1>4, <2>2 DEF Lifecycle!Step
<1>12. CASE edge \in {"cancel", "center_verification_rejected"}
  <2>1. /\ StageOf(to) = "cancelled"
        /\ \/ StageOf(trade.state) \in {"agreed", "moving", "cleared"}
           \/ StageOf(trade.state) = "vetted" /\ trade.paid # Party
    BY <1>2, <1>12, Stages DEF TRANSITIONS, Guard, MayCancelVerified
  <2>2. Lifecycle!Cancel(life, n)
    BY <1>1, <1>12, <2>1, LifeNow DEF Due, Lifecycle!Cancel, Lifecycle!Move
  <2> QED  BY <1>4, <2>2 DEF Lifecycle!Step
<1>13. CASE edge = "trade_revoked"
  <2>1. StageOf(to) = "revoked" /\ StageOf(trade.state) = "disputed"
    BY <1>2, <1>13, Stages DEF TRANSITIONS
  <2>2. Lifecycle!Revoke(life, n)
    BY <1>1, <1>13, <2>1, LifeNow DEF Due, Lifecycle!Revoke, Lifecycle!Move
  <2> QED  BY <1>4, <2>2 DEF Lifecycle!Step
<1> QED
  BY <1>2, <1>5, <1>6, <1>7, <1>8, <1>9, <1>10, <1>11, <1>12, <1>13 DEF TRANSITIONS

\* A plan that announces nothing is known by its other fields.
LEMMA PlanIs ==
  ASSUME NEW ent \in Trade, NEW keys, Promised(keys) = {},
         NEW n \in Lifecycle!Life,
         n.stage = StageOf(ent.state), n.risk = ent.risk, n.method = ent.method,
         n.proof = ent.proof, n.paid = ent.paid, n.met = ent.pickup,
         n.approved = ent.passed, n.announced = life.announced
  PROVE  Planned(ent, keys) = n
<1> DEFINE m == Planned(ent, keys)
<1>1. m \in Lifecycle!Life
  BY LifeOfRow DEF Planned
<1>2. /\ m.stage = n.stage /\ m.risk = n.risk /\ m.method = n.method
      /\ m.proof = n.proof /\ m.paid = n.paid /\ m.met = n.met
      /\ m.approved = n.approved
  BY LifeFields DEF Planned
<1>3. m.announced = n.announced
  <2>1. m.announced = Promised(outbox \cup keys) /\ life.announced = Promised(outbox)
    BY LifeFields DEF Planned, life
  <2>2. Promised(outbox \cup keys) = Promised(outbox) \cup Promised(keys)
    BY Promises
  <2> QED  BY <2>1, <2>2
<1> HIDE DEF m
<1>4. m = n
  BY <1>1, <1>2, <1>3, SameLife
<1> QED  BY <1>4 DEF m

\* The items are not handed back.
LEMMA NoWayBack ==
  ASSUME IInv, HandedOver(trade), NEW ent, NEW keys, Legal(ent, keys)
  PROVE  HandedOver(ent)
<1> DEFINE n == Planned(ent, keys)
<1>1. life \in Lifecycle!Life /\ life.stage \notin {"agreed", "vetted"}
  BY Row, LifeOfRow, LifeNow DEF life, HandedOver
<1>2. n.stage = StageOf(ent.state)
  BY LifeFields DEF Planned
<1>3. Lifecycle!Step(life, n) \/ n = life
  BY DEF Legal
<1> HIDE DEF n
<1>4. ASSUME Lifecycle!Step(life, n) PROVE n.stage \notin {"agreed", "vetted"}
  <2>1. CASE \E p \in Party : Lifecycle!Prove(p, life, n) \/ Lifecycle!Pay(p, life, n)
                               \/ Lifecycle!Meet(p, life, n) \/ Lifecycle!Approve(p, life, n)
    BY <1>1, <2>1 DEF Lifecycle!Prove, Lifecycle!Pay, Lifecycle!Meet, Lifecycle!Approve,
                      Lifecycle!Life
  <2>2. CASE \/ \E m \in {"shipping", "local_pickup"} : Lifecycle!Choose(m, life, n)
             \/ Lifecycle!Redo(life, n) \/ Lifecycle!Vet(life, n) \/ Lifecycle!HandOver(life, n)
    BY <1>1, <2>2 DEF Lifecycle!Choose, Lifecycle!Redo, Lifecycle!Vet, Lifecycle!HandOver
  <2>3. CASE \/ Lifecycle!Clear(life, n) \/ Lifecycle!Deliver(life, n) \/ Lifecycle!RaiseDispute(life, n)
             \/ Lifecycle!Complete(life, n) \/ Lifecycle!Cancel(life, n) \/ Lifecycle!Revoke(life, n)
    BY <1>1, <2>3 DEF Lifecycle!Clear, Lifecycle!Deliver, Lifecycle!RaiseDispute,
                      Lifecycle!Complete, Lifecycle!Cancel, Lifecycle!Revoke,
                      Lifecycle!Move, Lifecycle!Life
  <2> QED  BY <1>4, <2>1, <2>2, <2>3 DEF Lifecycle!Step
<1> QED  BY <1>1, <1>2, <1>3, <1>4 DEF HandedOver

\* An execution has planned a legal next life, and nothing else has happened.
Plans(h) ==
  /\ jobs'[h].at = "load" /\ LegalJob(jobs'[h])
  /\ UNCHANGED <<trade, audit, outbox>>

LEMMA PlansKeep ==
  ASSUME OneAtATime, LegalInv, NEW h \in Handler, Plans(h)
  PROVE  LegalInv' /\ life' = life
<1>1. \A g \in Handler : g = h
  BY DEF OneAtATime
<1>2. LegalJob(jobs[h])'
  BY DEF Plans, LegalJob, Legal, Planned, life, ProofsIn, HandedOver, CenterChecksExist
<1>3. life' = life
  BY DEF Plans, life
<1> QED  BY <1>1, <1>2, <1>3 DEF LegalInv, Plans, ProofsIn, HandedOver, CenterChecksExist

\* A handler that has read the row and is about to save a legal copy of it.
LEMMA SavePlans ==
  ASSUME IInv, LegalInv, NEW h \in Handler,
         NEW who, NEW ent, NEW event, NEW keys, NEW then,
         Legal(ent, keys), ProofsIn(ent),
         event = "trade.awaiting_shipment" => HandedOver(ent),
         Begin(h, Save(who, ent, event, keys, then))
  PROVE  Plans(h)
<1> DEFINE job == Save(who, ent, event, keys, then)
<1>1. /\ job.at = "load" /\ job.ent = ent /\ job.event = event /\ job.keys = keys
  BY DEF Save
<1>2. CenterChecksExist => HandedOver(ent)
  BY NoWayBack DEF LegalInv
<1> HIDE DEF job
<1>3. LegalJob(job)
  BY <1>1, <1>2 DEF LegalJob
<1>4. jobs \in [Handler -> Job]
  BY DEF IInv, TypeOK
<1>5. jobs'[h] = job /\ trade' = trade /\ audit' = audit /\ outbox' = outbox
  BY <1>4 DEF Begin, SetJob, job
<1> QED  BY <1>1, <1>3, <1>5 DEF Plans

\* The same for the row moved along an edge.
LEMMA EdgePlans ==
  ASSUME IInv, LegalInv, NEW h \in Handler,
         NEW edge, NEW event, NEW keys, NEW then,
         MovesAlong(h, edge, event, keys, then),
         edge \notin {"offer_rejected", "timeout"}, Promised(keys) = Due(edge),
         event = "trade.awaiting_shipment" => edge = "shipping_ready"
  PROVE  Plans(h)
<1>1. PICK to \in TradeState, ent \in Trade :
        /\ Transition(trade, edge, to)
        /\ ent.state = to /\ ent.risk = trade.risk /\ ent.method = trade.method
        /\ ent.proof = IF edge = "verification_rejected" THEN {} ELSE trade.proof
        /\ ent.paid = trade.paid /\ ent.pickup = trade.pickup
        /\ ent.passed = trade.passed
        /\ Begin(h, Save("system", ent, event, keys, then))
  BY DEF MovesAlong
<1>2. <<trade.state, edge, to>> \in TRANSITIONS /\ Guard(trade, edge)
  BY <1>1 DEF Transition
<1>3. event = "trade.awaiting_shipment" => HandedOver(ent)
  BY <1>1, EdgeTargets, Stages DEF HandedOver
<1>4. CASE edge # "verification_rejected"
  <2>1. Legal(ent, keys)
    BY <1>1, <1>4, EdgeIsLegal
  <2>2. ProofsIn(ent)
    BY <1>1, <1>2, <1>4 DEF TRANSITIONS, Guard, BothProofs, LegalInv, ProofsIn
  <2> QED  BY <1>1, <1>3, <2>1, <2>2, SavePlans
<1>5. CASE edge = "verification_rejected"
  <2> DEFINE n == [life EXCEPT !.proof = {}]
  <2>1. /\ StageOf(trade.state) = "agreed" /\ StageOf(to) = "agreed" /\ to = "LOCKED"
        /\ Promised(keys) = {}
    BY <1>2, <1>5, Stages DEF TRANSITIONS, Due
  <2>2. life \in Lifecycle!Life
    BY Row, LifeOfRow DEF life
  <2>3. /\ n \in Lifecycle!Life /\ n.proof = {}
        /\ n.stage = life.stage /\ n.risk = life.risk /\ n.method = life.method
        /\ n.paid = life.paid /\ n.met = life.met /\ n.approved = life.approved
        /\ n.announced = life.announced
    BY <2>2 DEF Lifecycle!Life
  <2>4. Lifecycle!Step(life, n)
    BY <2>1, LifeNow DEF Lifecycle!Step, Lifecycle!Redo
  <2> HIDE DEF n
  <2>5. Planned(ent, keys) = n
    BY <1>1, <1>5, <2>1, <2>3, LifeNow, PlanIs
  <2>6. Legal(ent, keys) /\ ProofsIn(ent)
    BY <1>1, <2>1, <2>4, <2>5 DEF Legal, ProofsIn
  <2> QED  BY <1>1, <1>3, <2>6, SavePlans
<1> QED  BY <1>4, <1>5

\* Every move along an edge of the table is a legal plan.
LEMMA EdgesPlan ==
  ASSUME IInv, LegalInv, NEW h \in Handler,
         \/ LockItems(h) \/ BeginVerification(h) \/ Verify(h) \/ RejectVerification(h)
         \/ CompleteTrade(h) \/ OpenDispute(h) \/ CancelTrade(h) \/ CompleteLocalPickup(h)
         \/ ShippingReady(h) \/ DirectShippingReady(h) \/ Leg2InTransit(h)
         \/ CenterVerificationRejected(h)
         \/ \E outcome \in {"completed", "revoked"} : ResolveFromDispute(h, outcome)
  PROVE  Plans(h)
<1>1. /\ Promised({}) = {} /\ Promised({"trade.locked"}) = {}
      /\ Promised({"trade.verified"}) = {"trade.verified"}
      /\ Promised({"trade.completed"}) = {"trade.completed"}
      /\ Promised({"trade.dispute_opened"}) = {"trade.dispute_opened"}
      /\ Promised({"trade.cancelled"}) = {"trade.cancelled"}
  BY DEF Promised
<1>2. /\ Due("items_locked") = {} /\ Due("begin_verification") = {}
      /\ Due("verified") = {"trade.verified"} /\ Due("verification_rejected") = {}
      /\ Due("dispute_window_expired") = {"trade.completed"}
      /\ Due("dispute_opened") = {"trade.dispute_opened"}
      /\ Due("cancel") = {"trade.cancelled"} /\ Due("local_pickup_confirmed") = {}
      /\ Due("shipping_ready") = {} /\ Due("direct_shipping_ready") = {}
      /\ Due("all_shipments_in_transit") = {}
      /\ Due("center_verification_rejected") = {"trade.cancelled"}
      /\ Due("trade_revoked") = {"trade.cancelled"}
      /\ Due("dispute_resolved") = {"trade.completed"}
  BY DEF Due
<1>3. CASE LockItems(h)
  <2>1. MovesAlong(h, "items_locked", "trade.locked", {"trade.locked"}, "idle")
    BY <1>3, EdgesMove
  <2> QED  BY <2>1, <1>1, <1>2, EdgePlans
<1>4. CASE BeginVerification(h)
  <2>1. MovesAlong(h, "begin_verification", "trade.verification_started", {}, "idle")
    BY <1>4, EdgesMove
  <2> QED  BY <2>1, <1>1, <1>2, EdgePlans
<1>5. CASE Verify(h)
  <2>1. MovesAlong(h, "verified", "trade.verified", {"trade.verified"}, "idle")
    BY <1>5, EdgesMove
  <2> QED  BY <2>1, <1>1, <1>2, EdgePlans
<1>6. CASE RejectVerification(h)
  <2>1. MovesAlong(h, "verification_rejected", "trade.verification_rejected", {}, "idle")
    BY <1>6, EdgesMove
  <2> QED  BY <2>1, <1>1, <1>2, EdgePlans
<1>7. CASE CompleteTrade(h)
  <2>1. MovesAlong(h, "dispute_window_expired", "trade.completed", {"trade.completed"}, "idle")
    BY <1>7, EdgesMove
  <2> QED  BY <2>1, <1>1, <1>2, EdgePlans
<1>8. CASE OpenDispute(h)
  <2>1. MovesAlong(h, "dispute_opened", "trade.dispute_opened", {"trade.dispute_opened"}, "idle")
    BY <1>8, EdgesMove
  <2> QED  BY <2>1, <1>1, <1>2, EdgePlans
<1>9. CASE CancelTrade(h)
  <2>1. MovesAlong(h, "cancel", "trade.cancelled", {"trade.cancelled"}, "idle")
    BY <1>9, EdgesMove
  <2> QED  BY <2>1, <1>1, <1>2, EdgePlans
<1>10. CASE CompleteLocalPickup(h)
  <2>1. MovesAlong(h, "local_pickup_confirmed", "trade.local_pickup_confirmed", {}, "idle")
    BY <1>10, EdgesMove
  <2> QED  BY <2>1, <1>1, <1>2, EdgePlans
<1>11. CASE ShippingReady(h)
  <2>1. MovesAlong(h, "shipping_ready", "trade.awaiting_shipment", {}, "idle")
    BY <1>11, EdgesMove
  <2> QED  BY <2>1, <1>1, <1>2, EdgePlans
<1>12. CASE DirectShippingReady(h)
  <2>1. MovesAlong(h, "direct_shipping_ready", "trade.direct_shipping", {}, "idle")
    BY <1>12, EdgesMove
  <2> QED  BY <2>1, <1>1, <1>2, EdgePlans
<1>13. CASE Leg2InTransit(h)
  <2>1. MovesAlong(h, "all_shipments_in_transit", "trade.shipping_to_recipients", {}, "idle")
    BY <1>13, EdgesMove
  <2> QED  BY <2>1, <1>1, <1>2, EdgePlans
<1>14. CASE CenterVerificationRejected(h)
  <2>1. MovesAlong(h, "center_verification_rejected", "trade.center_verification_rejected",
                   {"trade.cancelled"}, "center.verification_rejected")
    BY <1>14, EdgesMove
  <2> QED  BY <2>1, <1>1, <1>2, EdgePlans
<1>15. CASE ResolveFromDispute(h, "completed")
  <2>1. MovesAlong(h, "dispute_resolved", "trade.completed", {"trade.completed"}, "idle")
    BY <1>15, EdgesMove
  <2> QED  BY <2>1, <1>1, <1>2, EdgePlans
<1>16. CASE ResolveFromDispute(h, "revoked")
  <2>1. MovesAlong(h, "trade_revoked", "trade.revoked", {"trade.cancelled"}, "idle")
    BY <1>16, EdgesMove
  <2> QED  BY <2>1, <1>1, <1>2, EdgePlans
<1> QED
  BY <1>3, <1>4, <1>5, <1>6, <1>7, <1>8, <1>9, <1>10, <1>11, <1>12, <1>13, <1>14, <1>15, <1>16

\* A proof package adds to the proofs.
LEMMA SubmitProofPlans ==
  ASSUME IInv, LegalInv, NEW h \in Handler, NEW p \in Party, SubmitProof(h, p)
  PROVE  Plans(h)
<1> DEFINE t == [trade EXCEPT !.proof = @ \cup {p}, !.timeout = "step"]
           ent(to) == [t EXCEPT !.state = to]
           keys == {"trade.proof_submitted"}
           n == [life EXCEPT !.proof = @ \cup {p}]
<1>1. PICK to \in TradeState :
        /\ Transition(t, "proof_submitted", to) \/ to = t.state
        /\ Begin(h, Save(p, ent(to), "trade.proof_submitted", keys, "idle"))
  BY DEF SubmitProof
<1>2. /\ t \in Trade /\ t.state = trade.state /\ t.risk = trade.risk
      /\ t.method = trade.method /\ t.proof = trade.proof \cup {p}
      /\ t.paid = trade.paid /\ t.pickup = trade.pickup /\ t.passed = trade.passed
  BY Row DEF Trade
<1> HIDE DEF t
<1>3. /\ ent(to) \in Trade /\ ent(to).state = to /\ ent(to).risk = trade.risk
      /\ ent(to).method = trade.method /\ ent(to).proof = trade.proof \cup {p}
      /\ ent(to).paid = trade.paid /\ ent(to).pickup = trade.pickup
      /\ ent(to).passed = trade.passed
  BY <1>2 DEF Trade
<1> HIDE DEF ent
<1>4. \/ to = trade.state
      \/ trade.state = "LOCKED" /\ to = "PROOF_SUBMITTED" /\ trade.proof \cup {p} = Party
  BY <1>1, <1>2 DEF Transition, TRANSITIONS, Guard, BothProofs
<1>5. StageOf(to) = StageOf(trade.state)
  BY <1>4, Stages
<1>6. life \in Lifecycle!Life
  BY Row, LifeOfRow DEF life
<1>7. /\ n \in Lifecycle!Life /\ n.proof = life.proof \cup {p}
      /\ n.stage = life.stage /\ n.risk = life.risk /\ n.method = life.method
      /\ n.paid = life.paid /\ n.met = life.met /\ n.approved = life.approved
      /\ n.announced = life.announced
  BY <1>6 DEF Lifecycle!Life
<1>8. Lifecycle!Step(life, n)
  BY DEF Lifecycle!Step, Lifecycle!Prove
<1>9. Promised(keys) = {}
  BY DEF Promised
<1> HIDE DEF n, keys
<1>10. Planned(ent(to), keys) = n
  <2>1. /\ n.stage = StageOf(ent(to).state) /\ n.risk = ent(to).risk
        /\ n.method = ent(to).method /\ n.proof = ent(to).proof
        /\ n.paid = ent(to).paid /\ n.met = ent(to).pickup
        /\ n.approved = ent(to).passed
    BY <1>3, <1>5, <1>7, LifeNow
  <2> QED  BY <1>3, <1>7, <1>9, <2>1, PlanIs
<1>11. Legal(ent(to), keys)
  BY <1>8, <1>10 DEF Legal
<1>12. ProofsIn(ent(to))
  BY <1>3, <1>4, Row DEF LegalInv, ProofsIn, Trade
<1> QED  BY <1>1, <1>11, <1>12, SavePlans

\* A confirmed receipt is a flag, or completes the trade.
LEMMA ConfirmReceiptPlans ==
  ASSUME IInv, LegalInv, NEW h \in Handler, NEW p \in Party, ConfirmReceipt(h, p)
  PROVE  Plans(h)
<1> DEFINE t == [trade EXCEPT !.receipt = @ \cup {p}]
           ent(to) == [t EXCEPT !.state = to]
<1>1. /\ t \in Trade /\ t.state = trade.state /\ t.risk = trade.risk
      /\ t.method = trade.method /\ t.proof = trade.proof /\ t.paid = trade.paid
      /\ t.pickup = trade.pickup /\ t.passed = trade.passed
      /\ t.addr = trade.addr /\ t.center = trade.center
  BY Row DEF Trade
<1>2. trade.state = "DELIVERED"
  BY DEF ConfirmReceipt
<1>3. CASE Begin(h, Save("system", t, "none", {}, "idle"))
  <2> HIDE DEF t
  <2>1. Promised({}) = {}
    BY DEF Promised
  <2>2. Legal(t, {})
    BY <1>1, <2>1, PlanIsLife DEF Legal
  <2>3. ProofsIn(t)
    BY <1>1 DEF LegalInv, ProofsIn
  <2> QED  BY <1>3, <2>2, <2>3, SavePlans
<1>4. CASE \E to \in TradeState :
             /\ Transition(t, "buyer_confirmed_receipt", to)
             /\ Begin(h, Save("system", ent(to), "trade.receipt_confirmed",
                              {"trade.completed"}, "idle"))
  <2>1. PICK to \in TradeState :
             /\ Transition(t, "buyer_confirmed_receipt", to)
             /\ Begin(h, Save("system", ent(to), "trade.receipt_confirmed",
                              {"trade.completed"}, "idle"))
    BY <1>4
  <2> HIDE DEF t
  <2>2. /\ ent(to) \in Trade /\ ent(to).state = to /\ ent(to).risk = trade.risk
        /\ ent(to).method = trade.method /\ ent(to).proof = trade.proof
        /\ ent(to).paid = trade.paid /\ ent(to).pickup = trade.pickup
        /\ ent(to).passed = trade.passed
        /\ ent(to).addr = trade.addr /\ ent(to).center = trade.center
    BY <1>1 DEF Trade
  <2> HIDE DEF ent
  <2>3. Transition(trade, "buyer_confirmed_receipt", to)
    BY <1>1, <1>2, <2>1 DEF Transition, Guard
  <2>4. MovesAlong(h, "buyer_confirmed_receipt", "trade.receipt_confirmed",
                   {"trade.completed"}, "idle")
    BY <2>1, <2>2, <2>3 DEF MovesAlong
  <2>5. Promised({"trade.completed"}) = Due("buyer_confirmed_receipt")
    BY DEF Promised, Due
  <2> QED  BY <2>4, <2>5, EdgePlans
<1> QED  BY <1>3, <1>4 DEF ConfirmReceipt

\* A chosen center and a received item are not part of the life; an address
\* may choose the carrier, a pickup confirmation the meeting.
LEMMA ColumnsPlan ==
  ASSUME IInv, LegalInv, NEW h \in Handler, NEW p \in Party,
         \/ SelectCenter(h, p) \/ SubmitAddress(h, p) \/ ConfirmLocalPickup(h, p)
         \/ ItemAtCenter(h, p)
  PROVE  Plans(h)
<1> DEFINE chosen == [trade EXCEPT !.center = @ \cup {p}]
           addressed == [trade EXCEPT !.addr = @ \cup {p},
                           !.method = IF @ = "none" THEN "shipping" ELSE @]
           picked == [trade EXCEPT !.pickup = @ \cup {p},
                        !.method = IF @ = "none" THEN "local_pickup" ELSE @]
           received == [trade EXCEPT !.arrived = @ \cup {p}]
<1>1. Promised({}) = {}
  BY DEF Promised
<1>2. life \in Lifecycle!Life
  BY Row, LifeOfRow DEF life
<1>3. trade.state \in {"VERIFIED", "AWAITING_SHIPMENT"} => life.stage = "vetted"
  BY LifeNow, Stages
<1>4. CASE SelectCenter(h, p)
  <2>1. Begin(h, Save("system", chosen, "trade.center_selected", {}, AfterAddresses(chosen)))
    BY <1>4 DEF SelectCenter
  <2>2. /\ chosen \in Trade /\ chosen.state = trade.state /\ chosen.risk = trade.risk
        /\ chosen.method = trade.method /\ chosen.proof = trade.proof
        /\ chosen.paid = trade.paid /\ chosen.pickup = trade.pickup
        /\ chosen.passed = trade.passed
    BY Row DEF Trade
  <2> HIDE DEF chosen
  <2>3. Legal(chosen, {})
    BY <1>1, <2>2, PlanIsLife DEF Legal
  <2>4. ProofsIn(chosen)
    BY <2>2 DEF LegalInv, ProofsIn
  <2> QED  BY <2>1, <2>3, <2>4, SavePlans
<1>5. CASE SubmitAddress(h, p)
  <2> DEFINE n == [life EXCEPT !.method = "shipping"]
  <2>1. /\ Begin(h, Save(p, addressed, "trade.address_submitted", {}, AfterAddresses(addressed)))
        /\ trade.state \in {"VERIFIED", "AWAITING_SHIPMENT"}
    BY <1>5 DEF SubmitAddress
  <2>2. /\ addressed \in Trade /\ addressed.state = trade.state
        /\ addressed.risk = trade.risk /\ addressed.proof = trade.proof
        /\ addressed.method = IF trade.method = "none" THEN "shipping" ELSE trade.method
        /\ addressed.paid = trade.paid /\ addressed.pickup = trade.pickup
        /\ addressed.passed = trade.passed
    BY Row DEF Trade
  <2> HIDE DEF addressed
  <2>3. Legal(addressed, {})
    <3>1. CASE trade.method # "none"
      BY <1>1, <2>2, <3>1, PlanIsLife DEF Legal
    <3>2. CASE trade.method = "none"
      <4>1. /\ n \in Lifecycle!Life /\ n.method = "shipping" /\ n.proof = life.proof
            /\ n.stage = life.stage /\ n.risk = life.risk /\ n.paid = life.paid
            /\ n.met = life.met /\ n.approved = life.approved
            /\ n.announced = life.announced
        BY <1>2 DEF Lifecycle!Life
      <4>2. Lifecycle!Step(life, n)
        BY <1>3, <2>1 DEF Lifecycle!Step, Lifecycle!Choose
      <4> HIDE DEF n
      <4>3. /\ n.stage = StageOf(addressed.state) /\ n.risk = addressed.risk
            /\ n.method = addressed.method /\ n.proof = addressed.proof
            /\ n.paid = addressed.paid /\ n.met = addressed.pickup
            /\ n.approved = addressed.passed
        BY <2>2, <3>2, <4>1, LifeNow
      <4>4. Planned(addressed, {}) = n
        BY <1>1, <2>2, <4>1, <4>3, PlanIs
      <4> QED  BY <4>2, <4>4 DEF Legal
    <3> QED  BY <3>1, <3>2
  <2>4. ProofsIn(addressed)
    BY <2>2 DEF LegalInv, ProofsIn
  <2> QED  BY <2>1, <2>3, <2>4, SavePlans
<1>6. CASE ConfirmLocalPickup(h, p)
  <2> DEFINE n == [life EXCEPT !.met = @ \cup {p},
                               !.method = IF @ = "none" THEN "local_pickup" ELSE @]
  <2>1. /\ Begin(h, Save(p, picked, "trade.local_pickup_partial", {}, "pickup"))
        /\ trade.state = "VERIFIED"
    BY <1>6 DEF ConfirmLocalPickup
  <2>2. /\ picked \in Trade /\ picked.state = trade.state
        /\ picked.risk = trade.risk /\ picked.proof = trade.proof
        /\ picked.method = IF trade.method = "none" THEN "local_pickup" ELSE trade.method
        /\ picked.paid = trade.paid /\ picked.pickup = trade.pickup \cup {p}
        /\ picked.passed = trade.passed
    BY Row DEF Trade
  <2> HIDE DEF picked
  <2>3. Legal(picked, {})
    <3>1. /\ n \in Lifecycle!Life /\ n.proof = life.proof
          /\ n.method = IF life.method = "none" THEN "local_pickup" ELSE life.method
          /\ n.stage = life.stage /\ n.risk = life.risk /\ n.paid = life.paid
          /\ n.met = life.met \cup {p} /\ n.approved = life.approved
          /\ n.announced = life.announced
      BY <1>2 DEF Lifecycle!Life
    <3>2. Lifecycle!Step(life, n)
      BY <1>3, <2>1 DEF Lifecycle!Step, Lifecycle!Meet
    <3> HIDE DEF n
    <3>3. /\ n.stage = StageOf(picked.state) /\ n.risk = picked.risk
          /\ n.method = picked.method /\ n.proof = picked.proof
          /\ n.paid = picked.paid /\ n.met = picked.pickup
          /\ n.approved = picked.passed
      BY <2>2, <3>1, LifeNow
    <3>4. Planned(picked, {}) = n
      BY <1>1, <2>2, <3>1, <3>3, PlanIs
    <3> QED  BY <3>2, <3>4 DEF Legal
  <2>4. ProofsIn(picked)
    BY <2>2 DEF LegalInv, ProofsIn
  <2> QED  BY <2>1, <2>3, <2>4, SavePlans
<1>7. CASE ItemAtCenter(h, p)
  <2>1. Begin(h, Save("system", received, "none", {}, "arrive"))
    BY <1>7 DEF ItemAtCenter
  <2>2. /\ received \in Trade /\ received.state = trade.state /\ received.risk = trade.risk
        /\ received.method = trade.method /\ received.proof = trade.proof
        /\ received.paid = trade.paid /\ received.pickup = trade.pickup
        /\ received.passed = trade.passed
    BY Row DEF Trade
  <2> HIDE DEF received
  <2>3. Legal(received, {})
    BY <1>1, <2>2, PlanIsLife DEF Legal
  <2>4. ProofsIn(received)
    BY <2>2 DEF LegalInv, ProofsIn
  <2> QED  BY <2>1, <2>3, <2>4, SavePlans
<1> QED  BY <1>4, <1>5, <1>6, <1>7

\* The choice of the shipping method is made once the trade is vetted.
LEMMA MethodPlans ==
  ASSUME IInv, LegalInv, NEW h \in Handler, NEW m \in {"shipping", "local_pickup"},
         SetShippingMethod(h, m)
  PROVE  Plans(h)
<1> DEFINE sent == [trade EXCEPT !.method = m]
           n == [life EXCEPT !.method = m]
<1>1. /\ trade.state = "VERIFIED"
      /\ Begin(h, Save("system", sent, "none", {}, "idle"))
  BY DEF SetShippingMethod
<1>2. /\ sent \in Trade /\ sent.state = trade.state /\ sent.risk = trade.risk
      /\ sent.method = m /\ sent.proof = trade.proof /\ sent.paid = trade.paid
      /\ sent.pickup = trade.pickup /\ sent.passed = trade.passed
  BY Row DEF Trade
<1>3. life \in Lifecycle!Life /\ life.stage = "vetted"
  BY <1>1, Row, LifeOfRow, LifeNow, Stages DEF life
<1>4. /\ n \in Lifecycle!Life /\ n.method = m /\ n.proof = life.proof
      /\ n.stage = life.stage /\ n.risk = life.risk /\ n.paid = life.paid
      /\ n.met = life.met /\ n.approved = life.approved
      /\ n.announced = life.announced
  BY <1>3 DEF Lifecycle!Life
<1>5. Lifecycle!Step(life, n)
  BY <1>3 DEF Lifecycle!Step, Lifecycle!Choose
<1> HIDE DEF sent, n
<1>6. /\ n.stage = StageOf(sent.state) /\ n.risk = sent.risk /\ n.method = sent.method
      /\ n.proof = sent.proof /\ n.paid = sent.paid /\ n.met = sent.pickup
      /\ n.approved = sent.passed
  BY <1>2, <1>4, LifeNow
<1>7. Promised({}) = {}
  BY DEF Promised
<1>8. Planned(sent, {}) = n
  BY <1>2, <1>4, <1>6, <1>7, PlanIs
<1>9. Legal(sent, {}) /\ ProofsIn(sent)
  BY <1>2, <1>5, <1>8 DEF Legal, LegalInv, ProofsIn
<1> QED  BY <1>1, <1>9, SavePlans

\* A center approves what has been handed over.
LEMMA ApprovalPlans ==
  ASSUME IInv, LegalInv, NEW h \in Handler, NEW p \in Party,
         CenterVerificationApproved(h, p)
  PROVE  Plans(h)
<1> DEFINE passed == [trade EXCEPT !.passed = @ \cup {p}]
           job == Save("system", passed, "none", {}, "pass")
           n == [life EXCEPT !.approved = @ \cup {p}]
<1>1. /\ CenterChecksExist
      /\ Receive(h, <<"center.verification_approved", p>>, job)
  BY DEF CenterVerificationApproved
<1>2. /\ passed \in Trade /\ passed.state = trade.state /\ passed.risk = trade.risk
      /\ passed.method = trade.method /\ passed.proof = trade.proof
      /\ passed.paid = trade.paid /\ passed.pickup = trade.pickup
      /\ passed.passed = trade.passed \cup {p}
  BY Row DEF Trade
<1>3. HandedOver(trade)
  BY <1>1 DEF LegalInv
<1>4. life \in Lifecycle!Life /\ life.stage \notin {"agreed", "vetted"}
  BY <1>3, Row, LifeOfRow, LifeNow DEF life, HandedOver
<1>5. /\ n \in Lifecycle!Life /\ n.method = life.method /\ n.proof = life.proof
      /\ n.stage = life.stage /\ n.risk = life.risk /\ n.paid = life.paid
      /\ n.met = life.met /\ n.approved = life.approved \cup {p}
      /\ n.announced = life.announced
  BY <1>4 DEF Lifecycle!Life
<1>6. Lifecycle!Step(life, n)
  BY <1>4 DEF Lifecycle!Step, Lifecycle!Approve
<1>7. job.at = "load" /\ job.ent = passed /\ job.event = "none" /\ job.keys = {}
  BY DEF Save
<1> HIDE DEF passed, n, job
<1>8. /\ n.stage = StageOf(passed.state) /\ n.risk = passed.risk
      /\ n.method = passed.method /\ n.proof = passed.proof
      /\ n.paid = passed.paid /\ n.met = passed.pickup
      /\ n.approved = passed.passed
  BY <1>2, <1>5, LifeNow
<1>9. Promised({}) = {}
  BY DEF Promised
<1>10. Planned(passed, {}) = n
  BY <1>2, <1>5, <1>8, <1>9, PlanIs
<1>11. /\ Legal(passed, {}) /\ ProofsIn(passed) /\ HandedOver(passed)
  BY <1>2, <1>3, <1>6, <1>10 DEF Legal, LegalInv, ProofsIn, HandedOver
<1>12. LegalJob(job)
  BY <1>7, <1>11 DEF LegalJob
<1>13. jobs \in [Handler -> Job]
  BY DEF IInv, TypeOK
<1>14. jobs'[h] = job /\ trade' = trade /\ audit' = audit /\ outbox' = outbox
  BY <1>1, <1>13 DEF Receive, SetJob
<1> QED  BY <1>7, <1>12, <1>14 DEF Plans

\* A carrier's delivery is one, whatever the trade still has to skip.
LEMMA DeliveredPlans ==
  ASSUME IInv, LegalInv, NEW h \in Handler,
         DirectShipmentDelivered(h) \/ Leg2Delivered(h)
  PROVE  Plans(h)
<1> DEFINE ent(to) == [trade EXCEPT !.state = to, !.window = "open", !.timeout = "window"]
           n(to) == Planned(ent(to), {})
<1>1. PICK to \in TradeState, through \in {"IN_TRANSIT", "SHIPPING_TO_RECIPIENTS"} :
        /\ \/ trade.state = through
           \/ /\ trade.state \in {"VERIFIED", "AWAITING_SHIPMENT"}
              /\ Transition(trade, "direct_shipping_ready", "IN_TRANSIT")
           \/ trade.state = "CENTER_VERIFIED"
        /\ Transition([trade EXCEPT !.state = through], "all_shipments_delivered", to)
        /\ Begin(h, Save("system", ent(to), "trade.delivered", {}, "idle"))
  BY DEF DirectShipmentDelivered, Leg2Delivered, Delivered
<1>2. to = "DELIVERED"
  BY <1>1, EdgeTargets
<1>3. /\ ent(to) \in Trade /\ ent(to).state = "DELIVERED" /\ ent(to).risk = trade.risk
      /\ ent(to).method = trade.method /\ ent(to).proof = trade.proof
      /\ ent(to).paid = trade.paid /\ ent(to).pickup = trade.pickup
      /\ ent(to).passed = trade.passed
  BY <1>2, Row DEF Trade
<1> HIDE DEF ent
<1>4. \/ StageOf(trade.state) = "cleared"
      \/ StageOf(trade.state) = "moving" /\ trade.risk = "LOW"
      \/ /\ StageOf(trade.state) = "vetted" /\ trade.paid = Party
         /\ trade.method = "shipping" /\ trade.risk = "LOW"
  <2>1. /\ trade.state = "IN_TRANSIT" => trade.risk # "HIGH"
        /\ trade.risk \in {"LOW", "HIGH"}
    BY Row DEF Backed, StateBacked, Trade
  <2>2. Transition(trade, "direct_shipping_ready", "IN_TRANSIT") =>
          trade.method = "shipping" /\ trade.risk # "HIGH" /\ trade.paid = Party
    BY DEF Transition, Guard, BothPaid
  <2> QED  BY <1>1, <2>1, <2>2, Stages
<1>5. n(to) = [life EXCEPT !.stage = StageOf(ent(to).state),
                           !.announced = @ \cup Promised({})]
  BY <1>3, PlanIsMove
<1>6. n(to) = [life EXCEPT !.stage = "delivered", !.announced = @ \cup {}]
  BY <1>3, <1>5, Stages DEF Promised
<1> HIDE DEF n
<1>7. Lifecycle!Deliver(life, n(to))
  BY <1>4, <1>6, LifeNow DEF Lifecycle!Deliver, Lifecycle!Move
<1>8. Lifecycle!Step(life, n(to))
  BY <1>7 DEF Lifecycle!Step
<1>9. Legal(ent(to), {}) /\ ProofsIn(ent(to))
  BY <1>3, <1>8 DEF n, Legal, ProofsIn
<1> QED  BY <1>1, <1>9, SavePlans

\* A center's next transaction goes on with its copy, which is the row.
LEMMA CenterStepsPlan ==
  ASSUME IInv, InTurn, LegalInv, NEW h \in Handler,
         BothItemsAtCenter(h) \/ CenterInspectionStarted(h) \/ BothItemsCenterVerified(h)
  PROVE  Plans(h)
<1> DEFINE moved(to) == [trade EXCEPT !.state = to]
<1>1. ASSUME NEW point \in DOMAIN GoOn, NEW event, NEW then,
             event # "trade.awaiting_shipment",
             NextTransaction(h, point, event, then)
      PROVE  Plans(h)
  <2>1. jobs[h].ent = trade
    BY <1>1 DEF InTurn, JobInTurn, NextTransaction
  <2>2. PICK to \in TradeState :
          /\ Transition(trade, GoOn[point], to)
          /\ Begin(h, Save("system", moved(to), event, {}, then))
    BY <1>1, <2>1 DEF NextTransaction
  <2>3. /\ moved(to) \in Trade /\ moved(to).state = to /\ moved(to).risk = trade.risk
        /\ moved(to).method = trade.method /\ moved(to).proof = trade.proof
        /\ moved(to).paid = trade.paid /\ moved(to).pickup = trade.pickup
        /\ moved(to).passed = trade.passed
        /\ moved(to).addr = trade.addr /\ moved(to).center = trade.center
    BY Row DEF Trade
  <2> HIDE DEF moved
  <2>4. GoOn[point] \in {"both_items_at_center", "center_inspection_started",
                         "both_items_center_verified"}
    BY <1>1 DEF GoOn
  <2>5. MovesAlong(h, GoOn[point], event, {}, then)
    BY <2>2, <2>3, <2>4 DEF MovesAlong
  <2>6. Promised({}) = Due(GoOn[point])
    BY <2>4 DEF Promised, Due
  <2> QED  BY <1>1, <2>4, <2>5, <2>6, EdgePlans
<1> QED
  BY <1>1, Points DEF BothItemsAtCenter, CenterInspectionStarted, BothItemsCenterVerified

\* An execution that goes on without a copy leaves the life alone.
LEMMA LeavesLegal ==
  ASSUME OneAtATime, LegalInv, NEW h \in Handler, Leaves(h)
  PROVE  LegalInv' /\ life' = life
<1>1. \A g \in Handler : g = h
  BY DEF OneAtATime
<1>2. LegalJob(jobs[h])'
  BY DEF Leaves, LegalJob
<1>3. life' = life
  BY DEF Leaves, life
<1> QED  BY <1>1, <1>2, <1>3 DEF LegalInv, Leaves, ProofsIn, HandedOver, CenterChecksExist

\* Once the parties have been asked to pay, a payment is one.
LEMMA PaymentIsLegal ==
  ASSUME OneAtATime, IInv, LegalInv, NEW h \in Handler, NEW p \in Party,
         NEW all \in BOOLEAN, PaymentSucceeded(h, p, all)
  PROVE  LegalInv' /\ (Lifecycle!Step(life, life') \/ life' = life)
<1> DEFINE n == [life EXCEPT !.paid = @ \cup {p}]
<1>1. jobs \in [Handler -> Job]
  BY DEF IInv, TypeOK
<1>2. /\ jobs'[h] = [at |-> "advance"] /\ outbox' = outbox
      /\ audit' = audit \cup {<<"trade.payment_received", "system">>}
      /\ trade' = IF all THEN [trade EXCEPT !.paid = @ \cup {p}] ELSE trade
      /\ "trade.verified" \in outbox
  BY <1>1 DEF PaymentSucceeded, SetJob, At
<1>3. /\ trade' \in Trade /\ trade'.state = trade.state /\ trade'.risk = trade.risk
      /\ trade'.method = trade.method /\ trade'.proof = trade.proof
      /\ trade'.pickup = trade.pickup /\ trade'.passed = trade.passed
      /\ trade'.paid = IF all THEN trade.paid \cup {p} ELSE trade.paid
  BY <1>2, Row DEF Trade
<1>4. LegalInv'
  <2>1. LegalJob(jobs[h])'
    BY <1>2 DEF LegalJob
  <2>2. \A g \in Handler : g = h
    BY DEF OneAtATime
  <2>3. CenterChecksExist' => CenterChecksExist
    BY <1>2 DEF CenterChecksExist
  <2> QED  BY <1>3, <2>1, <2>2, <2>3 DEF LegalInv, ProofsIn, HandedOver
<1>5. life' \in Lifecycle!Life /\ life \in Lifecycle!Life
  BY <1>3, Row, LifeOfRow DEF life
<1>6. /\ life'.stage = life.stage /\ life'.risk = life.risk /\ life'.method = life.method
      /\ life'.proof = life.proof /\ life'.met = life.met
      /\ life'.approved = life.approved /\ life'.announced = life.announced
      /\ life'.paid = IF all THEN life.paid \cup {p} ELSE life.paid
  <2>1. life' = LifeOf(trade', outbox)
    BY <1>2 DEF life
  <2>2. /\ life'.stage = StageOf(trade'.state) /\ life'.risk = trade'.risk
        /\ life'.method = trade'.method /\ life'.proof = trade'.proof
        /\ life'.paid = trade'.paid /\ life'.met = trade'.pickup
        /\ life'.approved = trade'.passed /\ life'.announced = Promised(outbox)
    BY <2>1, LifeFields
  <2> QED  BY <1>3, <2>2, LifeNow
<1>7. CASE all
  <2>1. /\ n \in Lifecycle!Life /\ n.stage = life.stage /\ n.risk = life.risk
        /\ n.method = life.method /\ n.proof = life.proof /\ n.met = life.met
        /\ n.approved = life.approved /\ n.announced = life.announced
        /\ n.paid = life.paid \cup {p}
    BY <1>5 DEF Lifecycle!Life
  <2>2. "trade.verified" \in life.announced
    BY <1>2, LifeNow DEF Promised
  <2>3. Lifecycle!Step(life, n)
    BY <2>2 DEF Lifecycle!Step, Lifecycle!Pay
  <2> HIDE DEF n
  <2>4. life' = n
    BY <1>5, <1>6, <1>7, <2>1, SameLife
  <2> QED  BY <1>4, <2>3, <2>4
<1>8. CASE ~all
  <2>1. life' = life
    BY <1>5, <1>6, <1>8, SameLife
  <2> QED  BY <1>4, <2>1
<1> QED  BY <1>7, <1>8

\* The SELECT of save() changes no plan.
LEMMA LoadIsLegal ==
  ASSUME OneAtATime, IInv, LegalInv, NEW h \in Handler, Load(h)
  PROVE  LegalInv' /\ life' = life
<1> DEFINE j == jobs[h]
           k == [j EXCEPT !.at = "update", !.base = trade]
<1>1. jobs \in [Handler -> Job] /\ j \in Saving
  BY SavingJob DEF IInv, TypeOK, Load
<1>2. jobs'[h] = k /\ trade' = trade /\ audit' = audit /\ outbox' = outbox
  BY <1>1 DEF Load, Begin, SetJob
<1>3. k.at = "update" /\ k.ent = j.ent /\ k.event = j.event /\ k.keys = j.keys
  BY <1>1 DEF Saving
<1>4. LegalJob(j) /\ j.at = "load"
  BY DEF Load, LegalInv
<1> HIDE DEF j, k
<1>5. LegalJob(k)
  BY <1>3, <1>4 DEF LegalJob
<1>6. life' = life
  BY <1>2 DEF life
<1>7. LegalJob(jobs[h])'
  BY <1>2, <1>5, <1>6
     DEF LegalJob, Legal, Planned, ProofsIn, HandedOver, CenterChecksExist
<1>8. \A g \in Handler : g = h
  BY DEF OneAtATime
<1> QED  BY <1>2, <1>6, <1>7, <1>8 DEF LegalInv, ProofsIn, HandedOver, CenterChecksExist

\* The UPDATE carries the plan out.
LEMMA UpdateIsLegal ==
  ASSUME OneAtATime, IInv, InTurn, LegalInv, NEW h \in Handler, Update(h)
  PROVE  LegalInv' /\ (Lifecycle!Step(life, life') \/ life' = life)
<1> DEFINE j == jobs[h]
<1>1. jobs \in [Handler -> Job] /\ j \in Saving /\ j.ent \in Trade
  BY SavingJob DEF IInv, TypeOK, Update, Saving
<1>2. j.base = trade /\ LegalJob(j) /\ j.at = "update"
  BY DEF Update, InTurn, JobInTurn, LegalInv
<1>3. j.ent.risk = trade.risk
  BY DEF Update, IInv, EverythingBacked, JobBacked
<1>4. /\ trade' = Merge(trade, j.base, j.ent) /\ jobs'[h] = After(j)
      /\ audit' = AuditWith(j, audit) /\ outbox' = outbox \cup j.keys
  BY <1>1 DEF Update, SetJob
<1> HIDE DEF j
<1>5. trade' = j.ent
  BY <1>1, <1>2, <1>3, <1>4, Row, MergeInTurn
<1>6. life' = Planned(j.ent, j.keys)
  BY <1>4, <1>5 DEF life, Planned
<1>7. Lifecycle!Step(life, life') \/ life' = life
  BY <1>2, <1>6 DEF LegalJob, Legal
<1>8. ProofsIn(trade)'
  BY <1>2, <1>5 DEF LegalJob, ProofsIn
<1>9. CenterChecksExist' => HandedOver(trade)'
  BY <1>2, <1>4, <1>5 DEF LegalJob, CenterChecksExist, HandedOver, AuditWith
<1>10. After(j).at \notin {"load", "update"}
  <2>1. CASE j.then = "idle"
    BY <2>1 DEF After, Idle
  <2>2. CASE j.then \in DOMAIN GoOn
    <3>1. After(j).at = j.then
      BY <2>2, Points DEF After
    <3> QED  BY <2>2, <3>1, Points
  <2>3. CASE j.then \in {"pickup"} \cup Publication
    <3>1. After(j).at = j.then
      BY <2>3, Points DEF After, At, Publication
    <3> QED  BY <2>3, <3>1 DEF Publication
  <2> QED  BY <1>1, <2>1, <2>2, <2>3 DEF Saving, Then
<1>11. LegalJob(jobs[h])'
  BY <1>4, <1>10 DEF LegalJob
<1>12. \A g \in Handler : g = h
  BY DEF OneAtATime
<1> QED  BY <1>7, <1>8, <1>9, <1>11, <1>12 DEF LegalInv

\* A deadline is not part of the life.
LEMMA ElapseIsLegal ==
  ASSUME OneAtATime, IInv, LegalInv, NEW d \in {"step", "window"}, Elapse(d)
  PROVE  LegalInv' /\ life' = life
<1>1. trade' = Pass(trade, d) /\ audit' = audit /\ outbox' = outbox
  BY DEF Elapse
<1>2. ASSUME NEW t \in Trade, NEW keys
      PROVE  LifeOf(Pass(t, d), keys) = LifeOf(t, keys) /\ Pass(t, d).state = t.state
             /\ Pass(t, d).proof = t.proof
  BY PassIsTrade DEF LifeOf
<1>3. life' = life
  BY <1>1, <1>2, Row DEF life
<1>4. trade'.state = trade.state /\ trade'.proof = trade.proof
  BY <1>1, <1>2, Row
<1>5. ASSUME NEW h \in Handler PROVE LegalJob(jobs[h])'
  <2> DEFINE j == jobs[h]
             k == [j EXCEPT !.ent = Pass(j.ent, d), !.base = Pass(j.base, d)]
             l == [j EXCEPT !.ent = Pass(j.ent, d)]
  <2>1. j \in Job /\ LegalJob(j)
    BY DEF IInv, TypeOK, LegalInv
  <2>2. CASE j.at \in {"load", "update"}
    <3>1. j \in Saving /\ jobs'[h] = k
      BY <2>1, <2>2, SavingJob, Points DEF Elapse
    <3>2. /\ k.ent = Pass(j.ent, d) /\ k.event = j.event /\ k.keys = j.keys
          /\ j.ent \in Trade
      BY <3>1 DEF Saving
    <3> HIDE DEF j, k
    <3>3. k.ent.state = j.ent.state /\ k.ent.proof = j.ent.proof
      BY <1>2, <3>2
    <3>4. LifeOf(k.ent, outbox' \cup k.keys) = Planned(j.ent, j.keys)
      BY <1>1, <1>2, <3>2 DEF Planned
    <3> QED
      BY <1>1, <1>3, <2>1, <2>2, <3>1, <3>2, <3>3, <3>4
         DEF LegalJob, Legal, Planned, ProofsIn, HandedOver, CenterChecksExist
  <2>3. CASE j.at \in DOMAIN GoOn
    <3>1. j \in Going /\ jobs'[h] = l
      BY <2>1, <2>3, GoingJob, Points DEF Elapse
    <3>2. l.at = j.at
      BY <3>1 DEF Going
    <3> HIDE DEF j, l
    <3> QED  BY <2>3, <3>1, <3>2, Points DEF LegalJob
  <2>4. CASE j.at \notin {"load", "update"} \cup DOMAIN GoOn
    <3>1. jobs'[h] = j
      BY <2>4 DEF Elapse
    <3> QED  BY <2>4, <3>1 DEF LegalJob
  <2> QED  BY <2>2, <2>3, <2>4
<1> QED  BY <1>1, <1>3, <1>4, <1>5 DEF LegalInv, ProofsIn, HandedOver, CenterChecksExist

\* The trade that createFromOffer inserts begins its life.
LEMMA InitIsLegal == Init => LegalInv /\ Lifecycle!Init
<1> SUFFICES ASSUME Init PROVE LegalInv /\ Lifecycle!Init
  OBVIOUS
<1>1. PICK r \in {"LOW", "HIGH"} :
        /\ trade.state = "ACCEPTED" /\ trade.risk = r /\ trade.method = "none"
        /\ trade.proof = {} /\ trade.paid = {} /\ trade.pickup = {} /\ trade.passed = {}
  BY DEF Init
<1>2. /\ audit = {<<"trade.initiated", "system">>} /\ outbox = {"trade.initiated"}
      /\ \A h \in Handler : jobs[h].at = "idle"
  BY DEF Init, Idle
<1>3. LegalInv
  BY <1>1, <1>2 DEF LegalInv, ProofsIn, CenterChecksExist, LegalJob
<1>4. Promised(outbox) = {}
  BY <1>2 DEF Promised
<1>5. LifeOf(trade, outbox) = [stage |-> "agreed", risk |-> r, method |-> "none",
                               proof |-> {}, paid |-> {}, met |-> {}, approved |-> {},
                               announced |-> {}]
  BY <1>1, <1>4, Stages DEF LifeOf
<1>6. Lifecycle!Init
  BY <1>5 DEF Lifecycle!Init
<1> QED  BY <1>3, <1>6

\* Every step of an execution that has the row to itself plans a legal next
\* life, takes one, or changes nothing of it.
LEMMA NextIsLegal ==
  ASSUME OneAtATime, IInv, InTurn, LegalInv, [Next]_vars
  PROVE  LegalInv' /\ (Lifecycle!Step(life, life') \/ life' = life)
<1>1. ASSUME NEW h \in Handler, Plans(h) \/ Leaves(h)
      PROVE  LegalInv' /\ life' = life
  BY <1>1, PlansKeep, LeavesLegal
<1>2. ASSUME NEW h \in Handler, Request(h) PROVE Plans(h)
  BY <1>2, EdgesPlan, SubmitProofPlans, ConfirmReceiptPlans, ColumnsPlan, MethodPlans
     DEF Request
<1>3. ASSUME NEW h \in Handler, Consume(h)
      PROVE  LegalInv' /\ (Lifecycle!Step(life, life') \/ life' = life)
  <2>1. CASE \E p \in Party, all \in BOOLEAN : PaymentSucceeded(h, p, all)
    BY <2>1, PaymentIsLegal
  <2>2. CASE \E p \in Party : ItemAtCenter(h, p) \/ CenterVerificationApproved(h, p)
    BY <1>1, <2>2, ColumnsPlan, ApprovalPlans
  <2> QED  BY <1>1, <1>3, <2>1, <2>2, EdgesPlan, DeliveredPlans DEF Consume
<1>4. ASSUME NEW h \in Handler, Proceed(h)
      PROVE  LegalInv' /\ (Lifecycle!Step(life, life') \/ life' = life)
  BY <1>1, <1>4, LoadIsLegal, UpdateIsLegal, PointsLeave, EdgesPlan, CenterStepsPlan
     DEF Proceed
<1>5. ASSUME NEW h \in Handler, TimeoutScan(h) \/ DeliveryScan(h) \/ Fault(h)
      PROVE  Leaves(h)
  BY <1>5, PointsLeave
<1>6. ASSUME NEW d \in {"step", "window"}, Elapse(d) PROVE LegalInv' /\ life' = life
  BY <1>6, ElapseIsLegal
<1>7. CASE UNCHANGED vars
  BY <1>7 DEF vars, LegalInv, LegalJob, Legal, Planned, life, ProofsIn, HandedOver,
              CenterChecksExist
<1> QED  BY <1>1, <1>2, <1>3, <1>4, <1>5, <1>6, <1>7 DEF Next

\* Handled one execution at a time, the service implements the lifecycle its
\* parties were promised: TradeLifecycle, where every move and every fact it
\* rests on is one indivisible step, announced as it happens.
THEOREM LifecycleInTurn ==
  ASSUME OneAtATime
  PROVE  Spec => LifecycleKept
<1>1. Init => LegalInv /\ Lifecycle!Init
  BY InitIsLegal
<1>2. IInv /\ InTurn /\ LegalInv /\ [Next]_vars
        => LegalInv' /\ [Lifecycle!Next]_(LifeOf(trade, outbox))
  BY NextIsLegal DEF Lifecycle!Next, life
<1> QED
  BY <1>1, <1>2, CopiesFollowRow, Inductive, PTL DEF Spec, LifecycleKept, Lifecycle!Spec

\* What a life rests on: the fees of both before an item moves, and the end
\* it has announced.
Kept(l) ==
  /\ l \in Lifecycle!Life
  /\ l.stage \in {"moving", "cleared", "delivered"} => l.paid = Party
  /\ "trade.completed" \in l.announced => l.stage = "completed"
  /\ "trade.cancelled" \in l.announced => l.stage \in {"cancelled", "revoked"}

\* A move leads from one such life to another if it rests on the fees when it
\* starts a journey, and says of the end what the stage is.
LEMMA MoveKeeps ==
  ASSUME NEW l, Kept(l), l.stage \notin {"completed", "cancelled", "revoked"},
         NEW to \in Lifecycle!Stage, NEW promises \in SUBSET Lifecycle!Promise,
         to \in {"moving", "cleared", "delivered"} => l.paid = Party,
         "trade.completed" \in promises => to = "completed",
         "trade.cancelled" \in promises => to \in {"cancelled", "revoked"},
         NEW n, Lifecycle!Move(to, promises, l, n)
  PROVE  Kept(n)
<1>1. n = [l EXCEPT !.stage = to, !.announced = @ \cup promises]
  BY DEF Lifecycle!Move
<1>2. /\ n \in Lifecycle!Life /\ n.stage = to /\ n.paid = l.paid
      /\ n.announced = l.announced \cup promises
  BY <1>1 DEF Kept, Lifecycle!Life
<1> QED  BY <1>2 DEF Kept

\* So does every step.
LEMMA StepKeeps ==
  ASSUME NEW l, Kept(l), NEW n, Lifecycle!Step(l, n)
  PROVE  Kept(n)
<1>1. l \in Lifecycle!Life
  BY DEF Kept
<1>2. ASSUME NEW p \in Party, Lifecycle!Prove(p, l, n) \/ Lifecycle!Pay(p, l, n)
      PROVE  Kept(n)
  <2>1. CASE Lifecycle!Prove(p, l, n)
    <3>1. n = [l EXCEPT !.proof = @ \cup {p}]
      BY <2>1 DEF Lifecycle!Prove
    <3>2. n \in Lifecycle!Life /\ n.stage = l.stage /\ n.paid = l.paid
          /\ n.announced = l.announced
      BY <1>1, <3>1 DEF Lifecycle!Life
    <3> QED  BY <3>2 DEF Kept
  <2>2. CASE Lifecycle!Pay(p, l, n)
    <3>1. n = [l EXCEPT !.paid = @ \cup {p}]
      BY <2>2 DEF Lifecycle!Pay
    <3>2. n \in Lifecycle!Life /\ n.stage = l.stage /\ n.paid = l.paid \cup {p}
          /\ n.announced = l.announced
      BY <1>1, <3>1 DEF Lifecycle!Life
    <3> QED  BY <3>2 DEF Kept
  <2> QED  BY <1>2, <2>1, <2>2
<1>3. ASSUME NEW p \in Party, Lifecycle!Meet(p, l, n) \/ Lifecycle!Approve(p, l, n)
      PROVE  Kept(n)
  <2>1. CASE Lifecycle!Meet(p, l, n)
    <3>1. n = [l EXCEPT !.met = @ \cup {p},
                        !.method = IF @ = "none" THEN "local_pickup" ELSE @]
      BY <2>1 DEF Lifecycle!Meet
    <3>2. n \in Lifecycle!Life /\ n.stage = l.stage /\ n.paid = l.paid
          /\ n.announced = l.announced
      BY <1>1, <3>1 DEF Lifecycle!Life
    <3> QED  BY <3>2 DEF Kept
  <2>2. CASE Lifecycle!Approve(p, l, n)
    <3>1. n = [l EXCEPT !.approved = @ \cup {p}]
      BY <2>2 DEF Lifecycle!Approve
    <3>2. n \in Lifecycle!Life /\ n.stage = l.stage /\ n.paid = l.paid
          /\ n.announced = l.announced
      BY <1>1, <3>1 DEF Lifecycle!Life
    <3> QED  BY <3>2 DEF Kept
  <2> QED  BY <1>3, <2>1, <2>2
<1>4. ASSUME NEW m \in {"shipping", "local_pickup"},
             Lifecycle!Choose(m, l, n) \/ Lifecycle!Redo(l, n)
      PROVE  Kept(n)
  <2>1. n = [l EXCEPT !.method = m] \/ n = [l EXCEPT !.proof = {}]
    BY <1>4 DEF Lifecycle!Choose, Lifecycle!Redo
  <2>2. n \in Lifecycle!Life /\ n.stage = l.stage /\ n.paid = l.paid
        /\ n.announced = l.announced
    BY <1>1, <2>1 DEF Lifecycle!Life
  <2> QED  BY <2>2 DEF Kept
<1>5. ASSUME Lifecycle!Vet(l, n) \/ Lifecycle!HandOver(l, n) \/ Lifecycle!Clear(l, n)
      PROVE  Kept(n)
  BY <1>5, MoveKeeps DEF Lifecycle!Vet, Lifecycle!HandOver, Lifecycle!Clear, Kept,
                         Lifecycle!Stage, Lifecycle!Promise
<1>6. ASSUME Lifecycle!Deliver(l, n) \/ Lifecycle!RaiseDispute(l, n) PROVE Kept(n)
  BY <1>6, MoveKeeps DEF Lifecycle!Deliver, Lifecycle!RaiseDispute, Kept,
                         Lifecycle!Stage, Lifecycle!Promise
<1>7. ASSUME Lifecycle!Complete(l, n) \/ Lifecycle!Cancel(l, n) \/ Lifecycle!Revoke(l, n)
      PROVE  Kept(n)
  BY <1>7, MoveKeeps DEF Lifecycle!Complete, Lifecycle!Cancel, Lifecycle!Revoke, Kept,
                         Lifecycle!Stage, Lifecycle!Promise
<1> QED
  BY <1>2, <1>3, <1>4, <1>5, <1>6, <1>7 DEF Lifecycle!Step

\* Whatever keeps to the lifecycle moves no item before both have paid, and
\* never announces two endings; and the service does, one execution at a time.
THEOREM LifecycleSettlesOnce ==
  LifecycleKept => [](Lifecycle!PaidBeforeMoving /\ Lifecycle!OneEnding)
<1> DEFINE l == LifeOf(trade, outbox)
<1>1. Lifecycle!Init => Kept(l)
  <2> SUFFICES ASSUME NEW r \in {"LOW", "HIGH"},
                      l = [stage |-> "agreed", risk |-> r, method |-> "none", proof |-> {},
                           paid |-> {}, met |-> {}, approved |-> {}, announced |-> {}]
               PROVE  Kept(l)
    BY DEF Lifecycle!Init
  <2> HIDE DEF l
  <2> QED  BY DEF Kept, Lifecycle!Life, Lifecycle!Stage
<1>2. Kept(l) /\ [Lifecycle!Next]_l => Kept(l)'
  BY StepKeeps DEF Lifecycle!Next, Kept
<1>3. Kept(l) => Lifecycle!PaidBeforeMoving /\ Lifecycle!OneEnding
  BY DEF Kept, Lifecycle!PaidBeforeMoving, Lifecycle!OneEnding
<1> QED  BY <1>1, <1>2, <1>3, PTL DEF LifecycleKept, Lifecycle!Spec

----------------------------------------------------------------------------
(* The trade's page: parties who only press what it offers.                *)

Early ==
  {"INITIATED", "OFFERED", "ACCEPTED", "LOCKED", "PROOF_SUBMITTED", "UNDER_VERIFICATION"}

\* A way to hand over is chosen by a verified trade whose fees are paid, and
\* the columns of the other way stay empty.
Arranged(t) ==
  /\ t.state # "AWAITING_SHIPMENT"
  /\ t.method # "none" => t.paid = Party /\ t.state \notin Early
  /\ t.pickup # {} => t.method = "local_pickup"
  /\ t.addr # {} \/ t.center # {} => t.method = "shipping"

\* All that shipping-service waits for.
ReadyToShip(t) == t.method = "shipping" /\ AddressesReady(t)

\* A copy that completes what a party has to do goes on by itself.
GoesOn(ent, then) ==
  faults = 0 /\ ent.state = "VERIFIED" =>
    /\ ent.pickup = Party => then = "pickup"
    /\ ReadyToShip(ent) => ShipmentsExist \/ then = "shipping.addresses_ready"

JobArranged(j) ==
  j.at \in {"load", "update"} => Arranged(j.ent) /\ GoesOn(j.ent, j.then)

\* ... and so does an execution that has saved one.
RowFollowed ==
  faults = 0 /\ trade.state = "VERIFIED" =>
    /\ trade.pickup = Party => \E h \in Handler :
         \/ jobs[h].at = "pickup"
         \/ jobs[h].at \in {"load", "update"} /\ jobs[h].ent.state = "DELIVERED"
    /\ ReadyToShip(trade) =>
         ShipmentsExist \/ \E h \in Handler : jobs[h].at = "shipping.addresses_ready"

PageInv ==
  /\ Arranged(trade)
  /\ \A h \in Handler : JobArranged(jobs[h])
  /\ RowFollowed

\* Every press is a request or a payment.
LEMMA PageIsService == [PageNext]_vars => [Next]_vars
<1>1. ASSUME NEW h \in Handler, NEW p \in Party, NEW button, Press(h, p, button)
      PROVE  Request(h) \/ Consume(h)
  BY <1>1 DEF Press, Request, Consume
<1>2. ASSUME NEW h \in Handler, NEW button, PressModerator(h, button)
      PROVE  Request(h)
  BY <1>2 DEF PressModerator, Request
<1>3. ASSUME NEW h \in Handler, ScanGoesOn(h) PROVE Request(h)
  BY <1>3 DEF ScanGoesOn, Request
<1> QED  BY <1>1, <1>2, <1>3 DEF PageNext, Next

\* An execution that reads the row and is about to save an arranged copy.
LEMMA SaveArranges ==
  ASSUME OneAtATime, IInv, PageInv, NEW h \in Handler,
         NEW who, NEW ent, NEW event, NEW keys, NEW then,
         jobs[h].at \notin {"load", "update"} \cup Publication,
         jobs[h].at = "pickup" => ent.state = "DELIVERED",
         Arranged(ent), GoesOn(ent, then),
         SetJob(h, Save(who, ent, event, keys, then)),
         UNCHANGED <<trade, faults>>, bus \subseteq bus'
  PROVE  PageInv'
<1> DEFINE job == Save(who, ent, event, keys, then)
<1>1. job.at = "load" /\ job.ent = ent /\ job.then = then
  BY DEF Save
<1> HIDE DEF job
<1>2. jobs \in [Handler -> Job]
  BY DEF IInv, TypeOK
<1>3. jobs'[h] = job
  BY <1>2 DEF SetJob, job
<1>4. \A g \in Handler : g = h
  BY DEF OneAtATime
<1>5. ShipmentsExist => ShipmentsExist'
  BY DEF ShipmentsExist
<1>6. JobArranged(jobs[h])'
  BY <1>1, <1>3, <1>5 DEF JobArranged, GoesOn
<1>7. RowFollowed'
  <2>1. trade.pickup = Party /\ faults = 0 /\ trade.state = "VERIFIED"
          => ent.state = "DELIVERED"
    BY <1>4 DEF PageInv, RowFollowed
  <2>2. ReadyToShip(trade) /\ faults = 0 /\ trade.state = "VERIFIED" => ShipmentsExist'
    BY <1>4, <1>5 DEF PageInv, RowFollowed, Publication
  <2> QED  BY <1>1, <1>3, <2>1, <2>2 DEF RowFollowed, ReadyToShip, AddressesReady
<1> QED  BY <1>4, <1>6, <1>7 DEF PageInv, Arranged

\* The same for the row moved along an edge.
LEMMA EdgeArranges ==
  ASSUME OneAtATime, Party # {}, IInv, PageInv, NEW h \in Handler,
         NEW edge, NEW event, NEW keys, NEW then,
         jobs[h].at \notin {"load", "update"} \cup Publication,
         jobs[h].at = "pickup" => edge = "local_pickup_confirmed",
         MovesAlong(h, edge, event, keys, then)
  PROVE  PageInv'
<1>1. PICK to \in TradeState, ent \in Trade :
        /\ Transition(trade, edge, to)
        /\ ent.state = to /\ ent.method = trade.method
        /\ ent.paid = trade.paid /\ ent.pickup = trade.pickup
        /\ ent.addr = trade.addr /\ ent.center = trade.center
        /\ Begin(h, Save("system", ent, event, keys, then))
  BY DEF MovesAlong
<1>2. <<trade.state, edge, to>> \in TRANSITIONS
  BY <1>1 DEF Transition
<1>3. /\ to # "AWAITING_SHIPMENT"
      /\ to \in Early => trade.state \in Early
      /\ to = "VERIFIED" => trade.state \in Early
      /\ edge = "local_pickup_confirmed" => to = "DELIVERED"
  BY <1>2 DEF TRANSITIONS, Early
<1>4. Arranged(ent)
  BY <1>1, <1>3 DEF PageInv, Arranged
<1>5. to = "VERIFIED" => ent.pickup = {} /\ ent.addr = {}
  BY <1>1, <1>3 DEF PageInv, Arranged
<1>6. GoesOn(ent, then)
  BY <1>1, <1>5 DEF GoesOn, ReadyToShip, AddressesReady
<1>7. /\ SetJob(h, Save("system", ent, event, keys, then))
      /\ UNCHANGED <<trade, faults>> /\ bus \subseteq bus'
  BY <1>1 DEF Begin
<1> QED  BY <1>1, <1>3, <1>4, <1>6, <1>7, SaveArranges

\* Every move along an edge of the table.
LEMMA EdgesArrange ==
  ASSUME OneAtATime, Party # {}, IInv, PageInv, NEW h \in Handler,
         \/ LockItems(h) \/ BeginVerification(h) \/ Verify(h) \/ RejectVerification(h)
         \/ CompleteTrade(h) \/ OpenDispute(h) \/ CancelTrade(h) \/ CompleteLocalPickup(h)
         \/ ShippingReady(h) \/ DirectShippingReady(h) \/ Leg2InTransit(h)
         \/ CenterVerificationRejected(h)
         \/ \E outcome \in {"completed", "revoked"} : ResolveFromDispute(h, outcome)
  PROVE  PageInv'
<1> DEFINE moves(edge) == \E event, keys, then : MovesAlong(h, edge, event, keys, then)
<1>1. ASSUME NEW edge, moves(edge),
             jobs[h].at \in {"idle", "complete", "cancel", "shipReady", "directReady"}
      PROVE  PageInv'
  <2>1. PICK event, keys, then : MovesAlong(h, edge, event, keys, then)
    BY <1>1
  <2>2. jobs[h].at \notin {"load", "update", "pickup"} \cup Publication
    BY <1>1 DEF Publication
  <2> QED  BY <2>1, <2>2, EdgeArranges
<1>2. CASE LockItems(h) \/ BeginVerification(h) \/ Verify(h) \/ RejectVerification(h)
  <2>1. \E edge : moves(edge)
    BY <1>2, EdgesMove
  <2>2. jobs[h].at = "idle"
    BY <1>2 DEF LockItems, BeginVerification, Verify, RejectVerification, Free
  <2> QED  BY <1>1, <2>1, <2>2
<1>3. CASE CompleteTrade(h) \/ OpenDispute(h) \/ CancelTrade(h)
  <2>1. \E edge : moves(edge)
    BY <1>3, EdgesMove
  <2>2. jobs[h].at \in {"idle", "complete", "cancel"}
    BY <1>3 DEF CompleteTrade, OpenDispute, CancelTrade, Free
  <2> QED  BY <1>1, <2>1, <2>2
<1>4. CASE CompleteLocalPickup(h)
  <2>1. MovesAlong(h, "local_pickup_confirmed", "trade.local_pickup_confirmed", {}, "idle")
    BY <1>4, EdgesMove
  <2>2. jobs[h].at = "pickup"
    BY <1>4 DEF CompleteLocalPickup
  <2>3. jobs[h].at \notin {"load", "update"} \cup Publication
    BY <2>2 DEF Publication
  <2> QED  BY <2>1, <2>3, EdgeArranges
<1>5. CASE \/ ShippingReady(h) \/ DirectShippingReady(h) \/ Leg2InTransit(h)
           \/ CenterVerificationRejected(h)
  <2>1. \E edge : moves(edge)
    BY <1>5, EdgesMove
  <2>2. jobs[h].at \in {"idle", "shipReady", "directReady"}
    BY <1>5 DEF ShippingReady, DirectShippingReady, Leg2InTransit,
                CenterVerificationRejected, Free
  <2> QED  BY <1>1, <2>1, <2>2
<1>6. CASE ResolveFromDispute(h, "completed") \/ ResolveFromDispute(h, "revoked")
  <2>1. \E edge : moves(edge)
    BY <1>6, EdgesMove
  <2>2. jobs[h].at = "idle"
    BY <1>6 DEF ResolveFromDispute, Free
  <2> QED  BY <1>1, <2>1, <2>2
<1> QED  BY <1>2, <1>3, <1>4, <1>5, <1>6

\* With nothing in flight and nothing failed, a verified trade still waits for
\* a pickup, and what can be shipped is.
LEMMA NothingPending ==
  ASSUME OneAtATime, PageInv, NEW h \in Handler, jobs[h].at = "idle",
         faults = 0, trade.state = "VERIFIED"
  PROVE  trade.pickup # Party /\ (ReadyToShip(trade) => ShipmentsExist)
<1>1. \A g \in Handler : g = h
  BY DEF OneAtATime
<1> QED  BY <1>1 DEF PageInv, RowFollowed

\* A proof package: the page has the button for a locked trade.
LEMMA SubmitProofArranges ==
  ASSUME OneAtATime, IInv, PageInv, NEW h \in Handler, NEW p \in Party,
         SubmitProof(h, p), trade.state = "LOCKED"
  PROVE  PageInv'
<1> DEFINE t == [trade EXCEPT !.proof = @ \cup {p}, !.timeout = "step"]
           ent(to) == [t EXCEPT !.state = to]
<1>1. PICK to \in TradeState :
        /\ Transition(t, "proof_submitted", to) \/ to = t.state
        /\ Begin(h, Save(p, ent(to), "trade.proof_submitted", {"trade.proof_submitted"}, "idle"))
  BY DEF SubmitProof
<1>2. /\ t \in Trade /\ t.state = "LOCKED" /\ t.method = trade.method
      /\ t.paid = trade.paid /\ t.pickup = trade.pickup
      /\ t.addr = trade.addr /\ t.center = trade.center
  BY Row DEF Trade
<1> HIDE DEF t
<1>3. /\ ent(to).state = to /\ ent(to).method = trade.method
      /\ ent(to).paid = trade.paid /\ ent(to).pickup = trade.pickup
      /\ ent(to).addr = trade.addr /\ ent(to).center = trade.center
  BY <1>2 DEF Trade
<1> HIDE DEF ent
<1>4. to \in {"LOCKED", "PROOF_SUBMITTED"}
  BY <1>1, <1>2, EdgeTargets
<1>5. Arranged(ent(to)) /\ GoesOn(ent(to), "idle")
  BY <1>3, <1>4 DEF PageInv, Arranged, GoesOn, Early
<1>6. jobs[h].at = "idle"
  BY DEF SubmitProof, Free
<1> QED  BY <1>1, <1>5, <1>6, SaveArranges DEF Begin, Publication

\* The receipt of a delivered trade.
LEMMA ConfirmReceiptArranges ==
  ASSUME OneAtATime, IInv, PageInv, NEW h \in Handler, NEW p \in Party, ConfirmReceipt(h, p)
  PROVE  PageInv'
<1> DEFINE t == [trade EXCEPT !.receipt = @ \cup {p}]
           moved(to) == [t EXCEPT !.state = to]
<1>1. /\ t \in Trade /\ t.state = "DELIVERED" /\ t.method = trade.method
      /\ t.paid = trade.paid /\ t.pickup = trade.pickup
      /\ t.addr = trade.addr /\ t.center = trade.center
  BY Row DEF ConfirmReceipt, Trade
<1>2. jobs[h].at = "idle" /\ trade.state = "DELIVERED"
  BY DEF ConfirmReceipt, Free
<1>3. PICK event, keys, ent :
        /\ ent \in Trade /\ ent.state \in {"DELIVERED", "COMPLETED"}
        /\ ent.method = trade.method /\ ent.paid = trade.paid
        /\ ent.pickup = trade.pickup /\ ent.addr = trade.addr
        /\ ent.center = trade.center
        /\ Begin(h, Save("system", ent, event, keys, "idle"))
  <2>1. CASE Begin(h, Save("system", t, "none", {}, "idle"))
    <3> HIDE DEF t
    <3> QED  BY <1>1, <2>1
  <2>2. CASE \E to \in TradeState :
               /\ Transition(t, "buyer_confirmed_receipt", to)
               /\ Begin(h, Save("system", moved(to), "trade.receipt_confirmed",
                                {"trade.completed"}, "idle"))
    <3> HIDE DEF t
    <3>1. PICK to \in TradeState :
               /\ Transition(t, "buyer_confirmed_receipt", to)
               /\ Begin(h, Save("system", moved(to), "trade.receipt_confirmed",
                                {"trade.completed"}, "idle"))
      BY <2>2
    <3>2. /\ moved(to) \in Trade /\ moved(to).state = to
          /\ moved(to).method = trade.method /\ moved(to).paid = trade.paid
          /\ moved(to).pickup = trade.pickup /\ moved(to).addr = trade.addr
          /\ moved(to).center = trade.center
      BY <1>1 DEF Trade
    <3> HIDE DEF moved
    <3>3. to = "COMPLETED"
      BY <3>1, EdgeTargets
    <3> QED  BY <3>1, <3>2, <3>3
  <2> QED  BY <2>1, <2>2 DEF ConfirmReceipt
<1> HIDE DEF t, moved
<1>4. Arranged(ent) /\ GoesOn(ent, "idle")
  BY <1>2, <1>3 DEF PageInv, Arranged, GoesOn, Early
<1> QED  BY <1>2, <1>3, <1>4, SaveArranges DEF Begin, Publication

\* The cards of a verified trade: each is shown for one way of handing over.
LEMMA CardsArrange ==
  ASSUME OneAtATime, Party # {}, IInv, PageInv, NEW h \in Handler, NEW p \in Party,
         \/ \E m \in {"shipping", "local_pickup"} :
              SetShippingMethod(h, m) /\ trade.method = "none" /\ trade.paid = Party
         \/ ConfirmLocalPickup(h, p) /\ trade.method = "local_pickup"
         \/ SelectCenter(h, p) /\ trade.method = "shipping"
         \/ /\ SubmitAddress(h, p)
            /\ trade.method = "shipping" /\ trade.state = "VERIFIED"
  PROVE  PageInv'
<1> DEFINE sent(m) == [trade EXCEPT !.method = m]
           picked == [trade EXCEPT !.pickup = @ \cup {p},
                        !.method = IF @ = "none" THEN "local_pickup" ELSE @]
           chosen == [trade EXCEPT !.center = @ \cup {p}]
           addressed == [trade EXCEPT !.addr = @ \cup {p},
                           !.method = IF @ = "none" THEN "shipping" ELSE @]
<1>1. jobs[h].at = "idle" /\ trade.state = "VERIFIED"
  BY DEF SetShippingMethod, ConfirmLocalPickup, SelectCenter, SubmitAddress, Free
<1>2. jobs[h].at \notin {"load", "update", "pickup"} \cup Publication
  BY <1>1 DEF Publication
<1>3. CASE \E m \in {"shipping", "local_pickup"} :
             SetShippingMethod(h, m) /\ trade.method = "none" /\ trade.paid = Party
  <2>1. PICK m \in {"shipping", "local_pickup"} :
          /\ Begin(h, Save("system", sent(m), "none", {}, "idle"))
          /\ trade.method = "none" /\ trade.paid = Party
    BY <1>3 DEF SetShippingMethod
  <2>2. /\ sent(m).state = trade.state /\ sent(m).method = m /\ sent(m).paid = trade.paid
        /\ sent(m).pickup = trade.pickup /\ sent(m).addr = trade.addr
        /\ sent(m).center = trade.center
    BY Row DEF Trade
  <2> HIDE DEF sent
  <2>3. trade.pickup = {} /\ trade.addr = {} /\ trade.center = {}
    BY <2>1 DEF PageInv, Arranged
  <2>4. Arranged(sent(m)) /\ GoesOn(sent(m), "idle")
    BY <1>1, <2>1, <2>2, <2>3
       DEF PageInv, Arranged, GoesOn, ReadyToShip, AddressesReady, Early
  <2> QED  BY <1>2, <2>1, <2>4, SaveArranges DEF Begin
<1>4. CASE ConfirmLocalPickup(h, p) /\ trade.method = "local_pickup"
  <2>1. Begin(h, Save(p, picked, "trade.local_pickup_partial", {}, "pickup"))
    BY <1>4 DEF ConfirmLocalPickup
  <2>2. /\ picked.state = trade.state /\ picked.method = trade.method
        /\ picked.paid = trade.paid /\ picked.addr = trade.addr
        /\ picked.center = trade.center
    BY <1>4, Row DEF Trade
  <2> HIDE DEF picked
  <2>3. Arranged(picked) /\ GoesOn(picked, "pickup")
    BY <1>1, <1>4, <2>2 DEF PageInv, Arranged, GoesOn, ReadyToShip, Early
  <2> QED  BY <1>2, <2>1, <2>3, SaveArranges DEF Begin
<1>5. CASE SelectCenter(h, p) /\ trade.method = "shipping"
  <2>1. Begin(h, Save("system", chosen, "trade.center_selected", {}, AfterAddresses(chosen)))
    BY <1>5 DEF SelectCenter
  <2>2. /\ chosen.state = trade.state /\ chosen.method = trade.method
        /\ chosen.paid = trade.paid /\ chosen.addr = trade.addr
        /\ chosen.pickup = trade.pickup
    BY Row DEF Trade
  <2> HIDE DEF chosen
  <2>3. Arranged(chosen) /\ GoesOn(chosen, AfterAddresses(chosen))
    BY <1>1, <1>5, <2>2
       DEF PageInv, Arranged, GoesOn, ReadyToShip, AfterAddresses, Early
  <2> QED  BY <1>2, <2>1, <2>3, SaveArranges DEF Begin
<1>6. CASE SubmitAddress(h, p) /\ trade.method = "shipping" /\ trade.state = "VERIFIED"
  <2>1. Begin(h, Save(p, addressed, "trade.address_submitted", {}, AfterAddresses(addressed)))
    BY <1>6 DEF SubmitAddress
  <2>2. /\ addressed.state = trade.state /\ addressed.method = trade.method
        /\ addressed.paid = trade.paid /\ addressed.center = trade.center
        /\ addressed.pickup = trade.pickup
    BY <1>6, Row DEF Trade
  <2> HIDE DEF addressed
  <2>3. Arranged(addressed) /\ GoesOn(addressed, AfterAddresses(addressed))
    BY <1>1, <1>6, <2>2
       DEF PageInv, Arranged, GoesOn, ReadyToShip, AfterAddresses, Early
  <2> QED  BY <1>2, <2>1, <2>3, SaveArranges DEF Begin
<1> QED  BY <1>3, <1>4, <1>5, <1>6

\* What a carrier and the centers report.
LEMMA ReportsArrange ==
  ASSUME OneAtATime, Party # {}, IInv, PageInv, NEW h \in Handler,
         \/ \E p \in Party : ItemAtCenter(h, p) \/ CenterVerificationApproved(h, p)
         \/ DirectShipmentDelivered(h) \/ Leg2Delivered(h)
  PROVE  PageInv'
<1> DEFINE received(p) == [trade EXCEPT !.arrived = @ \cup {p}]
           passed(p) == [trade EXCEPT !.passed = @ \cup {p}]
           ended(to) == [trade EXCEPT !.state = to, !.window = "open", !.timeout = "window"]
<1>1. jobs[h].at = "idle"
  BY DEF ItemAtCenter, CenterVerificationApproved, DirectShipmentDelivered, Leg2Delivered,
         Delivered, Free
<1>2. jobs[h].at \notin {"load", "update", "pickup"} \cup Publication
  BY <1>1 DEF Publication
<1>3. ASSUME NEW ent, NEW then, ent.state = trade.state, ent.risk = trade.risk,
             ent.method = trade.method, ent.paid = trade.paid, ent.pickup = trade.pickup,
             ent.addr = trade.addr, ent.center = trade.center
      PROVE  Arranged(ent) /\ GoesOn(ent, then)
  BY <1>1, <1>3, NothingPending
     DEF PageInv, Arranged, GoesOn, ReadyToShip, AddressesReady
<1>4. ASSUME NEW p \in Party, ItemAtCenter(h, p) PROVE PageInv'
  <2>1. Begin(h, Save("system", received(p), "none", {}, "arrive"))
    BY <1>4 DEF ItemAtCenter
  <2>2. /\ received(p).state = trade.state /\ received(p).risk = trade.risk
        /\ received(p).method = trade.method /\ received(p).paid = trade.paid
        /\ received(p).pickup = trade.pickup /\ received(p).addr = trade.addr
        /\ received(p).center = trade.center
    BY Row DEF Trade
  <2> HIDE DEF received
  <2>3. Arranged(received(p)) /\ GoesOn(received(p), "arrive")
    BY <1>3, <2>2
  <2> QED  BY <1>2, <2>1, <2>3, SaveArranges DEF Begin
<1>5. ASSUME NEW p \in Party, CenterVerificationApproved(h, p) PROVE PageInv'
  <2>1. Receive(h, <<"center.verification_approved", p>>,
                Save("system", passed(p), "none", {}, "pass"))
    BY <1>5 DEF CenterVerificationApproved
  <2>2. /\ passed(p).state = trade.state /\ passed(p).risk = trade.risk
        /\ passed(p).method = trade.method /\ passed(p).paid = trade.paid
        /\ passed(p).pickup = trade.pickup /\ passed(p).addr = trade.addr
        /\ passed(p).center = trade.center
    BY Row DEF Trade
  <2> HIDE DEF passed
  <2>3. Arranged(passed(p)) /\ GoesOn(passed(p), "pass")
    BY <1>3, <2>2
  <2> QED  BY <1>2, <2>1, <2>3, SaveArranges DEF Receive
<1>6. CASE DirectShipmentDelivered(h) \/ Leg2Delivered(h)
  <2>1. PICK to \in TradeState, through \in TradeState :
          /\ Transition([trade EXCEPT !.state = through], "all_shipments_delivered", to)
          /\ Begin(h, Save("system", ended(to), "trade.delivered", {}, "idle"))
          /\ trade.state \notin Early
    BY <1>6 DEF DirectShipmentDelivered, Leg2Delivered, Delivered, TradeState, Early
  <2>2. to = "DELIVERED"
    BY <2>1, EdgeTargets
  <2>3. /\ ended(to).state = to /\ ended(to).method = trade.method
        /\ ended(to).paid = trade.paid /\ ended(to).pickup = trade.pickup
        /\ ended(to).addr = trade.addr /\ ended(to).center = trade.center
    BY Row DEF Trade
  <2> HIDE DEF ended
  <2>4. Arranged(ended(to)) /\ GoesOn(ended(to), "idle")
    BY <2>2, <2>3 DEF PageInv, Arranged, GoesOn, Early
  <2> QED  BY <1>2, <2>1, <2>4, SaveArranges DEF Begin
<1> QED  BY <1>4, <1>5, <1>6

\* A center's next transaction goes on with its copy, which is the row.
LEMMA CenterStepsArrange ==
  ASSUME OneAtATime, Party # {}, IInv, InTurn, PageInv, NEW h \in Handler,
         BothItemsAtCenter(h) \/ CenterInspectionStarted(h) \/ BothItemsCenterVerified(h)
  PROVE  PageInv'
<1> DEFINE moved(to) == [trade EXCEPT !.state = to]
<1>0. PICK point \in DOMAIN GoOn : \E event, then : NextTransaction(h, point, event, then)
  BY Points DEF BothItemsAtCenter, CenterInspectionStarted, BothItemsCenterVerified
<1>1. PICK event, then : NextTransaction(h, point, event, then)
  BY <1>0
<1>2. jobs[h].ent = trade /\ jobs[h].at = point
  BY <1>1 DEF InTurn, JobInTurn, NextTransaction
<1>3. PICK to \in TradeState :
        /\ Transition(trade, GoOn[point], to)
        /\ Begin(h, Save("system", moved(to), event, {}, then))
  BY <1>1, <1>2 DEF NextTransaction
<1>4. /\ moved(to) \in Trade /\ moved(to).state = to /\ moved(to).risk = trade.risk
      /\ moved(to).method = trade.method /\ moved(to).proof = trade.proof
      /\ moved(to).paid = trade.paid /\ moved(to).pickup = trade.pickup
      /\ moved(to).passed = trade.passed
      /\ moved(to).addr = trade.addr /\ moved(to).center = trade.center
  BY Row DEF Trade
<1> HIDE DEF moved
<1>5. GoOn[point] \in {"both_items_at_center", "center_inspection_started",
                       "both_items_center_verified"}
  BY DEF GoOn
<1>6. MovesAlong(h, GoOn[point], event, {}, then)
  BY <1>3, <1>4, <1>5 DEF MovesAlong
<1>7. jobs[h].at \notin {"load", "update", "pickup"} \cup Publication
  BY <1>2, Points DEF Publication
<1> QED  BY <1>6, <1>7, EdgeArranges

\* An execution that goes on without a copy leaves nothing undone.
LEMMA LeavesArrange ==
  ASSUME OneAtATime, Party # {}, IInv, PageInv, NEW h \in Handler,
         \/ TimeoutScan(h) \/ DeliveryScan(h) \/ Advance(h)
         \/ GiveUp(h) \/ Publish(h) \/ Fault(h)
  PROVE  PageInv'
<1>1. \A g \in Handler : g = h
  BY DEF OneAtATime
<1>2. /\ jobs'[h].at \notin {"load", "update"} \cup DOMAIN GoOn /\ trade' = trade
  BY PointsLeave DEF Leaves
<1>3. JobArranged(jobs[h])'
  BY <1>2 DEF JobArranged
<1>4. RowFollowed'
  <2>1. CASE Fault(h)
    <3>1. faults \in Nat /\ faults' = faults + 1
      BY <2>1, FaultsAssumption DEF Fault, IInv, TypeOK
    <3> QED  BY <3>1 DEF RowFollowed
  <2>2. CASE Publish(h)
    <3>1. /\ jobs[h].at \in Publication /\ trade' = trade /\ faults' = faults
          /\ bus' = bus \cup {<<jobs[h].at, "system">>}
      BY <2>2 DEF Publish, Receive
    <3>2. /\ ShipmentsExist => ShipmentsExist'
          /\ jobs[h].at = "shipping.addresses_ready" => ShipmentsExist'
      BY <3>1 DEF ShipmentsExist
    <3>3. jobs[h].at \notin {"pickup", "load", "update"}
      BY <3>1 DEF Publication
    <3> QED
      BY <1>1, <3>1, <3>2, <3>3 DEF PageInv, RowFollowed, ReadyToShip, AddressesReady
  <2>3. CASE TimeoutScan(h) \/ DeliveryScan(h) \/ Advance(h) \/ GiveUp(h)
    <3>1. trade' = trade /\ faults' = faults /\ bus' = bus
      BY <2>3 DEF TimeoutScan, DeliveryScan, Advance, GiveUp, Begin
    <3>2. /\ jobs[h].at \in {"idle", "advance"} \cup DOMAIN ReRead \cup DOMAIN GoOn
          /\ jobs[h].at = "pickup" => ~CanFire(trade, "local_pickup_confirmed")
      BY <2>3, Points DEF TimeoutScan, DeliveryScan, Advance, GiveUp, Free, ReRead
    <3>3. jobs[h].at \notin {"load", "update", "shipping.addresses_ready"}
      BY <3>2, Points
    <3>4. trade.state = "VERIFIED" /\ trade.pickup = Party
            => CanFire(trade, "local_pickup_confirmed")
      <4> SUFFICES ASSUME trade.state = "VERIFIED", trade.pickup = Party
                   PROVE  CanFire(trade, "local_pickup_confirmed")
        OBVIOUS
      <4>1. trade.method = "local_pickup" /\ trade.paid = Party
        BY DEF PageInv, Arranged
      <4>2. Transition(trade, "local_pickup_confirmed", "DELIVERED")
        BY <4>1 DEF Transition, TRANSITIONS, Guard, BothPaid
      <4> QED  BY <4>2 DEF CanFire, TradeState
    <3>5. ~(faults = 0 /\ trade.state = "VERIFIED" /\ trade.pickup = Party)
      BY <1>1, <3>2, <3>3, <3>4 DEF PageInv, RowFollowed
    <3> QED
      BY <1>1, <3>1, <3>3, <3>5
         DEF PageInv, RowFollowed, ReadyToShip, AddressesReady, ShipmentsExist
  <2> QED  BY <2>1, <2>2, <2>3
<1> QED  BY <1>1, <1>2, <1>3, <1>4 DEF PageInv, Arranged

\* A payment arranges nothing, and nothing was pending.
LEMMA PaymentArranges ==
  ASSUME OneAtATime, IInv, PageInv, NEW h \in Handler, NEW p \in Party,
         NEW all \in BOOLEAN, PaymentSucceeded(h, p, all)
  PROVE  PageInv'
<1>1. jobs \in [Handler -> Job]
  BY DEF IInv, TypeOK
<1>2. /\ jobs[h].at = "idle" /\ jobs'[h] = [at |-> "advance"]
      /\ faults' = faults /\ bus \subseteq bus'
  BY <1>1 DEF PaymentSucceeded, SetJob, At, Free
<1>3. /\ trade'.state = trade.state /\ trade'.method = trade.method
      /\ trade'.addr = trade.addr /\ trade'.center = trade.center
      /\ trade'.pickup = trade.pickup /\ trade'.risk = trade.risk
      /\ trade.paid \subseteq trade'.paid /\ trade'.paid \in SUBSET Party
  BY Row DEF PaymentSucceeded, Trade
<1>4. \A g \in Handler : g = h
  BY DEF OneAtATime
<1>5. JobArranged(jobs[h])'
  BY <1>2 DEF JobArranged
<1>6. Arranged(trade)'
  BY <1>3 DEF PageInv, Arranged
<1>7. RowFollowed'
  BY <1>2, <1>3, NothingPending DEF RowFollowed, ReadyToShip, AddressesReady, ShipmentsExist
<1> QED  BY <1>4, <1>5, <1>6, <1>7 DEF PageInv

\* The SELECT of save() changes no plan.
LEMMA LoadArranges ==
  ASSUME OneAtATime, IInv, PageInv, NEW h \in Handler, Load(h)
  PROVE  PageInv'
<1> DEFINE j == jobs[h]
           k == [j EXCEPT !.at = "update", !.base = trade]
<1>1. jobs \in [Handler -> Job] /\ j \in Saving
  BY SavingJob DEF IInv, TypeOK, Load
<1>2. /\ jobs'[h] = k /\ trade' = trade /\ faults' = faults /\ bus' = bus
  BY <1>1 DEF Load, Begin, SetJob
<1>3. k.at = "update" /\ k.ent = j.ent /\ k.then = j.then
  BY <1>1 DEF Saving
<1>4. JobArranged(j) /\ j.at = "load"
  BY DEF Load, PageInv
<1>5. \A g \in Handler : g = h
  BY DEF OneAtATime
<1>6. RowFollowed => /\ faults = 0 /\ trade.state = "VERIFIED" /\ trade.pickup = Party
                          => j.ent.state = "DELIVERED"
                     /\ faults = 0 /\ trade.state = "VERIFIED" /\ ReadyToShip(trade)
                          => ShipmentsExist
  BY <1>4, <1>5 DEF RowFollowed
<1> HIDE DEF j, k
<1>7. JobArranged(jobs[h])'
  BY <1>2, <1>3, <1>4 DEF JobArranged, GoesOn, ShipmentsExist
<1>8. RowFollowed'
  BY <1>2, <1>3, <1>6 DEF PageInv, RowFollowed, ReadyToShip, AddressesReady, ShipmentsExist
<1> QED  BY <1>2, <1>5, <1>7, <1>8 DEF PageInv, Arranged

\* The UPDATE leaves the execution where its copy goes on.
LEMMA UpdateArranges ==
  ASSUME OneAtATime, IInv, InTurn, PageInv, NEW h \in Handler, Update(h)
  PROVE  PageInv'
<1> DEFINE j == jobs[h]
<1>1. jobs \in [Handler -> Job] /\ j \in Saving /\ j.ent \in Trade
  BY SavingJob DEF IInv, TypeOK, Update, Saving
<1>2. j.base = trade /\ JobArranged(j) /\ j.at = "update"
  BY DEF Update, InTurn, JobInTurn, PageInv
<1>3. j.ent.risk = trade.risk
  BY DEF Update, IInv, EverythingBacked, JobBacked
<1>4. /\ trade' = Merge(trade, j.base, j.ent) /\ jobs'[h] = After(j)
      /\ faults' = faults /\ bus' = bus
  BY <1>1 DEF Update, SetJob
<1> HIDE DEF j
<1>5. trade' = j.ent
  BY <1>1, <1>2, <1>3, <1>4, Row, MergeInTurn
<1>6. /\ j.then = "idle" => After(j).at = "idle"
      /\ j.then \in DOMAIN GoOn => After(j).at = j.then
      /\ j.then \in {"pickup"} \cup Publication => After(j).at = j.then
  <2>1. CASE j.then = "idle"
    BY <2>1, Points DEF After, Idle, Publication
  <2>2. CASE j.then \in DOMAIN GoOn
    BY <2>2, Points DEF After
  <2>3. CASE j.then \in {"pickup"} \cup Publication
    BY <2>3, Points DEF After, At, Publication
  <2> QED  BY <2>1, <2>2, <2>3
<1>7. After(j).at \notin {"load", "update"}
  BY <1>1, <1>6, Points DEF Saving, Then, Publication
<1>8. JobArranged(jobs[h])'
  BY <1>4, <1>7 DEF JobArranged
<1>9. RowFollowed'
  BY <1>2, <1>4, <1>5, <1>6
     DEF JobArranged, GoesOn, RowFollowed, ReadyToShip, AddressesReady, ShipmentsExist, Publication
<1>10. \A g \in Handler : g = h
  BY DEF OneAtATime
<1> QED  BY <1>2, <1>5, <1>8, <1>9, <1>10 DEF PageInv, JobArranged, Arranged

\* A deadline passes in the row and in its copy alike.
LEMMA ElapseArranges ==
  ASSUME OneAtATime, IInv, PageInv, NEW d \in {"step", "window"}, Elapse(d)
  PROVE  PageInv'
<1>1. trade' = Pass(trade, d) /\ faults' = faults /\ bus' = bus
  BY DEF Elapse
<1>2. \A t \in Trade : /\ Pass(t, d).state = t.state /\ Pass(t, d).risk = t.risk
                       /\ Pass(t, d).method = t.method /\ Pass(t, d).paid = t.paid
                       /\ Pass(t, d).addr = t.addr /\ Pass(t, d).pickup = t.pickup
                       /\ Pass(t, d).center = t.center
  BY PassIsTrade
<1>3. /\ trade'.state = trade.state /\ trade'.risk = trade.risk
      /\ trade'.method = trade.method /\ trade'.paid = trade.paid
      /\ trade'.addr = trade.addr /\ trade'.pickup = trade.pickup
      /\ trade'.center = trade.center
  BY <1>1, <1>2, Row
<1>4. ASSUME NEW h \in Handler
      PROVE  /\ JobArranged(jobs[h])' /\ jobs'[h].at = jobs[h].at
             /\ jobs[h].at \in {"load", "update"} => jobs'[h].ent.state = jobs[h].ent.state
  <2> DEFINE j == jobs[h]
             k == [j EXCEPT !.ent = Pass(j.ent, d), !.base = Pass(j.base, d)]
             l == [j EXCEPT !.ent = Pass(j.ent, d)]
  <2>1. j \in Job /\ JobArranged(j)
    BY DEF IInv, TypeOK, PageInv
  <2>2. CASE j.at \in {"load", "update"}
    <3>1. j \in Saving /\ jobs'[h] = k
      BY <2>1, <2>2, SavingJob, Points DEF Elapse
    <3>2. /\ k.at = j.at /\ k.ent = Pass(j.ent, d) /\ k.then = j.then
          /\ j.ent \in Trade
      BY <3>1 DEF Saving
    <3>3. jobs[h] = j
      OBVIOUS
    <3> HIDE DEF j, k
    <3>4. /\ k.ent.state = j.ent.state /\ k.ent.risk = j.ent.risk
          /\ k.ent.method = j.ent.method /\ k.ent.paid = j.ent.paid
          /\ k.ent.addr = j.ent.addr /\ k.ent.pickup = j.ent.pickup
          /\ k.ent.center = j.ent.center
      BY <1>2, <3>2
    <3>5. JobArranged(jobs[h])'
      BY <1>1, <2>1, <2>2, <3>1, <3>2, <3>4
         DEF JobArranged, Arranged, GoesOn, ReadyToShip, AddressesReady, ShipmentsExist
    <3> QED  BY <3>1, <3>2, <3>3, <3>4, <3>5
  <2>3. CASE j.at \in DOMAIN GoOn
    <3>1. j \in Going /\ jobs'[h] = l
      BY <2>1, <2>3, GoingJob, Points DEF Elapse
    <3>2. l.at = j.at
      BY <3>1 DEF Going
    <3>3. jobs[h] = j
      OBVIOUS
    <3> HIDE DEF j, l
    <3> QED  BY <2>3, <3>1, <3>2, <3>3, Points DEF JobArranged
  <2>4. CASE j.at \notin {"load", "update"} \cup DOMAIN GoOn
    <3>1. jobs'[h] = j
      BY <2>4 DEF Elapse
    <3> QED  BY <2>4, <3>1 DEF JobArranged
  <2> QED  BY <2>2, <2>3, <2>4
<1>5. RowFollowed'
  <2>1. faults' = 0 /\ trade'.state = "VERIFIED" => faults = 0 /\ trade.state = "VERIFIED"
    BY <1>1, <1>3
  <2>2. /\ trade'.pickup = trade.pickup /\ ReadyToShip(trade') = ReadyToShip(trade)
        /\ ShipmentsExist' = ShipmentsExist
    BY <1>1, <1>3 DEF ReadyToShip, AddressesReady, ShipmentsExist
  <2> QED  BY <1>4, <2>1, <2>2 DEF PageInv, RowFollowed, ReadyToShip, AddressesReady
<1> QED  BY <1>3, <1>4, <1>5 DEF PageInv, Arranged

\* A new trade has nothing arranged.
LEMMA InitArranged == Init => PageInv
<1> SUFFICES ASSUME Init PROVE PageInv
  OBVIOUS
<1>1. /\ trade.state = "ACCEPTED" /\ trade.method = "none" /\ trade.pickup = {}
      /\ trade.addr = {} /\ trade.center = {}
      /\ \A h \in Handler : jobs[h].at = "idle"
  BY DEF Init, Idle
<1> QED  BY <1>1 DEF PageInv, Arranged, JobArranged, RowFollowed

\* What the page offers of the requests that arrange the handover.
LEMMA PressArranges ==
  ASSUME OneAtATime, Party # {}, IInv, PageInv, NEW h \in Handler, NEW p \in Party,
         NEW button \in Buttons(p), Press(h, p, button)
  PROVE  PageInv'
<1>1. /\ button = "proof" => trade.state = "LOCKED"
      /\ button \in {"shipping", "local_pickup"} => trade.method = "none" /\ trade.paid = Party
      /\ button = "pickup" => trade.method = "local_pickup"
      /\ button = "center" => trade.method = "shipping"
      /\ button = "address" => trade.method = "shipping" /\ trade.state = "VERIFIED"
  BY DEF Buttons, LockButton, ProofButton, FeeCard, MethodCard, PickupCard, CenterCard,
         AddressCard, ShippingCard, ReceiptButton, DisputeButton, CancelButton
<1>2. CASE button = "lock" \/ button = "dispute" \/ button = "cancel"
  BY <1>2, EdgesArrange DEF Press
<1>3. CASE button = "proof"
  BY <1>1, <1>3, SubmitProofArranges DEF Press
<1>4. CASE button = "pay"
  BY <1>4, PaymentArranges DEF Press
<1>5. CASE button = "receipt"
  BY <1>5, ConfirmReceiptArranges DEF Press
<1>6. CASE button \in {"shipping", "local_pickup"}
  BY <1>1, <1>6, CardsArrange DEF Press
<1>7. CASE button \in {"pickup", "center", "address"}
  BY <1>1, <1>7, CardsArrange DEF Press
<1> QED  BY <1>2, <1>3, <1>4, <1>5, <1>6, <1>7 DEF Press

\* No step of the page or behind it leaves anything arranged by half.
LEMMA PageArranges ==
  ASSUME OneAtATime, Party # {}, IInv, InTurn, PageInv, [PageNext]_vars
  PROVE  PageInv'
<1>1. ASSUME NEW h \in Handler, NEW button, PressModerator(h, button) PROVE PageInv'
  BY <1>1, EdgesArrange DEF PressModerator
<1>2. ASSUME NEW h \in Handler, Consume(h) PROVE PageInv'
  <2>1. CASE \E p \in Party, all \in BOOLEAN : PaymentSucceeded(h, p, all)
    BY <2>1, PaymentArranges
  <2>2. CASE \/ \E p \in Party : ItemAtCenter(h, p) \/ CenterVerificationApproved(h, p)
             \/ DirectShipmentDelivered(h) \/ Leg2Delivered(h)
    BY <2>2, ReportsArrange
  <2> QED  BY <1>2, <2>1, <2>2, EdgesArrange DEF Consume
<1>3. ASSUME NEW h \in Handler, Proceed(h) PROVE PageInv'
  BY <1>3, LoadArranges, UpdateArranges, LeavesArrange, EdgesArrange, CenterStepsArrange
     DEF Proceed
<1>4. ASSUME NEW h \in Handler, TimeoutScan(h) \/ DeliveryScan(h) \/ Fault(h)
      PROVE  PageInv'
  BY <1>4, LeavesArrange
<1>6. ASSUME NEW h \in Handler, ScanGoesOn(h) PROVE PageInv'
  BY <1>6, EdgesArrange DEF ScanGoesOn
<1>5. CASE UNCHANGED vars
  BY <1>5 DEF vars, PageInv, Arranged, JobArranged, GoesOn, RowFollowed, ReadyToShip,
              AddressesReady, ShipmentsExist
<1> QED
  BY <1>1, <1>2, <1>3, <1>4, <1>5, <1>6, PressArranges, ElapseArranges DEF PageNext

\* Arranged as the page arranges it, a trade at rest has a button for somebody
\* or waits for somebody else.
LEMMA SomebodyMoves ==
  ASSUME Party # {}, IInv, PageInv PROVE WayForward
<1> SUFFICES ASSUME \A h \in Handler : jobs[h] = Idle, trade.state \notin Terminal,
                    faults = 0
             PROVE  Elsewhere \/ ModeratorButtons # {} \/ \E p \in Party : Buttons(p) # {}
  BY DEF WayForward
<1>1. PICK q : q \in Party
  OBVIOUS
<1>2. trade \in Trade
  BY Row
<1>3. \A h \in Handler : jobs[h].at = "idle"
  BY DEF Idle
<1>4. CASE trade.state \in {"INITIATED", "OFFERED", "ACCEPTED", "LOCKED"}
  <2>1. CancelButton # {} \/ ProofButton # {}
    BY <1>4 DEF CancelButton, ProofButton
  <2>2. Buttons(q) # {}
    BY <2>1 DEF Buttons
  <2> QED  BY <1>1, <2>2
<1>5. CASE trade.state \in {"PROOF_SUBMITTED", "UNDER_VERIFICATION"}
  BY <1>5 DEF ModeratorButtons
<1>6. CASE trade.state \in CenterRoute \cup {"IN_TRANSIT", "DISPUTE_OPEN"}
  BY <1>6 DEF Elsewhere
<1>7. CASE trade.state = "DELIVERED"
  <2>1. CASE WindowOpen
    <3>1. Buttons(q) # {}
      BY <1>7, <2>1 DEF Buttons, DisputeButton
    <3> QED  BY <1>1, <3>1
  <2>2. CASE ~WindowOpen
    BY <1>7, <2>2 DEF Elsewhere
  <2> QED  BY <2>1, <2>2
<1>8. CASE trade.state = "VERIFIED"
  <2>1. trade.pickup # Party /\ (ReadyToShip(trade) => ShipmentsExist)
    BY <1>3, <1>8 DEF PageInv, RowFollowed
  <2>2. CASE trade.paid # Party
    <3>1. PICK p \in Party : p \notin trade.paid
      BY <1>2, <2>2 DEF Trade
    <3>2. FeeCard(p) # {}
      BY <1>8, <3>1 DEF FeeCard
    <3>3. Buttons(p) # {}
      BY <3>2 DEF Buttons
    <3> QED  BY <3>3
  <2>3. CASE trade.paid = Party /\ trade.method = "none"
    <3>1. MethodCard # {}
      BY <1>8, <2>3 DEF MethodCard
    <3>2. Buttons(q) # {}
      BY <3>1 DEF Buttons
    <3> QED  BY <1>1, <3>2
  <2>4. CASE trade.paid = Party /\ trade.method = "local_pickup"
    <3>1. PICK p \in Party : p \notin trade.pickup
      BY <1>2, <2>1 DEF Trade
    <3>2. PickupCard(p) # {}
      BY <1>8, <2>4, <3>1 DEF PickupCard
    <3>3. Buttons(p) # {}
      BY <3>2 DEF Buttons
    <3> QED  BY <3>3
  <2>5. CASE trade.paid = Party /\ trade.method = "shipping"
    <3>1. ShippingCard
      BY <1>8, <2>5 DEF ShippingCard
    <3>2. CASE AddressesReady(trade)
      BY <1>8, <2>1, <2>5, <3>2 DEF ReadyToShip, Elsewhere
    <3>3. CASE trade.addr # Party
      <4>1. PICK p \in Party : p \notin trade.addr
        BY <1>2, <3>3 DEF Trade
      <4>2. AddressCard(p) # {}
        BY <3>1, <4>1 DEF AddressCard
      <4>3. Buttons(p) # {}
        BY <4>2 DEF Buttons
      <4> QED  BY <4>3
    <3>4. CASE trade.risk = "HIGH" /\ trade.center # Party
      <4>1. PICK p \in Party : p \notin trade.center
        BY <1>2, <3>4 DEF Trade
      <4>2. CenterCard(p) # {}
        BY <3>1, <3>4, <4>1 DEF CenterCard
      <4>3. Buttons(p) # {}
        BY <4>2 DEF Buttons
      <4> QED  BY <4>3
    <3> QED  BY <3>2, <3>3, <3>4 DEF AddressesReady
  <2> QED  BY <1>2, <2>2, <2>3, <2>4, <2>5 DEF Trade
<1>9. trade.state # "AWAITING_SHIPMENT"
  BY DEF PageInv, Arranged
<1> QED
  BY <1>2, <1>4, <1>5, <1>6, <1>7, <1>8, <1>9 DEF Trade, TradeState, Terminal, CenterRoute

\* Used through its page, one execution at a time, a trade that is not over and
\* for which nothing has failed always has a way forward: a button for one of
\* its parties or for a moderator, or somebody else it waits for.
THEOREM PageHasWayForward ==
  ASSUME OneAtATime, Party # {}
  PROVE  PageSpec => []WayForward
<1>1. PageSpec => Spec
  BY PageIsService, PTL DEF PageSpec, Spec
<1>2. IInv /\ InTurn /\ PageInv /\ [PageNext]_vars => PageInv'
  BY PageArranges
<1>3. IInv /\ PageInv => WayForward
  BY SomebodyMoves
<1> QED
  BY <1>1, <1>2, <1>3, InitArranged, Inductive, CopiesFollowRow, PTL DEF PageSpec

=============================================================================
