---------------------------- MODULE TradeLifecycle ----------------------------
(***************************************************************************)
(* What trade-service promises the parties of one trade and the services   *)
(* that listen to it, without handlers, copies of the row, transactions or *)
(* faults: a trade goes through a few stages, every move and every fact it *)
(* rests on is one indivisible step, and what is announced to the other    *)
(* services is announced in the step that makes it true.                   *)
(*                                                                         *)
(* A step is a relation between an old life and a new one, so that the     *)
(* same formula says whether a life that is only planned (the copy of a    *)
(* handler that has not saved it yet) would be a legal next one.           *)
(***************************************************************************)
CONSTANT Party

VARIABLE life

Stage ==
  {"agreed", "vetted", "moving", "cleared", "delivered", "disputed",
   "completed", "cancelled", "revoked"}

\* The routing keys that tell the other services what has become of a trade.
Promise ==
  {"trade.verified", "trade.dispute_opened", "trade.completed", "trade.cancelled"}

Life ==
  [stage : Stage, risk : {"LOW", "HIGH"},
   method : {"none", "shipping", "local_pickup"},
   proof : SUBSET Party, paid : SUBSET Party, met : SUBSET Party,
   approved : SUBSET Party, announced : SUBSET Promise]

Init ==
  \E r \in {"LOW", "HIGH"} :
    life = [stage |-> "agreed", risk |-> r, method |-> "none", proof |-> {},
            paid |-> {}, met |-> {}, approved |-> {}, announced |-> {}]

----------------------------------------------------------------------------
(* Facts, each about one party, that the moves rest on.                    *)

Prove(p, old, new) == new = [old EXCEPT !.proof = @ \cup {p}]

\* Once both parties have been asked to pay.
Pay(p, old, new) ==
  /\ "trade.verified" \in old.announced
  /\ new = [old EXCEPT !.paid = @ \cup {p}]

Choose(m, old, new) ==
  /\ old.stage = "vetted"
  /\ new = [old EXCEPT !.method = m]

Meet(p, old, new) ==
  /\ old.stage = "vetted"
  /\ new = [old EXCEPT !.met = @ \cup {p},
                        !.method = IF @ = "none" THEN "local_pickup" ELSE @]

\* A center has an item to approve only after the items were handed over.
Approve(p, old, new) ==
  /\ old.stage \notin {"agreed", "vetted"}
  /\ new = [old EXCEPT !.approved = @ \cup {p}]

\* The moderator sends the parties back for new proofs.
Redo(old, new) ==
  /\ old.stage = "agreed"
  /\ new = [old EXCEPT !.proof = {}]

----------------------------------------------------------------------------
(* Moves.                                                                  *)

Move(to, promises, old, new) ==
  new = [old EXCEPT !.stage = to, !.announced = @ \cup promises]

Vet(old, new) ==
  /\ old.stage = "agreed" /\ old.proof = Party
  /\ Move("vetted", {"trade.verified"}, old, new)

HandOver(old, new) ==
  /\ old.stage = "vetted" /\ old.method = "shipping" /\ old.paid = Party
  /\ Move("moving", {}, old, new)

Clear(old, new) ==
  /\ old.stage = "moving" /\ old.risk = "HIGH" /\ old.approved = Party
  /\ Move("cleared", {}, old, new)

\* By a carrier, whose news may be the first of the journey, or in person.
Deliver(old, new) ==
  /\ \/ old.stage = "cleared"
     \/ old.stage = "moving" /\ old.risk = "LOW"
     \/ /\ old.stage = "vetted" /\ old.paid = Party
        /\ \/ old.method = "shipping" /\ old.risk = "LOW"
           \/ old.method = "local_pickup" /\ old.met = Party
  /\ Move("delivered", {}, old, new)

RaiseDispute(old, new) ==
  /\ \/ old.stage \in {"vetted", "cleared", "delivered"}
     \/ old.stage = "moving" /\ old.risk = "LOW"
  /\ Move("disputed", {"trade.dispute_opened"}, old, new)

Complete(old, new) ==
  /\ \/ old.stage \in {"cleared", "delivered", "disputed"}
     \/ old.stage = "vetted" /\ old.method = "none"
  /\ Move("completed", {"trade.completed"}, old, new)

Cancel(old, new) ==
  /\ \/ old.stage \in {"agreed", "moving", "cleared"}
     \/ old.stage = "vetted" /\ old.paid # Party
  /\ Move("cancelled", {"trade.cancelled"}, old, new)

Revoke(old, new) ==
  /\ old.stage = "disputed"
  /\ Move("revoked", {"trade.cancelled"}, old, new)

Step(old, new) ==
  \/ \E p \in Party : \/ Prove(p, old, new) \/ Pay(p, old, new)
                      \/ Meet(p, old, new) \/ Approve(p, old, new)
  \/ \E m \in {"shipping", "local_pickup"} : Choose(m, old, new)
  \/ Redo(old, new) \/ Vet(old, new) \/ HandOver(old, new) \/ Clear(old, new)
  \/ Deliver(old, new) \/ RaiseDispute(old, new) \/ Complete(old, new)
  \/ Cancel(old, new) \/ Revoke(old, new)

Next == Step(life, life')

Spec == Init /\ [][Next]_life

----------------------------------------------------------------------------
(* What follows for anything that keeps to it (proved of the lifecycle of  *)
(* a trade in TradeServiceProofs).                                         *)

\* No item is under way before both parties have paid the fees ("both parties
\* paid" guards every edge of transitions.ts that starts a journey).
PaidBeforeMoving == life.stage \in {"moving", "cleared", "delivered"} => life.paid = Party

\* Payment-service, which releases the escrow on trade.completed and refunds
\* it on trade.cancelled, is never told both.
OneEnding == ~({"trade.completed", "trade.cancelled"} \subseteq life.announced)

=============================================================================
