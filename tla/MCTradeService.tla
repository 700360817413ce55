---------------------------- MODULE MCTradeService ----------------------------
(***************************************************************************)
(* Instance of TradeService for TLC.  InTurnSpec with one Handler checks   *)
(* every handler; MCTradeOverlap has two, MCTradeDelivery the users of the *)
(* page and the schedulers' fairness.                                      *)
(***************************************************************************)
EXTENDS TradeService, TLC

\* The parties play the same role in every handler, and so do executions.
Symmetry == Permutations(Party) \cup Permutations(Handler)

----------------------------------------------------------------------------
\* One request at a time, deaths where they matter.  An execution that dies
\* before its first commit, or with nothing left to do, leaves the tables as
\* its refusal would; one that dies inside a later transaction leaves what it
\* found there.  What is left are deaths after a commit with work to do.
WorkLeft(job) ==
  \/ job.at \in Publication
  \/ job.at \in DOMAIN GoOn /\ CanFire(job.ent, GoOn[job.at])
  \/ job.at = "advance" /\ AfterPayment(trade) # "idle"
  \/ job.at \in DOMAIN ReRead \ {"complete", "cancel"} /\ CanFire(trade, ReRead[job.at])

\* An item that a center has before its checks exist, and a death, are each
\* checked, but not both in one behaviour.
EarlyArrival ==
  /\ ~CenterChecksExist
  /\ \/ trade.arrived # {}
     \/ \E h \in Handler : jobs[h].at \in {"load", "update"} /\ jobs[h].then = "arrive"

InTurnNext ==
  /\ Next
  /\ faults' # faults => \A h \in Handler : WorkLeft(jobs[h])
  /\ ~(faults > 0 /\ EarlyArrival)'

InTurnSpec == Init /\ [][InTurnNext]_vars

=============================================================================
