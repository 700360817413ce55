------------------------------- MODULE Disputes -------------------------------
(***************************************************************************)
(* dispute-service, for the disputes of one trade: they are opened by a    *)
(* message of trade-service or by a request, backed by evidence, resolved  *)
(* by a moderator or after an inspection at a center, appealed, escalated  *)
(* and closed (disputes.service.ts, sla-scheduler.service.ts).             *)
(*                                                                         *)
(* A request or a timer reads the row, tests it and saves its copy later;  *)
(* save() leaves the row equal to the copy, whatever happened in between.  *)
(***************************************************************************)
EXTENDS FiniteSets, Naturals

CONSTANTS Dispute,     \* rows that can ever be inserted (a bound)
          Desk,        \* executions in flight at a time
          MaxFailures  \* executions that die half way (a bound)

VARIABLES
  rows,      \* the table disputes; final: the appeal deadline has passed
  overdue,   \* disputes past their sla deadline
  evidence,  \* kinds of evidence uploaded for each dispute
  desks,     \* the executions in flight
  standing,  \* history: the decision of each dispute that trade-service and
             \*          payment-service were told of last, "none" again once a
             \*          person has reopened the dispute or decided it anew
  reheard,   \* history: disputes decided since they were appealed
  byMessage, \* history: disputes opened by trade.dispute_opened
  overlaps,  \* history: disputes saved from an outdated copy or before the
             \*          last decision was published, "open" if two
             \*          deliveries of trade.dispute_opened overlapped
  failures

disputeHistory == <<standing, reheard, byMessage, overlaps, failures>>
disputesVars == <<rows, overdue, evidence, desks, disputeHistory>>

Evidence == {"photo", "video"}

\* The outcome of a decision, with its compensation.  The request's outcome
\* for the trade is published beside it, but neither stored nor compared.
Decision == {"seller_wins", "buyer_wins"}

Missing == [status |-> "none"]
Opened == [status |-> "open", outcome |-> "none", received |-> FALSE,
           appealed |-> FALSE, final |-> FALSE]
Rows == {d \in Dispute : rows[d] # Missing}
AtRest == [do |-> "none"]

DisputesInit ==
  /\ rows = [d \in Dispute |-> Missing]
  /\ overdue = {}
  /\ evidence = [d \in Dispute |-> {}]
  /\ desks = [k \in Desk |-> AtRest]
  /\ standing = [d \in Dispute |-> "none"]
  /\ reheard = {} /\ byMessage = {} /\ overlaps = {}
  /\ failures = 0

Take(k, work) ==
  /\ desks[k] = AtRest
  /\ desks' = [desks EXCEPT ![k] = work]

Leave(k) == desks' = [desks EXCEPT ![k] = AtRest]

Insert(d) ==
  /\ rows[d] = Missing
  /\ rows' = [rows EXCEPT ![d] = Opened]

----------------------------------------------------------------------------
(* Opening, and evidence.                                                  *)

\* Faulty variant, in no specification: without the search for a dispute.
DeliverUnchecked(k) ==
  /\ \A other \in Desk : desks[other].do # "open"
  /\ Take(k, [do |-> "open"])
  /\ UNCHANGED <<rows, overdue, evidence, disputeHistory>>

\* trade.dispute_opened, delivered any number of times: nothing if there is
\* a dispute of this trade.
DeliverOpened(k) ==
  /\ Rows = {}
  /\ Take(k, [do |-> "open"])
  /\ overlaps' = IF \E other \in Desk : desks[other].do = "open"
                 THEN overlaps \cup {"open"} ELSE overlaps
  /\ UNCHANGED <<rows, overdue, evidence, standing, reheard, byMessage, failures>>

InsertOpened(k, d) ==
  /\ desks[k].do = "open"
  /\ Insert(d)
  /\ byMessage' = byMessage \cup {d}
  /\ Leave(k)
  /\ UNCHANGED <<overdue, evidence, standing, reheard, overlaps, failures>>

\* POST /disputes: not checked.
OpenDispute(d) ==
  /\ Insert(d)
  /\ UNCHANGED <<overdue, evidence, desks, disputeHistory>>

UploadEvidence(d) ==
  /\ d \in Rows
  /\ \E kind \in Evidence : evidence' = [evidence EXCEPT ![d] = @ \cup {kind}]
  /\ UNCHANGED <<rows, overdue, desks, disputeHistory>>

----------------------------------------------------------------------------
(* What reads a row and saves it: the copy to save, and the effect it has, *)
(* "decides" if a person decides the dispute, which is then published, or  *)
(* "reopens", "inspected" if the center does, and "none" of the rest.      *)

Save(k, d, copy, effect) ==
  /\ Take(k, [do |-> "save", dispute |-> d, read |-> rows[d], copy |-> copy,
              effect |-> effect])
  /\ UNCHANGED <<rows, overdue, evidence, disputeHistory>>

\* resolve, in any status: an inspection is ordered (received stays as it is),
OrderInspection(k, d) ==
  /\ d \in Rows
  /\ Save(k, d, [rows[d] EXCEPT !.status = "under_review", !.outcome = "ship_to_center"],
          "reopens")

Decided(row, outcome) ==
  [row EXCEPT !.status = "resolved", !.outcome = outcome, !.final = FALSE]

\* or the dispute is decided on a photo and a video, the first time or not.
Resolve(k, d, outcome) ==
  /\ d \in Rows
  /\ {"photo", "video"} \subseteq evidence[d]
  /\ Save(k, d, Decided(rows[d], outcome), "decides")

MarkCenterReceived(k, d) ==
  /\ d \in Rows
  /\ rows[d].outcome = "ship_to_center" /\ ~rows[d].received
  /\ Save(k, d, [rows[d] EXCEPT !.received = TRUE], "none")

FinalizeCenterInspection(k, d, damaged) ==
  /\ d \in Rows
  /\ rows[d].outcome = "ship_to_center" /\ rows[d].received
  /\ rows[d].status # "resolved"
  /\ Save(k, d, Decided(rows[d], IF damaged THEN "buyer_wins" ELSE "seller_wins"),
          "inspected")

AppealDispute(k, d) ==
  /\ d \in Rows
  /\ rows[d].status = "resolved" /\ ~rows[d].appealed /\ ~rows[d].final
  /\ Save(k, d, [rows[d] EXCEPT !.status = "under_review", !.appealed = TRUE], "reopens")

\* Faulty variant, in no specification: takes decided disputes, too.
EscalateDecided(k, d) ==
  /\ d \in Rows
  /\ rows[d].status # "escalated" /\ d \in overdue
  /\ Save(k, d, [rows[d] EXCEPT !.status = "escalated"], "none")

\* The timers.  Both go through the rows they found, but the entry in
\* moderator_actions is refused ("system" is no uuid), which ends the run
\* after its first row.
CheckSlaBreaches(k, d) ==
  /\ d \in Rows
  /\ rows[d].status \in {"open", "under_review"} /\ d \in overdue
  /\ Save(k, d, [rows[d] EXCEPT !.status = "escalated"], "none")

\* Faulty variant, in no specification: takes appealed disputes, too.
CloseAppealed(k, d) ==
  /\ d \in Rows
  /\ rows[d].status \in {"resolved", "under_review"} /\ rows[d].final
  /\ Save(k, d, [rows[d] EXCEPT !.status = "closed"], "none")

FinalizeExpiredAppeals(k, d) ==
  /\ d \in Rows
  /\ rows[d].status = "resolved" /\ rows[d].final
  /\ Save(k, d, [rows[d] EXCEPT !.status = "closed"], "none")

Decides(work) == work.effect \in {"decides", "inspected"}

\* Another execution has decided the dispute and not published it yet.
Unannounced(k, d) ==
  \E m \in Desk \ {k} : desks[m].do = "publish" /\ desks[m].dispute = d

SaveDispute(k) ==
  LET j == desks[k]
  IN /\ j.do = "save"
     /\ rows' = [rows EXCEPT ![j.dispute] = j.copy]
     /\ overlaps' = IF rows[j.dispute] = j.read /\ ~Unannounced(k, j.dispute) THEN overlaps
                    ELSE overlaps \cup {j.dispute}
     /\ standing' = IF j.effect \in {"decides", "reopens"}
                    THEN [standing EXCEPT ![j.dispute] = "none"] ELSE standing
     /\ reheard' = IF j.copy.appealed /\ Decides(j)
                   THEN reheard \cup {j.dispute} ELSE reheard
     /\ IF Decides(j) THEN desks' = [desks EXCEPT ![k].do = "publish"] ELSE Leave(k)
     /\ UNCHANGED <<overdue, evidence, byMessage, failures>>

\* dispute.resolved, published after the save.
PublishResolved(k) ==
  /\ desks[k].do = "publish"
  /\ standing' = [standing EXCEPT ![desks[k].dispute] = desks[k].copy.outcome]
  /\ Leave(k)
  /\ UNCHANGED <<rows, overdue, evidence, reheard, byMessage, overlaps, failures>>

Die(k) ==
  /\ desks[k] # AtRest /\ failures < MaxFailures
  /\ failures' = failures + 1
  /\ Leave(k)
  /\ UNCHANGED <<rows, overdue, evidence, standing, reheard, byMessage, overlaps>>

\* Time: 48 h after the opening, 72 h after the decision.  An execution may
\* have read the row before and save it after, but takes no 72 h itself.
SlaPasses(d) ==
  /\ d \in Rows
  /\ overdue' = overdue \cup {d}
  /\ UNCHANGED <<rows, evidence, desks, disputeHistory>>

Aged(row) == IF row.outcome \in Decision THEN [row EXCEPT !.final = TRUE] ELSE row

AppealWindowPasses(d) ==
  LET Saving(k) == desks[k].do = "save" /\ desks[k].dispute = d
  IN /\ d \in Rows /\ Aged(rows[d]) # rows[d]
     /\ \A k \in Desk : Saving(k) => ~Decides(desks[k])
     /\ rows' = [rows EXCEPT ![d] = Aged(@)]
     /\ desks' = [k \in Desk |->
          IF Saving(k) THEN [desks[k] EXCEPT !.read = Aged(@), !.copy = Aged(@)]
          ELSE desks[k]]
     /\ UNCHANGED <<overdue, evidence, disputeHistory>>

DisputesNext ==
  \/ \E d \in Dispute :
       OpenDispute(d) \/ UploadEvidence(d) \/ SlaPasses(d) \/ AppealWindowPasses(d)
  \/ \E k \in Desk : DeliverOpened(k) \/ SaveDispute(k) \/ PublishResolved(k) \/ Die(k)
  \/ \E k \in Desk, d \in Dispute :
       \/ InsertOpened(k, d)
       \/ OrderInspection(k, d) \/ MarkCenterReceived(k, d)
       \/ \E outcome \in Decision : Resolve(k, d, outcome)
       \/ \E damaged \in BOOLEAN : FinalizeCenterInspection(k, d, damaged)
       \/ AppealDispute(k, d)
       \/ CheckSlaBreaches(k, d) \/ FinalizeExpiredAppeals(k, d)

DisputesSpec == DisputesInit /\ [][DisputesNext]_disputesVars

----------------------------------------------------------------------------
(* Properties.                                                             *)

\* trade.dispute_opened opens one dispute however often it is delivered and
\* whenever a process dies, unless two deliveries overlapped.
MessageOpensOne ==
  "open" \notin overlaps => Cardinality(byMessage) <= 1

\* The decision that trade-service and payment-service were told of last is
\* the one of the row, and the dispute is over, until a person appeals,
\* orders an inspection or decides anew: no timer and nothing done at the
\* center turns a dispute round for which money has moved.  Not so if an
\* outdated copy was saved or two decisions were under way at once.
AnnouncedStands ==
  \A d \in Dispute \ overlaps :
    standing[d] # "none" =>
      /\ rows[d].status \in {"resolved", "closed"}
      /\ rows[d].outcome = standing[d]

\* An appeal that was taken in time is heard: the dispute is not closed
\* before it has been decided again, whenever the 72 hours run out.
AppealIsHeard ==
  \A d \in Rows \ overlaps :
    rows[d].appealed /\ rows[d].status = "closed" => d \in reheard

=============================================================================
