---------------------------- MODULE DisputesProofs ----------------------------
(***************************************************************************)
(* Proofs about Disputes: one dispute per message, announced decisions     *)
(* stand and appeals are heard, for every set of disputes and executions.  *)
(***************************************************************************)
EXTENDS Disputes, FiniteSetTheorems, TLAPS

RowType ==
  [status : {"open", "under_review", "escalated", "resolved", "closed"},
   outcome : {"none", "ship_to_center"} \cup Decision,
   received : BOOLEAN, appealed : BOOLEAN, final : BOOLEAN]

SaveType ==
  [do : {"save", "publish"}, dispute : Dispute, read : RowType, copy : RowType,
   effect : {"decides", "reopens", "inspected", "none"}]

TypeOK ==
  /\ rows \in [Dispute -> RowType \cup {Missing}]
  /\ desks \in [Desk -> SaveType \cup {AtRest, [do |-> "open"]}]
  /\ standing \in [Dispute -> {"none"} \cup Decision]
  /\ byMessage \subseteq Dispute

\* A dispute some execution is about, or that is there, does not go away.
RowsStay ==
  /\ byMessage \subseteq Rows
  /\ \A d \in Dispute : standing[d] # "none" => d \in Rows
  /\ \A k \in Desk : desks[k] \in SaveType => desks[k].dispute \in Rows

\* While the message did not overlap, it has opened a dispute or one
\* execution is about to.
OneMessage ==
  "open" \notin overlaps =>
    /\ \A d, e \in byMessage : d = e
    /\ \A k \in Desk : desks[k].do = "open" =>
         byMessage = {} /\ \A m \in Desk : desks[m].do = "open" => m = k

\* A row with a decision that may have been announced, and one that
\* AppealIsHeard is about.
Stands(row) == row.status \in {"resolved", "closed"} /\ row.outcome \in Decision
Late(row) == row.appealed /\ row.status \in {"resolved", "closed"}

\* Only a person turns a decision round or takes it back, and only a new
\* decision ends an appeal.
Change(row, copy, effect) ==
  /\ effect \in {"none", "inspected"} /\ Stands(row) =>
       Stands(copy) /\ copy.outcome = row.outcome
  /\ effect \in {"decides", "inspected"} => Stands(copy)
  /\ Late(copy) => Late(row) \/ effect \in {"decides", "inspected"}

\* The decision that a desk is going to publish is the one of the row.
Publishable(j) ==
  /\ Decides(j)
  /\ \/ j.dispute \in overlaps
     \/ Stands(rows[j.dispute]) /\ rows[j.dispute].outcome = j.copy.outcome

CopiesKeep ==
  \A k \in Desk : desks[k] \in SaveType =>
    /\ Change(desks[k].read, desks[k].copy, desks[k].effect)
    /\ desks[k].do = "publish" => Publishable(desks[k])

RowsKeep ==
  \A d \in Rows \ overlaps :
    /\ standing[d] # "none" => Stands(rows[d]) /\ rows[d].outcome = standing[d]
    /\ Late(rows[d]) => d \in reheard

IInv == TypeOK /\ RowsStay /\ OneMessage /\ CopiesKeep /\ RowsKeep

----------------------------------------------------------------------------
(* Small facts.                                                            *)

LEMMA Shapes ==
  /\ Missing \notin RowType /\ Opened \in RowType /\ Opened # Missing
  /\ AtRest \notin SaveType /\ [do |-> "open"] \notin SaveType
  /\ AtRest.do = "none" /\ [do |-> "open"].do = "open"
  /\ \A j \in SaveType : j.do \in {"save", "publish"}
  /\ ~Late(Opened)
  BY DEF Missing, RowType, Opened, AtRest, SaveType, Late

LEMMA RowsThere ==
  ASSUME TypeOK, NEW d \in Dispute
  PROVE  d \in Rows <=> rows[d] \in RowType
  BY Shapes DEF TypeOK, Rows

\* Every request and both timers change a row in such a way.
LEMMA ChangesKeep ==
  ASSUME NEW row \in RowType
  PROVE  /\ LET copy == [row EXCEPT !.status = "under_review", !.outcome = "ship_to_center"]
            IN copy \in RowType /\ Change(row, copy, "reopens")
         /\ \A outcome \in Decision :
              /\ Decided(row, outcome) \in RowType
              /\ Change(row, Decided(row, outcome), "decides")
              /\ row.outcome = "ship_to_center" =>
                   Change(row, Decided(row, outcome), "inspected")
         /\ LET copy == [row EXCEPT !.received = TRUE]
            IN copy \in RowType /\ Change(row, copy, "none")
         /\ LET copy == [row EXCEPT !.status = "under_review", !.appealed = TRUE]
            IN copy \in RowType /\ Change(row, copy, "reopens")
         /\ LET copy == [row EXCEPT !.status = "escalated"]
            IN copy \in RowType /\
               (row.status \in {"open", "under_review"} => Change(row, copy, "none"))
         /\ LET copy == [row EXCEPT !.status = "closed"]
            IN copy \in RowType /\ (row.status = "resolved" => Change(row, copy, "none"))
  BY DEF Change, RowType, Decided, Decision, Stands, Late

LEMMA AgedKeeps ==
  ASSUME NEW row \in RowType
  PROVE  /\ Aged(row) \in RowType
         /\ Aged(row).outcome = row.outcome
         /\ Stands(Aged(row)) <=> Stands(row)
         /\ Late(Aged(row)) <=> Late(row)
  BY DEF RowType, Aged, Stands, Late

----------------------------------------------------------------------------
(* The steps.                                                              *)

LEMMA Initially == DisputesInit => IInv
  BY Shapes DEF DisputesInit, IInv, TypeOK, RowsStay, OneMessage, CopiesKeep, RowsKeep, Rows

\* A new row, whoever inserts it.
LEMMA InsertKeeps ==
  ASSUME IInv, NEW d \in Dispute, Insert(d)
  PROVE  /\ rows' \in [Dispute -> RowType \cup {Missing}]
         /\ d \notin Rows /\ Rows' = Rows \cup {d}
         /\ rows'[d] = Opened
         /\ \A e \in Rows : rows'[e] = rows[e]
<1>1. rows \in [Dispute -> RowType \cup {Missing}]
  BY DEF IInv, TypeOK
<1>2. rows[d] = Missing /\ rows' = [rows EXCEPT ![d] = Opened]
  BY DEF Insert
<1> QED
  BY <1>1, <1>2, Shapes DEF Rows

LEMMA TakenKeeps ==
  ASSUME IInv, NEW k \in Desk, NEW d \in Rows, NEW copy \in RowType,
         NEW effect \in {"decides", "reopens", "inspected", "none"},
         Change(rows[d], copy, effect), Save(k, d, copy, effect)
  PROVE  IInv'
<1> DEFINE work == [do |-> "save", dispute |-> d, read |-> rows[d], copy |-> copy,
                    effect |-> effect]
<1>1. d \in Dispute /\ rows[d] \in RowType
  BY RowsThere DEF Rows, IInv
<1>2. /\ work \in SaveType /\ work.do = "save" /\ work.dispute = d
      /\ work.read = rows[d] /\ work.copy = copy /\ work.effect = effect
  BY <1>1 DEF SaveType
<1>3. desks' = [desks EXCEPT ![k] = work]
  BY DEF Save, Take
<1>4. UNCHANGED <<rows, overdue, evidence, standing, reheard, byMessage, overlaps, failures>>
  BY DEF Save, disputeHistory
<1> HIDE DEF work
<1>5. desks \in [Desk -> SaveType \cup {AtRest, [do |-> "open"]}]
  BY DEF IInv, TypeOK
<1>6. Rows' = Rows
  BY <1>4 DEF Rows
<1>7. TypeOK'
  BY <1>2, <1>3, <1>4, <1>5 DEF IInv, TypeOK
<1>8. RowsStay'
  BY <1>2, <1>3, <1>4, <1>5, <1>6 DEF IInv, RowsStay
<1>9. OneMessage'
  BY <1>2, <1>3, <1>4, <1>5 DEF IInv, OneMessage
<1>10. CopiesKeep'
  BY <1>2, <1>3, <1>4, <1>5 DEF IInv, CopiesKeep, Publishable
<1>11. RowsKeep'
  BY <1>4, <1>6 DEF IInv, RowsKeep
<1> QED
  BY <1>7, <1>8, <1>9, <1>10, <1>11 DEF IInv

\* A desk that is left disturbs nothing.
LEMMA LeaveKeeps ==
  ASSUME IInv, NEW k \in Desk, Leave(k),
         UNCHANGED <<rows, standing, reheard, byMessage, overlaps>>
  PROVE  IInv'
<1>1. desks' = [desks EXCEPT ![k] = AtRest]
  BY DEF Leave
<1>2. desks \in [Desk -> SaveType \cup {AtRest, [do |-> "open"]}]
  BY DEF IInv, TypeOK
<1>3. Rows' = Rows
  BY DEF Rows
<1>4. TypeOK'
  BY <1>1, <1>2 DEF IInv, TypeOK
<1>5. RowsStay'
  BY <1>1, <1>2, <1>3, Shapes DEF IInv, RowsStay
<1>6. OneMessage'
  BY <1>1, <1>2, Shapes DEF IInv, OneMessage
<1>7. CopiesKeep'
  BY <1>1, <1>2, Shapes DEF IInv, CopiesKeep, Publishable
<1>8. RowsKeep'
  BY <1>3 DEF IInv, RowsKeep
<1> QED
  BY <1>4, <1>5, <1>6, <1>7, <1>8 DEF IInv

LEMMA DeliverKeeps ==
  ASSUME IInv, NEW k \in Desk, DeliverOpened(k)
  PROVE  IInv'
<1>1. /\ desks[k] = AtRest /\ desks' = [desks EXCEPT ![k] = [do |-> "open"]]
      /\ Rows = {} /\ UNCHANGED <<rows, standing, reheard, byMessage>>
  BY DEF DeliverOpened, Take
<1>2. desks \in [Desk -> SaveType \cup {AtRest, [do |-> "open"]}]
  BY DEF IInv, TypeOK
<1>3. Rows' = Rows
  BY <1>1 DEF Rows
<1>4. TypeOK'
  BY <1>1, <1>2 DEF IInv, TypeOK
<1>5. RowsStay'
  BY <1>1, <1>2, <1>3, Shapes DEF IInv, RowsStay
<1>6. byMessage = {}
  BY <1>1 DEF IInv, RowsStay
<1>7. "open" \notin overlaps' => "open" \notin overlaps /\ \A m \in Desk : desks[m].do # "open"
  BY DEF DeliverOpened
<1>8. OneMessage'
  BY <1>1, <1>2, <1>6, <1>7, Shapes DEF OneMessage
<1>9. CopiesKeep'
  BY <1>1, <1>2, <1>3, Shapes DEF IInv, CopiesKeep, Publishable, RowsStay
<1>10. RowsKeep'
  BY <1>1, <1>3 DEF IInv, RowsKeep
<1> QED
  BY <1>4, <1>5, <1>8, <1>9, <1>10 DEF IInv

LEMMA InsertOpenedKeeps ==
  ASSUME IInv, NEW k \in Desk, NEW d \in Dispute, InsertOpened(k, d)
  PROVE  IInv'
<1>1. /\ desks[k].do = "open" /\ desks' = [desks EXCEPT ![k] = AtRest]
      /\ byMessage' = byMessage \cup {d} /\ UNCHANGED <<standing, reheard, overlaps>>
  BY DEF InsertOpened, Leave
<1>2. Insert(d)
  BY DEF InsertOpened
<1>3. /\ rows' \in [Dispute -> RowType \cup {Missing}]
      /\ d \notin Rows /\ Rows' = Rows \cup {d}
      /\ rows'[d] = Opened
      /\ \A e \in Rows : rows'[e] = rows[e]
  BY <1>2, InsertKeeps
<1>4. desks \in [Desk -> SaveType \cup {AtRest, [do |-> "open"]}]
  BY DEF IInv, TypeOK
<1>5. TypeOK'
  BY <1>1, <1>3, <1>4 DEF IInv, TypeOK
<1>6. RowsStay'
  BY <1>1, <1>3, <1>4, Shapes DEF IInv, RowsStay
<1>7. OneMessage'
  BY <1>1, <1>4, Shapes DEF IInv, OneMessage
<1>8. CopiesKeep'
  BY <1>1, <1>3, <1>4, Shapes DEF IInv, CopiesKeep, Publishable, RowsStay
<1>9. RowsKeep'
  BY <1>1, <1>3, Shapes DEF IInv, RowsKeep, RowsStay
<1> QED
  BY <1>5, <1>6, <1>7, <1>8, <1>9 DEF IInv

LEMMA OpenKeeps ==
  ASSUME IInv, NEW d \in Dispute, OpenDispute(d)
  PROVE  IInv'
<1>1. UNCHANGED <<standing, desks, reheard, byMessage, overlaps>>
  BY DEF OpenDispute, disputeHistory
<1>2. Insert(d)
  BY DEF OpenDispute
<1>3. /\ rows' \in [Dispute -> RowType \cup {Missing}]
      /\ d \notin Rows /\ Rows' = Rows \cup {d}
      /\ rows'[d] = Opened
      /\ \A e \in Rows : rows'[e] = rows[e]
  BY <1>2, InsertKeeps
<1>4. TypeOK'
  BY <1>1, <1>3 DEF IInv, TypeOK
<1>5. RowsStay'
  BY <1>1, <1>3 DEF IInv, RowsStay
<1>6. OneMessage'
  BY <1>1 DEF IInv, OneMessage
<1>7. CopiesKeep'
  BY <1>1, <1>3 DEF IInv, CopiesKeep, Publishable, RowsStay
<1>8. RowsKeep'
  BY <1>1, <1>3, Shapes DEF IInv, RowsKeep, RowsStay
<1> QED
  BY <1>4, <1>5, <1>6, <1>7, <1>8 DEF IInv

\* The save: the row becomes the copy.  If the row was no longer the one
\* read, or another decision of it was about to be published, the dispute is
\* among those that overlap.
LEMMA SaveKeeps ==
  ASSUME IInv, NEW k \in Desk, SaveDispute(k)
  PROVE  IInv'
<1> DEFINE j == desks[k]
           announce == [j EXCEPT !.do = "publish"]
<1>1. desks \in [Desk -> SaveType \cup {AtRest, [do |-> "open"]}]
  BY DEF IInv, TypeOK
<1>2. j \in SaveType /\ j.do = "save"
  BY <1>1, Shapes DEF SaveDispute
<1>3. j.dispute \in Dispute /\ j.read \in RowType /\ j.copy \in RowType
  BY <1>2 DEF SaveType
<1>4. j.dispute \in Rows
  BY <1>2 DEF IInv, RowsStay
<1>5. /\ rows' = [rows EXCEPT ![j.dispute] = j.copy]
      /\ overlaps' = IF rows[j.dispute] = j.read /\ ~Unannounced(k, j.dispute) THEN overlaps
                     ELSE overlaps \cup {j.dispute}
      /\ standing' = IF j.effect \in {"decides", "reopens"}
                     THEN [standing EXCEPT ![j.dispute] = "none"] ELSE standing
      /\ reheard' = IF j.copy.appealed /\ Decides(j)
                    THEN reheard \cup {j.dispute} ELSE reheard
      /\ UNCHANGED byMessage
  BY DEF SaveDispute
<1>6. desks' = [desks EXCEPT ![k] = IF Decides(j) THEN announce ELSE AtRest]
  BY DEF SaveDispute, Leave
<1>7. /\ announce \in SaveType
      /\ announce.do = "publish" /\ announce.dispute = j.dispute
      /\ announce.read = j.read /\ announce.copy = j.copy /\ announce.effect = j.effect
  BY <1>2 DEF SaveType
<1>8. Change(j.read, j.copy, j.effect)
  BY <1>2 DEF IInv, CopiesKeep
<1> HIDE DEF j, announce
<1>9. rows \in [Dispute -> RowType \cup {Missing}]
      /\ standing \in [Dispute -> {"none"} \cup Decision]
  BY DEF IInv, TypeOK
<1>10. Rows' = Rows
  BY <1>3, <1>4, <1>5, <1>9, Shapes DEF Rows
<1>11. rows'[j.dispute] = j.copy /\ \A d \in Rows : d # j.dispute => rows'[d] = rows[d]
  BY <1>3, <1>5, <1>9 DEF Rows
<1>12. TypeOK'
  BY <1>1, <1>3, <1>5, <1>6, <1>7, <1>9 DEF IInv, TypeOK
<1>13. \A d \in Dispute : standing'[d] # "none" => standing'[d] = standing[d]
  BY <1>5, <1>9
<1>14. RowsStay'
  BY <1>1, <1>4, <1>5, <1>6, <1>7, <1>10, <1>13, Shapes DEF IInv, RowsStay
<1>15. \A m \in Desk : desks'[m].do = "open" => desks[m].do = "open"
  BY <1>1, <1>6, <1>7, Shapes
<1>16. OneMessage'
  BY <1>5, <1>15 DEF IInv, OneMessage
<1>17. \A m \in Desk : desks'[m] \in SaveType =>
         \/ m # k /\ desks'[m] = desks[m]
         \/ m = k /\ Decides(j) /\ desks'[m] = announce
  BY <1>1, <1>6, Shapes
<1>18. CopiesKeep'
  <2> SUFFICES ASSUME NEW m \in Desk, desks'[m] \in SaveType
               PROVE  /\ Change(desks'[m].read, desks'[m].copy, desks'[m].effect)
                      /\ desks'[m].do = "publish" => Publishable(desks[m])'
    BY DEF CopiesKeep
  <2>1. CASE m = k /\ Decides(j) /\ desks'[m] = announce
    <3>1. Stands(j.copy)
      BY <1>8, <2>1 DEF Change, Decides
    <3> QED
      BY <1>7, <1>8, <1>11, <2>1, <3>1 DEF Publishable, Decides
  <2>2. CASE m # k /\ desks'[m] = desks[m]
    <3>1. /\ desks[m].dispute \in Rows
          /\ Change(desks[m].read, desks[m].copy, desks[m].effect)
          /\ desks[m].do = "publish" => Publishable(desks[m])
      BY <2>2 DEF IInv, CopiesKeep, RowsStay
    <3>2. ASSUME desks[m].do = "publish", desks[m].dispute = j.dispute
          PROVE  desks[m].dispute \in overlaps'
      BY <1>5, <2>2, <3>2 DEF Unannounced
    <3> QED
      BY <1>5, <1>11, <2>2, <3>1, <3>2 DEF Publishable, Decides
  <2> QED
    BY <1>17, <2>1, <2>2
<1>19. RowsKeep'
  <2> SUFFICES ASSUME NEW d \in Rows, d \notin overlaps'
               PROVE  /\ standing'[d] # "none" =>
                           Stands(rows'[d]) /\ rows'[d].outcome = standing'[d]
                      /\ Late(rows'[d]) => d \in reheard'
    BY <1>10 DEF RowsKeep
  <2>1. d \notin overlaps /\ d \in Dispute
    BY <1>5 DEF Rows
  <2>2. /\ standing[d] # "none" => Stands(rows[d]) /\ rows[d].outcome = standing[d]
        /\ Late(rows[d]) => d \in reheard
    BY <2>1 DEF IInv, RowsKeep
  <2>3. CASE d = j.dispute
    <3>1. rows[d] = j.read
      BY <1>5, <2>3
    <3>2. Late(rows'[d]) => d \in reheard'
      BY <1>5, <1>8, <1>11, <2>2, <2>3, <3>1 DEF Late, Change, Decides
    <3>3. ASSUME standing'[d] # "none"
          PROVE  Stands(rows'[d]) /\ rows'[d].outcome = standing'[d]
      <4>1. standing' = standing /\ j.effect \notin {"decides", "reopens"}
        BY <1>3, <1>5, <1>9, <2>3, <3>3
      <4>2. j.effect \in {"none", "inspected"}
        BY <1>2, <4>1 DEF SaveType
      <4> QED
        BY <1>8, <1>11, <2>2, <2>3, <3>1, <3>3, <4>1, <4>2 DEF Change
    <3> QED
      BY <3>2, <3>3
  <2>4. CASE d # j.dispute
    BY <1>5, <1>9, <1>11, <2>1, <2>2, <2>4
  <2> QED
    BY <2>3, <2>4
<1> QED
  BY <1>12, <1>14, <1>16, <1>18, <1>19 DEF IInv

LEMMA PublishKeeps ==
  ASSUME IInv, NEW k \in Desk, PublishResolved(k)
  PROVE  IInv'
<1> DEFINE d == desks[k].dispute
           outcome == desks[k].copy.outcome
<1>1. desks \in [Desk -> SaveType \cup {AtRest, [do |-> "open"]}]
      /\ standing \in [Dispute -> {"none"} \cup Decision]
  BY DEF IInv, TypeOK
<1>2. desks[k] \in SaveType /\ desks[k].do = "publish"
  BY <1>1, Shapes DEF PublishResolved
<1>3. /\ d \in Dispute /\ d \in Rows
      /\ d \in overlaps \/ (Stands(rows[d]) /\ rows[d].outcome = outcome)
      /\ outcome \in Decision
  BY <1>2 DEF SaveType, IInv, RowsStay, CopiesKeep, Publishable, Decides, Change, Stands
<1>4. /\ standing' = [standing EXCEPT ![d] = outcome]
      /\ desks' = [desks EXCEPT ![k] = AtRest]
      /\ UNCHANGED <<rows, reheard, byMessage, overlaps>>
  BY DEF PublishResolved, Leave
<1> HIDE DEF d, outcome
<1>5. Rows' = Rows
  BY <1>4 DEF Rows
<1>6. TypeOK'
  BY <1>1, <1>3, <1>4 DEF IInv, TypeOK
<1>7. RowsStay'
  BY <1>1, <1>3, <1>4, <1>5, Shapes DEF IInv, RowsStay
<1>8. OneMessage'
  BY <1>1, <1>4, Shapes DEF IInv, OneMessage
<1>9. CopiesKeep'
  BY <1>1, <1>4, Shapes DEF IInv, CopiesKeep, Publishable
<1>10. \A e \in Dispute : standing'[e] = IF e = d THEN outcome ELSE standing[e]
  BY <1>1, <1>4
<1>11. RowsKeep'
  BY <1>3, <1>4, <1>5, <1>10 DEF IInv, RowsKeep, Rows
<1> QED
  BY <1>6, <1>7, <1>8, <1>9, <1>11 DEF IInv

\* The appeal window runs out: the row and the copies of it age together.
LEMMA WindowKeeps ==
  ASSUME IInv, NEW d \in Dispute, AppealWindowPasses(d)
  PROVE  IInv'
<1> DEFINE Saving(k) == desks[k].do = "save" /\ desks[k].dispute = d
<1>1. rows \in [Dispute -> RowType \cup {Missing}]
      /\ desks \in [Desk -> SaveType \cup {AtRest, [do |-> "open"]}]
  BY DEF IInv, TypeOK
<1>2. /\ d \in Rows
      /\ rows' = [rows EXCEPT ![d] = Aged(rows[d])]
      /\ desks' = [k \in Desk |->
           IF Saving(k)
           THEN [desks[k] EXCEPT !.read = Aged(desks[k].read), !.copy = Aged(desks[k].copy)]
           ELSE desks[k]]
      /\ UNCHANGED <<standing, reheard, byMessage, overlaps>>
  BY DEF AppealWindowPasses, disputeHistory
<1>3. rows[d] \in RowType
  BY <1>2, RowsThere DEF IInv
<1>4. Aged(rows[d]) \in RowType
  BY <1>3, AgedKeeps
<1>5. Rows' = Rows
  BY <1>1, <1>2, <1>4, Shapes DEF Rows
<1>6. \A e \in Rows : /\ rows'[e].outcome = rows[e].outcome
                      /\ Stands(rows'[e]) <=> Stands(rows[e])
                      /\ Late(rows'[e]) <=> Late(rows[e])
  BY <1>1, <1>2, <1>3, AgedKeeps DEF Rows
<1>7. ASSUME NEW k \in Desk, Saving(k)
      PROVE  /\ desks[k] \in SaveType /\ desks'[k] \in SaveType
             /\ desks'[k].do = "save" /\ desks'[k].dispute = d
             /\ desks'[k].effect = desks[k].effect
             /\ desks'[k].read = Aged(desks[k].read) /\ desks'[k].copy = Aged(desks[k].copy)
  <2>1. desks[k] \in SaveType
    BY <1>1, <1>7, Shapes
  <2>2. desks[k].read \in RowType /\ desks[k].copy \in RowType
    BY <2>1 DEF SaveType
  <2>3. Aged(desks[k].read) \in RowType /\ Aged(desks[k].copy) \in RowType
    BY <2>2, AgedKeeps
  <2>4. desks'[k] = [desks[k] EXCEPT !.read = Aged(desks[k].read),
                                     !.copy = Aged(desks[k].copy)]
    BY <1>2, <1>7
  <2>5. /\ desks'[k] \in SaveType
        /\ desks'[k].do = desks[k].do /\ desks'[k].dispute = desks[k].dispute
        /\ desks'[k].effect = desks[k].effect
        /\ desks'[k].read = Aged(desks[k].read) /\ desks'[k].copy = Aged(desks[k].copy)
    BY <2>1, <2>3, <2>4 DEF SaveType
  <2> QED
    BY <1>7, <2>1, <2>5
<1>8. \A k \in Desk : ~Saving(k) => desks'[k] = desks[k]
  BY <1>2
<1>9. TypeOK'
  <2>1. rows' \in [Dispute -> RowType \cup {Missing}]
    BY <1>1, <1>2, <1>4
  <2>2. \A k \in Desk : desks'[k] \in SaveType \cup {AtRest, [do |-> "open"]}
    BY <1>1, <1>7, <1>8
  <2>3. desks' \in [Desk -> SaveType \cup {AtRest, [do |-> "open"]}]
    BY <1>2, <2>2
  <2> QED
    BY <1>2, <2>1, <2>3 DEF IInv, TypeOK
<1> HIDE DEF Saving
<1>10. RowsStay'
  <2>1. ASSUME NEW k \in Desk, desks'[k] \in SaveType PROVE desks'[k].dispute \in Rows
    BY <1>2, <1>7, <1>8, <2>1 DEF IInv, RowsStay
  <2> QED
    BY <1>2, <1>5, <2>1 DEF IInv, RowsStay
<1>11. \A k \in Desk : desks'[k].do = "open" => desks[k].do = "open"
  BY <1>7, <1>8
<1>12. OneMessage'
  BY <1>2, <1>11 DEF IInv, OneMessage
<1>13. CopiesKeep'
  <2> SUFFICES ASSUME NEW k \in Desk, desks'[k] \in SaveType
               PROVE  /\ Change(desks'[k].read, desks'[k].copy, desks'[k].effect)
                      /\ desks'[k].do = "publish" => Publishable(desks[k])'
    BY DEF CopiesKeep
  <2>1. CASE Saving(k)
    <3>1. desks[k] \in SaveType
      BY <1>7, <2>1
    <3>2. /\ desks[k].read \in RowType /\ desks[k].copy \in RowType
          /\ Change(desks[k].read, desks[k].copy, desks[k].effect)
      BY <3>1 DEF IInv, CopiesKeep, SaveType
    <3>3. Change(Aged(desks[k].read), Aged(desks[k].copy), desks[k].effect)
      BY <3>2, AgedKeeps DEF Change
    <3> QED
      BY <1>7, <2>1, <3>3
  <2>2. CASE ~Saving(k)
    <3>1. desks'[k] = desks[k] /\ desks[k].dispute \in Rows
      BY <1>8, <2>2 DEF IInv, RowsStay
    <3>2. /\ Change(desks[k].read, desks[k].copy, desks[k].effect)
          /\ desks[k].do = "publish" => Publishable(desks[k])
      BY <3>1 DEF IInv, CopiesKeep
    <3>3. overlaps' = overlaps
      BY <1>2
    <3> QED
      BY <1>6, <3>1, <3>2, <3>3 DEF Publishable, Decides
  <2> QED
    BY <2>1, <2>2
<1>14. RowsKeep'
  BY <1>2, <1>5, <1>6 DEF IInv, RowsKeep
<1> QED
  BY <1>9, <1>10, <1>12, <1>13, <1>14 DEF IInv

LEMMA OthersKeep ==
  ASSUME IInv, UNCHANGED <<rows, standing, desks, reheard, byMessage, overlaps>>
  PROVE  IInv'
<1>1. Rows' = Rows
  BY DEF Rows
<1>2. TypeOK' /\ OneMessage'
  BY DEF IInv, TypeOK, OneMessage
<1>3. RowsStay' /\ RowsKeep'
  BY <1>1 DEF IInv, RowsStay, RowsKeep
<1>4. CopiesKeep'
  BY DEF IInv, CopiesKeep, Publishable
<1> QED
  BY <1>2, <1>3, <1>4 DEF IInv

\* The requests and timers that read a row.
LEMMA ReadersKeep ==
  ASSUME IInv, NEW k \in Desk, NEW d \in Dispute,
         \/ OrderInspection(k, d) \/ MarkCenterReceived(k, d)
         \/ \E outcome \in Decision : Resolve(k, d, outcome)
         \/ \E damaged \in BOOLEAN : FinalizeCenterInspection(k, d, damaged)
         \/ AppealDispute(k, d)
         \/ CheckSlaBreaches(k, d) \/ FinalizeExpiredAppeals(k, d)
  PROVE  IInv'
<1>1. d \in Rows
  BY DEF OrderInspection, Resolve, MarkCenterReceived, FinalizeCenterInspection,
         AppealDispute, CheckSlaBreaches, FinalizeExpiredAppeals
<1>2. rows[d] \in RowType
  BY <1>1, RowsThere DEF IInv
<1>3. CASE OrderInspection(k, d)
  <2> DEFINE copy == [rows[d] EXCEPT !.status = "under_review", !.outcome = "ship_to_center"]
  <2>1. copy \in RowType /\ Change(rows[d], copy, "reopens")
    BY <1>2, <1>3, ChangesKeep
  <2>2. Save(k, d, copy, "reopens")
    BY <1>3 DEF OrderInspection
  <2> HIDE DEF copy
  <2> QED
    BY <1>1, <2>1, <2>2, TakenKeeps
<1>4. ASSUME NEW outcome \in Decision, Resolve(k, d, outcome) PROVE IInv'
  <2> DEFINE copy == Decided(rows[d], outcome)
  <2>1. copy \in RowType /\ Change(rows[d], copy, "decides")
    BY <1>2, ChangesKeep
  <2>2. Save(k, d, copy, "decides")
    BY <1>4 DEF Resolve
  <2> HIDE DEF copy
  <2> QED
    BY <1>1, <2>1, <2>2, TakenKeeps
<1>5. CASE MarkCenterReceived(k, d)
  <2> DEFINE copy == [rows[d] EXCEPT !.received = TRUE]
  <2>1. copy \in RowType /\ Change(rows[d], copy, "none")
    BY <1>2, <1>5, ChangesKeep
  <2>2. Save(k, d, copy, "none")
    BY <1>5 DEF MarkCenterReceived
  <2> HIDE DEF copy
  <2> QED
    BY <1>1, <2>1, <2>2, TakenKeeps
<1>6. ASSUME NEW damaged \in BOOLEAN, FinalizeCenterInspection(k, d, damaged) PROVE IInv'
  <2> DEFINE outcome == IF damaged THEN "buyer_wins" ELSE "seller_wins"
             copy == Decided(rows[d], outcome)
  <2>1. outcome \in Decision /\ rows[d].outcome = "ship_to_center"
    BY <1>6 DEF Decision, FinalizeCenterInspection
  <2>2. Save(k, d, copy, "inspected")
    BY <1>6 DEF FinalizeCenterInspection
  <2> HIDE DEF outcome
  <2>3. copy \in RowType /\ Change(rows[d], copy, "inspected")
    BY <1>2, <2>1, ChangesKeep
  <2> HIDE DEF copy
  <2> QED
    BY <1>1, <2>2, <2>3, TakenKeeps
<1>7. CASE AppealDispute(k, d)
  <2> DEFINE copy == [rows[d] EXCEPT !.status = "under_review", !.appealed = TRUE]
  <2>1. copy \in RowType /\ Change(rows[d], copy, "reopens")
    BY <1>2, <1>7, ChangesKeep
  <2>2. Save(k, d, copy, "reopens")
    BY <1>7 DEF AppealDispute
  <2> HIDE DEF copy
  <2> QED
    BY <1>1, <2>1, <2>2, TakenKeeps
<1>8. CASE CheckSlaBreaches(k, d)
  <2> DEFINE copy == [rows[d] EXCEPT !.status = "escalated"]
  <2>1. copy \in RowType /\ Change(rows[d], copy, "none")
    BY <1>2, <1>8, ChangesKeep DEF CheckSlaBreaches
  <2>2. Save(k, d, copy, "none")
    BY <1>8 DEF CheckSlaBreaches
  <2> HIDE DEF copy
  <2> QED
    BY <1>1, <2>1, <2>2, TakenKeeps
<1>9. CASE FinalizeExpiredAppeals(k, d)
  <2> DEFINE copy == [rows[d] EXCEPT !.status = "closed"]
  <2>1. copy \in RowType /\ Change(rows[d], copy, "none")
    BY <1>2, <1>9, ChangesKeep DEF FinalizeExpiredAppeals
  <2>2. Save(k, d, copy, "none")
    BY <1>9 DEF FinalizeExpiredAppeals
  <2> HIDE DEF copy
  <2> QED
    BY <1>1, <2>1, <2>2, TakenKeeps
<1> QED
  BY <1>3, <1>4, <1>5, <1>6, <1>7, <1>8, <1>9

LEMMA StepKeeps == IInv /\ [DisputesNext]_disputesVars => IInv'
<1> SUFFICES ASSUME IInv, [DisputesNext]_disputesVars PROVE IInv'
  OBVIOUS
<1>1. CASE UNCHANGED disputesVars
  BY <1>1, OthersKeep DEF disputesVars, disputeHistory
<1>2. ASSUME NEW d \in Dispute, OpenDispute(d) PROVE IInv'
  BY <1>2, OpenKeeps
<1>3. ASSUME NEW d \in Dispute, UploadEvidence(d) \/ SlaPasses(d) PROVE IInv'
  BY <1>3, OthersKeep DEF UploadEvidence, SlaPasses, disputeHistory
<1>4. ASSUME NEW d \in Dispute, AppealWindowPasses(d) PROVE IInv'
  BY <1>4, WindowKeeps
<1>5. ASSUME NEW k \in Desk, DeliverOpened(k) PROVE IInv'
  BY <1>5, DeliverKeeps
<1>6. ASSUME NEW k \in Desk, SaveDispute(k) PROVE IInv'
  BY <1>6, SaveKeeps
<1>7. ASSUME NEW k \in Desk, PublishResolved(k) PROVE IInv'
  BY <1>7, PublishKeeps
<1>8. ASSUME NEW k \in Desk, Die(k) PROVE IInv'
  BY <1>8, LeaveKeeps DEF Die
<1>9. ASSUME NEW k \in Desk, NEW d \in Dispute, InsertOpened(k, d) PROVE IInv'
  BY <1>9, InsertOpenedKeeps
<1>10. ASSUME NEW k \in Desk, NEW d \in Dispute,
              \/ OrderInspection(k, d) \/ MarkCenterReceived(k, d)
              \/ \E outcome \in Decision : Resolve(k, d, outcome)
              \/ \E damaged \in BOOLEAN : FinalizeCenterInspection(k, d, damaged)
              \/ AppealDispute(k, d)
              \/ CheckSlaBreaches(k, d) \/ FinalizeExpiredAppeals(k, d)
       PROVE IInv'
  BY <1>10, ReadersKeep
<1> QED
  BY <1>1, <1>2, <1>3, <1>4, <1>5, <1>6, <1>7, <1>8, <1>9, <1>10 DEF DisputesNext

----------------------------------------------------------------------------
(* The theorems.                                                           *)

LEMMA Invariance == DisputesSpec => []IInv
<1>1. DisputesInit => IInv
  BY Initially
<1>2. IInv /\ [DisputesNext]_disputesVars => IInv'
  BY StepKeeps
<1> QED
  BY <1>1, <1>2, PTL DEF DisputesSpec

\* handleTradeDisputed (disputes.service.ts) opens one dispute of a trade,
\* however often its message comes and whoever dies, unless two deliveries
\* overlapped.
THEOREM OneDisputePerMessage == DisputesSpec => []MessageOpensOne
<1>1. IInv => MessageOpensOne
  <2> SUFFICES ASSUME IInv, "open" \notin overlaps PROVE Cardinality(byMessage) <= 1
    BY DEF MessageOpensOne
  <2>1. \A d, e \in byMessage : d = e
    BY DEF IInv, OneMessage
  <2>2. CASE byMessage = {}
    BY <2>2, FS_EmptySet
  <2>3. CASE byMessage # {}
    <3>1. PICK d \in byMessage : TRUE
      BY <2>3
    <3>2. byMessage = {d}
      BY <2>1, <3>1
    <3> QED
      BY <3>2, FS_Singleton
  <2> QED
    BY <2>2, <2>3
<1> QED
  BY <1>1, Invariance, PTL

\* The decision that dispute.resolved announced last is the one of the row,
\* with the same winner, and the dispute stays over, until a person appeals,
\* orders an inspection or decides anew (resolve() lets a moderator reverse a
\* decision): neither a timer nor an inspection turns it round, unless an
\* outdated copy was saved or two decisions were under way at once.
THEOREM DecisionsStand == DisputesSpec => []AnnouncedStands
<1>1. IInv => AnnouncedStands
  BY DEF IInv, RowsStay, RowsKeep, Stands, AnnouncedStands
<1> QED
  BY <1>1, Invariance, PTL

\* finalizeExpiredAppeals closes no appealed dispute that was not decided
\* again, unless an outdated copy of the dispute was saved.
THEOREM AppealsAreHeard == DisputesSpec => []AppealIsHeard
<1>1. IInv => AppealIsHeard
  BY DEF IInv, RowsKeep, Late, AppealIsHeard
<1> QED
  BY <1>1, Invariance, PTL

=============================================================================
