------------------------------ MODULE DisputePage ------------------------------
(***************************************************************************)
(* The page of a dispute for moderators (admin/disputes/[id]/page.tsx) and *)
(* for the parties (disputes/[id]/page.tsx) on top of dispute-service:     *)
(* which panel each shows for a row as it is, its buttons, and the request *)
(* that each of them makes.                                                *)
(***************************************************************************)
EXTENDS Disputes

IsResolved(row) == row.status \in {"resolved", "closed"}
AtCenter(row) == row.status = "under_review" /\ row.outcome = "ship_to_center"

\* The panel of an inspection that was ordered.
CenterPanel(d) == IF rows[d].received THEN {"damaged", "not_damaged"} ELSE {"receive"}

\* handleResolve: any outcome type can be selected; a decision needs a photo
\* and a video, of which the form knows nothing.
ResolveForm == {"ship_to_center"} \cup Decision

\* The right column: one of the two, or that the dispute is resolved.
ModeratorPanel(d) ==
  CASE IsResolved(rows[d]) -> {}
    [] AtCenter(rows[d]) -> CenterPanel(d)
    [] OTHER -> ResolveForm

\* The parties upload evidence as long as the dispute is active.
IsActive(row) == row.status \in {"open", "under_review", "escalated"}

PartyPanel(d) == IF IsActive(rows[d]) THEN {"upload"} ELSE {}

\* Uploading the file, and then its row.
PressDispute(k, d, button) ==
  \/ button = "receive" /\ MarkCenterReceived(k, d)
  \/ button \in {"damaged", "not_damaged"} /\ FinalizeCenterInspection(k, d, button = "damaged")
  \/ button = "ship_to_center" /\ OrderInspection(k, d)
  \/ button \in Decision /\ Resolve(k, d, button)
  \/ button = "upload" /\ UploadEvidence(d)

\* No button of a page that shows the row as it is leads to a request that
\* is refused, apart from a decision without the evidence it needs; and a
\* dispute that is not over has a button that works for a moderator, so it
\* never waits for somebody whose page offers nothing.
DisputeButtonsWork ==
  \A k \in Desk, d \in Rows : desks[k] = AtRest =>
    /\ \A button \in ModeratorPanel(d) \cup PartyPanel(d) :
         \/ button \in Decision /\ evidence[d] # Evidence
         \/ ENABLED PressDispute(k, d, button)
    /\ IsActive(rows[d]) =>
         \E button \in ModeratorPanel(d) : ENABLED PressDispute(k, d, button)

=============================================================================
