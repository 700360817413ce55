------------------------------ MODULE ListingPage ------------------------------
(***************************************************************************)
(* The page of a listing in the web client (listings/[id]/page.tsx) on top *)
(* of listing-service: the buttons of a page that shows the rows as they   *)
(* are, for the owner, for whom asked the question and for others, and the *)
(* request that each of them makes.                                        *)
(***************************************************************************)
EXTENDS Listings

Viewer == Visitor \cup {"owner", "asker"}

\* A listing that is boosted cannot be boosted again on the page.
BoostPanel == IF status = "active" /\ ~boosted THEN {"boost"} ELSE {}

\* The panel of the owner: deleting is possible in any status.
OwnerPanel ==
  (IF status = "active" THEN {"edit"} ELSE {}) \cup BoostPanel \cup {"delete"}

\* The panel of everybody else, in any status; offers and conversations are
\* of other services.
VisitorPanel(v) == IF v \in Visitor THEN {"favorite"} ELSE {}

ReportButton(v) ==
  IF v \in Visitor /\ reports[v] = "none" THEN {"report"} ELSE {}

\* canReply, and the form below the questions.
ReplyForm(v) ==
  IF question.asked = "yes" /\ v \in {"owner", "asker"} THEN {"reply"} ELSE {}

AskForm(v) == IF question.asked = "no" /\ v = "asker" THEN {"ask"} ELSE {}

PageButtons(v) ==
  UNION {IF v = "owner" THEN OwnerPanel ELSE VisitorPanel(v), ReportButton(v),
         ReplyForm(v), AskForm(v)}

\* boost: a payment is created, of which a message comes later.
BoostListing ==
  /\ status = "active"
  /\ UNCHANGED listingsVars

\* The requests: handleBoost, handleDelete, handleToggleFavorite,
\* handleReport, handleReply and handleAskQuestion.
PressListing(w, v, button) ==
  \/ button = "edit" /\ UpdateListing(w)
  \/ button = "boost" /\ BoostListing
  \/ button = "delete" /\ Archive(w)
  \/ button = "favorite" /\ ToggleFavorite(v)
  \/ button = "report" /\ CreateReport(v)
  \/ button = "reply" /\ AddReply(w)
  \/ button = "ask" /\ AskQuestion

\* No button of the page leads to a request that is refused, as long as the
\* page shows the rows as they are: what the page offers to whom is written
\* down a second time there, apart from the checks of listing-service.
ListingButtonsWork ==
  \A w \in Server : tasks[w] = NoTask =>
    \A v \in Viewer : \A button \in PageButtons(v) :
      \/ button = "reply" /\ (replyRows >= MaxReplies \/ question.count >= MaxReplies)
      \/ ENABLED PressListing(w, v, button)

=============================================================================
