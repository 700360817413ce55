------------------------------ MODULE OfferPage ------------------------------
(***************************************************************************)
(* The pages of offers in the web client (offers/page.tsx,                 *)
(* offers/create/page.tsx) on top of offer-service: the buttons of a page  *)
(* that shows the rows as they are, and the request that each of them      *)
(* makes.  Neither page offers to cancel an offer or to counter one.       *)
(***************************************************************************)
EXTENDS Market

\* OfferCard: the answers to an offer that the viewer received.
OfferCard(o, tab) ==
  IF tab = "received" /\ offers[o] = "pending" THEN {"accepted", "rejected"} ELSE {}

\* The form of a new offer: it asks for the listing it was opened from, in
\* any status, and offers a listing of one's own that is selected.
CreateOffer(o, selected) ==
  IF selected = Second(o) /\ offers[o] = "none" THEN {"create"} ELSE {}

\* handleAccept, handleReject and handleSubmit.
PressOffer(c, o, button) ==
  \/ button \in {"accepted", "rejected"} /\ Reply(c, o, button)
  \/ button = "create" /\ MakeOffer(o)

\* No button of a page that shows the offers as they are leads to a request
\* that is refused, and a pending offer has both answers in its receiver's
\* list: it never waits for somebody whose page offers nothing.
OfferButtonsWork ==
  \A c \in Clerk, o \in Offer : replies[c] = NoReply =>
    /\ \A tab \in {"received", "sent"} : \A button \in OfferCard(o, tab) :
         ENABLED PressOffer(c, o, button)
    /\ \A button \in CreateOffer(o, Second(o)) : ENABLED PressOffer(c, o, button)
    /\ offers[o] = "pending" => OfferCard(o, "received") # {}

=============================================================================
