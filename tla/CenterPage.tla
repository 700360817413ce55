------------------------------ MODULE CenterPage ------------------------------
(***************************************************************************)
(* The page of one inspection (admin/center-verifications/[id]/page.tsx)   *)
(* on top of the centers: the panel it shows for a row as it is, the       *)
(* photos a moderator has picked for either verdict, and the requests its  *)
(* buttons make.                                                           *)
(***************************************************************************)
EXTENDS Centers, Integers, FiniteSets

CONSTANTS UploadLimit,  \* photos one upload may have (10 in the controller)
          MaxPicked     \* photos a moderator picks at most, for each verdict

VARIABLES photos        \* photos picked on each page, for each verdict

pageVars == <<centerVars, photos>>

Page == Admin \X Goods

InspectionInit ==
  /\ CenterInit
  /\ photos = [page \in Page |-> [v \in Verdict |-> 0]]

\* The two forms of an item that was received, each with its photos and a
\* button that is disabled without one (a reason can always be typed).
Forms(item) == IF inspection[item] = "item_received" THEN Verdict ELSE {}

InspectionPanel(page) ==
  (IF inspection[page[2]] = "pending" THEN {"receive"} ELSE {})
    \cup {v \in Forms(page[2]) : photos[page][v] > 0}

\* handleFileSelect and removeFile: files and previews change together.
PickPhoto(page, v) ==
  /\ v \in Forms(page[2]) /\ photos[page][v] < MaxPicked
  /\ photos' = [photos EXCEPT ![page][v] = @ + 1]
  /\ UNCHANGED centerVars

RemovePhoto(page, v) ==
  /\ v \in Forms(page[2]) /\ photos[page][v] > 0
  /\ photos' = [photos EXCEPT ![page][v] = @ - 1]
  /\ UNCHANGED centerVars

\* handleMarkReceived, handleApprove and handleReject: the photos are
\* uploaded first, and an upload that is too large ends the press.  The
\* photos of the form that was sent are forgotten with its answer.
PressInspection(page, button) ==
  \/ button = "receive" /\ MarkItemReceived(page[1], page[2]) /\ UNCHANGED photos
  \/ /\ button \in Verdict /\ photos[page][button] \in 1..UploadLimit
     /\ \/ button = "approved" /\ ApproveVerification(page[1], page[2])
        \/ button = "rejected" /\ RejectVerification(page[1], page[2])
     /\ photos' = [photos EXCEPT ![page][button] = 0]

InspectionNext ==
  \/ \A item \in Goods : inspection[item] = "none"
     /\ OpenInspections /\ UNCHANGED photos
  \/ \E page \in Page :
       \/ \E v \in Verdict : PickPhoto(page, v) \/ RemovePhoto(page, v)
       \/ \E button \in InspectionPanel(page) : PressInspection(page, button)
  \/ \E a \in Admin : SaveVerification(a) /\ UNCHANGED photos

\* An inspection that waits for a moderator can be moved on from its page:
\* there is a button, or photos can be picked or taken away until there is
\* one; and no button of a page that shows the row as it is leads to a
\* request that is refused, apart from an upload of more photos than the
\* controller accepts, which the page does not count (centers.service.ts
\* and the page each have their own idea of what "inspecting" allows).
InspectionButtonsWork ==
  \A page \in Page : desk[page[1]] = NoRequest =>
    /\ \A button \in InspectionPanel(page) :
         \/ button \in Verdict /\ photos[page][button] > UploadLimit
         \/ ENABLED PressInspection(page, button)
    /\ inspection[page[2]] \in {"pending", "item_received"} =>
         \/ \E button \in InspectionPanel(page) : ENABLED PressInspection(page, button)
         \/ \E v \in Verdict :
              ENABLED PickPhoto(page, v) \/ ENABLED RemovePhoto(page, v)

=============================================================================
