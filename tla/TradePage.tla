------------------------------- MODULE TradePage -------------------------------
(***************************************************************************)
(* The trade's page of the web client (trades/[id]/page.tsx) and the       *)
(* moderator's (admin/verifications/[id]/page.tsx) on top of trade-service:*)
(* which buttons a page that shows the row as it is has for a party, and   *)
(* the handler that each of them calls.                                    *)
(***************************************************************************)
EXTENDS TradeService

\* isDisputeWindowOpen: also before there is an end.
WindowOpen == trade.window # "past"

\* The cards of a verified trade.

\* Faulty variant, in no specification: hides the card when either has paid.
FeeCardOnce(p) == IF trade.state = "VERIFIED" /\ trade.paid = {} THEN {"pay"} ELSE {}

FeeCard(p) == IF trade.state = "VERIFIED" /\ p \notin trade.paid THEN {"pay"} ELSE {}

MethodCard ==
  IF trade.state = "VERIFIED" /\ trade.method = "none" /\ trade.paid = Party
  THEN {"shipping", "local_pickup"} ELSE {}

PickupCard(p) ==
  IF /\ trade.state = "VERIFIED" /\ trade.method = "local_pickup"
     /\ trade.paid = Party /\ p \notin trade.pickup
  THEN {"pickup"} ELSE {}

ShippingCard ==
  /\ trade.method = "shipping" /\ trade.state = "VERIFIED" /\ trade.paid = Party

CenterCard(p) ==
  IF ShippingCard /\ trade.risk = "HIGH" /\ p \notin trade.center
  THEN {"center"} ELSE {}

AddressCard(p) == IF ShippingCard /\ p \notin trade.addr THEN {"address"} ELSE {}

\* The buttons of the other states.
ReceiptButton(p) ==
  IF trade.state = "DELIVERED" /\ WindowOpen /\ p \notin trade.receipt
  THEN {"receipt"} ELSE {}

\* Faulty variant, in no specification: shows the button during an inspection.
DisputeAtCenters ==
  IF trade.state \in {"VERIFIED", "CENTER_VERIFICATION", "DELIVERED"} /\ WindowOpen
  THEN {"dispute"} ELSE {}

DisputeButton ==
  IF trade.state \in {"VERIFIED", "IN_TRANSIT", "DELIVERED"} /\ WindowOpen
  THEN {"dispute"} ELSE {}

CancelButton ==
  IF trade.state \in {"INITIATED", "OFFERED", "ACCEPTED"} THEN {"cancel"} ELSE {}

LockButton == IF trade.state = "ACCEPTED" THEN {"lock"} ELSE {}
ProofButton == IF trade.state = "LOCKED" THEN {"proof"} ELSE {}

Buttons(p) ==
  UNION {LockButton, ProofButton, FeeCard(p), MethodCard, PickupCard(p),
         CenterCard(p), AddressCard(p), ReceiptButton(p), DisputeButton,
         CancelButton}

ModeratorButtons ==
  CASE trade.state = "PROOF_SUBMITTED" -> {"begin"}
    [] trade.state = "UNDER_VERIFICATION" -> {"verify", "reject"}
    [] OTHER -> {}

\* The request behind a button.
Press(h, p, button) ==
  \/ button = "lock" /\ LockItems(h)
  \/ button = "proof" /\ SubmitProof(h, p)
  \/ button = "pay" /\ PaymentSucceeded(h, p, TRUE)
  \/ button \in {"shipping", "local_pickup"} /\ SetShippingMethod(h, button)
  \/ button = "pickup" /\ ConfirmLocalPickup(h, p)
  \/ button = "center" /\ SelectCenter(h, p)
  \/ button = "address" /\ SubmitAddress(h, p)
  \/ button = "receipt" /\ ConfirmReceipt(h, p)
  \/ button = "dispute" /\ OpenDispute(h)
  \/ button = "cancel" /\ CancelTrade(h)

PressModerator(h, button) ==
  \/ button = "begin" /\ BeginVerification(h)
  \/ button = "verify" /\ Verify(h)
  \/ button = "reject" /\ RejectVerification(h)

\* A scheduler has decided on the copy it found and calls the handler.
ScanGoesOn(h) ==
  \/ jobs[h].at = "complete" /\ CompleteTrade(h)
  \/ jobs[h].at = "cancel" /\ CancelTrade(h)

\* Users who only press what their page offers.
PageNext ==
  \/ \E h \in Handler :
       \/ \E p \in Party : \E button \in Buttons(p) : Press(h, p, button)
       \/ \E button \in ModeratorButtons : PressModerator(h, button)
       \/ Consume(h) \/ Proceed(h) \/ Fault(h)
       \/ TimeoutScan(h) \/ DeliveryScan(h) \/ ScanGoesOn(h)
  \/ \E d \in {"step", "window"} : Elapse(d)

PageSpec == Init /\ [][PageNext]_vars

----------------------------------------------------------------------------
(* Properties.                                                             *)

\* No button of a page that shows the row as it is, with nothing else in
\* flight, leads to a request that the service refuses: the page repeats the
\* conditions of transitions.ts and of the handlers in its own words
\* (isDisputeWindowOpen, the cards), in another file and another process.
ButtonsWork ==
  \A h \in Handler : jobs[h] = Idle =>
    /\ \A p \in Party : \A button \in Buttons(p) : ENABLED Press(h, p, button)
    /\ \A button \in ModeratorButtons : ENABLED PressModerator(h, button)

\* A trade that is not over, and for which no execution has died, is never
\* left without a button for anybody, except while it waits for a carrier, a
\* center, a moderator's decision on a dispute, or the scan that settles what
\* was delivered (trades/[id]/page.tsx: the cards of a verified trade appear
\* and disappear with seven columns of the row).
Elsewhere ==
  \/ trade.state \in CenterRoute \cup {"IN_TRANSIT", "DISPUTE_OPEN"}
  \/ trade.state = "DELIVERED" /\ ~WindowOpen
  \/ trade.state = "VERIFIED" /\ ShipmentsExist
WayForward ==
  (\A h \in Handler : jobs[h] = Idle) /\ trade.state \notin Terminal /\ faults = 0 =>
    Elsewhere \/ ModeratorButtons # {} \/ \E p \in Party : Buttons(p) # {}
=============================================================================
