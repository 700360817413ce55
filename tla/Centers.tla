------------------------------- MODULE Centers -------------------------------
(***************************************************************************)
(* The verification centers of trade-service (centers.service.ts): the     *)
(* rows of center_verifications of one trade, one for each item, and the   *)
(* requests of the moderators who receive, approve and reject.  A request  *)
(* reads the row, tests its status and saves its copy; two moderators may  *)
(* be between the two at once.                                             *)
(***************************************************************************)
CONSTANTS Goods,        \* the items of the trade
          Admin         \* moderators with a request in flight at a time

VARIABLES
  inspection,   \* status of the row of each item, "none" without a row
  desk,         \* the requests in flight, as <<status to save, item>>
  said          \* messages published, as <<key, item>>

centerVars == <<inspection, desk, said>>

Verdict == {"approved", "rejected"}
NoRequest == <<"none", "none">>

CenterInit ==
  /\ inspection = [i \in Goods |-> "none"]
  /\ desk = [a \in Admin |-> NoRequest]
  /\ said = {}

\* createVerification, by handleShippingReady for both items.
OpenInspections ==
  /\ inspection' = [i \in Goods |-> "pending"]
  /\ UNCHANGED <<desk, said>>

\* findVerificationById and the test of the status it returns.
Request(a, item, status, allowed) ==
  /\ desk[a] = NoRequest
  /\ inspection[item] \in allowed
  /\ desk' = [desk EXCEPT ![a] = <<status, item>>]
  /\ UNCHANGED <<inspection, said>>

MarkItemReceived(a, item) == Request(a, item, "item_received", {"pending"})
ApproveVerification(a, item) == Request(a, item, "approved", {"item_received"})
RejectVerification(a, item) == Request(a, item, "rejected", {"item_received"})

\* save, then publish.
KeyOf(status) ==
  CASE status = "item_received" -> "center.item_received"
    [] status = "approved" -> "center.verification_approved"
    [] OTHER -> "center.verification_rejected"

SaveVerification(a) ==
  /\ desk[a] # NoRequest
  /\ inspection' = [inspection EXCEPT ![desk[a][2]] = desk[a][1]]
  /\ said' = said \cup {<<KeyOf(desk[a][1]), desk[a][2]>>}
  /\ desk' = [desk EXCEPT ![a] = NoRequest]

=============================================================================
