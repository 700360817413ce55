------------------------------ MODULE Moderation ------------------------------
(***************************************************************************)
(* Reports of listings in the admin client (admin/reports/page.tsx):       *)
(* moderators, each with a page of its own, dismiss a report, delete the   *)
(* listing and warn its seller, or delete it and ban the seller.  A        *)
(* decision is up to three requests, one after another, to listing-service *)
(* and auth-service; each can fail, and others act meanwhile.              *)
(***************************************************************************)
EXTENDS FiniteSets, Naturals

CONSTANTS Report,      \* reports, each of a listing of its own
          SellerOf,    \* the seller of that listing
          Moderator,
          MaxErrors    \* requests that fail (a bound)

VARIABLES
  reportRows,    \* status of each report
  archived,      \* reports whose listing was archived
  bannedSellers,
  pages,         \* the page of each moderator
  asked,         \* requests for a seller's warnings that are not answered
  decisions,     \* history: [by, report, what] that were started
  failed,        \* history: reports with a decision that failed half way
  late,          \* history: moderators who got the answer to an older request
  errors

moderationVars ==
  <<reportRows, archived, bannedSellers, pages, asked, decisions, failed, late, errors>>

NoSeller == "nobody"
\* known: reports the page shows as pending; report: the one in the modal;
\* work: the decision being carried out, with the report it was made for.
AtHand == [do |-> "none"]
Closed(page) == [page EXCEPT !.report = {}, !.confirmed = FALSE, !.warned = NoSeller]

ModerationInit ==
  /\ reportRows = [r \in Report |-> "pending"]
  /\ archived = {} /\ bannedSellers = {}
  /\ pages = [m \in Moderator |->
       [known |-> Report, report |-> {}, confirmed |-> FALSE, warned |-> NoSeller,
        work |-> AtHand]]
  /\ asked = {} /\ decisions = {} /\ failed = {} /\ late = {}
  /\ errors = 0

rowVars == <<reportRows, archived, bannedSellers>>
traceVars == <<decisions, failed, late, errors>>

----------------------------------------------------------------------------
(* The list and the modal.                                                 *)

\* openActionModal, on a pending report: its seller's warnings are asked for.
OpenLeavingWarnings(m, r) ==
  /\ pages[m].report = {} /\ r \in pages[m].known
  /\ pages' = [pages EXCEPT ![m].report = {r}, ![m].confirmed = FALSE]
  /\ asked' = asked \cup {<<m, SellerOf[r]>>}
  /\ UNCHANGED <<rowVars, traceVars>>

OpenActionModal(m, r) ==
  /\ pages[m].report = {} /\ r \in pages[m].known
  /\ pages' = [pages EXCEPT ![m] = [Closed(@) EXCEPT !.report = {r}]]
  /\ asked' = asked \cup {<<m, SellerOf[r]>>}
  /\ UNCHANGED <<rowVars, traceVars>>

\* ... and shown when they arrive, whatever is open by then.
WarningsArrive(m, seller) ==
  /\ <<m, seller>> \in asked
  /\ asked' = asked \ {<<m, seller>>}
  /\ pages' = [pages EXCEPT ![m].warned = seller]
  /\ late' = IF \A r \in pages[m].report : SellerOf[r] = seller THEN late
             ELSE late \cup {m}
  /\ UNCHANGED <<rowVars, decisions, failed, errors>>

\* Cancel, also while a decision is carried out.
CloseModal(m) ==
  /\ pages[m].report # {}
  /\ pages' = [pages EXCEPT ![m] = Closed(@)]
  /\ UNCHANGED <<rowVars, asked, traceVars>>

----------------------------------------------------------------------------
(* The three buttons, disabled while a decision is carried out.            *)

StartDecision(m, first, what) ==
  /\ pages[m].work = AtHand
  /\ \E r \in pages[m].report :
       /\ pages' = [pages EXCEPT ![m].work = [do |-> first, report |-> r, what |-> what]]
       /\ decisions' = decisions \cup {[by |-> m, report |-> r, what |-> what]}
  /\ UNCHANGED <<rowVars, asked, failed, late, errors>>

HandleDismiss(m) == StartDecision(m, "review", "dismissed")

HandleDeleteAndWarn(m) == StartDecision(m, "archive", "warned")

\* The first click only asks for a second one.
ConfirmBan(m) ==
  /\ pages[m].work = AtHand /\ pages[m].report # {} /\ ~pages[m].confirmed
  /\ pages' = [pages EXCEPT ![m].confirmed = TRUE]
  /\ UNCHANGED <<rowVars, asked, traceVars>>

HandleDeleteAndBan(m) == pages[m].confirmed /\ StartDecision(m, "archive", "banned")

----------------------------------------------------------------------------
(* The requests of a decision.                                             *)

Proceed(m, step) == pages' = [pages EXCEPT ![m].work.do = step]

\* archiveReportedListing: the listing, in listing-service, ...
ArchiveListing(m) ==
  LET job == pages[m].work
  IN /\ job.do = "archive"
     /\ archived' = archived \cup {job.report}
     /\ Proceed(m, "mark")
     /\ UNCHANGED <<reportRows, bannedSellers, asked, traceVars>>

\* ... which then reviews the report.
MarkReviewed(m) ==
  LET job == pages[m].work
  IN /\ job.do = "mark"
     /\ reportRows' = [reportRows EXCEPT ![job.report] = "reviewed"]
     /\ Proceed(m, IF job.what = "banned" THEN "ban" ELSE "review")
     /\ UNCHANGED <<archived, bannedSellers, asked, traceVars>>

\* Faulty variant, in no specification: bans whom the page shows by then.
BanShown(m) ==
  /\ pages[m].work.do = "ban"
  /\ bannedSellers' = bannedSellers \cup {SellerOf[r] : r \in pages[m].report}
  /\ Proceed(m, "review")
  /\ UNCHANGED <<reportRows, archived, asked, traceVars>>

\* banUser: 404 for a user who is gone.
BanSeller(m) ==
  LET seller == SellerOf[pages[m].work.report]
  IN /\ pages[m].work.do = "ban"
     /\ bannedSellers' = bannedSellers \cup {seller}
     /\ IF seller \in bannedSellers THEN pages' = [pages EXCEPT ![m].work = AtHand]
        ELSE Proceed(m, "review")
     /\ UNCHANGED <<reportRows, archived, asked, traceVars>>

\* reviewReport; the page puts the answer in its list and closes the modal,
\* whichever report is in it.
SubmitReview(m) ==
  LET job == pages[m].work
      to == IF job.what = "dismissed" THEN "dismissed" ELSE "reviewed"
  IN /\ job.do = "review"
     /\ reportRows' = [reportRows EXCEPT ![job.report] = to]
     /\ pages' = [pages EXCEPT ![m] =
          [Closed(@) EXCEPT !.known = pages[m].known \ {job.report}, !.work = AtHand]]
     /\ UNCHANGED <<archived, bannedSellers, asked, traceVars>>

\* A request that fails: the error is shown and the modal stays.
RequestFails(m) ==
  /\ pages[m].work # AtHand /\ errors < MaxErrors
  /\ errors' = errors + 1
  /\ failed' = failed \cup {pages[m].work.report}
  /\ pages' = [pages EXCEPT ![m].work = AtHand]
  /\ UNCHANGED <<rowVars, asked, decisions, late>>

\* getReports of a page opened anew.
LoadReports(m) ==
  /\ pages[m].work = AtHand
  /\ pages' = [pages EXCEPT ![m] =
       [Closed(@) EXCEPT !.known = {r \in Report : reportRows[r] = "pending"}]]
  /\ asked' = {h \in asked : h[1] # m}
  /\ UNCHANGED <<rowVars, traceVars>>

ModerationNext ==
  \E m \in Moderator :
    \/ \E r \in Report : OpenActionModal(m, r)
    \/ \E seller \in {SellerOf[r] : r \in Report} : WarningsArrive(m, seller)
    \/ CloseModal(m) \/ LoadReports(m)
    \/ HandleDismiss(m) \/ HandleDeleteAndWarn(m)
    \/ ConfirmBan(m) \/ HandleDeleteAndBan(m)
    \/ ArchiveListing(m) \/ MarkReviewed(m) \/ BanSeller(m) \/ SubmitReview(m)
    \/ RequestFails(m)

ModerationSpec == ModerationInit /\ [][ModerationNext]_moderationVars

----------------------------------------------------------------------------
(* Properties.                                                             *)

Settled(r) == \A m \in Moderator : pages[m].work = AtHand \/ pages[m].work.report # r

\* A decision on a report takes effect on that report and its seller, though
\* the modal was closed and opened on another report meanwhile: a dismissed
\* report leaves the listing alone, a deletion archives it, and the seller is
\* banned by a decision to ban him and by no other.  Not so for reports with
\* more than one decision, or with one that failed half way.
DecisionsTakeEffect ==
  /\ \A d \in decisions :
       LET r == d.report
       IN (\A e \in decisions : e.report = r => e = d) /\ r \notin failed /\ Settled(r) =>
            /\ reportRows[r] = IF d.what = "dismissed" THEN "dismissed" ELSE "reviewed"
            /\ (r \in archived) = (d.what # "dismissed")
            /\ d.what = "banned" => SellerOf[r] \in bannedSellers
  /\ \A seller \in bannedSellers :
       \E d \in decisions : d.what = "banned" /\ SellerOf[d.report] = seller

\* The warnings in the modal are those of the seller it is about, unless the
\* answer to an older request came late.
WarningsAreTheSellers ==
  \A m \in Moderator \ late : \A r \in pages[m].report :
    pages[m].warned \in {NoSeller, SellerOf[r]}

ModerationRight == DecisionsTakeEffect /\ WarningsAreTheSellers

=============================================================================
